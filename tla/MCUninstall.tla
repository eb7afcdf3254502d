---------------------------- MODULE MCUninstall ----------------------------
(* Instances of Uninstall for TLC: which resources an installation has.     *)
EXTENDS Uninstall

\* A hub with a console that manages itself and hosts clusters.
SelfManagedHub == Components \cup {Plugin, Addon, ManagedCluster, LocalNs, ClusterManager, MCKind}

\* Without the console, and with the namespaces of the ClusterManager operator.
WholeHub == (SelfManagedHub \ {Plugin}) \cup {HubNs, GlobalSetNs}

\* A hub with a console that hosts no clusters.
ConsoleHub == Components \cup {Plugin, ManagedCluster, LocalNs, ClusterManager, MCKind}

JustComponents == Components

\* What an earlier release left: its kinds, the maestro namespace.
Kinds == {MCKind}
Maestro == {MaestroNs}
=============================================================================
