------------------------------ MODULE MCToggle ------------------------------
(* Instances of Toggle for TLC: which components the operator manages, how *)
(* the spec starts out and what the user toggles.                          *)
EXTENDS Toggle

\* Local hosting and everything it needs.
HostingCharts == {HyperShift, ClusterManager}
HostingSpecs == {{HyperShift, LocalHosting, ClusterManager, LocalCluster}}
HostingEdits == {HyperShift, LocalHosting, LocalCluster, ClusterManager}

\* Console, Hive and an addon next to an operator whose templates are refused.
ConsoleCharts == {ConsoleMCE, Hive, ManagedServiceAccount}
RefusedCharts == {ImageBasedInstallOperator}
RefusedAndConsole == RefusedCharts \cup ConsoleCharts
ConsoleSpecs == {{ConsoleMCE}}

\* Every component: as many of them enabled as the webhook admits, or none.
AllOrNothing == {Components \ ClusterAPIFamily, Components \ HyperShiftFamily, {}}

OneByOne == {{c} : c \in Managed}
AllTogether == {Managed}
=============================================================================
