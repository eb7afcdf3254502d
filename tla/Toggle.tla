------------------------------- MODULE Toggle -------------------------------
(***************************************************************************)
(* One reconcile pass after another over the toggleable components of an   *)
(* MCE that is not being deleted: ensureToggleableComponents               *)
(* (controllers/backplaneconfig_controller.go) with the ensureX and        *)
(* ensureNoX functions of controllers/toggle_components.go, and the phase  *)
(* the deferred status report computes from them (pkg/status, pkg/toggle). *)
(*                                                                         *)
(* A pass reads the spec once and then takes the components in a fixed     *)
(* order; one step is one component's function.  Between two steps the     *)
(* user edits the spec, deployments roll out and the operators of the      *)
(* operands (ClusterManager, ManagedCluster, the hypershift addon) create, *)
(* hold and release what is theirs.  Reads are current here; what a        *)
(* lagging informer adds is the subject of Uninstall.  Platform: OpenShift.*)
(***************************************************************************)
EXTENDS Sequences, FiniteSets, Integers

CONSTANTS
  Managed,    \* components not in the externally-managed annotation
  Specs,      \* the sets of enabled components an MCE may start with
  Editable,   \* components the user toggles
  Batches,    \* sets of components whose deployments come up together
  KindsFirst, \* an earlier installation left the hub's kinds behind
  Broken,     \* components whose templates the API server refuses
  FaultKinds, \* which kinds of call may fail
  MaxEdits, MaxFaults

ManagedServiceAccount == "managedserviceaccount"
FleetNavigation == "fleet-navigation"
ImageBasedInstallOperator == "image-based-install-operator"
HyperShift == "hypershift"
LocalHosting == "hypershift-local-hosting"
ConsoleMCE == "console-mce"
Discovery == "discovery"
Hive == "hive"
AssistedService == "assisted-service"
ClusterLifecycle == "cluster-lifecycle"
ClusterManager == "cluster-manager"
ClusterPermission == "cluster-permission"
ServerFoundation == "server-foundation"
ClusterProxyAddon == "cluster-proxy-addon"
ClusterAPI == "cluster-api"
ClusterAPIProviderAWS == "cluster-api-provider-aws"
ClusterAPIProviderAzure == "cluster-api-provider-azure-preview"
ClusterAPIProviderMetal == "cluster-api-provider-metal3"
ClusterAPIProviderOA == "cluster-api-provider-openshift-assisted"
Maestro == "maestro-preview"
LocalCluster == "local-cluster"

\* The order in which ensureToggleableComponents takes the components.
SourceOrder ==
  <<ManagedServiceAccount, FleetNavigation, ImageBasedInstallOperator, HyperShift,
    LocalHosting, ConsoleMCE, Discovery, Hive, AssistedService, ClusterLifecycle,
    ClusterManager, ClusterPermission, ServerFoundation, ClusterProxyAddon, ClusterAPI,
    ClusterAPIProviderAWS, ClusterAPIProviderAzure, ClusterAPIProviderMetal,
    ClusterAPIProviderOA, Maestro, LocalCluster>>

Components == {SourceOrder[i] : i \in DOMAIN SourceOrder}
Charts == Components \ {LocalHosting, LocalCluster}

\* The places in the order a pass stops at.  The annotation has no say over the console's
\* check, the addon and the local cluster.  Maestro also needs the ClusterManager.
Places ==
  LET taken(c) == /\ c \in Managed \cup {LocalHosting, ConsoleMCE, LocalCluster}
                  /\ c = Maestro => ClusterManager \in Managed
  IN  {i \in DOMAIN SourceOrder : taken(SourceOrder[i])}

\* Past the last place: the report.
End == Len(SourceOrder) + 1

\* The place that comes after i.
After(i) == {j \in Places \cup {End} : i < j /\ \A k \in Places : i < k => j <= k}

\* The webhook admits components of one of these two families only.
HyperShiftFamily == {HyperShift, LocalHosting}
ClusterAPIFamily == {ClusterAPI, ClusterAPIProviderAWS, ClusterAPIProviderAzure,
                     ClusterAPIProviderMetal, ClusterAPIProviderOA}

validateComponentExclusivity(spec) ==
  spec \cap HyperShiftFamily = {} \/ spec \cap ClusterAPIFamily = {}

\* What the operands' operators look after.  "kinds" are the hub's custom resource
\* definitions: some of them ("created") or all ("held").
Operands == {"addon", "hiveConfig", "clusterManager", "managedCluster", "hubNs",
             "localNs", "kinds", "plugin"}
Existence == {"absent", "created", "held", "terminating"}

ASSUME ToggleAssumption ==
  /\ Managed \subseteq Charts
  /\ Specs \subseteq SUBSET Components /\ Specs # {}
  /\ \A spec \in Specs : validateComponentExclusivity(spec)
  /\ Editable \subseteq Components
  /\ Batches \subseteq SUBSET Charts
  /\ KindsFirst \in BOOLEAN
  /\ Broken \subseteq Charts
  /\ FaultKinds \subseteq {"condition", "iec", "render", "apply", "delete", "console"}
  /\ MaxEdits \in Nat /\ MaxFaults \in Nat

VARIABLES
  enabled,    \* the components the MCE's spec enables
  edits,      \* edits so far
  ocpConsole, \* OpenShift's console capability is enabled
  snap,       \* the spec as the pass under way read it
  fresh,      \* the MCE is still the one the pass read
  at,         \* 0: no pass; otherwise the place of the component to be seen to, or End
  iec,        \* [Charts -> {"absent", "present", "terminating"}]
  chart,      \* [Charts -> {"none", "some", "all"}]: which of its templates exist
  up,         \* components the status reporter would call available
  res,        \* [Operands -> Existence]
  tracked,    \* [Components -> ...]: the status reporter the pass registered
  progressing,\* FALSE: the pass has set the Progressing condition to False
  failure,    \* the pass has added a ComponentFailure condition
  phase,      \* the phase in the stored status
  faults      \* faults so far

vars == <<enabled, edits, ocpConsole, snap, fresh, at, iec, chart, up, res, tracked,
          progressing, failure, phase, faults>>

TypeOK ==
  /\ enabled \in SUBSET Components
  /\ edits \in 0..MaxEdits
  /\ ocpConsole \in BOOLEAN
  /\ snap \in SUBSET Components
  /\ fresh \in BOOLEAN
  /\ at \in {0, End} \cup Places
  /\ iec \in [Charts -> {"absent", "present", "terminating"}]
  /\ chart \in [Charts -> {"none", "some", "all"}]
  /\ up \in SUBSET Charts
  /\ res \in [Operands -> Existence]
  /\ tracked \in [Components -> {"none", "on", "off", "wait"}]
  /\ progressing \in BOOLEAN /\ failure \in BOOLEAN
  /\ phase \in {"none", "Progressing", "Error", "Available"}
  /\ faults \in 0..MaxFaults

Init ==
  /\ enabled \in Specs
  /\ edits = 0
  /\ ocpConsole \in BOOLEAN
  /\ snap = {}
  /\ fresh = FALSE
  /\ at = 0
  /\ iec = [c \in Charts |-> "absent"]
  /\ chart = [c \in Charts |-> "none"]
  /\ up = {}
  /\ res = [r \in Operands |-> IF KindsFirst /\ r = "kinds" THEN "held" ELSE "absent"]
  /\ tracked = [c \in Components |-> "none"]
  /\ progressing = TRUE /\ failure = FALSE
  /\ phase = "none"
  /\ faults = 0

-----------------------------------------------------------------------------
(* The user and the cluster's administrator *)

\* An edit the webhook admits: nobody enables maestro-preview any more.
Toggle(c) ==
  /\ edits < MaxEdits
  /\ c \in enabled \/ c # Maestro
  /\ enabled' = IF c \in enabled THEN enabled \ {c} ELSE enabled \cup {c}
  /\ validateComponentExclusivity(enabled')
  /\ edits' = edits + 1
  /\ fresh' = FALSE
  /\ UNCHANGED <<ocpConsole, snap, at, iec, chart, up, res, tracked, progressing, failure, phase,
                 faults>>

\* A capability can be enabled in a running cluster, never disabled.
EnableConsole ==
  /\ ~ocpConsole
  /\ ocpConsole' = TRUE
  /\ UNCHANGED <<enabled, edits, snap, fresh, at, iec, chart, up, res, tracked, progressing,
                 failure, phase, faults>>

-----------------------------------------------------------------------------
(* The operators of the operands *)

othersVars == <<enabled, edits, ocpConsole, snap, fresh, at, tracked, progressing, failure,
                phase, faults>>

\* Deployments become available: those of charts that have been applied to such an extent.
RollOut(cs, extents) ==
  /\ up' = up \cup {c \in cs : chart[c] \in extents}
  /\ UNCHANGED <<iec, chart, res, othersVars>>

\* The owning team's controller lets go of its InternalEngineComponent.
IECReleased(c) ==
  /\ iec[c] = "terminating"
  /\ iec' = [iec EXCEPT ![c] = "absent"]
  /\ UNCHANGED <<chart, up, res, othersVars>>

Running(c) == c \in up \/ c \notin Managed

\* Which operator puts its finalizer on an operand and takes it off again.
Kept(r) ==
  \/ r = "addon" /\ Running(HyperShift)
  \/ r = "clusterManager" /\ Running(ClusterManager)
  \/ r = "managedCluster" /\ res["hubNs"] = "held"

Becomes(r, from, to) ==
  /\ res[r] = from
  /\ res' = [res EXCEPT ![r] = to]
  /\ UNCHANGED <<iec, chart, up, othersVars>>

Hold(r) == Kept(r) /\ Becomes(r, "created", "held")

HubRunning == res["clusterManager"] = "held" /\ Running(ClusterManager)

Provide ==
  \/ HubRunning /\ Becomes("kinds", "absent", "created")
  \/ HubRunning /\ Becomes("kinds", "created", "held")
  \/ HubRunning /\ Becomes("hubNs", "absent", "held")
  \/ res["managedCluster"] = "held" /\ Becomes("localNs", "absent", "held")

Reclaim ==
  \/ /\ res["clusterManager"] = "terminating"
     /\ Running(ClusterManager)
     /\ Becomes("hubNs", "held", "terminating")
  \/ res["managedCluster"] = "absent" /\ Becomes("localNs", "held", "terminating")

Release(r) ==
  /\ \/ r \in {"hubNs", "localNs"}
     \/ r # "clusterManager" /\ Kept(r)
     \/ r = "clusterManager" /\ Kept(r) /\ res["hubNs"] = "absent"
  /\ Becomes(r, "terminating", "absent")

-----------------------------------------------------------------------------
(* Starting a pass *)

Fault(kind) ==
  /\ kind \in FaultKinds
  /\ faults < MaxFaults
  /\ faults' = faults + 1

NoFault == UNCHANGED faults

\* Reconcile switches maestro-preview off before anything else, and starts over.
DisableMaestro ==
  /\ at = 0
  /\ Maestro \in enabled
  /\ enabled' = enabled \ {Maestro}
  /\ UNCHANGED <<edits, ocpConsole, snap, fresh, at, iec, chart, up, res, tracked,
                 progressing, failure, phase, faults>>

FailuresStay ==
  /\ at = 0
  /\ Maestro \notin enabled
  /\ snap' = enabled
  /\ fresh' = TRUE
  /\ at' \in After(0)
  /\ tracked' = [c \in Components |-> "none"]
  /\ \/ NoFault /\ progressing' = TRUE
     \/ Fault("condition") /\ progressing' = FALSE
  /\ UNCHANGED <<enabled, edits, ocpConsole, iec, chart, up, res, failure, phase>>

\* The status tracker is reset and the failures of the last pass are filtered out of the
\* conditions taken over.  If OLM's condition cannot be set the pass goes on nevertheless.
StartPass ==
  /\ at = 0
  /\ Maestro \notin enabled
  /\ snap' = enabled
  /\ fresh' = TRUE
  /\ at' \in After(0)
  /\ tracked' = [c \in Components |-> "none"]
  /\ \/ NoFault /\ progressing' = TRUE
     \/ Fault("condition") /\ progressing' = FALSE
  /\ failure' = FALSE
  /\ UNCHANGED <<enabled, edits, ocpConsole, iec, chart, up, res, phase>>

-----------------------------------------------------------------------------
(* The blocks the components' functions are made of *)

Track(c, status) == tracked' = [tracked EXCEPT ![c] = status]

CanInstallAddons == res["kinds"] # "absent"

Put(r, e) == res' = [res EXCEPT ![r] = e]

applyOperand(r) == Put(r, IF res[r] = "absent" THEN "created" ELSE res[r])

\* Deletion is immediate unless somebody's finalizer is on the object.
deleteOperand(r) ==
  Put(r, IF res[r] \in {"held", "terminating"} THEN "terminating" ELSE "absent")

ensureInternalEngineComponent(c) ==
  iec' = [iec EXCEPT ![c] = IF @ = "absent" THEN "present" ELSE @]

\* ensureNoInternalEngineComponent returns an empty result ...
IECGone(c) ==
  /\ iec[c] # "terminating"
  /\ iec' = [iec EXCEPT ![c] = "absent"]

\* ... a result that makes the caller return, or an error.
IECLingers(c) ==
  \/ Fault("iec") /\ UNCHANGED iec
  \/ NoFault /\ iec[c] # "absent" /\ iec' = [iec EXCEPT ![c] = "terminating"]

ApplyFailsSilently(c) ==
  /\ Fault("apply") \/ (c \in Broken /\ NoFault)
  /\ chart' = [chart EXCEPT ![c] = IF @ = "none" THEN "some" ELSE @]
  /\ UNCHANGED failure

\* applyTemplate sets a condition (logAndSetCondition) when a template cannot be read, created
\* or patched, but not when the template's namespace cannot be read or its owner not set, nor
\* for an APIService.  What is refused for ever is refused when it is created or patched.
ApplyFails(c) ==
  /\ chart' = [chart EXCEPT ![c] = IF @ = "none" THEN "some" ELSE @]
  /\ \/ Fault("apply") /\ failure' \in {failure, TRUE}
     \/ c \in Broken /\ NoFault /\ failure' = TRUE

\* The enabling function returns before its templates are all applied: no IEC, the
\* chart does not render (which is only logged), or a template is refused.
Stops(c) ==
  \/ Fault("iec") /\ UNCHANGED <<iec, chart, failure>>
  \/ ensureInternalEngineComponent(c) /\ Fault("render") /\ UNCHANGED <<chart, failure>>
  \/ ensureInternalEngineComponent(c) /\ ApplyFails(c)

AppliesOnlyOnce(c) ==
  /\ c \notin Broken
  /\ ensureInternalEngineComponent(c)
  /\ chart' = [chart EXCEPT ![c] = IF @ = "none" THEN "all" ELSE @]
  /\ UNCHANGED failure

Applies(c) ==
  /\ c \notin Broken
  /\ ensureInternalEngineComponent(c)
  /\ chart' = [chart EXCEPT ![c] = "all"]
  /\ UNCHANGED failure

TracksWhenApplied(c) ==
  /\ \/ Stops(c) /\ UNCHANGED tracked
     \/ Applies(c) /\ NoFault /\ Track(c, "on")
  /\ UNCHANGED <<up, res>>

EnsureChart(c) ==
  /\ Track(c, "on")
  /\ Stops(c) \/ (Applies(c) /\ NoFault)
  /\ UNCHANGED <<up, res>>

\* The chart of an addon, some of whose kinds may not be installed yet: the missing
\* ones are passed over, though applyTemplate has already set the condition.
EnsureAddonChart(c) ==
  \/ res["kinds"] = "held" /\ EnsureChart(c)
  \/ /\ res["kinds"] = "created"
     /\ \/ Stops(c) /\ Track(c, "on")
        \/ /\ ensureInternalEngineComponent(c)
           /\ chart' = [chart EXCEPT ![c] = "some"]
           /\ failure' = TRUE
           /\ NoFault
           /\ Track(c, "wait")
     /\ UNCHANGED <<up, res>>

\* Deleting stops at the first template that cannot be deleted; the deployment may
\* or may not have been among those before it.
deleteTemplates(c) ==
  \/ /\ Fault("delete")
     /\ chart' = [chart EXCEPT ![c] = IF @ = "all" THEN "some" ELSE @]
     /\ up' \in {up, up \ {c}}
  \/ /\ NoFault
     /\ chart' = [chart EXCEPT ![c] = "none"]
     /\ up' = up \ {c}

Untouched == UNCHANGED <<chart, up>>

EnsureNoChart(c) ==
  /\ \/ IECLingers(c) /\ Untouched /\ Track(c, "none")
     \/ IECGone(c) /\ Fault("render") /\ Untouched /\ Track(c, "none")
     \/ IECGone(c) /\ deleteTemplates(c) /\ Track(c, "off")
  /\ UNCHANGED <<res, failure>>

\* As EnsureNoChart, for the functions that register the disabled status first.
EnsureNoChartTrackedFirst(c) ==
  /\ Track(c, "off")
  /\ \/ IECLingers(c) /\ Untouched
     \/ IECGone(c) /\ Fault("render") /\ Untouched
     \/ IECGone(c) /\ deleteTemplates(c)
  /\ UNCHANGED <<res, failure>>

-----------------------------------------------------------------------------
(* The components *)

ensureManagedServiceAccount == EnsureAddonChart(ManagedServiceAccount)
ensureNoManagedServiceAccount == EnsureNoChart(ManagedServiceAccount)
ensureFleetNavigation == EnsureAddonChart(FleetNavigation)
ensureNoFleetNavigation == EnsureNoChart(FleetNavigation)
ensureClusterProxyAddon == EnsureAddonChart(ClusterProxyAddon)
ensureNoClusterProxyAddon == EnsureNoChartTrackedFirst(ClusterProxyAddon)

ensureImageBasedInstallOperator == EnsureChart(ImageBasedInstallOperator)
ensureNoImageBasedInstallOperator == EnsureNoChart(ImageBasedInstallOperator)
ensureDiscovery == EnsureChart(Discovery)
ensureNoDiscovery == EnsureNoChart(Discovery)
ensureAssistedService == EnsureChart(AssistedService)
ensureNoAssistedService == EnsureNoChart(AssistedService)
ensureClusterLifecycle == EnsureChart(ClusterLifecycle)
ensureNoClusterLifecycle == EnsureNoChart(ClusterLifecycle)
ensureClusterPermission == EnsureChart(ClusterPermission)
ensureNoClusterPermission == EnsureNoChart(ClusterPermission)
ensureServerFoundation == EnsureChart(ServerFoundation)
ensureNoServerFoundation == EnsureNoChart(ServerFoundation)
ensureClusterAPI == EnsureChart(ClusterAPI)
ensureNoClusterAPI == EnsureNoChart(ClusterAPI)
ensureClusterAPIProviderAWS == EnsureChart(ClusterAPIProviderAWS)
ensureNoClusterAPIProviderAWS == EnsureNoChart(ClusterAPIProviderAWS)
ensureClusterAPIProviderAzure == EnsureChart(ClusterAPIProviderAzure)
ensureNoClusterAPIProviderAzure == EnsureNoChartTrackedFirst(ClusterAPIProviderAzure)
ensureClusterAPIProviderMetal == EnsureChart(ClusterAPIProviderMetal)
ensureNoClusterAPIProviderMetal == EnsureNoChart(ClusterAPIProviderMetal)
ensureClusterAPIProviderOA == EnsureChart(ClusterAPIProviderOA)
ensureNoClusterAPIProviderOA == EnsureNoChartTrackedFirst(ClusterAPIProviderOA)

\* The plugin goes onto the list once the console's deployment is available.
ensureConsoleMCE ==
  /\ Track(ConsoleMCE, "on")
  /\ \/ Stops(ConsoleMCE) /\ UNCHANGED res
     \/ /\ Applies(ConsoleMCE)
        /\ \/ Fault("apply") /\ UNCHANGED res
           \/ NoFault /\ IF ConsoleMCE \in up THEN Put("plugin", "created") ELSE UNCHANGED res
  /\ UNCHANGED up

PluginLast ==
  /\ IECGone(ConsoleMCE)
  /\ ocpConsole
  /\ Track(ConsoleMCE, "off")
  /\ deleteTemplates(ConsoleMCE)
  /\ IF chart'[ConsoleMCE] = "none" /\ faults < MaxFaults
     THEN res' \in {res, [res EXCEPT !["plugin"] = "absent"]}
     ELSE UNCHANGED res
  /\ UNCHANGED failure

\* Without OpenShift's console there is nothing to clean up.
ensureNoConsoleMCE ==
  /\ \/ IECLingers(ConsoleMCE) /\ Untouched /\ UNCHANGED res /\ Track(ConsoleMCE, "none")
     \/ /\ IECGone(ConsoleMCE)
        /\ Track(ConsoleMCE, "off")
        /\ \/ ~ocpConsole /\ NoFault /\ Untouched /\ UNCHANGED res
           \/ ocpConsole /\ Fault("delete") /\ Untouched /\ UNCHANGED res
           \/ ocpConsole /\ Put("plugin", "absent") /\ Fault("render") /\ Untouched
           \/ ocpConsole /\ Put("plugin", "absent") /\ deleteTemplates(ConsoleMCE)
  /\ UNCHANGED failure

ensureHive ==
  /\ Track(Hive, "on")
  /\ \/ Stops(Hive) /\ UNCHANGED res
     \/ Applies(Hive) /\ Fault("apply") /\ UNCHANGED res
     \/ Applies(Hive) /\ NoFault /\ applyOperand("hiveConfig")
  /\ UNCHANGED up

ensureNoHive ==
  /\ \/ IECLingers(Hive) /\ Untouched /\ UNCHANGED res /\ Track(Hive, "none")
     \/ IECGone(Hive) /\ Fault("render") /\ Untouched /\ UNCHANGED res /\ Track(Hive, "none")
     \/ IECGone(Hive) /\ Fault("delete") /\ Untouched /\ UNCHANGED res /\ Track(Hive, "off")
     \/ /\ IECGone(Hive)
        /\ Track(Hive, "off")
        /\ deleteOperand("hiveConfig")
        /\ deleteTemplates(Hive)
  /\ UNCHANGED failure

ensureClusterManager ==
  /\ Track(ClusterManager, "on")
  /\ \/ Stops(ClusterManager) /\ UNCHANGED res
     \/ Applies(ClusterManager) /\ Fault("apply") /\ UNCHANGED res
     \/ Applies(ClusterManager) /\ NoFault /\ applyOperand("clusterManager")
  /\ UNCHANGED up

\* The templates, the operator's deployment among them, go once the hub namespace is
\* gone; the ClusterManager itself is not waited for.
ensureNoClusterManager ==
  /\ \/ /\ IECLingers(ClusterManager) \/ (IECGone(ClusterManager) /\ Fault("render"))
        /\ Untouched /\ UNCHANGED res
        /\ Track(ClusterManager, "none")
     \/ /\ IECGone(ClusterManager)
        /\ Track(ClusterManager, "off")
        /\ \/ Fault("delete") /\ Untouched /\ UNCHANGED res
           \/ /\ deleteOperand("clusterManager")
              /\ IF res["hubNs"] # "absent" THEN NoFault /\ Untouched
                 ELSE deleteTemplates(ClusterManager)
  /\ UNCHANGED failure

ensureHyperShift == EnsureAddonChart(HyperShift)

NoWaitForAddon ==
  /\ \/ IECLingers(HyperShift) /\ Untouched /\ Track(HyperShift, "none")
     \/ IECGone(HyperShift) /\ deleteTemplates(HyperShift) /\ Track(HyperShift, "off")
  /\ UNCHANGED <<res, failure>>

\* The addon is waited for: its manager is one of the templates.
ensureNoHyperShift ==
  /\ \/ IECLingers(HyperShift) /\ Untouched /\ Track(HyperShift, "none")
     \/ IECGone(HyperShift) /\ Fault("delete") /\ Untouched /\ Track(HyperShift, "wait")
     \/ /\ IECGone(HyperShift)
        /\ res["addon"] # "absent"
        /\ NoFault /\ Untouched /\ Track(HyperShift, "wait")
     \/ /\ IECGone(HyperShift)
        /\ res["addon"] = "absent"
        /\ Track(HyperShift, "off")
        /\ deleteTemplates(HyperShift) \/ (Fault("render") /\ Untouched)
  /\ UNCHANGED <<res, failure>>

applyHypershiftLocalHosting ==
  \/ /\ res["kinds"] = "held"
     /\ res["localNs"] = "held" \/ res["addon"] # "absent"
     /\ applyOperand("addon")
     /\ Track(LocalHosting, "on")
     /\ NoFault /\ UNCHANGED failure
  \/ /\ \/ res["kinds"] # "held" /\ NoFault /\ Track(LocalHosting, "wait")
        \/ res["localNs"] # "held" /\ NoFault /\ Track(LocalHosting, "on")
        \/ Fault("apply") /\ \E status \in {"on", "wait"} : Track(LocalHosting, status)
     /\ failure' = TRUE
     /\ UNCHANGED res

removeHypershiftLocalHosting ==
  /\ Track(LocalHosting, "off")
  /\ \/ Fault("delete") /\ UNCHANGED res
     \/ NoFault /\ deleteOperand("addon")
  /\ UNCHANGED failure

reconcileHypershiftLocalHosting ==
  /\ \/ ~({LocalHosting, HyperShift, LocalCluster} \subseteq snap)
        /\ removeHypershiftLocalHosting
     \/ /\ {LocalHosting, HyperShift, LocalCluster} \subseteq snap
        /\ IF res["localNs"] = "absent"
           THEN NoFault /\ Track(LocalHosting, "wait") /\ UNCHANGED <<res, failure>>
           ELSE applyHypershiftLocalHosting
  /\ UNCHANGED <<iec, chart, up>>

\* maestro-preview is never enabled by the time a pass gets here.
ensureNoMaestro ==
  /\ Track(Maestro, "off")
  /\ \/ IECLingers(Maestro) /\ Untouched
     \/ IECGone(Maestro) /\ deleteTemplates(Maestro)
  /\ UNCHANGED <<res, failure>>

\* A namespace left over from the last local cluster has to go first.
ensureLocalCluster ==
  /\ \/ /\ Fault("apply")
        /\ \E status \in {"on", "wait"} : Track(LocalCluster, status)
        /\ UNCHANGED res
     \/ NoFault /\ res["kinds"] # "held" /\ Track(LocalCluster, "wait") /\ UNCHANGED res
     \/ /\ NoFault
        /\ res["kinds"] = "held"
        /\ Track(LocalCluster, "on")
        /\ IF res["managedCluster"] = "absent" /\ res["localNs"] = "absent"
           THEN Put("managedCluster", "created")
           ELSE UNCHANGED res
  /\ UNCHANGED <<iec, chart, up, failure>>

ensureNoLocalCluster ==
  /\ Track(LocalCluster, "off")
  /\ \/ Fault("delete") /\ UNCHANGED res
     \/ /\ NoFault
        /\ IF res["managedCluster"] # "absent" THEN deleteOperand("managedCluster")
           ELSE deleteOperand("localNs")
  /\ UNCHANGED <<iec, chart, up, failure>>

-----------------------------------------------------------------------------
(* A pass *)

On(c) == SourceOrder[at] = c /\ c \in snap
Off(c) == SourceOrder[at] = c /\ c \notin snap
OnAddon(c) == On(c) /\ CanInstallAddons
OffAddon(c) == SourceOrder[at] = c /\ ~(c \in snap /\ CanInstallAddons)

\* An error from CheckConsole ends the pass: the components that come later are
\* neither seen to nor tracked.
CheckConsoleFails ==
  /\ SourceOrder[at] = ConsoleMCE
  /\ Fault("console")
  /\ UNCHANGED <<iec, chart, up, res, tracked, failure>>

ConsoleNotManaged ==
  /\ SourceOrder[at] = ConsoleMCE
  /\ ConsoleMCE \notin Managed
  /\ UNCHANGED <<iec, chart, up, res, tracked, failure, faults>>

Console ==
  /\ SourceOrder[at] = ConsoleMCE
  /\ ConsoleMCE \in Managed
  /\ IF ConsoleMCE \in snap /\ ocpConsole THEN ensureConsoleMCE ELSE ensureNoConsoleMCE

Addons ==
  \/ OnAddon(ManagedServiceAccount) /\ ensureManagedServiceAccount
  \/ OffAddon(ManagedServiceAccount) /\ ensureNoManagedServiceAccount
  \/ OnAddon(FleetNavigation) /\ ensureFleetNavigation
  \/ OffAddon(FleetNavigation) /\ ensureNoFleetNavigation
  \/ OnAddon(HyperShift) /\ ensureHyperShift
  \/ OffAddon(HyperShift) /\ ensureNoHyperShift
  \/ OnAddon(ClusterProxyAddon) /\ ensureClusterProxyAddon
  \/ OffAddon(ClusterProxyAddon) /\ ensureNoClusterProxyAddon

Hub ==
  \/ SourceOrder[at] = LocalHosting /\ reconcileHypershiftLocalHosting
  \/ Console
  \/ ConsoleNotManaged
  \/ On(ClusterManager) /\ ensureClusterManager
  \/ Off(ClusterManager) /\ ensureNoClusterManager
  \/ Off(Maestro) /\ ensureNoMaestro
  \/ On(LocalCluster) /\ ensureLocalCluster
  \/ Off(LocalCluster) /\ ensureNoLocalCluster

Operators ==
  \/ On(ImageBasedInstallOperator) /\ ensureImageBasedInstallOperator
  \/ Off(ImageBasedInstallOperator) /\ ensureNoImageBasedInstallOperator
  \/ On(Discovery) /\ ensureDiscovery
  \/ Off(Discovery) /\ ensureNoDiscovery
  \/ On(Hive) /\ ensureHive
  \/ Off(Hive) /\ ensureNoHive
  \/ On(AssistedService) /\ ensureAssistedService
  \/ Off(AssistedService) /\ ensureNoAssistedService
  \/ On(ClusterLifecycle) /\ ensureClusterLifecycle
  \/ Off(ClusterLifecycle) /\ ensureNoClusterLifecycle
  \/ On(ClusterPermission) /\ ensureClusterPermission
  \/ Off(ClusterPermission) /\ ensureNoClusterPermission
  \/ On(ServerFoundation) /\ ensureServerFoundation
  \/ Off(ServerFoundation) /\ ensureNoServerFoundation

ClusterAPIs ==
  \/ On(ClusterAPI) /\ ensureClusterAPI
  \/ Off(ClusterAPI) /\ ensureNoClusterAPI
  \/ On(ClusterAPIProviderAWS) /\ ensureClusterAPIProviderAWS
  \/ Off(ClusterAPIProviderAWS) /\ ensureNoClusterAPIProviderAWS
  \/ On(ClusterAPIProviderAzure) /\ ensureClusterAPIProviderAzure
  \/ Off(ClusterAPIProviderAzure) /\ ensureNoClusterAPIProviderAzure
  \/ On(ClusterAPIProviderMetal) /\ ensureClusterAPIProviderMetal
  \/ Off(ClusterAPIProviderMetal) /\ ensureNoClusterAPIProviderMetal
  \/ On(ClusterAPIProviderOA) /\ ensureClusterAPIProviderOA
  \/ Off(ClusterAPIProviderOA) /\ ensureNoClusterAPIProviderOA

\* One component; an error or a requeue in it does not keep the pass from the next.
ensureToggleableComponents ==
  /\ at \in Places
  /\ \/ (Addons \/ Hub \/ Operators \/ ClusterAPIs) /\ at' \in After(at)
     \/ CheckConsoleFails /\ at' = End
  /\ UNCHANGED <<enabled, edits, ocpConsole, snap, fresh, progressing, phase>>

\* What the status reporters find when the report is made.  The functions of charts
\* give ToggledOffStatus no resources to look for.
EnabledStatus(c) == c \in up

ClusterManagerStatus ==
  ClusterManager \in up /\ res["clusterManager"] # "absent" /\ res["kinds"] = "held"

ManagedClusterAddOnStatus == res["addon"] = "held"

LocalClusterStatus ==
  IF tracked[LocalCluster] = "on" THEN res["managedCluster"] = "held"
  ELSE res["managedCluster"] = "absent"

ToggledOffStatus(c) == c \in Charts

\* An error, such as an unknown kind, is not "not present".
DisabledStatus == res["kinds"] = "held" /\ res["addon"] = "absent"

Available(c) ==
  \/ tracked[c] = "on" /\ c \notin {ClusterManager, LocalHosting, LocalCluster} /\ EnabledStatus(c)
  \/ tracked[c] = "on" /\ c = ClusterManager /\ ClusterManagerStatus
  \/ tracked[c] = "on" /\ c = LocalHosting /\ ManagedClusterAddOnStatus
  \/ tracked[c] \in {"on", "off"} /\ c = LocalCluster /\ LocalClusterStatus
  \/ tracked[c] = "off" /\ ToggledOffStatus(c)
  \/ tracked[c] = "off" /\ c = LocalHosting /\ DisabledStatus

ReportsUnimplemented(progress) ==
  LET components == {c \in Components : tracked[c] # "none"}
  IN  IF ~progress \/ failure THEN "Error"
      ELSE IF \A c \in components : Available(c) THEN "Available"
      ELSE "Unimplemented"

reportPhase(progress) ==
  LET components == {c \in Components : tracked[c] # "none"}
  IN  IF ~progress THEN "Error"
      ELSE IF components = {} THEN "Progressing"
      ELSE IF failure THEN "Error"
      ELSE IF \A c \in components : Available(c) THEN "Available"
      ELSE "Progressing"

\* The deferred status update, refused if the MCE has changed meanwhile.  A later condition
\* of the pass, about a resource that is updated or a local cluster that is terminating, may
\* have taken the place of the one that says the operator is not progressing.
ReportStatus ==
  /\ at = End
  /\ at' = 0
  /\ \E progress \in {progressing, TRUE} :
       phase' = IF fresh THEN reportPhase(progress) ELSE phase
  /\ UNCHANGED <<enabled, edits, ocpConsole, snap, fresh, iec, chart, up, res, tracked,
                 progressing, failure, faults>>

Pass == DisableMaestro \/ StartPass \/ ensureToggleableComponents \/ ReportStatus

Owners ==
  \/ \E cs \in Batches : RollOut(cs, {"all"}) \/ RollOut(cs, {"some", "all"})
  \/ \E c \in Charts : IECReleased(c)
  \/ \E r \in Operands : Hold(r) \/ Release(r)
  \/ Provide
  \/ Reclaim

Next == Pass \/ Owners \/ EnableConsole \/ \E c \in Editable : Toggle(c)

Spec == Init /\ [][Next]_vars

\* Every pass is followed by another (requeuePeriod after one that did not end Available,
\* five minutes otherwise), the deployments of a chart that has been applied roll out (those of
\* a half-applied one may or may not) and the operands' operators do their part.
Fairness ==
  /\ WF_vars(Pass)
  /\ \A cs \in Batches : WF_vars(RollOut(cs, {"all"}))
  /\ \A c \in Charts : WF_vars(IECReleased(c))
  /\ \A r \in Operands : WF_vars(Hold(r)) /\ WF_vars(Release(r))
  /\ WF_vars(Provide)
  /\ WF_vars(Reclaim)

FairSpec == Spec /\ Fairness

-----------------------------------------------------------------------------
(* Properties *)

\* OpenShift's console is never told to load a plugin whose chart is gone: the plugin
\* is added after and removed before the chart's templates (ensureConsoleMCE,
\* ensureNoConsoleMCE), whatever call fails in between.
PluginServed == res["plugin"] # "absent" => chart[ConsoleMCE] # "none"

\* The manager that must remove the hypershift addon's finalizer is not deleted while
\* the addon is terminating (the wait in ensureNoHyperShift), however HyperShift, local
\* hosting and the local cluster are toggled.
ManagerOutlivesAddon ==
  HyperShift \in Managed /\ res["addon"] = "terminating" => chart[HyperShift] # "none"

AddonCharts == {ManagedServiceAccount, FleetNavigation, HyperShift, ClusterProxyAddon}

Needs(c) ==
  IF c \in AddonCharts THEN {ClusterManager}
  ELSE IF c = LocalCluster THEN {ClusterManager}
  ELSE IF c = LocalHosting THEN {ClusterManager, HyperShift, LocalCluster}
  ELSE {}

Installed(c) ==
  \/ c \in Charts /\ chart[c] = "all" /\ iec[c] = "present" /\ c \in up
  \/ c = LocalHosting /\ res["addon"] = "held"
  \/ c = LocalCluster /\ res["managedCluster"] = "held"

Removed(c) ==
  \/ c \in Charts /\ chart[c] = "none" /\ iec[c] = "absent"
  \/ c = LocalHosting /\ res["addon"] = "absent"
  \/ c = LocalCluster /\ res["managedCluster"] = "absent" /\ res["localNs"] = "absent"

\* Once the edits are over, every enabled component is installed and stays so, and
\* every disabled one is removed, if what it depends on is enabled; a component the
\* API server refuses does not keep the others from it (ensureToggleableComponents
\* collects errors and goes on).
Converges ==
  \A c \in (Managed \cup {LocalHosting, LocalCluster}) \ Broken :
    <>[](Needs(c) \subseteq (enabled \ Broken) \cup (Charts \ Managed)
         => \/ c = ConsoleMCE /\ ~ocpConsole
            \/ c \in enabled /\ Installed(c)
            \/ c \notin enabled /\ Removed(c))

\* A component whose templates are refused shows in the phase (logAndSetCondition),
\* whatever the other components report.
FailureReported == \A c \in Broken : <>[](c \in enabled) => <>[](phase = "Error")

\* Once the edits and the faults are over the phase is Available and stays so, if nothing that
\* is enabled is refused and the hub is there: no condition of an earlier pass, of whichever
\* failure, and no component that waited or was toggled keeps it from that (the conditions
\* Reconcile takes over from the status and filters, the reporters registered anew).
ReturnsToAvailable ==
  <>[](enabled \cap Broken = {} /\ ClusterManager \in enabled \cup (Charts \ Managed)) =>
    <>[](phase = "Available")

AvailableReported == at # 0 /\ at' = 0 /\ fresh /\ phase' = "Available"

\* When a pass that got to its last component, the local cluster, reports Available, the
\* deployments of every chart the stored spec enables are available: whatever call failed,
\* and however the spec was edited, no component drops out of the report (the ensure functions
\* register their reporter before the calls that may fail).  Of addons this is said where the
\* hub's kinds are there from the start.  That all templates of a chart are there is not said:
\* no reporter looks at them.
AvailableMeansRunning ==
  [][AvailableReported /\ tracked[LocalCluster] # "none"
       => \A c \in enabled \cap (Managed \ {ConsoleMCE}) :
            KindsFirst \/ c \notin AddonCharts => c \in up]_vars
=============================================================================
