----------------------------- MODULE Admission -----------------------------
(***************************************************************************)
(* What the validating webhook admits, and the operator's own Updates of   *)
(* the MCE that have to pass it as well: the finalizer is added and        *)
(* removed, maestro-preview is turned off and defaults are filled in by    *)
(* Updates (multiclusterengine_webhook.go, Reconcile, setDefaults).  The   *)
(* webhook's own registration is applied when the operator starts and, off *)
(* OpenShift, kept by a second controller                                  *)
(* (mcewebhook/webhook_controller.go).                                     *)
(*                                                                         *)
(* One step is one request to the API server together with its admission.  *)
(***************************************************************************)
EXTENDS Naturals

CONSTANTS
  Names,       \* names of the local cluster
  Requests,    \* components of the MCEs users create, [Components -> Settings]
  Editable,    \* components users turn on and off
  MaxEdits,    \* updates and deletions by users
  MaxConfigs,  \* how often a user makes a DiscoveryConfig
  MaxTampers,  \* how often the webhook's registration is changed or deleted
  MaxFaults    \* failing calls and restarts of the operator

\* LocalHosting is hypershift-local-hosting; ClusterAPI stands for the stable Cluster API
\* components, and Preview for the previews of those.
hypershiftComponents == {"HyperShift", "LocalHosting"}
clusterAPIComponents == {"ClusterAPI", "Preview"}
Components == hypershiftComponents \cup clusterAPIComponents \cup {"Discovery", "LocalCluster", "Maestro"}
Settings == {"unset", "on", "off"}
onComponents == hypershiftComponents \cup {"Discovery", "LocalCluster"}
offComponents == {"ClusterAPI", "Maestro"}

ASSUME AdmissionAssumption ==
  /\ Names # {}
  /\ Requests \subseteq [Components -> Settings]
  /\ Editable \subseteq Components
  /\ MaxEdits \in Nat /\ MaxConfigs \in Nat /\ MaxTampers \in Nat /\ MaxFaults \in Nat

VARIABLES
  mce,       \* the MCE object
  cache,     \* the MCE as the informer last delivered it
  openShift, \* the operator runs on OpenShift
  hook,      \* the webhook's registration: "open" when it has been changed so that the API
             \* server does not ask, "closed" when so that it asks where nobody answers
  configs,   \* there are DiscoveryConfigs
  hub,       \* the ClusterManager has been deployed
  kind,      \* the kind ManagedCluster is installed
  clusters,  \* local ManagedClusters, by name
  pc,        \* the next call of the pass
  snap,      \* the MCE this pass works on
  edits, made, tampers, faults

cluster == <<openShift, hook, configs, hub, kind, clusters>>
counters == <<edits, made, tampers, faults>>
vars == <<mce, cache, cluster, pc, snap, counters>>

\* rest: the other defaults are stored (availability, target namespace, network policies,
\* annotations, console).
MCE == [phase : {"absent", "live", "deleting"}, finalizer : BOOLEAN, rest : BOOLEAN,
        name : Names, comps : [Components -> Settings]]
Steps == {"idle", "maestro", "finalize", "release", "finalizer", "defaults", "hub", "cluster"}

TypeOK ==
  /\ mce \in MCE /\ cache \in MCE /\ snap \in MCE
  /\ openShift \in BOOLEAN
  /\ hook \in {"ours", "open", "closed", "gone"}
  /\ configs \in BOOLEAN /\ hub \in BOOLEAN /\ kind \in BOOLEAN
  /\ clusters \subseteq Names
  /\ pc \in Steps
  /\ edits \in 0..MaxEdits /\ made \in 0..MaxConfigs
  /\ tampers \in 0..MaxTampers /\ faults \in 0..MaxFaults

Unset == [c \in Components |-> "unset"]
AnyName == CHOOSE n \in Names : TRUE
NoMCE == [phase |-> "absent", finalizer |-> FALSE, rest |-> FALSE, name |-> AnyName, comps |-> Unset]

\* An MCE installed by a release that still had maestro.
FromEarlierRelease ==
  [phase |-> "live", finalizer |-> TRUE, rest |-> TRUE, name |-> AnyName,
   comps |-> [c \in Components |-> IF c \in onComponents \cup {"Maestro"} THEN "on"
                                  ELSE IF c \in offComponents THEN "off" ELSE "unset"]]

Init ==
  /\ \/ mce = NoMCE /\ hub = FALSE /\ kind = FALSE /\ clusters = {}
     \/ mce = FromEarlierRelease /\ hub = TRUE /\ kind = TRUE /\ clusters = {AnyName}
  /\ cache = mce /\ snap = NoMCE
  /\ openShift \in BOOLEAN
  /\ hook = "ours" /\ configs = FALSE
  /\ pc = "idle"
  /\ edits = 0 /\ made = 0 /\ tampers = 0 /\ faults = 0

-----------------------------------------------------------------------------
(* The webhook *)

Enabled(m, c) == m.comps[c] = "on"
ComponentPresent(m, c) == m.comps[c] # "unset"

EnabledOf(m, family) == \E c \in family : Enabled(m, c)

validateComponentExclusivity(m) ==
  ~(EnabledOf(m, hypershiftComponents) /\ EnabledOf(m, clusterAPIComponents))

\* The MCEs that exist are listed from the informer's cache.
ValidateCreate(m) ==
  /\ ~Enabled(m, "Maestro")
  /\ validateComponentExclusivity(m)
  /\ cache.phase = "absent"

BlocksUnsetToo(old, new) ==
  /\ Enabled(new, "Maestro") => Enabled(old, "Maestro")
  /\ validateComponentExclusivity(new)
  /\ configs => Enabled(new, "Discovery")
  /\ new.name # old.name => kind /\ clusters = {}

ExclusiveOnCreateOnly(old, new) ==
  /\ Enabled(new, "Maestro") => Enabled(old, "Maestro")
  /\ ComponentPresent(new, "Discovery") /\ ~Enabled(new, "Discovery") => ~configs
  /\ new.name # old.name => kind /\ clusters = {}

\* A name is not changed while the local cluster exists, or ManagedClusters cannot be listed.
ValidateUpdate(old, new) ==
  /\ Enabled(new, "Maestro") => Enabled(old, "Maestro")
  /\ validateComponentExclusivity(new)
  /\ ComponentPresent(new, "Discovery") /\ ~Enabled(new, "Discovery") => ~configs
  /\ new.name # old.name => kind /\ clusters = {}

ValidateDelete(m) == ~configs /\ clusters \subseteq {m.name}

\* The API server asks the webhook only while it is registered, and with the registration's
\* failurePolicy Fail it takes no answer for a refusal.
Admits(verdict) == hook # "closed" /\ (hook = "ours" => verdict)

-----------------------------------------------------------------------------
(* Users, the API server, the hub *)

CreateMCE ==
  /\ mce.phase = "absent"
  /\ edits < MaxEdits /\ edits' = edits + 1
  /\ \E r \in Requests :
       LET m == [NoMCE EXCEPT !.phase = "live", !.comps = r]
       IN Admits(ValidateCreate(m)) /\ mce' = m
  /\ UNCHANGED <<cache, cluster, pc, snap, made, tampers, faults>>

\* A component is turned on or off, or the local cluster renamed.
UpdateMCE ==
  /\ mce.phase # "absent"
  /\ edits < MaxEdits /\ edits' = edits + 1
  /\ \E new \in {[mce EXCEPT !.comps[c] = v] : c \in Editable, v \in {"on", "off"}}
                  \cup {[mce EXCEPT !.name = n] : n \in Names} :
       new # mce /\ Admits(ValidateUpdate(mce, new)) /\ mce' = new
  /\ UNCHANGED <<cache, cluster, pc, snap, made, tampers, faults>>

DeleteMCE ==
  /\ mce.phase = "live"
  /\ edits < MaxEdits /\ edits' = edits + 1
  /\ Admits(ValidateDelete(mce))
  /\ mce' = IF mce.finalizer THEN [mce EXCEPT !.phase = "deleting"] ELSE NoMCE
  /\ UNCHANGED <<cache, cluster, pc, snap, made, tampers, faults>>

MakeConfig ==
  /\ ~configs /\ made < MaxConfigs
  /\ configs' = TRUE /\ made' = made + 1
  /\ UNCHANGED <<mce, cache, openShift, hook, hub, kind, clusters, pc, snap,
                 edits, tampers, faults>>

DeleteConfigs ==
  /\ configs
  /\ configs' = FALSE
  /\ UNCHANGED <<mce, cache, openShift, hook, hub, kind, clusters, pc, snap, counters>>

Tamper ==
  /\ hook = "ours" /\ tampers < MaxTampers
  /\ tampers' = tampers + 1
  /\ hook' \in {"open", "closed", "gone"}
  /\ UNCHANGED <<mce, cache, openShift, configs, hub, kind, clusters, pc, snap,
                 edits, made, faults>>

WatchMCE ==
  /\ cache # mce
  /\ cache' = mce
  /\ UNCHANGED <<mce, cluster, pc, snap, counters>>

InstallKind ==
  /\ hub /\ ~kind
  /\ kind' = TRUE
  /\ UNCHANGED <<mce, cache, openShift, hook, configs, hub, clusters, pc, snap, counters>>

RepairsRulesOnly ==
  /\ ~openShift
  /\ hook = "open"
  /\ hook' = "ours"
  /\ UNCHANGED <<mce, cache, openShift, configs, hub, kind, clusters, pc, snap, counters>>

\* The webhook controller repairs a registration, it does not make one.  main starts it only
\* off OpenShift; on OpenShift a registration stays changed until the operator restarts.
ReconcileWebhook ==
  /\ ~openShift
  /\ hook \in {"open", "closed"}
  /\ hook' = "ours"
  /\ UNCHANGED <<mce, cache, openShift, configs, hub, kind, clusters, pc, snap, counters>>

-----------------------------------------------------------------------------
(* Reconcile *)

StartPass ==
  /\ pc = "idle" /\ cache.phase # "absent"
  /\ snap' = cache
  /\ pc' = IF Enabled(cache, "Maestro") THEN "maestro"
           ELSE IF cache.phase = "deleting" THEN IF cache.finalizer THEN "finalize" ELSE "idle"
           ELSE IF cache.finalizer THEN "defaults" ELSE "finalizer"
  /\ UNCHANGED <<mce, cache, cluster, counters>>

EndPass == pc' = "idle" /\ snap' = NoMCE

\* An Update is stored if the object has not changed since it was read and it is admitted.
Accepted(new) == mce = snap /\ Admits(ValidateUpdate(mce, new))

\* An Update after which the pass ends, stored or not.
LastUpdate(new) ==
  /\ mce' = IF Accepted(new) THEN new ELSE mce
  /\ EndPass
  /\ UNCHANGED <<cache, cluster, counters>>

DisableMaestro ==
  /\ pc = "maestro"
  /\ LastUpdate([snap EXCEPT !.comps["Maestro"] = "off"])

\* The teardown (module Uninstall), as far as the local cluster: without the kind its lookup
\* is an error, and a cluster that was found is deleted and waited for.
Finalize ==
  /\ pc = "finalize"
  /\ clusters' = IF kind THEN clusters \ {snap.name} ELSE clusters
  /\ IF kind /\ snap.name \notin clusters THEN pc' = "release" /\ UNCHANGED snap ELSE EndPass
  /\ UNCHANGED <<mce, cache, openShift, hook, configs, hub, kind, counters>>

\* With its finalizer a deleted MCE goes.
RemoveFinalizer ==
  /\ pc = "release"
  /\ mce' = IF Accepted([snap EXCEPT !.finalizer = FALSE]) THEN NoMCE ELSE mce
  /\ EndPass
  /\ UNCHANGED <<cache, cluster, counters>>

GoesOnUnstored ==
  /\ pc = "finalizer"
  /\ LET new == [snap EXCEPT !.finalizer = TRUE]
     IN mce' = IF Accepted(new) THEN new ELSE mce
  /\ pc' = "defaults"
  /\ UNCHANGED <<snap, cache, cluster, counters>>

\* The pass goes on with the object the Update returned.
AddFinalizer ==
  /\ pc = "finalizer"
  /\ LET new == [snap EXCEPT !.finalizer = TRUE]
     IN IF Accepted(new) THEN mce' = new /\ snap' = new /\ pc' = "defaults"
        ELSE EndPass /\ UNCHANGED mce
  /\ UNCHANGED <<cache, cluster, counters>>

\* Components that are not mentioned get their default.
SetDefaultComponents(m) ==
  [c \in Components |-> IF ComponentPresent(m, c) THEN m.comps[c]
                        ELSE IF c \in onComponents THEN "on"
                        ELSE IF c \in offComponents THEN "off" ELSE "unset"]

PrunesNothing(m) ==
  [m EXCEPT !.rest = TRUE,
            !.comps = [SetDefaultComponents(m) EXCEPT
                         !["ClusterAPI"] = IF Enabled(m, "Preview") THEN "on" ELSE @]]

\* The component is added to the list without a look whether the list has it.
AppendsStable(m) ==
  [m EXCEPT !.rest = TRUE,
            !.comps = [SetDefaultComponents(m) EXCEPT
                         !["ClusterAPI"] = IF Enabled(m, "Preview") THEN "twice" ELSE @,
                         !["Preview"] = "unset"]]

\* A preview that is enabled enables the stable component, and is pruned.
Defaulted(m) ==
  [m EXCEPT !.rest = TRUE,
            !.comps = [SetDefaultComponents(m) EXCEPT
                         !["ClusterAPI"] = IF Enabled(m, "Preview") THEN "on" ELSE @,
                         !["Preview"] = "unset"]]

setDefaults ==
  /\ pc = "defaults"
  /\ \/ /\ Defaulted(snap) # snap
        /\ LastUpdate(Defaulted(snap))
     \/ /\ Defaulted(snap) = snap
        /\ pc' = "hub"
        /\ UNCHANGED <<mce, cache, cluster, snap, counters>>

DeployHub ==
  /\ pc = "hub"
  /\ hub' = TRUE
  /\ pc' = "cluster"
  /\ UNCHANGED <<mce, cache, openShift, hook, configs, kind, clusters, snap, counters>>

\* The local cluster of the name this pass has read.
EnsureLocalCluster ==
  /\ pc = "cluster"
  /\ clusters' = IF ~kind THEN clusters
                 ELSE IF Enabled(snap, "LocalCluster") THEN clusters \cup {snap.name}
                 ELSE clusters \ {snap.name}
  /\ EndPass
  /\ UNCHANGED <<mce, cache, openShift, hook, configs, hub, kind, counters>>

Fault == faults < MaxFaults /\ faults' = faults + 1

CallFails ==
  /\ pc # "idle"
  /\ Fault
  /\ EndPass
  /\ UNCHANGED <<mce, cache, cluster, edits, made, tampers>>

\* main applies the webhook's registration before it starts the controllers.
Restart ==
  /\ Fault
  /\ hook' = "ours"
  /\ cache' = mce
  /\ EndPass
  /\ UNCHANGED <<mce, openShift, configs, hub, kind, clusters, edits, made, tampers>>

Reconcile ==
  \/ StartPass \/ DisableMaestro \/ Finalize \/ RemoveFinalizer \/ AddFinalizer
  \/ setDefaults \/ DeployHub \/ EnsureLocalCluster

Next ==
  \/ CreateMCE \/ UpdateMCE \/ DeleteMCE \/ MakeConfig \/ DeleteConfigs \/ Tamper
  \/ WatchMCE \/ InstallKind \/ ReconcileWebhook
  \/ Reconcile \/ CallFails \/ Restart

Spec == Init /\ [][Next]_vars

\* The controllers run, informers deliver and the hub installs its kinds.  Users and
\* faults owe nothing.
FairSpec ==
  /\ Spec
  /\ WF_vars(Reconcile) /\ WF_vars(WatchMCE) /\ WF_vars(ReconcileWebhook) /\ WF_vars(InstallKind)

-----------------------------------------------------------------------------
(* Properties *)

\* Discovery is turned off and there are DiscoveryConfigs: no Update is admitted.
Blocked == mce.comps["Discovery"] = "off" /\ configs

\* Both families are on, which can be stored only while the webhook is not registered.
Conflicting == ~validateComponentExclusivity(mce)

\* Cluster API is on, and HyperShift or its local hosting, which are on by default, is not
\* mentioned: the defaults are refused.
Trapped ==
  /\ EnabledOf(mce, clusterAPIComponents)
  /\ \E c \in hypershiftComponents : ~ComponentPresent(mce, c)

\* Every request is refused, and only a restart of the operator would end that.
Shut == hook = "closed" /\ openShift

\* The hub and the local cluster are deployed only while the stored MCE has the finalizer: not
\* when the Update that adds it (Reconcile) is refused by the webhook or meets a conflict, and
\* not when the informer still shows the MCE as it was before it was deleted and created again.
InstallsGuarded == pc \in {"hub", "cluster"} => mce.finalizer

\* As long as nobody changes the webhook's registration, the exclusive families are never on
\* together in a stored MCE, nor in one a pass works on: the operator's own Updates, which
\* turn on defaults and what replaces a preview (setDefaults), are validated like a user's.
FamiliesExclusive == tampers = 0 => \A m \in {mce, cache, snap} : validateComponentExclusivity(m)

\* The webhook never keeps a deleted MCE from going: the Update that removes the finalizer is
\* admitted in the end, whatever users do to the MCE and to DiscoveryConfigs meanwhile,
\* except where both families are on, DiscoveryConfigs stay with discovery turned off, or the
\* registration has been pointed elsewhere on OpenShift.
DeletionEnds == []<>(mce.phase # "deleting" \/ ~kind \/ Blocked \/ Conflicting \/ Shut)

\* An MCE that is left alone gets its defaults and is installed with them, in spite of
\* conflicting edits and of the webhook's registration coming and going; off OpenShift also
\* when that was pointed elsewhere (the webhook controller's Reconcile).
Installs ==
  <>[](mce.phase = "live" /\ ~Blocked /\ ~Conflicting /\ ~Trapped /\ ~Shut) =>
    <>[]( /\ mce.finalizer /\ mce.rest
          /\ \A c \in onComponents \cup offComponents : ComponentPresent(mce, c)
          /\ mce.comps["Preview"] = "unset" /\ ~Enabled(mce, "Maestro")
          /\ Enabled(mce, "LocalCluster") <=> mce.name \in clusters )

\* What setDefaults says of previews: an enabled one is replaced by its stable component and
\* pruned.
PreviewsPruned == []<>(mce.phase # "live" \/ mce.comps["Preview"] = "unset" \/ Blocked \/ Conflicting)
=============================================================================
