----------------------------- MODULE Uninstall -----------------------------
(***************************************************************************)
(* The life of one MultiClusterEngine (MCE) object from the moment it is   *)
(* created to the moment its finalizer lets it go, and of the resources    *)
(* the operator hangs on it: Reconcile's finalizer handling and the        *)
(* teardown in finalizeBackplaneConfig                                     *)
(* (controllers/backplaneconfig_controller.go).                            *)
(*                                                                         *)
(* One step is one call to the API server.  Between two calls of a pass    *)
(* the user, the watch caches and the controllers that own the torn-down   *)
(* resources take steps of their own; a call can fail and the operator can *)
(* crash at any point.  Passes themselves never overlap: leader election   *)
(* and MaxConcurrentReconciles = 1.                                        *)
(*                                                                         *)
(* The client the reconciler uses serves typed reads (the MCE, the         *)
(* InternalEngineComponents, the namespaces) from informer caches and      *)
(* unstructured reads (the addon, the ManagedCluster, the ClusterManager)  *)
(* from the API server.  cache and mceCache are those informers' views.    *)
(***************************************************************************)
EXTENDS Naturals, FiniteSets

CONSTANTS
  Components,   \* names of the InternalEngineComponents (IECs)
  Footprint,    \* the resources an MCE with this spec brings about
  Leftovers,    \* what an earlier release left in the cluster
  MaxOverdue,   \* how far the clock runs while a deletion is pending
  MaxInstalls,  \* how often the user creates the MCE
  MaxFaults     \* how many calls fail, and how often the operator crashes

\* The resources that are not IECs: three custom resources, four namespaces, the entry
\* in OpenShift's list of console plugins and the definition of the kind ManagedCluster,
\* which the ClusterManager operator installs.
Plugin == "console plugin mce"
Addon == "hypershift-addon ManagedClusterAddOn"
ManagedCluster == "local ManagedCluster"
ClusterManager == "cluster-manager ClusterManager"
HubNs == "namespace open-cluster-management-hub"
GlobalSetNs == "namespace open-cluster-management-global-set"
LocalNs == "namespace of the local cluster"
MaestroNs == "namespace maestro"
MCKind == "kind ManagedCluster"

Hub == {Plugin, Addon, ManagedCluster, ClusterManager, HubNs, GlobalSetNs, LocalNs,
        MaestroNs, MCKind}
Resources == Components \cup Hub
Cached == Components \cup {HubNs, GlobalSetNs, LocalNs}

ASSUME UninstallAssumption ==
  /\ Components \cap Hub = {}
  /\ IsFiniteSet(Components)
  /\ Footprint \subseteq Resources
  /\ Leftovers \subseteq {MaestroNs, MCKind}
  /\ MaxOverdue \in 0..2
  /\ MaxInstalls \in Nat
  /\ MaxFaults \in Nat

VARIABLES
  mce,       \* the MCE object: its phase, whether it holds the finalizer, its incarnation
  mceCache,  \* the MCE as the informer last delivered it
  res,       \* [Resources -> Existence]: the cluster
  cache,     \* [Cached -> Existence]: the informers' view of the typed resources
  queued,    \* the request is in the work queue
  pc,        \* the next call of the pass under way
  snap,      \* the MCE this pass works on
  todo,      \* IECs this pass still has to look at
  again,     \* an IEC failed or is still there: the pass returns after the IECs
  overdue,   \* 0: deleted less than 3 minutes ago, 1: less than 10, 2: longer
  reported,  \* the Progressing condition the status shows
  progressing, \* the Progressing condition the pass has set so far
  faults,    \* faults so far
  missed     \* history: what a finalizing pass took for gone because the cache lagged

vars == <<mce, mceCache, res, cache, queued, pc, snap, todo, again, overdue,
          reported, progressing, faults, missed>>

passVars == <<snap, todo, again, progressing>>

Existence == {"absent", "present", "terminating"}
MCE == [phase : {"absent", "live", "deleting"}, finalizer : BOOLEAN, uid : 0..MaxInstalls]
MCEObject(p, f, u) == [phase |-> p, finalizer |-> f, uid |-> u]
NoMCE(u) == MCEObject("absent", FALSE, u)

Finalizing == {"iec", "plugin", "addon", "managedCluster", "clusterManager", "hubNs",
               "globalSetNs", "localNs", "removeFinalizer"}
Steps == {"idle", "addFinalizer", "deploy", "maestroNs", "status"} \cup Finalizing

TypeOK ==
  /\ mce \in MCE
  /\ mceCache \in MCE
  /\ res \in [Resources -> Existence]
  /\ cache \in [Cached -> Existence]
  /\ queued \in BOOLEAN
  /\ pc \in Steps
  /\ snap \in MCE
  /\ todo \in SUBSET Components
  /\ again \in BOOLEAN
  /\ overdue \in 0..2
  /\ reported \in {"True", "False"}
  /\ progressing \in {"True", "False"}
  /\ faults \in 0..MaxFaults
  /\ missed \in SUBSET Cached

\* A cluster without an MCE.
Init ==
  /\ mce = NoMCE(0)
  /\ mceCache = mce
  /\ res = [r \in Resources |-> IF r \in Leftovers THEN "present" ELSE "absent"]
  /\ cache = [r \in Cached |-> "absent"]
  /\ queued = FALSE
  /\ pc = "idle"
  /\ snap = mce
  /\ todo = {}
  /\ again = FALSE
  /\ overdue = 0
  /\ reported = "True"
  /\ progressing = "True"
  /\ faults = 0
  /\ missed = {}

-----------------------------------------------------------------------------
(* The user *)

CreateMCE ==
  /\ mce.phase = "absent"
  /\ mce.uid < MaxInstalls
  /\ mce' = MCEObject("live", FALSE, mce.uid + 1)
  /\ overdue' = 0
  /\ UNCHANGED <<mceCache, res, cache, queued, pc, passVars, reported, faults, missed>>

\* Without the finalizer the API server removes the object at once.
DeleteMCE ==
  /\ mce.phase = "live"
  /\ mce' = IF mce.finalizer THEN MCEObject("deleting", TRUE, mce.uid) ELSE NoMCE(mce.uid)
  /\ overdue' = 0
  /\ UNCHANGED <<mceCache, res, cache, queued, pc, passVars, reported, faults, missed>>

\* The deletion timestamp gets older: 3 minutes, then 10.
TimePasses ==
  /\ mce.phase = "deleting"
  /\ overdue < MaxOverdue
  /\ overdue' = overdue + 1
  /\ UNCHANGED <<mce, mceCache, res, cache, queued, pc, passVars, reported, faults, missed>>

-----------------------------------------------------------------------------
(* The informers *)

WatchMCE ==
  /\ mceCache # mce
  /\ mceCache' = mce
  /\ queued' = TRUE
  /\ UNCHANGED <<mce, res, cache, pc, passVars, overdue, reported, faults, missed>>

Watch(r) ==
  /\ cache[r] # res[r]
  /\ cache' = [cache EXCEPT ![r] = res[r]]
  /\ UNCHANGED <<mce, mceCache, res, queued, pc, passVars, overdue, reported, faults, missed>>

-----------------------------------------------------------------------------
(* The controllers that own the resources *)

\* The ClusterManager operator sets up its namespaces and kinds, the import
\* controller the local cluster's namespace.
Provision(r) ==
  /\ r \in Footprint
  /\ res[r] = "absent"
  /\ \/ r \in {HubNs, GlobalSetNs, MCKind} /\ res[ClusterManager] = "present"
     \/ r = LocalNs /\ res[ManagedCluster] = "present"
  /\ res' = [res EXCEPT ![r] = "present"]
  /\ UNCHANGED <<mce, mceCache, cache, queued, pc, passVars, overdue, reported, faults, missed>>

\* ... and take namespaces away again with the custom resource they belong to.
Reclaim(r) ==
  /\ res[r] = "present"
  /\ \/ r = HubNs /\ res[ClusterManager] # "present"
     \/ r = LocalNs /\ res[ManagedCluster] # "present"
  /\ res' = [res EXCEPT ![r] = "terminating"]
  /\ UNCHANGED <<mce, mceCache, cache, queued, pc, passVars, overdue, reported, faults, missed>>

\* The last finalizer of a resource being deleted is removed.
Terminated(r) ==
  /\ res[r] = "terminating"
  /\ res' = [res EXCEPT ![r] = "absent"]
  /\ UNCHANGED <<mce, mceCache, cache, queued, pc, passVars, overdue, reported, faults, missed>>

-----------------------------------------------------------------------------
(* A pass: Reconcile up to the deletion check *)

\* The informers are independent of one another: nothing orders the event of a
\* deletion of the MCE, which starts a pass at once, after the events of what the
\* pass before it created.
StartPass ==
  /\ pc = "idle"
  /\ queued
  /\ queued' = FALSE
  /\ IF mceCache.phase = "absent"
     THEN UNCHANGED <<pc, passVars>>
     ELSE /\ snap' = mceCache
          /\ pc' = IF mceCache.phase = "live" THEN "addFinalizer"
                   ELSE IF mceCache.finalizer THEN "iec" ELSE "status"
          /\ todo' = Components
          /\ again' = FALSE
          /\ progressing' = "True"
  /\ UNCHANGED <<mce, mceCache, res, cache, overdue, reported, faults, missed>>

\* An Update is refused unless it is made on the object's current version.
AddFinalizer ==
  /\ pc = "addFinalizer"
  /\ IF snap.finalizer
     THEN pc' = "deploy" /\ UNCHANGED <<mce, snap>>
     ELSE IF snap = mce
          THEN /\ mce' = MCEObject(mce.phase, TRUE, mce.uid)
               /\ snap' = mce'
               /\ pc' = "deploy"
          ELSE pc' = "status" /\ UNCHANGED <<mce, snap>>
  /\ UNCHANGED <<mceCache, res, cache, queued, todo, again, overdue,
                 reported, progressing, faults, missed>>

NoRequeue ==
  /\ pc = "status"
  /\ reported' = IF snap = mce THEN progressing ELSE reported
  /\ pc' = "idle"
  /\ UNCHANGED <<mce, mceCache, res, cache, queued, passVars, overdue, faults, missed>>

\* The deferred function of Reconcile: the status goes out with the version the
\* pass read, and the request is queued again.
UpdateStatus ==
  /\ pc = "status"
  /\ reported' = IF snap = mce THEN progressing ELSE reported
  /\ pc' = "idle"
  /\ queued' = TRUE
  /\ UNCHANGED <<mce, mceCache, res, cache, passVars, overdue, faults, missed>>

-----------------------------------------------------------------------------
(* A pass over a live MCE: what the toggleable components create and remove.  *)
(* Which of them are enabled, and so which of these steps a pass takes, is    *)
(* left open.                                                                 *)

Put(r, e) == res' = [res EXCEPT ![r] = e]

\* Deleting a resource: one that carries finalizers lingers.
Doom(r) == Put(r, IF res[r] = "absent" THEN "absent" ELSE "terminating")

ensureInternalEngineComponent(c) ==
  /\ c \in Footprint
  /\ cache[c] = "absent"
  /\ res[c] = "absent"
  /\ Put(c, "present")
  /\ UNCHANGED cache

\* The refetch after the Delete reads the cache: usually it still finds the IEC.
ensureNoInternalEngineComponent(c) ==
  \/ cache[c] \in {"absent", "terminating"} /\ UNCHANGED <<res, cache>>
  \/ cache[c] = "present" /\ Doom(c) /\ UNCHANGED cache
  \/ /\ cache[c] = "present"
     /\ Put(c, "absent")
     /\ cache' = [cache EXCEPT ![c] = "absent"]

ensureClusterManager ==
  /\ ClusterManager \in Footprint
  /\ res[ClusterManager] = "absent"
  /\ Put(ClusterManager, "present")

ensureNoClusterManager ==
  res[ClusterManager] = "present" /\ Doom(ClusterManager)

\* The API server admits the addon only into a namespace that is not terminating.
applyHypershiftLocalHosting ==
  /\ Addon \in Footprint
  /\ cache[LocalNs] # "absent"
  /\ res[Addon] = "absent" /\ res[LocalNs] = "present"
  /\ Put(Addon, "present")

removeHypershiftLocalHosting ==
  res[Addon] = "present" /\ Doom(Addon)

ensureLocalCluster ==
  /\ ManagedCluster \in Footprint
  /\ res[MCKind] = "present"
  /\ res[ManagedCluster] = "absent"
  /\ cache[LocalNs] = "absent"
  /\ Put(ManagedCluster, "present")

ensureNoLocalCluster ==
  \/ res[ManagedCluster] = "present" /\ Doom(ManagedCluster)
  \/ /\ res[ManagedCluster] = "absent"
     /\ cache[LocalNs] # "absent"
     /\ res[LocalNs] = "present" /\ Doom(LocalNs)

ensureNoMaestro ==
  res[MaestroNs] = "present" /\ Doom(MaestroNs)

AppendPlugin ==
  Plugin \in Footprint /\ Put(Plugin, IF res[Plugin] = "present" THEN "twice" ELSE "present")

\* The plugin is listed once the console's deployment is up.
ensureConsoleMCE ==
  Plugin \in Footprint /\ Put(Plugin, "present")

ensureNoConsoleMCE == Put(Plugin, "absent")

DeployHub ==
  \/ ensureConsoleMCE
  \/ ensureNoConsoleMCE
  \/ ensureClusterManager
  \/ ensureNoClusterManager
  \/ applyHypershiftLocalHosting
  \/ removeHypershiftLocalHosting
  \/ ensureLocalCluster
  \/ ensureNoLocalCluster
  \/ ensureNoMaestro

Deploy ==
  /\ pc = "deploy"
  /\ \/ \E c \in Components : ensureInternalEngineComponent(c)
     \/ \E c \in Components : ensureNoInternalEngineComponent(c)
     \/ DeployHub /\ UNCHANGED cache
  /\ UNCHANGED <<mce, mceCache, queued, pc, passVars, overdue, reported, faults, missed>>

\* A pass may return at any of the checks before and after the components.
EndDeploy ==
  /\ pc = "deploy"
  /\ pc' = "status"
  /\ UNCHANGED <<mce, mceCache, res, cache, queued, passVars, overdue, reported, faults, missed>>

-----------------------------------------------------------------------------
(* A pass over a deleted MCE: finalizeBackplaneConfig *)

\* History of a look at r through the cache.
Looked(r) ==
  missed' = IF res[r] = "absent" THEN missed \ {r}
            ELSE IF cache[r] = "absent" THEN missed \cup {r} ELSE missed

ensureNoAllInternalEngineComponents(c) ==
  /\ pc = "iec"
  /\ c \in todo
  /\ ensureNoInternalEngineComponent(c)
  /\ todo' = todo \ {c}
  /\ again' = (again \/ cache'[c] # "absent")
  /\ Looked(c)
  /\ UNCHANGED <<mce, mceCache, queued, pc, snap, overdue, reported,
                 progressing, faults>>

IECsFinalized ==
  /\ pc = "iec"
  /\ todo = {}
  /\ pc' = IF again THEN "status" ELSE "plugin"
  /\ UNCHANGED <<mce, mceCache, res, cache, queued, snap, todo, again, overdue,
                 reported, progressing, faults, missed>>

removePluginFromConsoleResource ==
  /\ pc = "plugin"
  /\ Put(Plugin, "absent")
  /\ pc' = "addon"
  /\ UNCHANGED <<mce, mceCache, cache, queued, passVars, overdue, reported, faults, missed>>

WaitWithoutLimit(limit) ==
  /\ progressing' = "True"
  /\ pc' = "status"

\* "If wait time exceeds expected then uninstall may not be able to progress"
Wait(limit) ==
  /\ progressing' = IF overdue < limit THEN "True" ELSE "False"
  /\ pc' = "status"

DeleteAndGoOn(step, r, limit, next) ==
  /\ pc = step
  /\ IF res[r] = "absent" THEN UNCHANGED res ELSE Doom(r)
  /\ pc' = next
  /\ UNCHANGED <<mce, mceCache, cache, queued, snap, todo, again, overdue, reported,
                 progressing, faults, missed>>

\* Delete r and wait, or go on to the next resource once it is gone.
Finalize(step, r, limit, next) ==
  /\ pc = step
  /\ IF res[r] = "absent"
     THEN pc' = next /\ UNCHANGED <<res, progressing>>
     ELSE Doom(r) /\ Wait(limit)
  /\ UNCHANGED <<mce, mceCache, cache, queued, snap, todo, again, overdue, reported, faults, missed>>

FinalizeAddon == Finalize("addon", Addon, 1, "managedCluster")

\* Where the API server does not know the kind, the lookup fails; the error is
\* compared with one made on the spot, which never matches, and ends the pass.
ManagedClusterKindUnknown ==
  /\ pc = "managedCluster"
  /\ res[MCKind] = "absent"
  /\ pc' = "status"
  /\ UNCHANGED <<mce, mceCache, res, cache, queued, snap, todo, again, overdue, reported,
                 progressing, faults, missed>>

FinalizeManagedCluster ==
  \/ ManagedClusterKindUnknown
  \/ res[MCKind] # "absent" /\ Finalize("managedCluster", ManagedCluster, 2, "clusterManager")

FinalizeClusterManager == Finalize("clusterManager", ClusterManager, 2, "hubNs")

\* The hub namespace is the ClusterManager operator's to remove.
AwaitHubNs ==
  /\ pc = "hubNs"
  /\ IF cache[HubNs] = "absent"
     THEN pc' = "globalSetNs" /\ UNCHANGED progressing
     ELSE Wait(2)
  /\ Looked(HubNs)
  /\ UNCHANGED <<mce, mceCache, res, cache, queued, snap, todo, again, overdue, reported, faults>>

\* Deleted, but nobody waits for it.
FinalizeGlobalSetNs ==
  /\ pc = "globalSetNs"
  /\ IF cache[GlobalSetNs] = "absent" THEN UNCHANGED res ELSE Doom(GlobalSetNs)
  /\ pc' = "localNs"
  /\ UNCHANGED <<mce, mceCache, cache, queued, passVars, overdue, reported, faults, missed>>

NoAwaitLocalNs ==
  /\ pc = "localNs"
  /\ pc' = "removeFinalizer"
  /\ Looked(LocalNs)
  /\ UNCHANGED <<mce, mceCache, res, cache, queued, passVars, overdue, reported, faults>>

\* Past the limit the condition stays as the pass found it: the branch that sets
\* it to False hangs on the deletion timestamp being nil.
AwaitLocalNs ==
  /\ pc = "localNs"
  /\ IF cache[LocalNs] = "absent"
     THEN pc' = "removeFinalizer" /\ UNCHANGED progressing
     ELSE /\ progressing' = IF overdue < 2 THEN "True" ELSE progressing
          /\ pc' = "status"
  /\ Looked(LocalNs)
  /\ UNCHANGED <<mce, mceCache, res, cache, queued, snap, todo, again, overdue, reported, faults>>

RemoveFinalizer ==
  /\ pc = "removeFinalizer"
  /\ IF snap = mce
     THEN mce' = NoMCE(mce.uid) /\ pc' = "maestroNs"
     ELSE pc' = "status" /\ UNCHANGED mce
  /\ UNCHANGED <<mceCache, res, cache, queued, snap, todo, again, overdue,
                 reported, progressing, faults, missed>>

deleteMaestroNamespace ==
  /\ pc = "maestroNs"
  /\ Doom(MaestroNs)
  /\ pc' = "status"
  /\ UNCHANGED <<mce, mceCache, cache, queued, passVars, overdue, reported, faults, missed>>

-----------------------------------------------------------------------------
(* Faults *)

\* A failed call ends the pass with an error; the deferred status update still
\* runs, and when that is the call that fails, the pass is over.
CallFails ==
  /\ faults < MaxFaults
  /\ faults' = faults + 1
  /\ pc \notin {"idle", "iec"}
  /\ pc' = IF pc = "status" THEN "idle" ELSE "status"
  /\ queued' = IF pc = "status" THEN TRUE ELSE queued
  /\ UNCHANGED <<mce, mceCache, res, cache, passVars, overdue, reported, missed>>

\* An error on one IEC does not keep the pass from the others.
IECCallFails(c) ==
  /\ faults < MaxFaults
  /\ faults' = faults + 1
  /\ pc = "iec"
  /\ c \in todo
  /\ todo' = todo \ {c}
  /\ again' = TRUE
  /\ UNCHANGED <<mce, mceCache, res, cache, queued, pc, snap, overdue,
                 reported, progressing, missed>>

\* The restarted operator lists everything afresh.
Crash ==
  /\ faults < MaxFaults
  /\ faults' = faults + 1
  /\ pc # "idle"
  /\ pc' = "idle"
  /\ mceCache' = mce
  /\ cache' = [r \in Cached |-> res[r]]
  /\ queued' = TRUE
  /\ UNCHANGED <<mce, res, passVars, overdue, reported, missed>>

-----------------------------------------------------------------------------

User == CreateMCE \/ DeleteMCE

Informers == WatchMCE \/ \E r \in Cached : Watch(r)

Environment == \E r \in Resources : Provision(r) \/ Reclaim(r) \/ Terminated(r)

FinalizePass ==
  \/ \E c \in Components : ensureNoAllInternalEngineComponents(c)
  \/ IECsFinalized
  \/ removePluginFromConsoleResource
  \/ FinalizeAddon
  \/ FinalizeManagedCluster
  \/ FinalizeClusterManager
  \/ AwaitHubNs
  \/ FinalizeGlobalSetNs
  \/ AwaitLocalNs
  \/ RemoveFinalizer
  \/ deleteMaestroNamespace

\* What the operator does by itself, short of choosing what to deploy.
Operator == StartPass \/ AddFinalizer \/ EndDeploy \/ UpdateStatus \/ FinalizePass

Faults == CallFails \/ Crash \/ \E c \in Components : IECCallFails(c)

Next == User \/ TimePasses \/ Informers \/ Environment \/ Operator \/ Deploy \/ Faults

Spec == Init /\ [][Next]_vars

\* The work queue hands out a queued request and a pass runs to its end; informers
\* deliver; the controllers of the deleted resources finish their cleanup.
Fairness ==
  /\ WF_vars(Operator)
  /\ WF_vars(WatchMCE)
  /\ \A r \in Cached : WF_vars(Watch(r))
  /\ \A r \in Resources : WF_vars(Reclaim(r)) /\ WF_vars(Terminated(r))
  /\ WF_vars(Provision(MCKind))

FairSpec == Spec /\ Fairness

\* As FairSpec, but the controllers of the deleted resources may be gone or stuck.
StuckSpec ==
  /\ Spec
  /\ WF_vars(Operator) /\ WF_vars(WatchMCE) /\ WF_vars(TimePasses)
  /\ \A r \in Cached : WF_vars(Watch(r))

-----------------------------------------------------------------------------
(* Properties *)

\* What the finalizer stands for.
Guarded == Components \cup {Plugin, Addon, ManagedCluster, ClusterManager, HubNs, LocalNs}

\* Nothing the operator brought about outlives the MCE, and nothing is brought
\* about before the finalizer is stored: while any of it exists, so does an MCE
\* that holds the finalizer (Reconcile adds the finalizer first and removes it
\* after finalizeBackplaneConfig has seen everything gone).  The one thing that can
\* escape is an IEC or a namespace that the finalizing pass looked up in a cache
\* its creation had not reached; what is read from the API server never does.
FinalizerGuards ==
  \A r \in Guarded \ missed : res[r] # "absent" => mce.phase # "absent" /\ mce.finalizer

\* A finalizing pass deletes the ManagedCluster only when every IEC and the
\* hypershift addon are gone, and the ClusterManager only when the ManagedCluster
\* is too: each is needed to tear down the one before (the early returns of
\* finalizeBackplaneConfig).  Only an IEC the cache hid may still be there.
TeardownInOrder ==
  [][\A r \in {ManagedCluster, ClusterManager} :
       pc \in Finalizing /\ res[r] = "present" /\ res'[r] = "terminating"
         => \A s \in (Components \cup {Addon, ManagedCluster}) \ {r} :
              res[s] = "absent" \/ s \in missed]_vars

\* A deleted MCE goes away, whatever call failed and wherever the operator crashed,
\* once faults stop and the owners of the resources finish (every path of the
\* deletion branch of Reconcile requeues), if the kind ManagedCluster is installed.
DeletionCompletes ==
  mce.phase = "deleting" /\ res[MCKind] = "present" ~> mce.phase # "deleting"

\* The same with or without the kind: finalizeBackplaneConfig lists 'no matches for
\* kind "ManagedCluster"' among the errors that are not to stop it.
DeletionCompletesWithoutKind == mce.phase = "deleting" ~> mce.phase # "deleting"

\* What a finalizing pass has to find gone before it comes to r.
Before(r) ==
  Components \cup (IF r = Addon THEN {}
                  ELSE IF r = ManagedCluster THEN {Addon}
                  ELSE IF r = ClusterManager THEN {Addon, ManagedCluster}
                  ELSE {Addon, ManagedCluster, ClusterManager})

\* The uninstall has come to r, which does not go away.
Stalled(r) ==
  /\ mce.phase = "deleting"
  /\ res[r] # "absent"
  /\ \A s \in Before(r) : res[s] = "absent"
  /\ r = Addon \/ res[MCKind] # "absent"

\* An uninstall that hangs on one of these resources past its limit says so in the
\* status: Progressing becomes False (the time.Since branches of finalizeBackplaneConfig).
StallsReported ==
  \A r \in {Addon, ManagedCluster, ClusterManager, HubNs} :
    <>[]Stalled(r) => <>[](reported = "False")

=============================================================================
