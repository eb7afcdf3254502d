------------------------------ MODULE Upgrade ------------------------------
(***************************************************************************)
(* Upgrades of the operator and of what it deploys: the start-up sequence  *)
(* of main (main.go), the Upgradeable condition with which the operator    *)
(* tells OLM v0 whether it may be replaced by its next release             *)
(* (setOperatorUpgradeableStatus), and the status that records which       *)
(* version has been installed (CurrentVersion, pkg/status/status.go).      *)
(*                                                                         *)
(* The operator's deployment has several pods.  Each runs main, which sets *)
(* the condition, before it stands for leader; only the leader runs        *)
(* passes.  One step is one call to the API server, or a group of calls    *)
(* that change nothing the model tells apart.                              *)
(***************************************************************************)
EXTENDS Naturals

CONSTANTS
  Pods,         \* pods of the operator's deployment
  Deployments,  \* deployments of the charts the operator applies
  MaxVersion,   \* releases are numbered 1..MaxVersion
  Minor,        \* [1..MaxVersion -> Nat]: the X.Y part of a release X.Y.Z
  OLMs,         \* versions of OLM the cluster may have
  MaxInstalls,  \* how often the user creates an MCE
  MaxFaults     \* calls that fail and pods that die

Versions == 1..MaxVersion
None == 0       \* no release; the CurrentVersion of a new MCE
Nobody == "nobody"

\* Releases are numbered in the order of OLM's upgrade graph, which does not skip a minor one.
ASSUME UpgradeAssumption ==
  /\ Nobody \notin Pods /\ Pods # {}
  /\ MaxVersion \in Nat \ {0}
  /\ Minor \in [Versions -> Nat]
  /\ \A v, w \in Versions : v <= w => Minor[v] <= Minor[w]
  /\ \A v \in Versions : v < MaxVersion => Minor[v + 1] <= Minor[v] + 1
  /\ OLMs \subseteq {"v0", "v1"} /\ OLMs # {}
  /\ MaxInstalls \in Nat /\ MaxFaults \in Nat

VARIABLES
  olm,         \* the version of OLM found at start-up
  version,     \* the release whose pods run (OPERATOR_VERSION)
  cond,        \* the Upgradeable condition of this release's OperatorCondition
  boot,        \* [Pods -> where main is]
  leader,      \* the pod that runs passes
  mce,         \* the MCE object
  mceCache,    \* the MCE as the leader's informer last delivered it
  dep,         \* [Deployments -> the release applied, and the one its status calls available]
  depCache,    \* [Deployments -> BOOLEAN]: healthy, as the informer shows it
  queued,      \* the request is in the work queue
  pc,          \* the next call of the pass
  snap,        \* the MCE this pass works on
  upgrade,     \* setOperatorUpgradeableStatus asks for another pass
  progressing, \* the Progressing condition so far
  reached,     \* how far the pass came: "start", "paused" or "components"
  failed,      \* a ComponentFailure condition was set
  todo,        \* deployments still to apply
  faults       \* faults so far

world == <<olm, version, cond, boot, leader, mce, dep>>
views == <<mceCache, depCache>>
pass == <<snap, upgrade, progressing, reached, failed, todo>>
vars == <<world, views, queued, pc, pass, faults>>

MCE == [phase : {"absent", "live", "deleting"}, paused : BOOLEAN,
        current : {None} \cup Versions, uid : 0..MaxInstalls]
Rollout == [spec : {None} \cup Versions, available : {None} \cup Versions]
Boots == {"off", "list", "allow", "ready"}
Steps == {"idle", "condition", "finalize", "preflight", "deploy", "wrapUp", "status"}

TypeOK ==
  /\ olm \in OLMs
  /\ version \in Versions
  /\ cond \in {"Unset", "False", "True"}
  /\ boot \in [Pods -> Boots]
  /\ leader \in Pods \cup {Nobody}
  /\ mce \in MCE /\ mceCache \in MCE /\ snap \in MCE
  /\ dep \in [Deployments -> Rollout]
  /\ depCache \in [Deployments -> BOOLEAN]
  /\ queued \in BOOLEAN
  /\ pc \in Steps
  /\ upgrade \in BOOLEAN /\ failed \in BOOLEAN
  /\ progressing \in {"True", "False"}
  /\ reached \in {"start", "paused", "components"}
  /\ todo \in SUBSET Deployments
  /\ faults \in 0..MaxFaults

NoMCE(u) == [phase |-> "absent", paused |-> FALSE, current |-> None, uid |-> u]
Absent == [spec |-> None, available |-> None]

\* A pass that has not started remembers nothing, a process that ends forgets its caches.
EndPass ==
  /\ pc' = "idle"
  /\ snap' = NoMCE(0)
  /\ upgrade' = FALSE /\ failed' = FALSE
  /\ progressing' = "True"
  /\ reached' = "start"
  /\ todo' = {}

EndProcess ==
  /\ EndPass
  /\ queued' = FALSE
  /\ mceCache' = NoMCE(0)
  /\ depCache' = [d \in Deployments |-> FALSE]

\* The first release has just been installed by OLM on a cluster without an MCE.
Init ==
  /\ olm \in OLMs
  /\ version = 1
  /\ cond = "Unset"
  /\ boot = [p \in Pods |-> "off"]
  /\ leader = Nobody
  /\ mce = NoMCE(0) /\ mceCache = mce /\ snap = mce
  /\ dep = [d \in Deployments |-> Absent]
  /\ depCache = [d \in Deployments |-> FALSE]
  /\ queued = FALSE
  /\ pc = "idle"
  /\ upgrade = FALSE /\ failed = FALSE
  /\ progressing = "True"
  /\ reached = "start"
  /\ todo = {}
  /\ faults = 0

\* Use up one fault.
Fault == faults < MaxFaults /\ faults' = faults + 1

\* What a deployment's status says; not which release it says it of.
Healthy(d) == dep[d].available # None

-----------------------------------------------------------------------------
(* The user, OLM and Kubernetes *)

CreateMCE ==
  /\ mce.phase = "absent" /\ mce.uid < MaxInstalls
  /\ mce' = [NoMCE(mce.uid + 1) EXCEPT !.phase = "live"]
  /\ UNCHANGED <<olm, version, cond, boot, leader, dep, views, queued, pc, pass, faults>>

DeleteMCE ==
  /\ mce.phase = "live"
  /\ mce' = [mce EXCEPT !.phase = "deleting"]
  /\ UNCHANGED <<olm, version, cond, boot, leader, dep, views, queued, pc, pass, faults>>

\* The pause annotation is set, or taken away again.
TogglePause ==
  /\ mce.phase = "live"
  /\ mce' = [mce EXCEPT !.paused = ~@]
  /\ UNCHANGED <<olm, version, cond, boot, leader, dep, views, queued, pc, pass, faults>>

\* OLM v0 replaces the operator when its condition allows that; while the condition is
\* not set it goes by the readiness of the pods.  Each release has an OperatorCondition of
\* its own.  OLM v1 does not ask.
OLMUpgrade ==
  /\ version < MaxVersion
  /\ \/ olm = "v1"
     \/ cond = "True"
     \/ cond = "Unset" /\ \A p \in Pods : boot[p] = "ready"
  /\ version' = version + 1
  /\ cond' = "Unset"
  /\ boot' = [p \in Pods |-> "off"]
  /\ leader' = Nobody
  /\ EndProcess
  /\ UNCHANGED <<olm, mce, dep, faults>>

\* The deployment controller starts on the release applied last, and finishes.
Observe(d) ==
  /\ dep[d].available \notin {None, dep[d].spec}
  /\ dep' = [dep EXCEPT ![d].available = None]
  /\ UNCHANGED <<olm, version, cond, boot, leader, mce, views, queued, pc, pass, faults>>

RollOut(d) ==
  /\ dep[d].available = None /\ dep[d].spec # None
  /\ dep' = [dep EXCEPT ![d].available = dep[d].spec]
  /\ UNCHANGED <<olm, version, cond, boot, leader, mce, views, queued, pc, pass, faults>>

\* A change of the MCE's spec or annotations is queued, a change of its status is not.
WatchMCE ==
  /\ leader # Nobody /\ mceCache # mce
  /\ mceCache' = mce
  /\ queued' = (queued \/ [mceCache EXCEPT !.current = mce.current] # mce)
  /\ UNCHANGED <<world, depCache, pc, pass, faults>>

WatchDeployment(d) ==
  /\ leader # Nobody /\ depCache[d] # Healthy(d)
  /\ depCache' = [depCache EXCEPT ![d] = Healthy(d)]
  /\ UNCHANGED <<world, mceCache, queued, pc, pass, faults>>

\* The other watches: a deployment is changed by somebody, OpenShift is upgraded.
WatchOthers ==
  /\ leader # Nobody /\ ~queued
  /\ queued' = TRUE
  /\ UNCHANGED <<world, views, pc, pass, faults>>

-----------------------------------------------------------------------------
(* main *)

Boot(p, from, to) ==
  /\ boot[p] = from
  /\ boot' = [boot EXCEPT ![p] = to]
  /\ UNCHANGED <<olm, version, leader, mce, dep, views, queued, pc, pass>>

StartsWithoutInit(p) ==
  /\ Boot(p, "off", "list")
  /\ UNCHANGED <<cond, faults>>

StartsUnknown(p) ==
  /\ Boot(p, "off", "list")
  /\ cond' = IF olm = "v0" THEN "Unknown" ELSE cond
  /\ UNCHANGED faults

\* The OLM version is detected and Upgradeable forced to False.
StartPod(p) ==
  /\ Boot(p, "off", "list")
  /\ cond' = IF olm = "v0" THEN "False" ELSE cond
  /\ UNCHANGED faults

\* CRDs and webhooks are applied.  Are there MCEs?
ListMCEs(p) ==
  /\ Boot(p, "list", IF mce.phase = "absent" /\ olm = "v0" THEN "allow" ELSE "ready")
  /\ UNCHANGED <<cond, faults>>

\* There were none: nothing stands in the way of an upgrade.
AllowUpgrade(p) ==
  /\ Boot(p, "allow", "ready")
  /\ cond' = "True"
  /\ UNCHANGED faults

\* Any error before the manager runs ends the process; Kubernetes starts it again.
Exit(p) ==
  /\ boot[p] \notin {"off", "ready"}
  /\ Fault
  /\ boot' = [boot EXCEPT ![p] = "off"]
  /\ UNCHANGED <<olm, version, cond, leader, mce, dep, views, queued, pc, pass>>

\* A new leader fills its caches and queues what they hold.
Elect(p) ==
  /\ leader = Nobody /\ boot[p] = "ready"
  /\ leader' = p
  /\ mceCache' = mce
  /\ depCache' = [d \in Deployments |-> Healthy(d)]
  /\ queued' = (mce.phase # "absent")
  /\ UNCHANGED <<olm, version, cond, boot, mce, dep, pc, pass, faults>>

Crash ==
  /\ leader # Nobody
  /\ Fault
  /\ boot' = [boot EXCEPT ![leader] = "off"]
  /\ leader' = Nobody
  /\ EndProcess
  /\ UNCHANGED <<olm, version, cond, mce, dep>>

-----------------------------------------------------------------------------
(* Reconcile *)

StartPass ==
  /\ pc = "idle" /\ queued /\ leader # Nobody
  /\ queued' = FALSE
  /\ IF mceCache.phase = "absent"
       THEN UNCHANGED <<pc, snap>>
       ELSE pc' = "condition" /\ snap' = mceCache
  /\ UNCHANGED <<world, views, upgrade, progressing, reached, failed, todo, faults>>

\* Do the installed and the running release agree in X.Y?
Installed == snap.current # None /\ Minor[snap.current] = Minor[version]

AfterCondition == IF snap.phase = "deleting" THEN "finalize" ELSE "preflight"

setOperatorUpgradeableStatus ==
  /\ pc = "condition"
  /\ cond' = CASE olm # "v0" -> cond [] Installed -> "True" [] OTHER -> "False"
  /\ upgrade' = ~Installed
  /\ pc' = AfterCondition
  /\ UNCHANGED <<olm, version, boot, leader, mce, dep, views, queued, snap,
                 progressing, reached, failed, todo, faults>>

\* The OperatorCondition cannot be set: the pass goes on, as not progressing.
ConditionNotSet ==
  /\ pc = "condition" /\ olm = "v0"
  /\ Fault
  /\ upgrade' = TRUE
  /\ progressing' = "False"
  /\ pc' = AfterCondition
  /\ UNCHANGED <<world, views, queued, snap, reached, failed, todo>>

\* The teardown (module Uninstall) and the Update that removes the finalizer, which is
\* refused when the MCE has changed; the deployments are garbage-collected with the MCE.
Finalize ==
  /\ pc = "finalize"
  /\ pc' = "status"
  /\ IF snap = mce
       THEN mce' = NoMCE(mce.uid) /\ dep' = [d \in Deployments |-> Absent]
       ELSE UNCHANGED <<mce, dep>>
  /\ UNCHANGED <<olm, version, cond, boot, leader, views, queued, pass, faults>>

\* Finalizer and defaults (module Admission), retired resources (module Ownership), OpenShift
\* version, namespace, pull secret, image overrides; then the pause annotation, and for an MCE that is not paused the CRDs.
Preflight ==
  /\ pc = "preflight"
  /\ IF snap.paused
       THEN reached' = "paused" /\ pc' = "status" /\ UNCHANGED todo
       ELSE reached' = "components" /\ pc' = "deploy" /\ todo' = Deployments
  /\ UNCHANGED <<world, views, queued, snap, upgrade, progressing, failed, faults>>

\* One of them fails; an unmet requirement also says so in the condition.
PreflightFails ==
  /\ pc = "preflight"
  /\ Fault
  /\ progressing' \in {progressing, "False"}
  /\ pc' = "status"
  /\ UNCHANGED <<world, views, queued, snap, upgrade, reached, failed, todo>>

NextDeployment(d) ==
  /\ todo' = todo \ {d}
  /\ pc' = IF todo' = {} THEN "wrapUp" ELSE "deploy"

\* applyTemplate creates the deployment, or patches it and, if it is of another release,
\* says that it is being updated.
Apply(d) ==
  /\ pc = "deploy" /\ d \in todo
  /\ dep' = [dep EXCEPT ![d].spec = version]
  /\ progressing' = IF dep[d].spec \in {None, version} THEN progressing ELSE "True"
  /\ NextDeployment(d)
  /\ UNCHANGED <<olm, version, cond, boot, leader, mce, views, queued, snap, upgrade,
                 reached, failed, faults>>

ApplyFails(d) ==
  /\ pc = "deploy" /\ d \in todo
  /\ Fault
  /\ failed' = TRUE
  /\ NextDeployment(d)
  /\ UNCHANGED <<world, views, queued, snap, upgrade, progressing, reached>>

\* Network policies, trust bundle, metrics objects and retired resources; not reached when
\* a component failed.  The condition of success is left to the pass after an upgrade.
WrapUp ==
  /\ pc = "wrapUp"
  /\ progressing' = IF failed \/ upgrade THEN progressing ELSE "True"
  /\ pc' = "status"
  /\ UNCHANGED <<world, views, queued, snap, upgrade, reached, failed, todo, faults>>

WrapUpFails ==
  /\ pc = "wrapUp" /\ ~failed
  /\ Fault
  /\ pc' = "status"
  /\ UNCHANGED <<world, views, queued, pass>>

\* A component counts as available by the cached status of its deployment, whichever
\* release that status is about.
allComponentsReady == reached = "components" /\ \A d \in Deployments : depCache[d]

reportPhase ==
  IF reached = "paused" THEN "Paused"
  ELSE IF progressing = "False" THEN "Error"
  ELSE IF snap.phase = "deleting" THEN "Uninstalling"
  ELSE IF failed THEN "Error"
  ELSE IF allComponentsReady THEN "Available" ELSE "Progressing"

DoneWhenAvailable ==
  /\ pc = "status"
  /\ mce' = IF snap = mce /\ reportPhase = "Available" THEN [mce EXCEPT !.current = version]
            ELSE mce
  /\ queued' = (queued \/ reportPhase \notin {"Available", "Paused"} \/ snap # mce)
  /\ EndPass
  /\ UNCHANGED <<olm, version, cond, boot, leader, dep, views, faults>>

\* The deferred status update: CurrentVersion follows the phase.  It is refused when the MCE
\* has changed.  A pass that found the MCE paused is the only one that asks for no other.
UpdateStatus ==
  /\ pc = "status"
  /\ mce' = IF snap = mce /\ reportPhase = "Available" THEN [mce EXCEPT !.current = version]
            ELSE mce
  /\ queued' = (queued \/ reached # "paused" \/ snap # mce)
  /\ EndPass
  /\ UNCHANGED <<olm, version, cond, boot, leader, dep, views, faults>>

StatusNotUpdated ==
  /\ pc = "status"
  /\ Fault
  /\ queued' = TRUE
  /\ EndPass
  /\ UNCHANGED <<world, views>>

-----------------------------------------------------------------------------
Main(p) == StartPod(p) \/ ListMCEs(p) \/ AllowUpgrade(p) \/ Elect(p)

Reconcile ==
  \/ StartPass \/ setOperatorUpgradeableStatus \/ Finalize \/ Preflight \/ WrapUp
  \/ UpdateStatus
  \/ \E d \in Deployments : Apply(d)

Faults ==
  \/ ConditionNotSet \/ PreflightFails \/ WrapUpFails \/ StatusNotUpdated \/ Crash
  \/ \E d \in Deployments : ApplyFails(d)
  \/ \E p \in Pods : Exit(p)

Next ==
  \/ CreateMCE \/ DeleteMCE \/ TogglePause \/ OLMUpgrade
  \/ WatchMCE \/ WatchOthers
  \/ \E d \in Deployments : Observe(d) \/ RollOut(d) \/ WatchDeployment(d)
  \/ \E p \in Pods : Main(p)
  \/ Reconcile
  \/ Faults

Spec == Init /\ [][Next]_vars

\* Pods start and are elected, passes run to their end, informers deliver and deployments
\* roll out.  Nobody has to create an MCE, upgrade or fail.
FairSpec ==
  /\ Spec
  /\ WF_vars(Reconcile)
  /\ WF_vars(WatchMCE)
  /\ \A p \in Pods : WF_vars(Main(p))
  /\ \A d \in Deployments : WF_vars(Observe(d)) /\ WF_vars(RollOut(d)) /\ WF_vars(WatchDeployment(d))

-----------------------------------------------------------------------------
(* Properties *)

\* What OLM v0 is kept from by the Upgradeable condition: no release ever meets a
\* deployment that is more than one minor release older than itself, however often pods
\* restart, calls fail, the MCE is paused, or created and deleted while pods start and
\* caches are stale.
NoMinorSkipped ==
  olm = "v0" =>
    \A d \in Deployments : dep[d].spec # None => Minor[version] <= Minor[dep[d].spec] + 1

\* An MCE that is left alone, and not paused, ends up installed by the release that
\* runs, recorded as such, and OLM v0 may go on to the next release.
UpgradeSettles ==
  <>[](mce.phase = "live" /\ ~mce.paused) =>
    <>[]( /\ mce.current = version
          /\ \A d \in Deployments : dep[d] = [spec |-> version, available |-> version]
          /\ olm = "v0" => cond = "True" )
=============================================================================
