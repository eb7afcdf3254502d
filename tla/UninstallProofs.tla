-------------------------- MODULE UninstallProofs --------------------------
(***************************************************************************)
(* FinalizerGuards and TeardownInOrder, for any set of components, any     *)
(* footprint, any number of faults and installations and whatever the      *)
(* informers have delivered when a pass looks.                             *)
(***************************************************************************)
EXTENDS Uninstall, TLAPS

\* The history of an MCE object: created, finalizer added, deleted, gone.
Age(v) == IF v.phase = "live" THEN IF v.finalizer THEN 1 ELSE 0
          ELSE IF v.phase = "deleting" THEN 2 ELSE 3

\* v is the same version of the MCE as w or an earlier one.
NoLaterThan(v, w) == v.uid < w.uid \/ (v.uid = w.uid /\ Age(v) <= Age(w))

WellFormed(v) ==
  /\ v.phase = "deleting" => v.finalizer
  /\ v.phase = "absent" => ~v.finalizer

\* Nobody sees an MCE newer than the stored one; a cached live MCE with the
\* finalizer is not gone yet, because only a pass over a deleted one removes it.
Views ==
  /\ WellFormed(mce) /\ WellFormed(mceCache) /\ WellFormed(snap)
  /\ NoLaterThan(mceCache, mce)
  /\ NoLaterThan(snap, mce)
  /\ mceCache.phase = "live" /\ mceCache.finalizer
       => mce.uid = mceCache.uid /\ mce.phase # "absent"

\* What a pass knows of the MCE it works on.
PassKnows ==
  /\ pc = "addFinalizer" =>
       snap.phase = "live" /\ (snap.finalizer => mce.phase # "absent" /\ mce.finalizer)
  /\ pc = "deploy" => mce.phase # "absent" /\ mce.finalizer
  /\ pc \in Finalizing => snap.phase = "deleting" /\ NoLaterThan(snap, mceCache)

\* What the owners of the custom resources create ...
ByOwners == {HubNs, GlobalSetNs, LocalNs, MCKind}
\* ... and the custom resource each belongs to.
Owner(r) == IF r = LocalNs THEN ManagedCluster ELSE ClusterManager

\* r is gone, or is there because the cache hid it.
GoneOrMissed(r) == res[r] = "absent" \/ r \in missed

\* The resources a finalizing pass has found gone are gone, or it missed them; what
\* it reads from the API server it cannot miss.
AfterIECs == {"plugin", "addon", "managedCluster", "clusterManager", "hubNs", "globalSetNs",
              "localNs", "removeFinalizer"}
Progress ==
  /\ pc = "iec" => \A c \in Components \ todo : again \/ GoneOrMissed(c)
  /\ pc \in AfterIECs => \A c \in Components : GoneOrMissed(c)
  /\ pc \in AfterIECs \ {"plugin"} => res[Plugin] = "absent"
  /\ pc \in AfterIECs \ {"plugin", "addon"} => res[Addon] = "absent"
  /\ pc \in AfterIECs \ {"plugin", "addon", "managedCluster"} => res[ManagedCluster] = "absent"
  /\ pc \in {"hubNs", "globalSetNs", "localNs", "removeFinalizer"} => res[ClusterManager] = "absent"
  /\ pc \in {"globalSetNs", "localNs", "removeFinalizer"} => GoneOrMissed(HubNs)
  /\ pc = "removeFinalizer" => GoneOrMissed(LocalNs)

\* With TypeOK, the inductive invariant.
IInv == Views /\ PassKnows /\ Progress /\ FinalizerGuards

-----------------------------------------------------------------------------

\* The constants' assumptions in the form the proofs use.
LEMMA Bounds ==
  /\ MaxInstalls \in Nat /\ MaxFaults \in Nat /\ MaxOverdue \in 0..2
  /\ 0 \in 0..MaxInstalls /\ 0 \in 0..MaxFaults
  /\ Footprint \subseteq Resources
  /\ Leftovers \subseteq {MaestroNs, MCKind}
  /\ Components \cap Hub = {}
BY UninstallAssumption

\* Any MCE object made from a phase, a flag and an incarnation is one.
LEMMA MCEObjectType ==
  ASSUME NEW p \in {"absent", "live", "deleting"}, NEW f \in BOOLEAN, NEW u \in 0..MaxInstalls
  PROVE  /\ MCEObject(p, f, u) \in MCE
         /\ MCEObject(p, f, u).phase = p
         /\ MCEObject(p, f, u).finalizer = f
         /\ MCEObject(p, f, u).uid = u
BY DEF MCEObject, MCE

\* The absent MCE is an MCE object too.
LEMMA NoMCEType ==
  ASSUME NEW u \in 0..MaxInstalls
  PROVE  NoMCE(u) \in MCE /\ NoMCE(u).phase = "absent" /\ NoMCE(u).finalizer = FALSE /\ NoMCE(u).uid = u
BY DEF NoMCE, MCEObject, MCE

\* The fields of an MCE object.
LEMMA MCEFields ==
  ASSUME NEW v \in MCE
  PROVE  /\ v.phase \in {"absent", "live", "deleting"}
         /\ v.finalizer \in BOOLEAN
         /\ v.uid \in 0..MaxInstalls
BY DEF MCE

\* Setting one resource keeps the cluster's type ...
LEMMA PutType ==
  ASSUME res \in [Resources -> Existence], NEW r \in Resources, NEW e \in Existence, Put(r, e)
  PROVE  res' \in [Resources -> Existence]
BY DEF Put

\* ... and so does deleting one.
LEMMA DoomType ==
  ASSUME res \in [Resources -> Existence], NEW r \in Resources, Doom(r)
  PROVE  res' \in [Resources -> Existence]
BY PutType DEF Doom, Existence

\* Looking at one IEC changes only that IEC and its cached copy.
LEMMA NoIECType ==
  ASSUME TypeOK, NEW c \in Components, ensureNoInternalEngineComponent(c)
  PROVE  res' \in [Resources -> Existence] /\ cache' \in [Cached -> Existence]
<1>1. c \in Resources /\ c \in Cached
  BY DEF Resources, Cached
<1>2. res' \in [Resources -> Existence]
  BY <1>1, PutType, DoomType DEF ensureNoInternalEngineComponent, TypeOK, Existence
<1>3. cache' \in [Cached -> Existence]
  BY <1>1 DEF ensureNoInternalEngineComponent, TypeOK, Existence
<1> QED
  BY <1>2, <1>3

\* A look at a cached resource is remembered as one of a cached resource.
LEMMA LookedType ==
  ASSUME TypeOK, NEW r \in Cached, Looked(r)
  PROVE  missed' \in SUBSET Cached
BY DEF Looked, TypeOK

\* A deploying step changes resources and cached IECs within their types.
LEMMA DeployType ==
  ASSUME TypeOK, Deploy
  PROVE  TypeOK'
<1> DEFINE Typed == /\ res \in [Resources -> Existence]
                    /\ cache \in [Cached -> Existence]
<1>1. Typed'
  <2>1. ASSUME NEW c \in Components, ensureInternalEngineComponent(c) PROVE Typed'
    BY <2>1, PutType DEF ensureInternalEngineComponent, TypeOK, Existence, Resources
  <2>2. ASSUME NEW c \in Components, ensureNoInternalEngineComponent(c) PROVE Typed'
    BY <2>2, NoIECType
  <2>3. Hub \subseteq Resources /\ ClusterManager \in Hub /\ Addon \in Hub /\ ManagedCluster \in Hub
        /\ LocalNs \in Hub /\ MaestroNs \in Hub /\ Plugin \in Hub
    BY DEF Resources, Hub
  <2>4. "present" \in Existence /\ "absent" \in Existence
    BY DEF Existence
  <2>5. ASSUME DeployHub, UNCHANGED cache PROVE Typed'
    BY <2>3, <2>4, <2>5, PutType, DoomType
       DEF DeployHub, TypeOK, ensureConsoleMCE, ensureNoConsoleMCE, ensureClusterManager, ensureNoClusterManager,
           applyHypershiftLocalHosting, removeHypershiftLocalHosting,
           ensureLocalCluster, ensureNoLocalCluster, ensureNoMaestro
  <2> QED
    BY <2>1, <2>2, <2>5 DEF Deploy
<1> QED
  BY <1>1 DEF Deploy, TypeOK, passVars

\* Deleting a resource and waiting for it, or going on, keeps the types.
LEMMA FinalizeType ==
  ASSUME TypeOK, NEW s, NEW r \in Resources, NEW l, NEW n \in Steps, Finalize(s, r, l, n)
  PROVE  TypeOK'
<1>1. res' \in [Resources -> Existence]
  BY DoomType DEF Finalize, TypeOK
<1>2. pc' \in Steps
  BY DEF Finalize, Wait, Steps
<1>3. progressing' \in {"True", "False"}
  BY DEF Finalize, Wait, TypeOK
<1> QED
  BY <1>1, <1>2, <1>3 DEF Finalize, TypeOK

\* Each step of a finalizing pass keeps the types.
LEMMA FinalizePassType ==
  ASSUME TypeOK, FinalizePass
  PROVE  TypeOK'
<1>0. Hub \subseteq Resources
  BY DEF Resources
<1>1. ASSUME NEW c \in Components, ensureNoAllInternalEngineComponents(c) PROVE TypeOK'
  <2>1. res' \in [Resources -> Existence] /\ cache' \in [Cached -> Existence]
    BY <1>1, NoIECType DEF ensureNoAllInternalEngineComponents
  <2>2. missed' \in SUBSET Cached
    BY <1>1, LookedType DEF ensureNoAllInternalEngineComponents, Cached
  <2>3. again' \in BOOLEAN
    BY <1>1 DEF ensureNoAllInternalEngineComponents, TypeOK
  <2> QED
    BY <1>1, <2>1, <2>2, <2>3 DEF ensureNoAllInternalEngineComponents, TypeOK
<1>2. CASE IECsFinalized
  BY <1>2 DEF IECsFinalized, TypeOK, Steps, Finalizing
<1>3. CASE FinalizeAddon
  BY <1>3, <1>0, FinalizeType DEF FinalizeAddon, Hub, Steps, Finalizing
<1>4. CASE FinalizeManagedCluster
  <2>1. CASE ManagedClusterKindUnknown
    BY <2>1 DEF ManagedClusterKindUnknown, TypeOK, Steps
  <2>2. CASE Finalize("managedCluster", ManagedCluster, 2, "clusterManager")
    BY <2>2, <1>0, FinalizeType DEF Hub, Steps, Finalizing
  <2> QED
    BY <1>4, <2>1, <2>2 DEF FinalizeManagedCluster
<1>5. CASE FinalizeClusterManager
  BY <1>5, <1>0, FinalizeType DEF FinalizeClusterManager, Hub, Steps, Finalizing
<1>6. CASE AwaitHubNs
  <2>1. pc' \in Steps /\ progressing' \in {"True", "False"}
    BY <1>6, <1>0 DEF AwaitHubNs, Wait, TypeOK, Steps, Finalizing, Hub
  <2>2. missed' \in SUBSET Cached
    BY <1>6, LookedType DEF AwaitHubNs, Cached
  <2> QED
    BY <1>6, <2>1, <2>2 DEF AwaitHubNs, TypeOK
<1>7. CASE FinalizeGlobalSetNs
  <2>1. res' \in [Resources -> Existence]
    BY <1>7, <1>0, DoomType DEF FinalizeGlobalSetNs, TypeOK, Hub
  <2> QED
    BY <1>7, <2>1 DEF FinalizeGlobalSetNs, TypeOK, passVars, Steps, Finalizing
<1>8. CASE AwaitLocalNs
  <2>1. pc' \in Steps /\ progressing' \in {"True", "False"}
    BY <1>8, <1>0 DEF AwaitLocalNs, TypeOK, Steps, Finalizing, Hub
  <2>2. missed' \in SUBSET Cached
    BY <1>8, LookedType DEF AwaitLocalNs, Cached
  <2> QED
    BY <1>8, <2>1, <2>2 DEF AwaitLocalNs, TypeOK
<1>9. CASE RemoveFinalizer
  <2>1. mce' \in MCE
    BY <1>9, MCEFields, NoMCEType DEF RemoveFinalizer, TypeOK
  <2>2. pc' \in Steps
    BY <1>9 DEF RemoveFinalizer, Steps
  <2> QED
    BY <1>9, <2>1, <2>2 DEF RemoveFinalizer, TypeOK
<1>10. CASE deleteMaestroNamespace
  <2>1. res' \in [Resources -> Existence]
    BY <1>10, <1>0, DoomType DEF deleteMaestroNamespace, TypeOK, Hub
  <2> QED
    BY <1>10, <2>1 DEF deleteMaestroNamespace, TypeOK, passVars, Steps
<1>11. CASE removePluginFromConsoleResource
  <2>1. res' \in [Resources -> Existence]
    BY <1>11, <1>0, PutType DEF removePluginFromConsoleResource, TypeOK, Hub, Existence
  <2> QED
    BY <1>11, <2>1 DEF removePluginFromConsoleResource, TypeOK, passVars, Steps, Finalizing
<1> QED
  BY <1>1, <1>2, <1>3, <1>4, <1>5, <1>6, <1>7, <1>8, <1>9, <1>10, <1>11 DEF FinalizePass

\* Every variable keeps its type: the steps of Reconcile and finalizeBackplaneConfig
\* never leave the states this model gives them.
THEOREM TypeCorrect == Spec => []TypeOK
<1>1. Init => TypeOK
  <2> SUFFICES ASSUME Init PROVE TypeOK
    OBVIOUS
  <2>1. NoMCE(0) \in MCE
    BY NoMCEType, Bounds
  <2>2. res \in [Resources -> Existence]
    BY DEF Init, Existence
  <2>3. cache \in [Cached -> Existence]
    BY DEF Init, Existence
  <2>4. mce \in MCE /\ mceCache \in MCE /\ snap \in MCE
    BY <2>1 DEF Init
  <2>5. pc \in Steps /\ todo \in SUBSET Components /\ faults \in 0..MaxFaults /\ overdue \in 0..2
    BY Bounds DEF Init, Steps
  <2>6. /\ queued \in BOOLEAN /\ again \in BOOLEAN /\ missed \in SUBSET Cached
        /\ reported \in {"True", "False"} /\ progressing \in {"True", "False"}
    BY DEF Init
  <2> QED
    BY <2>2, <2>3, <2>4, <2>5, <2>6 DEF TypeOK
<1>2. TypeOK /\ [Next]_vars => TypeOK'
  <2> SUFFICES ASSUME TypeOK, [Next]_vars PROVE TypeOK'
    OBVIOUS
  <2>0. mce.uid \in 0..MaxInstalls /\ mce.finalizer \in BOOLEAN /\ mce.phase \in {"absent", "live", "deleting"}
    BY MCEFields DEF TypeOK
  <2> USE DEF TypeOK, passVars
  <2>1. CASE CreateMCE
    <3>1. mce.uid + 1 \in 0..MaxInstalls
      BY <2>1, <2>0, Bounds DEF CreateMCE
    <3>2. MCEObject("live", FALSE, mce.uid + 1) \in MCE
      BY <3>1, MCEObjectType
    <3>3. mce' \in MCE
      BY <2>1, <3>2 DEF CreateMCE
    <3>4. overdue' \in 0..2
      BY <2>1 DEF CreateMCE
    <3> QED
      BY <2>1, <3>3, <3>4 DEF CreateMCE
  <2>2. CASE DeleteMCE
    <3>1. MCEObject("deleting", TRUE, mce.uid) \in MCE /\ NoMCE(mce.uid) \in MCE
      BY <2>0, MCEObjectType, NoMCEType
    <3>2. mce' \in MCE
      BY <2>2, <3>1 DEF DeleteMCE
    <3>3. overdue' \in 0..2
      BY <2>2 DEF DeleteMCE
    <3> QED
      BY <2>2, <3>2, <3>3 DEF DeleteMCE
  <2>3. CASE TimePasses
    BY <2>3, Bounds DEF TimePasses
  <2>4. CASE WatchMCE
    BY <2>4 DEF WatchMCE
  <2>5. ASSUME NEW r \in Cached, Watch(r) PROVE TypeOK'
    BY <2>5 DEF Watch, Cached, Resources, Hub
  <2>6. ASSUME NEW r \in Resources, Provision(r) \/ Reclaim(r) \/ Terminated(r) PROVE TypeOK'
    BY <2>6 DEF Provision, Reclaim, Terminated, Existence
  <2>7. CASE StartPass
    BY <2>7, MCEFields DEF StartPass, Steps, Finalizing
  <2>8. CASE AddFinalizer
    <3>1. MCEObject(mce.phase, TRUE, mce.uid) \in MCE
      BY <2>0, MCEObjectType
    <3>2. mce' \in MCE /\ snap' \in MCE
      BY <2>8, <3>1 DEF AddFinalizer
    <3>3. pc' \in Steps
      BY <2>8 DEF AddFinalizer, Steps
    <3> QED
      BY <2>8, <3>2, <3>3 DEF AddFinalizer
  <2>9. CASE EndDeploy \/ UpdateStatus
    BY <2>9 DEF EndDeploy, UpdateStatus, Steps
  <2>10. CASE FinalizePass
    BY <2>10, FinalizePassType
  <2>11. CASE Deploy
    BY <2>11, DeployType
  <2>12. CASE CallFails
    <3>1. pc' \in Steps /\ queued' \in BOOLEAN
      BY <2>12 DEF CallFails, Steps
    <3>2. faults' \in 0..MaxFaults
      BY <2>12, Bounds DEF CallFails
    <3> QED
      BY <2>12, <3>1, <3>2 DEF CallFails
  <2>13. CASE Crash
    BY <2>13, Bounds DEF Crash, Steps, Cached, Resources, Hub
  <2>14. ASSUME NEW c \in Components, IECCallFails(c) PROVE TypeOK'
    BY <2>14, Bounds DEF IECCallFails
  <2>15. CASE UNCHANGED vars
    BY <2>15 DEF vars
  <2> QED
    BY <2>1, <2>2, <2>3, <2>4, <2>5, <2>6, <2>7, <2>8, <2>9, <2>10, <2>11, <2>12, <2>13, <2>14, <2>15
       DEF Next, User, Operator, Informers, Environment, Faults
<1> QED
  BY <1>1, <1>2, PTL DEF Spec

-----------------------------------------------------------------------------

\* The steps of FinalizePass that leave the MCE alone.
LEMMA FinalizeKeepsMCE ==
  ASSUME FinalizePass
  PROVE  /\ UNCHANGED <<mceCache, snap>>
         /\ RemoveFinalizer \/ UNCHANGED mce
         /\ pc' \in Finalizing => pc \in Finalizing
         /\ pc' \notin {"addFinalizer", "deploy"}
<1> USE DEF passVars, Finalizing, Finalize, Wait
<1>1. ASSUME NEW c \in Components, ensureNoAllInternalEngineComponents(c)
      PROVE  UNCHANGED <<mceCache, snap, mce, pc>> /\ pc = "iec"
  BY <1>1 DEF ensureNoAllInternalEngineComponents
<1>2. CASE \/ IECsFinalized \/ removePluginFromConsoleResource \/ AwaitHubNs \/ FinalizeGlobalSetNs
           \/ AwaitLocalNs \/ deleteMaestroNamespace
  BY <1>2 DEF IECsFinalized, removePluginFromConsoleResource, AwaitHubNs, FinalizeGlobalSetNs,
              AwaitLocalNs, deleteMaestroNamespace
<1>3. CASE FinalizeAddon \/ FinalizeManagedCluster \/ FinalizeClusterManager
  BY <1>3 DEF FinalizeAddon, FinalizeManagedCluster, FinalizeClusterManager, ManagedClusterKindUnknown
<1>4. CASE RemoveFinalizer
  BY <1>4 DEF RemoveFinalizer
<1> QED
  BY <1>1, <1>2, <1>3, <1>4 DEF FinalizePass

\* Views: the stored MCE only gets newer, and the pass and the cache take over
\* versions that were stored.
LEMMA ViewsStep ==
  ASSUME TypeOK, Views, PassKnows, [Next]_vars
  PROVE  Views'
<1>0. /\ mce \in MCE /\ mceCache \in MCE /\ snap \in MCE
      /\ mce.uid \in 0..MaxInstalls /\ mceCache.uid \in 0..MaxInstalls /\ snap.uid \in 0..MaxInstalls
      /\ mce.finalizer \in BOOLEAN
      /\ mce.phase \in {"absent", "live", "deleting"}
  BY MCEFields DEF TypeOK
<1>1. CASE CreateMCE
  <2>1. mce.uid + 1 \in 0..MaxInstalls
    BY <1>0, <1>1, Bounds DEF CreateMCE
  <2>2. mce'.phase = "live" /\ mce'.finalizer = FALSE /\ mce'.uid = mce.uid + 1
    BY <1>1, <2>1, MCEObjectType DEF CreateMCE
  <2>3. UNCHANGED <<mceCache, snap>>
    BY <1>1 DEF CreateMCE, passVars
  <2>4. mce.phase = "absent"
    BY <1>1 DEF CreateMCE
  <2> QED
    BY <1>0, <2>2, <2>3, <2>4 DEF Views, NoLaterThan, WellFormed
<1>2. CASE DeleteMCE
  <2>1. mce'.uid = mce.uid
    BY <1>0, <1>2, MCEObjectType, NoMCEType DEF DeleteMCE
  <2>2. mce.phase = "live"
    BY <1>2 DEF DeleteMCE
  <2>3. \/ mce.finalizer /\ mce'.phase = "deleting" /\ mce'.finalizer
        \/ ~mce.finalizer /\ mce'.phase = "absent" /\ ~mce'.finalizer
    BY <1>0, <1>2, MCEObjectType, NoMCEType DEF DeleteMCE
  <2>4. UNCHANGED <<mceCache, snap>>
    BY <1>2 DEF DeleteMCE, passVars
  <2> QED
    BY <1>0, <2>1, <2>2, <2>3, <2>4 DEF Views, NoLaterThan, WellFormed, Age
<1>3. CASE WatchMCE \/ Crash
  <2>1. mceCache' = mce /\ UNCHANGED <<mce, snap>>
    BY <1>3 DEF WatchMCE, Crash, passVars
  <2> QED
    BY <1>0, <2>1 DEF Views, NoLaterThan, WellFormed, Age
<1>4. CASE StartPass
  <2>1. (snap' = mceCache \/ snap' = snap) /\ UNCHANGED <<mce, mceCache>>
    BY <1>4 DEF StartPass, passVars
  <2> QED
    BY <2>1 DEF Views
<1>5. CASE AddFinalizer
  <2>1. CASE UNCHANGED <<mce, snap>>
    BY <2>1, <1>5 DEF AddFinalizer, Views
  <2>2. CASE ~UNCHANGED <<mce, snap>>
    <3>1. /\ snap = mce /\ ~snap.finalizer /\ snap' = mce' /\ mceCache' = mceCache
          /\ mce' = MCEObject(mce.phase, TRUE, mce.uid)
      BY <1>5, <2>2 DEF AddFinalizer
    <3>2. snap.phase = "live"
      BY <1>5 DEF AddFinalizer, PassKnows
    <3>3. LET new == MCEObject("live", TRUE, mce.uid)
          IN  new.phase = "live" /\ new.finalizer /\ new.uid = mce.uid
      BY <1>0, MCEObjectType
    <3>4. mce'.phase = "live" /\ mce'.finalizer /\ mce'.uid = mce.uid
      BY <3>1, <3>2, <3>3
    <3>5. mce.phase = "live" /\ snap' = mce' /\ mceCache' = mceCache
      BY <3>1, <3>2
    <3>6. NoLaterThan(mceCache, mce')
      BY <1>0, <3>4, <3>5 DEF Views, NoLaterThan, Age
    <3>7. NoLaterThan(snap', mce')
      BY <1>0, <3>4, <3>5 DEF NoLaterThan, Age
    <3> QED
      BY <1>0, <3>4, <3>5, <3>6, <3>7 DEF Views, WellFormed
  <2> QED
    BY <2>1, <2>2
<1>6. CASE RemoveFinalizer
  <2>1. CASE UNCHANGED mce
    BY <2>1, <1>6 DEF RemoveFinalizer, Views
  <2>2. CASE ~UNCHANGED mce
    <3>1. snap = mce /\ mce' = NoMCE(mce.uid) /\ UNCHANGED <<snap, mceCache>> /\ pc \in Finalizing
      BY <1>6, <2>2 DEF RemoveFinalizer, Finalizing
    <3>2. mce'.phase = "absent" /\ mce'.finalizer = FALSE /\ mce'.uid = mce.uid
      BY <1>0, <3>1, NoMCEType
    <3>3. mce.phase = "deleting" /\ NoLaterThan(mce, mceCache)
      BY <3>1 DEF PassKnows
    <3> QED
      BY <1>0, <3>1, <3>2, <3>3 DEF Views, NoLaterThan, WellFormed, Age
  <2> QED
    BY <2>1, <2>2
<1>7. CASE UNCHANGED <<mce, mceCache, snap>>
  BY <1>7 DEF Views
<1>8. ASSUME FinalizePass PROVE Views'
  BY <1>6, <1>7, <1>8, FinalizeKeepsMCE
<1>9. ASSUME TimePasses \/ EndDeploy \/ UpdateStatus \/ Deploy \/ CallFails \/ UNCHANGED vars
      PROVE  Views'
  BY <1>7, <1>9 DEF TimePasses, EndDeploy, UpdateStatus, Deploy, CallFails, passVars, vars
<1>10. ASSUME NEW c \in Components, IECCallFails(c) PROVE Views'
  BY <1>7, <1>10 DEF IECCallFails
<1>11. ASSUME NEW r \in Cached, Watch(r) PROVE Views'
  BY <1>7, <1>11 DEF Watch, passVars
<1>12. ASSUME NEW r \in Resources, Provision(r) \/ Reclaim(r) \/ Terminated(r) PROVE Views'
  BY <1>7, <1>12 DEF Provision, Reclaim, Terminated, passVars
<1> QED
  BY <1>1, <1>2, <1>3, <1>4, <1>5, <1>8, <1>9, <1>10, <1>11, <1>12
     DEF Next, User, Informers, Environment, Operator, Faults

\* PassKnows: the finalizer is added before anything is deployed and goes only
\* with a pass over the deleted MCE.
LEMMA PassKnowsStep ==
  ASSUME TypeOK, Views, PassKnows, [Next]_vars
  PROVE  PassKnows'
<1>0. /\ mce.uid \in 0..MaxInstalls
      /\ mce.finalizer \in BOOLEAN
      /\ mce.phase \in {"absent", "live", "deleting"}
      /\ mceCache.finalizer \in BOOLEAN
      /\ mceCache.uid \in 0..MaxInstalls
  BY MCEFields DEF TypeOK
<1>1. CASE CreateMCE
  <2>1. mce.phase = "absent" /\ UNCHANGED <<mceCache, snap, pc>>
    BY <1>1 DEF CreateMCE, passVars
  <2> QED
    BY <2>1 DEF PassKnows, Finalizing
<1>2. CASE DeleteMCE
  <2>1. UNCHANGED <<mceCache, snap, pc>>
    BY <1>2 DEF DeleteMCE, passVars
  <2>2. mce.finalizer => mce'.phase # "absent" /\ mce'.finalizer
    BY <1>0, <1>2, MCEObjectType DEF DeleteMCE
  <2> QED
    BY <2>1, <2>2 DEF PassKnows, Finalizing
<1>3. CASE WatchMCE
  <2>1. mceCache' = mce /\ UNCHANGED <<mce, snap, pc>>
    BY <1>3 DEF WatchMCE, passVars
  <2> QED
    BY <2>1 DEF PassKnows, Views, NoLaterThan, Age
<1>4. CASE StartPass
  <2>1. CASE mceCache.phase = "absent"
    <3>1. UNCHANGED <<pc, snap, mce, mceCache>>
      BY <1>4, <2>1 DEF StartPass, passVars
    <3> QED
      BY <3>1 DEF PassKnows, NoLaterThan, Age
  <2>2. CASE mceCache.phase # "absent"
    <3>1. /\ snap' = mceCache /\ UNCHANGED <<mce, mceCache>>
          /\ pc' \in {"addFinalizer", "iec", "status"}
          /\ pc' = "addFinalizer" => mceCache.phase = "live"
          /\ pc' = "iec" => mceCache.phase # "live"
      BY <1>4, <2>2 DEF StartPass
    <3>2. mceCache.phase \in {"live", "deleting"}
      BY <2>2, MCEFields DEF TypeOK
    <3>3. mceCache.phase = "live" /\ mceCache.finalizer => mce.phase # "absent" /\ mce.finalizer
      BY <1>0 DEF Views, NoLaterThan, Age, WellFormed
    <3>4. NoLaterThan(mceCache, mceCache)
      BY <1>0 DEF NoLaterThan, Age
    <3> QED
      BY <3>1, <3>2, <3>3, <3>4 DEF PassKnows, Finalizing, NoLaterThan, Age
  <2> QED
    BY <2>1, <2>2
<1>5. CASE AddFinalizer
  <2>1. CASE snap.finalizer
    <3>1. UNCHANGED <<mce, snap, mceCache>> /\ pc' = "deploy" /\ mce.phase # "absent" /\ mce.finalizer
      BY <1>5, <2>1 DEF AddFinalizer, PassKnows
    <3> QED
      BY <3>1 DEF PassKnows, Finalizing
  <2>2. CASE ~snap.finalizer /\ snap = mce
    <3>1. mce' = MCEObject(mce.phase, TRUE, mce.uid) /\ mce.phase = "live"
      BY <1>5, <2>2 DEF AddFinalizer, PassKnows
    <3>2. LET new == MCEObject("live", TRUE, mce.uid) IN new.phase = "live" /\ new.finalizer
      BY <1>0, MCEObjectType
    <3>3. mce'.phase # "absent" /\ mce'.finalizer
      BY <3>1, <3>2
    <3>4. pc' = "deploy"
      BY <1>5, <2>2 DEF AddFinalizer
    <3> QED
      BY <3>3, <3>4 DEF PassKnows, Finalizing
  <2>3. CASE ~snap.finalizer /\ snap # mce
    <3>1. pc' = "status"
      BY <1>5, <2>3 DEF AddFinalizer
    <3> QED
      BY <3>1 DEF PassKnows, Finalizing
  <2> QED
    BY <2>1, <2>2, <2>3
<1>6. CASE FinalizePass
  BY <1>6, FinalizeKeepsMCE DEF PassKnows, NoLaterThan, Age
<1>7. CASE EndDeploy \/ UpdateStatus \/ CallFails \/ Crash
  <2>1. pc' \in {"idle", "status"}
    BY <1>7 DEF EndDeploy, UpdateStatus, CallFails, Crash
  <2> QED
    BY <2>1 DEF PassKnows, Finalizing
<1>8. CASE UNCHANGED <<mce, mceCache, snap, pc>>
  BY <1>8 DEF PassKnows, NoLaterThan, Age
<1>9. ASSUME TimePasses \/ Deploy \/ UNCHANGED vars PROVE PassKnows'
  BY <1>8, <1>9 DEF TimePasses, Deploy, passVars, vars
<1>10. ASSUME NEW c \in Components, IECCallFails(c) PROVE PassKnows'
  BY <1>8, <1>10 DEF IECCallFails
<1>11. ASSUME NEW r \in Cached, Watch(r) PROVE PassKnows'
  BY <1>8, <1>11 DEF Watch, passVars
<1>12. ASSUME NEW r \in Resources, Provision(r) \/ Reclaim(r) \/ Terminated(r) PROVE PassKnows'
  BY <1>8, <1>12 DEF Provision, Reclaim, Terminated, passVars
<1> QED
  BY <1>1, <1>2, <1>3, <1>4, <1>5, <1>6, <1>7, <1>9, <1>10, <1>11, <1>12
     DEF Next, User, Informers, Environment, Operator, Faults

\* The kinds of resource do not overlap.
LEMMA Kinds ==
  /\ Components \subseteq Resources /\ Components \subseteq Cached /\ Cached \subseteq Resources
  /\ Addon \in Resources /\ ManagedCluster \in Resources /\ ClusterManager \in Resources
  /\ HubNs \in Cached /\ GlobalSetNs \in Cached /\ LocalNs \in Cached /\ MaestroNs \in Resources
  /\ Addon \notin Components /\ ManagedCluster \notin Components /\ ClusterManager \notin Components
  /\ HubNs \notin Components /\ GlobalSetNs \notin Components /\ LocalNs \notin Components
  /\ MaestroNs \notin Components
  /\ Plugin \in Resources /\ Plugin \notin Components
  /\ HubNs \in ByOwners /\ GlobalSetNs \in ByOwners /\ LocalNs \in ByOwners
  /\ \A c \in Components : c \notin ByOwners
BY Bounds DEF Resources, Cached, Hub, ByOwners

\* Deleting a resource leaves the others alone and makes nothing appear.
LEMMA DoomEffect ==
  ASSUME TypeOK, NEW r \in Resources, Doom(r)
  PROVE  /\ \A s \in Resources \ {r} : res'[s] = res[s]
         /\ (res'[r] = "absent") = (res[r] = "absent")
         /\ res'[r] # "present"
BY DEF Doom, Put, TypeOK

\* Removing the plugin leaves everything else alone.
LEMMA PluginEffect ==
  ASSUME TypeOK, removePluginFromConsoleResource
  PROVE  /\ \A s \in Resources \ {Plugin} : res'[s] = res[s]
         /\ res'[Plugin] = "absent"
         /\ UNCHANGED <<cache, mce, missed>>
         /\ pc = "plugin" /\ pc' = "addon"
BY Kinds DEF removePluginFromConsoleResource, Put, TypeOK

\* The owners of the resources create nothing but their namespaces.
LEMMA EnvironmentEffect ==
  ASSUME TypeOK, NEW r \in Resources, Provision(r) \/ Reclaim(r) \/ Terminated(r)
  PROVE  /\ \A s \in Resources \ {r} : res'[s] = res[s]
         /\ \/ /\ res[r] = "absent" /\ res'[r] = "present"
               /\ r \in ByOwners /\ res[Owner(r)] = "present"
            \/ /\ res[r] = "present" /\ res'[r] = "terminating"
               /\ r \in {HubNs, LocalNs} /\ res[Owner(r)] # "present"
            \/ res[r] = "terminating" /\ res'[r] = "absent"
         /\ UNCHANGED <<mce, mceCache, cache, queued, pc, passVars, missed>>
<1>1. CASE Provision(r)
  BY <1>1 DEF Provision, TypeOK, Owner, ByOwners, HubNs, GlobalSetNs, LocalNs, MCKind
<1>2. CASE Reclaim(r)
  BY <1>2 DEF Reclaim, TypeOK, Owner, HubNs, LocalNs
<1>3. CASE Terminated(r)
  BY <1>3 DEF Terminated, TypeOK
<1> QED
  BY <1>1, <1>2, <1>3

\* Looking at one IEC: it is either found gone or comes up again.
LEMMA NoIECEffect ==
  ASSUME TypeOK, NEW c \in Components, ensureNoInternalEngineComponent(c)
  PROVE  /\ \A s \in Resources \ {c} : res'[s] = res[s]
         /\ res[c] = "absent" => res'[c] = "absent"
         /\ cache'[c] = "absent" => cache[c] = "absent" \/ res'[c] = "absent"
<1> USE Kinds DEF TypeOK
<1>1. CASE cache[c] \in {"absent", "terminating"} /\ UNCHANGED <<res, cache>>
  BY <1>1
<1>2. CASE cache[c] = "present" /\ Doom(c) /\ UNCHANGED cache
  BY <1>2, DoomEffect
<1>3. CASE /\ Put(c, "absent")
           /\ cache' = [cache EXCEPT ![c] = "absent"]
  BY <1>3 DEF Put
<1> QED
  BY <1>1, <1>2, <1>3 DEF ensureNoInternalEngineComponent

\* Remembering a look at one resource says nothing of the others, and one that is
\* missed no longer is gone.
LEMMA LookedEffect ==
  ASSUME TypeOK, NEW r \in Cached, Looked(r)
  PROVE  /\ \A s : s # r => (s \in missed') = (s \in missed)
         /\ res[r] # "absent" /\ cache[r] = "absent" => r \in missed'
         /\ r \in missed /\ r \notin missed' => res[r] = "absent"
BY DEF Looked

\* The steps of FinalizePass that leave the cluster alone, and the others.
LEMMA FinalizeCases ==
  ASSUME TypeOK, FinalizePass
  PROVE  \/ \E c \in Components : ensureNoAllInternalEngineComponents(c)
         \/ UNCHANGED <<res, missed>>
         \/ \E r \in Cached : Looked(r) /\ UNCHANGED <<res, mce>>
         \/ FinalizeGlobalSetNs
         \/ removePluginFromConsoleResource
         \/ /\ UNCHANGED <<cache, mce, missed>>
            /\ pc' = "status"
            /\ \E r \in Resources : Doom(r)
<1> USE Kinds DEF passVars
<1>1. CASE FinalizeAddon
  BY <1>1 DEF FinalizeAddon, Finalize, Wait
<1>2. CASE FinalizeManagedCluster
  BY <1>2 DEF FinalizeManagedCluster, ManagedClusterKindUnknown, Finalize, Wait
<1>3. CASE FinalizeClusterManager
  BY <1>3 DEF FinalizeClusterManager, Finalize, Wait
<1>4. CASE AwaitHubNs \/ AwaitLocalNs
  BY <1>4 DEF AwaitHubNs, AwaitLocalNs
<1>5. CASE deleteMaestroNamespace
  BY <1>5 DEF deleteMaestroNamespace
<1>6. CASE IECsFinalized \/ RemoveFinalizer
  BY <1>6 DEF IECsFinalized, RemoveFinalizer
<1> QED
  BY <1>1, <1>2, <1>3, <1>4, <1>5, <1>6 DEF FinalizePass

\* Progress: a finalizing pass goes on to the next resource only when this one is
\* gone, and what is gone does not come back while the pass runs.
LEMMA ProgressStep ==
  ASSUME TypeOK, Progress, [Next]_vars
  PROVE  Progress'
<1> USE DEF AfterIECs, GoneOrMissed
<1>1. ASSUME NEW r \in Resources, Provision(r) \/ Reclaim(r) \/ Terminated(r)
      PROVE  Progress'
  <2>1. UNCHANGED <<pc, todo, again, missed>>
    BY <1>1, EnvironmentEffect DEF passVars
  <2>2. ASSUME NEW s \in Components \cup {Plugin, Addon, ManagedCluster, ClusterManager}, res[s] = "absent"
        PROVE  res'[s] = "absent"
    <3>1. s \in Resources /\ s \notin ByOwners
      BY Kinds DEF Plugin, Addon, ManagedCluster, ClusterManager, HubNs, GlobalSetNs, LocalNs, MCKind, ByOwners
    <3> QED
      BY <1>1, <2>2, <3>1, EnvironmentEffect
  <2>3. ASSUME NEW s \in {HubNs, LocalNs}, res[s] = "absent", res[Owner(s)] # "present"
        PROVE  res'[s] = "absent"
    BY <1>1, <2>3, EnvironmentEffect, Kinds
  <2>4. Owner(HubNs) = ClusterManager /\ Owner(LocalNs) = ManagedCluster
    BY DEF Owner, HubNs, LocalNs
  <2>5. pc \in {"globalSetNs", "localNs", "removeFinalizer"} => res'[HubNs] = "absent" \/ HubNs \in missed
    BY <2>3, <2>4 DEF Progress
  <2>6. pc = "removeFinalizer" => res'[LocalNs] = "absent" \/ LocalNs \in missed
    BY <2>3, <2>4 DEF Progress
  <2> QED
    BY <2>1, <2>2, <2>5, <2>6 DEF Progress
<1>2. CASE StartPass
  <2>1. UNCHANGED <<res, pc, todo, again>> \/ pc' \notin {"iec"} \cup AfterIECs \/ (pc' = "iec" /\ todo' = Components)
    BY <1>2 DEF StartPass, passVars
  <2>2. UNCHANGED <<res, missed>>
    BY <1>2 DEF StartPass
  <2> QED
    BY <2>1, <2>2 DEF Progress
<1>3. ASSUME NEW c \in Components, ensureNoAllInternalEngineComponents(c) PROVE Progress'
  <2>1. /\ pc = "iec" /\ pc' = "iec" /\ ensureNoInternalEngineComponent(c) /\ todo' = todo \ {c}
        /\ again' = (again \/ cache'[c] # "absent") /\ Looked(c)
    BY <1>3 DEF ensureNoAllInternalEngineComponents
  <2>2. again' \/ res'[c] = "absent" \/ c \in missed'
    <3>1. CASE cache'[c] = "absent"
      <4>1. c \in Cached
        BY Kinds
      <4> QED
        BY <2>1, <3>1, <4>1, NoIECEffect, LookedEffect
    <3>2. CASE cache'[c] # "absent"
      BY <2>1, <3>2
    <3> QED
      BY <3>1, <3>2
  <2>3. ASSUME NEW d \in Components \ todo', d # c PROVE again' \/ res'[d] = "absent" \/ d \in missed'
    <3>1. again \/ res[d] = "absent" \/ d \in missed
      BY <2>1, <2>3 DEF Progress
    <3>2. res'[d] = res[d] /\ (d \in missed') = (d \in missed)
      BY <2>1, <2>3, Kinds, NoIECEffect, LookedEffect
    <3> QED
      BY <2>1, <3>1, <3>2
  <2> QED
    BY <2>1, <2>2, <2>3 DEF Progress
<1>4. ASSUME NEW c \in Components, IECCallFails(c) PROVE Progress'
  BY <1>4 DEF IECCallFails, Progress
<1>5. CASE IECsFinalized
  <2>1. UNCHANGED <<res, missed>> /\ (pc' = "status" \/ (pc' = "plugin" /\ ~again))
    <3>1. UNCHANGED <<res, missed>> /\ pc' = IF again THEN "status" ELSE "plugin"
      BY <1>5 DEF IECsFinalized
    <3>2. again \in BOOLEAN
      BY DEF TypeOK
    <3> QED
      BY <3>1, <3>2
  <2>2. ~again => \A c \in Components : GoneOrMissed(c)
    BY <1>5 DEF IECsFinalized, Progress
  <2> QED
    BY <2>1, <2>2 DEF Progress
<1>6. CASE FinalizeAddon
  BY <1>6 DEF FinalizeAddon, Finalize, Wait, Progress
<1>7. CASE FinalizeManagedCluster
  BY <1>7 DEF FinalizeManagedCluster, ManagedClusterKindUnknown, Finalize, Wait, Progress
<1>8. CASE FinalizeClusterManager
  BY <1>8 DEF FinalizeClusterManager, Finalize, Wait, Progress
<1>9. CASE AwaitHubNs
  <2>1. UNCHANGED res /\ Looked(HubNs) /\ pc = "hubNs"
        /\ (pc' = "status" \/ (pc' = "globalSetNs" /\ cache[HubNs] = "absent"))
    BY <1>9 DEF AwaitHubNs, Wait
  <2>2. cache[HubNs] = "absent" => res[HubNs] = "absent" \/ HubNs \in missed'
    BY <2>1, LookedEffect, Kinds
  <2>3. \A c \in Components : (c \in missed') = (c \in missed)
    BY <2>1, LookedEffect, Kinds
  <2> QED
    BY <2>1, <2>2, <2>3 DEF Progress
<1>10. CASE FinalizeGlobalSetNs
  <2>1. res' = res \/ Doom(GlobalSetNs)
    BY <1>10 DEF FinalizeGlobalSetNs
  <2>2. \A s \in Resources \ {GlobalSetNs} : res'[s] = res[s]
    BY <2>1, DoomEffect, Kinds
  <2>3. \A s \in Components \cup {Plugin, Addon, ManagedCluster, ClusterManager, HubNs} :
          s \in Resources \ {GlobalSetNs}
    BY Kinds DEF Plugin, Addon, ManagedCluster, ClusterManager, HubNs, GlobalSetNs
  <2>4. pc = "globalSetNs" /\ pc' = "localNs" /\ UNCHANGED missed
    BY <1>10 DEF FinalizeGlobalSetNs
  <2> QED
    BY <2>2, <2>3, <2>4 DEF Progress
<1>11. CASE AwaitLocalNs
  <2>1. UNCHANGED res /\ Looked(LocalNs) /\ pc = "localNs"
        /\ (pc' = "status" \/ (pc' = "removeFinalizer" /\ cache[LocalNs] = "absent"))
    BY <1>11 DEF AwaitLocalNs
  <2>2. cache[LocalNs] = "absent" => res[LocalNs] = "absent" \/ LocalNs \in missed'
    BY <2>1, LookedEffect, Kinds
  <2>3. \A c \in Components \cup {HubNs} : (c \in missed') = (c \in missed)
    BY <2>1, LookedEffect, Kinds DEF HubNs, LocalNs
  <2> QED
    BY <2>1, <2>2, <2>3 DEF Progress
<1>12. CASE \/ AddFinalizer \/ EndDeploy \/ UpdateStatus \/ CallFails \/ Crash \/ Deploy
            \/ RemoveFinalizer \/ deleteMaestroNamespace
  <2>1. pc' \in {"deploy", "status", "idle", "maestroNs"}
    BY <1>12 DEF AddFinalizer, EndDeploy, UpdateStatus, CallFails, Crash, Deploy,
                 RemoveFinalizer, deleteMaestroNamespace
  <2> QED
    BY <2>1 DEF Progress
<1>13. CASE UNCHANGED <<res, pc, todo, again, missed>>
  BY <1>13 DEF Progress
<1>14. ASSUME User \/ TimePasses \/ WatchMCE \/ UNCHANGED vars PROVE Progress'
  BY <1>13, <1>14 DEF User, CreateMCE, DeleteMCE, TimePasses, WatchMCE, passVars, vars
<1>15. ASSUME NEW r \in Cached, Watch(r) PROVE Progress'
  BY <1>13, <1>15 DEF Watch, passVars
<1>16. CASE removePluginFromConsoleResource
  BY <1>16, PluginEffect, Kinds DEF Progress, Plugin
<1>17. CASE FinalizePass
  BY <1>16, <1>3, <1>5, <1>6, <1>7, <1>8, <1>9, <1>10, <1>11, <1>12, <1>17 DEF FinalizePass
<1> QED
  BY <1>1, <1>2, <1>4, <1>12, <1>14, <1>15, <1>17
     DEF Next, Informers, Environment, Operator, Faults

\* FinalizerGuards: resources appear only under the finalizer, and the finalizer
\* goes only when Progress says that they are gone.
LEMMA GuardsStep ==
  ASSUME TypeOK, PassKnows, Progress, FinalizerGuards, [Next]_vars
  PROVE  FinalizerGuards'
<1>0. Guarded \subseteq Resources
  BY Kinds DEF Guarded
<1>1. CASE /\ mce' = mce
           /\ \A r \in Guarded : res[r] = "absent" => res'[r] = "absent"
           /\ \A r \in missed \ missed' : res'[r] = "absent"
  BY <1>1 DEF FinalizerGuards
<1>2. CASE mce' # mce /\ UNCHANGED <<res, missed>>
  <2>1. CASE User
    <3>1. CASE CreateMCE
      BY <1>2, <3>1 DEF CreateMCE, FinalizerGuards
    <3>2. CASE DeleteMCE
      <4>1. mce.finalizer => mce'.phase # "absent" /\ mce'.finalizer
        BY <3>2, MCEFields, MCEObjectType DEF DeleteMCE, TypeOK
      <4> QED
        BY <1>2, <4>1 DEF FinalizerGuards
    <3> QED
      BY <2>1, <3>1, <3>2 DEF User
  <2>2. CASE AddFinalizer
    <3>1. mce' = MCEObject(mce.phase, TRUE, mce.uid) /\ mce.phase = "live"
      BY <1>2, <2>2 DEF AddFinalizer, PassKnows
    <3>2. LET new == MCEObject("live", TRUE, mce.uid) IN new.phase = "live" /\ new.finalizer
      BY MCEFields, MCEObjectType DEF TypeOK
    <3>3. mce'.phase # "absent" /\ mce'.finalizer
      BY <3>1, <3>2
    <3> QED
      BY <3>3 DEF FinalizerGuards
  <2>3. CASE RemoveFinalizer
    BY <1>2, <2>3 DEF RemoveFinalizer, Progress, AfterIECs, GoneOrMissed, FinalizerGuards, Guarded
  <2>4. User \/ AddFinalizer \/ RemoveFinalizer
    <3>1. ~(TimePasses \/ WatchMCE \/ StartPass \/ EndDeploy \/ UpdateStatus \/ Deploy \/ CallFails
            \/ Crash \/ UNCHANGED vars)
      BY <1>2 DEF TimePasses, WatchMCE, StartPass, EndDeploy, UpdateStatus, Deploy, CallFails, Crash, vars
    <3>2. ~\E c \in Components : IECCallFails(c)
      BY <1>2 DEF IECCallFails
    <3>3. ~\E r \in Cached : Watch(r)
      BY <1>2 DEF Watch
    <3>4. ~\E r \in Resources : Provision(r) \/ Reclaim(r) \/ Terminated(r)
      BY <1>2 DEF Provision, Reclaim, Terminated
    <3>5. FinalizePass => RemoveFinalizer
      BY <1>2, FinalizeKeepsMCE
    <3> QED
      BY <3>1, <3>2, <3>3, <3>4, <3>5 DEF Next, Informers, Environment, Operator, Faults
  <2> QED
    BY <2>1, <2>2, <2>3, <2>4
<1>3. ASSUME NEW r \in Resources, Provision(r) \/ Reclaim(r) \/ Terminated(r)
      PROVE  FinalizerGuards'
  <2>1. UNCHANGED <<mce, missed>>
    BY <1>3, EnvironmentEffect
  <2>2. ASSUME NEW s \in Guarded \ missed, res'[s] # "absent" PROVE mce.phase # "absent" /\ mce.finalizer
    <3>1. CASE res[s] # "absent"
      BY <3>1 DEF FinalizerGuards
    <3>2. CASE res[s] = "absent"
      <4>1. res[Owner(r)] = "present"
        BY <1>0, <1>3, <2>2, <3>2, EnvironmentEffect
      <4>2. Owner(r) \in Guarded \ missed
        BY Kinds DEF Owner, Guarded, TypeOK, Cached, HubNs, GlobalSetNs, LocalNs, ManagedCluster, ClusterManager
      <4> QED
        BY <4>1, <4>2 DEF FinalizerGuards
    <3> QED
      BY <3>1, <3>2
  <2> QED
    BY <2>1, <2>2 DEF FinalizerGuards
<1>4. CASE Deploy
  <2>1. mce.phase # "absent" /\ mce.finalizer /\ UNCHANGED mce
    BY <1>4 DEF Deploy, PassKnows
  <2> QED
    BY <2>1 DEF FinalizerGuards
<1>5. CASE FinalizePass
  <2>1. ASSUME NEW c \in Components, ensureNoAllInternalEngineComponents(c) PROVE FinalizerGuards'
    <3>1. UNCHANGED mce /\ ensureNoInternalEngineComponent(c) /\ Looked(c)
      BY <2>1 DEF ensureNoAllInternalEngineComponents
    <3>2. \A r \in missed \ missed' : r = c /\ res'[r] = "absent"
      BY <3>1, Kinds, NoIECEffect, LookedEffect
    <3> QED
      BY <1>0, <1>1, <3>1, <3>2, NoIECEffect
  <2>2. CASE FinalizeGlobalSetNs
    <3>1. UNCHANGED <<mce, missed>> /\ (UNCHANGED res \/ Doom(GlobalSetNs))
      BY <2>2 DEF FinalizeGlobalSetNs
    <3> QED
      BY <1>0, <1>1, <3>1, DoomEffect, Kinds
  <2>3. ASSUME NEW r \in Resources, Doom(r), UNCHANGED <<mce, missed>> PROVE FinalizerGuards'
    BY <1>0, <1>1, <2>3, DoomEffect
  <2>4. CASE removePluginFromConsoleResource
    BY <1>0, <1>1, <2>4, PluginEffect
  <2>5. ASSUME NEW r \in Cached, Looked(r), UNCHANGED <<res, mce>> PROVE FinalizerGuards'
    <3>1. \A s \in missed \ missed' : res'[s] = "absent"
      BY <2>5, LookedEffect
    <3> QED
      BY <1>1, <2>5, <3>1
  <2> QED
    BY <1>1, <1>2, <1>5, <2>1, <2>2, <2>3, <2>4, <2>5, FinalizeCases
<1>6. UNCHANGED <<res, missed>> => FinalizerGuards'
  BY <1>1, <1>2
<1>7. CASE User \/ TimePasses \/ WatchMCE \/ StartPass \/ AddFinalizer \/ EndDeploy \/ UpdateStatus
           \/ CallFails \/ Crash \/ UNCHANGED vars
  BY <1>6, <1>7 DEF User, CreateMCE, DeleteMCE, TimePasses, WatchMCE, StartPass, AddFinalizer,
                    EndDeploy, UpdateStatus, CallFails, Crash, vars
<1>8. ASSUME NEW c \in Components, IECCallFails(c) PROVE FinalizerGuards'
  BY <1>6, <1>8 DEF IECCallFails
<1>9. ASSUME NEW r \in Cached, Watch(r) PROVE FinalizerGuards'
  BY <1>6, <1>9 DEF Watch
<1> QED
  BY <1>3, <1>4, <1>5, <1>7, <1>8, <1>9 DEF Next, Informers, Environment, Operator, Faults

\* IInv holds initially and is kept by every step.
LEMMA Inductive == Spec => [](TypeOK /\ IInv)
<1>1. Init => IInv
  <2> SUFFICES ASSUME Init PROVE IInv
    OBVIOUS
  <2>1. Views
    <3>1. mce.phase = "absent" /\ mce.finalizer = FALSE /\ mce.uid = 0 /\ mceCache = mce /\ snap = mce
      BY NoMCEType, Bounds DEF Init
    <3> QED
      BY <3>1 DEF Views, WellFormed, NoLaterThan, Age
  <2>2. PassKnows /\ Progress
    BY DEF Init, PassKnows, Progress, AfterIECs, Finalizing
  <2>3. \A r \in Guarded : r \in Resources /\ r \notin Leftovers
    BY Kinds, Bounds DEF Guarded, Plugin, Addon, ManagedCluster, ClusterManager, HubNs, LocalNs, MaestroNs, MCKind, Hub
  <2>4. FinalizerGuards
    BY <2>3 DEF Init, FinalizerGuards
  <2> QED
    BY <2>1, <2>2, <2>4 DEF IInv
<1>2. TypeOK /\ IInv /\ [Next]_vars => IInv'
  BY ViewsStep, PassKnowsStep, ProgressStep, GuardsStep DEF IInv
<1>3. Spec => []TypeOK
  BY TypeCorrect
<1> QED
  BY <1>1, <1>2, <1>3, PTL DEF Spec

\* Nothing an MCE brought about outlives its finalizer unless a finalizing pass
\* looked it up in a cache its creation had not reached: for every set of components
\* and footprint, every interleaving of user, informers and owning controllers, and
\* any number of failed calls, crashes and reinstallations (the finalizer handling of
\* Reconcile with the early returns of finalizeBackplaneConfig).
THEOREM FinalizerGuarded == Spec => []FinalizerGuards
<1>1. IInv => FinalizerGuards
  BY DEF IInv
<1> QED
  BY <1>1, Inductive, PTL

\* A finalizing pass deletes the ManagedCluster only once the addon is gone and every
\* IEC is gone or was hidden by the cache, and the ClusterManager only once the
\* ManagedCluster is gone too (the order of finalizeBackplaneConfig).
THEOREM TeardownOrdered == Spec => TeardownInOrder
<1> DEFINE InOrder ==
      \A r \in {ManagedCluster, ClusterManager} :
        pc \in Finalizing /\ res[r] = "present" /\ res'[r] = "terminating"
          => \A s \in (Components \cup {Addon, ManagedCluster}) \ {r} :
               res[s] = "absent" \/ s \in missed
<1>1. TypeOK /\ IInv /\ [Next]_vars => [InOrder]_vars
  <2> SUFFICES ASSUME TypeOK, IInv, Next, NEW r \in {ManagedCluster, ClusterManager},
                      pc \in Finalizing, res[r] = "present", res'[r] = "terminating"
               PROVE  \A s \in (Components \cup {Addon, ManagedCluster}) \ {r} :
                        res[s] = "absent" \/ s \in missed
    OBVIOUS
  <2>0. r \in Resources /\ r \notin Components /\ r \notin ByOwners
        /\ r # Plugin /\ r # Addon /\ r # MaestroNs
    BY Kinds DEF Plugin, ManagedCluster, ClusterManager, HubNs, GlobalSetNs, LocalNs, Addon, MaestroNs, MCKind, ByOwners
  <2>1. \/ r = ManagedCluster /\ pc = "managedCluster"
        \/ r = ClusterManager /\ pc = "clusterManager"
    <3>1. ASSUME User \/ TimePasses \/ WatchMCE \/ StartPass \/ AddFinalizer \/ EndDeploy
                 \/ UpdateStatus \/ CallFails \/ Crash \/ Deploy
          PROVE  FALSE
      BY <3>1 DEF User, CreateMCE, DeleteMCE, TimePasses, WatchMCE, StartPass, AddFinalizer,
                  EndDeploy, UpdateStatus, CallFails, Crash, Deploy, Finalizing
    <3>2. ~\E c \in Components : IECCallFails(c)
      BY DEF IECCallFails
    <3>3. ~\E s \in Cached : Watch(s)
      BY DEF Watch
    <3>4. ~\E s \in Resources : Provision(s) \/ Reclaim(s) \/ Terminated(s)
      BY <2>0, EnvironmentEffect, Kinds
    <3>5. FinalizePass
      BY <3>1, <3>2, <3>3, <3>4 DEF Next, Informers, Environment, Operator, Faults
    <3>6. ~\E c \in Components : ensureNoAllInternalEngineComponents(c)
      BY <2>0, NoIECEffect DEF ensureNoAllInternalEngineComponents
    <3>7. ~(IECsFinalized \/ AwaitHubNs \/ AwaitLocalNs \/ RemoveFinalizer)
      BY DEF IECsFinalized, AwaitHubNs, AwaitLocalNs, RemoveFinalizer
    <3>8. ~FinalizeGlobalSetNs /\ ~deleteMaestroNamespace /\ ~removePluginFromConsoleResource
      BY <2>0, DoomEffect, PluginEffect, Kinds DEF FinalizeGlobalSetNs, deleteMaestroNamespace
    <3>9. ~FinalizeAddon
      BY <2>0, DoomEffect, Kinds DEF FinalizeAddon, Finalize
    <3>10. FinalizeManagedCluster => r = ManagedCluster /\ pc = "managedCluster"
      BY <2>0, DoomEffect, Kinds DEF FinalizeManagedCluster, ManagedClusterKindUnknown, Finalize
    <3>11. FinalizeClusterManager => r = ClusterManager /\ pc = "clusterManager"
      BY <2>0, DoomEffect, Kinds DEF FinalizeClusterManager, Finalize
    <3> QED
      BY <3>5, <3>6, <3>7, <3>8, <3>9, <3>10, <3>11 DEF FinalizePass
  <2> QED
    BY <2>1 DEF IInv, Progress, AfterIECs, GoneOrMissed
<1> QED
  BY <1>1, Inductive, PTL DEF Spec, TeardownInOrder

=============================================================================
