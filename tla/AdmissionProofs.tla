-------------------------- MODULE AdmissionProofs --------------------------
(***************************************************************************)
(* The safety properties of Admission, for any names and requests and any  *)
(* number of edits, faults and changes of the webhook's registration.      *)
(***************************************************************************)
EXTENDS Admission, TLAPS

(* MCEs *)

LEMMA NoMCEType ==
  /\ NoMCE \in MCE /\ NoMCE.phase = "absent" /\ NoMCE.finalizer = FALSE
  /\ validateComponentExclusivity(NoMCE)
<1>1. AnyName \in Names
  BY AdmissionAssumption DEF AnyName
<1>2. Unset \in [Components -> Settings]
  BY DEF Unset, Settings
<1>3. validateComponentExclusivity(NoMCE)
  BY DEF NoMCE, validateComponentExclusivity, EnabledOf, Enabled, Unset, Components,
         hypershiftComponents, clusterAPIComponents
<1> QED
  BY <1>1, <1>2, <1>3 DEF NoMCE, MCE

LEMMA EarlierType ==
  /\ FromEarlierRelease \in MCE
  /\ FromEarlierRelease.phase = "live" /\ FromEarlierRelease.finalizer = TRUE
  /\ validateComponentExclusivity(FromEarlierRelease)
<1>1. AnyName \in Names
  BY AdmissionAssumption DEF AnyName
<1>2. FromEarlierRelease.comps \in [Components -> Settings]
  BY DEF FromEarlierRelease, Settings
<1>3. \A c \in clusterAPIComponents : FromEarlierRelease.comps[c] # "on"
  BY DEF FromEarlierRelease, Components, hypershiftComponents, clusterAPIComponents,
         onComponents, offComponents
<1>4. validateComponentExclusivity(FromEarlierRelease)
  BY <1>3 DEF validateComponentExclusivity, EnabledOf, Enabled
<1> QED
  BY <1>1, <1>2, <1>4 DEF FromEarlierRelease, MCE

\* Defaults are of their type and touch neither the phase nor the finalizer.
LEMMA DefaultedType ==
  ASSUME NEW m \in MCE
  PROVE  Defaulted(m) \in MCE /\ Defaulted(m).phase = m.phase /\ Defaulted(m).finalizer = m.finalizer
<1>1. SetDefaultComponents(m) \in [Components -> Settings]
  BY DEF SetDefaultComponents, MCE, Settings, ComponentPresent
<1>2. Defaulted(m).comps \in [Components -> Settings]
  BY <1>1 DEF Defaulted, Settings, MCE
<1> QED
  BY <1>1, <1>2 DEF Defaulted, MCE
-----------------------------------------------------------------------------
(* What the steps do to the MCE *)

\* A write that keeps the phase and the finalizer.
Edited == mce' \in MCE /\ mce'.phase = mce.phase /\ mce'.finalizer = mce.finalizer

LEMMA LastUpdateEdits ==
  ASSUME TypeOK, NEW new \in MCE, new.phase = snap.phase, new.finalizer = snap.finalizer,
         LastUpdate(new)
  PROVE  Edited
  BY DEF LastUpdate, Accepted, Edited, TypeOK

LEMMA MaestroEdits ==
  ASSUME TypeOK, DisableMaestro
  PROVE  Edited
<1> DEFINE new == [snap EXCEPT !.comps["Maestro"] = "off"]
<1>1. new \in MCE /\ new.phase = snap.phase /\ new.finalizer = snap.finalizer
  BY DEF TypeOK, MCE, Settings
<1>2. LastUpdate(new)
  BY DEF DisableMaestro
<1> QED
  BY <1>1, <1>2, LastUpdateEdits

LEMMA DefaultsEdit ==
  ASSUME TypeOK, setDefaults
  PROVE  Edited
<1>1. CASE LastUpdate(Defaulted(snap))
  BY <1>1, DefaultedType, LastUpdateEdits DEF TypeOK
<1>2. CASE UNCHANGED mce
  BY <1>2 DEF Edited, TypeOK
<1> QED
  BY <1>1, <1>2 DEF setDefaults

LEMMA UserEdits ==
  ASSUME TypeOK, UpdateMCE
  PROVE  Edited
<1>1. PICK new \in {[mce EXCEPT !.comps[c] = v] : c \in Editable, v \in {"on", "off"}}
                     \cup {[mce EXCEPT !.name = n] : n \in Names} : mce' = new
  BY DEF UpdateMCE
<1>2. new \in MCE /\ new.phase = mce.phase /\ new.finalizer = mce.finalizer
  BY AdmissionAssumption DEF TypeOK, MCE, Settings
<1> QED
  BY <1>1, <1>2 DEF Edited

LEMMA CreateMakes ==
  ASSUME TypeOK, CreateMCE
  PROVE  /\ mce.phase = "absent"
         /\ mce' \in MCE /\ mce'.phase = "live" /\ mce'.finalizer = FALSE
         /\ hook = "ours" => validateComponentExclusivity(mce')
<1>1. PICK r \in Requests :
        /\ mce' = [NoMCE EXCEPT !.phase = "live", !.comps = r]
        /\ Admits(ValidateCreate([NoMCE EXCEPT !.phase = "live", !.comps = r]))
  BY DEF CreateMCE
<1>2. [NoMCE EXCEPT !.phase = "live", !.comps = r] \in MCE
  BY AdmissionAssumption, NoMCEType DEF MCE
<1>3. mce'.phase = "live" /\ mce'.finalizer = FALSE
  BY <1>1, NoMCEType DEF MCE
<1> QED
  BY <1>1, <1>2, <1>3 DEF CreateMCE, Admits, ValidateCreate

LEMMA DeleteMarks ==
  ASSUME TypeOK, DeleteMCE
  PROVE  /\ mce.phase = "live" /\ mce' \in MCE
         /\ \/ mce.finalizer = TRUE /\ mce'.phase = "deleting" /\ mce'.finalizer = TRUE
               /\ mce'.comps = mce.comps
            \/ mce.finalizer = FALSE /\ mce' = NoMCE
<1>1. mce.finalizer \in BOOLEAN
  BY DEF TypeOK, MCE
<1>2. [mce EXCEPT !.phase = "deleting"] \in MCE
  BY DEF TypeOK, MCE
<1> QED
  BY <1>1, <1>2, NoMCEType DEF DeleteMCE, TypeOK, MCE

\* The finalizer is stored and the pass goes on, or the pass ends.
LEMMA FinalizerAdded ==
  ASSUME TypeOK, AddFinalizer
  PROVE  \/ /\ mce = snap /\ mce' \in MCE /\ snap' = mce' /\ pc' = "defaults"
            /\ mce'.phase = mce.phase /\ mce'.finalizer = TRUE /\ mce'.comps = mce.comps
         \/ EndPass /\ UNCHANGED mce
<1>1. [snap EXCEPT !.finalizer = TRUE] \in MCE
  BY DEF TypeOK, MCE
<1> QED
  BY <1>1 DEF AddFinalizer, Accepted, TypeOK, MCE

\* Only a finalizing pass whose MCE is the stored one lets it go.
LEMMA FinalizerRemoved ==
  ASSUME RemoveFinalizer
  PROVE  (mce = snap /\ mce' = NoMCE) \/ UNCHANGED mce
  BY DEF RemoveFinalizer, Accepted

\* The steps in groups: requests of users, ...
Requested == CreateMCE \/ UpdateMCE \/ DeleteMCE

\* ... the operator's own Updates ...
Updated == DisableMaestro \/ RemoveFinalizer \/ AddFinalizer \/ setDefaults

\* ... and what leaves the MCE alone.
Beside ==
  \/ MakeConfig \/ DeleteConfigs \/ Tamper \/ WatchMCE \/ InstallKind \/ ReconcileWebhook
  \/ StartPass \/ Finalize \/ DeployHub \/ EnsureLocalCluster \/ CallFails \/ Restart
  \/ UNCHANGED vars

LEMMA Groups == [Next]_vars => Requested \/ Updated \/ Beside
  BY DEF Next, Reconcile, Requested, Updated, Beside

LEMMA RequestedKeeps ==
  ASSUME Requested
  PROVE  /\ edits < MaxEdits /\ edits' = edits + 1
         /\ UNCHANGED <<cache, cluster, pc, snap, made, tampers, faults>>
<1>1. CASE CreateMCE
  BY <1>1 DEF CreateMCE
<1>2. CASE UpdateMCE
  BY <1>2 DEF UpdateMCE
<1>3. CASE DeleteMCE
  BY <1>3 DEF DeleteMCE
<1> QED
  BY <1>1, <1>2, <1>3 DEF Requested

LEMMA UpdatedKeeps ==
  ASSUME TypeOK, Updated
  PROVE  /\ UNCHANGED <<cache, cluster, counters>>
         /\ \/ EndPass
            \/ setDefaults /\ pc' = "hub" /\ UNCHANGED <<mce, snap>>
            \/ AddFinalizer /\ pc' = "defaults" /\ snap' = mce'
<1>1. CASE AddFinalizer
  BY <1>1, FinalizerAdded DEF AddFinalizer
<1> QED
  BY <1>1 DEF Updated, DisableMaestro, RemoveFinalizer, setDefaults, LastUpdate

LEMMA BesideKeeps ==
  ASSUME Beside
  PROVE  UNCHANGED <<mce, edits>>
  BY DEF Beside, MakeConfig, DeleteConfigs, Tamper, WatchMCE, InstallKind, ReconcileWebhook,
         StartPass, Finalize, DeployHub, EnsureLocalCluster, CallFails, Restart, vars, counters
-----------------------------------------------------------------------------
(* Type correctness *)

LEMMA TypeInit ==
  ASSUME Init
  PROVE  TypeOK
<1>1. mce \in MCE /\ cache \in MCE /\ snap \in MCE /\ clusters \subseteq Names
  BY NoMCEType, EarlierType, AdmissionAssumption DEF Init, AnyName
<1>2. 0 \in 0..MaxEdits /\ 0 \in 0..MaxConfigs /\ 0 \in 0..MaxTampers /\ 0 \in 0..MaxFaults
  BY AdmissionAssumption
<1> QED
  BY <1>1, <1>2 DEF Init, TypeOK, Steps

\* The steps that write the MCE.
LEMMA MCEType ==
  ASSUME TypeOK, [Next]_vars
  PROVE  mce' \in MCE
<1>1. CASE Edited
  BY <1>1 DEF Edited
<1>2. CASE Beside
  BY <1>2, BesideKeeps DEF TypeOK
<1>3. CASE AddFinalizer
  BY <1>3, FinalizerAdded DEF TypeOK
<1>4. CASE RemoveFinalizer
  BY <1>4, FinalizerRemoved, NoMCEType DEF TypeOK
<1> QED
  BY <1>1, <1>2, <1>3, <1>4, Groups, MaestroEdits, DefaultsEdit, UserEdits, CreateMakes, DeleteMarks
     DEF Requested, Updated

\* Where the copies of the MCE come from.
LEMMA Copies ==
  ASSUME TypeOK, [Next]_vars
  PROVE  /\ cache' = cache \/ cache' = mce'
         /\ snap' = snap \/ snap' = NoMCE \/ snap' = cache \/ snap' = mce'
<1>1. CASE Requested
  BY <1>1, RequestedKeeps
<1>2. CASE Updated
  BY <1>2, UpdatedKeeps DEF EndPass
<1>3. CASE Beside
  BY <1>3
     DEF Beside, MakeConfig, DeleteConfigs, Tamper, WatchMCE, InstallKind, ReconcileWebhook,
         StartPass, Finalize, DeployHub, EnsureLocalCluster, CallFails, Restart, vars, EndPass
<1> QED
  BY <1>1, <1>2, <1>3, Groups

\* The rest of the state.
RestOK ==
  /\ openShift \in BOOLEAN
  /\ hook \in {"ours", "open", "closed", "gone"}
  /\ configs \in BOOLEAN /\ hub \in BOOLEAN /\ kind \in BOOLEAN
  /\ clusters \subseteq Names
  /\ pc \in Steps
  /\ edits \in 0..MaxEdits /\ made \in 0..MaxConfigs
  /\ tampers \in 0..MaxTampers /\ faults \in 0..MaxFaults

LEMMA RestType ==
  ASSUME TypeOK, [Next]_vars
  PROVE  RestOK'
<1>1. RestOK /\ snap.name \in Names
  BY DEF TypeOK, RestOK, MCE
<1>2. CASE Requested
  <2>1. edits' \in 0..MaxEdits
    BY <1>1, <1>2, RequestedKeeps, AdmissionAssumption DEF RestOK
  <2> QED
    BY <1>1, <1>2, <2>1, RequestedKeeps DEF RestOK, cluster
<1>3. CASE Updated
  BY <1>1, <1>3, UpdatedKeeps DEF RestOK, EndPass, Steps, cluster, counters
<1>4. CASE MakeConfig \/ Tamper \/ CallFails \/ Restart
  <2>1. made' \in 0..MaxConfigs /\ tampers' \in 0..MaxTampers /\ faults' \in 0..MaxFaults
    BY <1>1, <1>4, AdmissionAssumption
       DEF RestOK, MakeConfig, Tamper, CallFails, Restart, Fault, cluster, counters
  <2> QED
    BY <1>1, <1>4, <2>1
       DEF RestOK, MakeConfig, Tamper, CallFails, Restart, EndPass, Steps, cluster, counters
<1>5. CASE Finalize \/ EnsureLocalCluster
  <2>1. clusters' \subseteq Names
    BY <1>1, <1>5 DEF RestOK, Finalize, EnsureLocalCluster
  <2> QED
    BY <1>1, <1>5, <2>1
       DEF RestOK, Finalize, EnsureLocalCluster, EndPass, Steps, cluster, counters
<1>6. CASE \/ DeleteConfigs \/ WatchMCE \/ InstallKind \/ ReconcileWebhook
           \/ StartPass \/ DeployHub \/ UNCHANGED vars
  BY <1>1, <1>6
     DEF RestOK, DeleteConfigs, WatchMCE, InstallKind, ReconcileWebhook, StartPass, DeployHub,
         Steps, vars, cluster, counters
<1> QED
  BY <1>2, <1>3, <1>4, <1>5, <1>6, Groups DEF Beside

LEMMA TypeStep ==
  ASSUME TypeOK, [Next]_vars
  PROVE  TypeOK'
<1>1. mce' \in MCE
  BY MCEType
<1>2. cache' \in MCE /\ snap' \in MCE
  BY <1>1, Copies, NoMCEType DEF TypeOK
<1> QED
  BY <1>1, <1>2, RestType DEF TypeOK, RestOK

\* Whatever is requested, refused, tampered with or restarted, the stored MCE, the informer's
\* copy and the one a pass works on stay well-formed: defaulting (setDefaults) and pruning
\* leave no component in a state the type does not have.
THEOREM TypeCorrect == Spec => []TypeOK
  BY TypeInit, TypeStep, PTL DEF Spec
-----------------------------------------------------------------------------
(* Nothing is installed without the finalizer *)

\* An MCE that is gone has no finalizer, one that is being deleted still has it.
Stored ==
  /\ mce.phase = "absent" => mce.finalizer = FALSE
  /\ mce.phase = "deleting" => mce.finalizer = TRUE

\* An informer that is late: an MCE it shows as live with its finalizer still has it, since
\* the finalizer goes only after the informer has shown the deletion ...
LateLive == cache.phase = "live" /\ cache.finalizer = TRUE => mce.finalizer = TRUE

\* ... and one it shows as being deleted is still that, or a new one no pass has seen.
LateDeleting == cache.phase = "deleting" => mce.phase = "deleting" \/ mce.finalizer = FALSE

\* The pass that is about to add the finalizer is the only one that could.
PassAdds ==
  pc = "finalizer" => /\ snap.phase = "live" /\ snap.finalizer = FALSE
                      /\ cache.phase = "deleting" => mce.phase = "deleting"

\* A finalizing pass: the informer has shown the deletion, or the MCE is a new one.
PassFinalizes ==
  pc \in {"finalize", "release"} =>
    /\ snap.phase = "deleting" /\ snap.finalizer = TRUE
    /\ (mce.phase = "deleting" /\ cache.phase = "deleting") \/ mce.finalizer = FALSE

PassInstalls == pc \in {"defaults", "hub", "cluster"} => mce.finalizer = TRUE

GuardInv == Stored /\ LateLive /\ LateDeleting /\ PassAdds /\ PassFinalizes /\ PassInstalls

LEMMA GuardInit ==
  ASSUME Init
  PROVE  GuardInv
  BY NoMCEType, EarlierType
     DEF Init, GuardInv, Stored, LateLive, LateDeleting, PassAdds, PassFinalizes, PassInstalls

LEMMA GuardRequested ==
  ASSUME TypeOK, GuardInv, Requested
  PROVE  GuardInv'
<1> USE DEF GuardInv, Stored, LateLive, LateDeleting, PassAdds, PassFinalizes, PassInstalls
<1>1. UNCHANGED <<cache, pc, snap>>
  BY RequestedKeeps
<1>2. mce.finalizer \in BOOLEAN
  BY DEF TypeOK, MCE
<1>3. CASE CreateMCE
  BY <1>1, <1>2, <1>3, CreateMakes
<1>4. CASE UpdateMCE
  BY <1>1, <1>4, UserEdits DEF Edited
<1>5. CASE DeleteMCE
  BY <1>1, <1>5, DeleteMarks, NoMCEType
<1> QED
  BY <1>3, <1>4, <1>5 DEF Requested

LEMMA GuardUpdated ==
  ASSUME TypeOK, GuardInv, Updated
  PROVE  GuardInv'
<1> USE DEF GuardInv, Stored, LateLive, LateDeleting, PassAdds, PassFinalizes, PassInstalls
<1>1. UNCHANGED cache
  BY UpdatedKeeps
<1>2. CASE Edited /\ EndPass
  BY <1>1, <1>2 DEF Edited, EndPass
<1>3. CASE setDefaults /\ pc' = "hub" /\ UNCHANGED <<mce, snap>>
  BY <1>1, <1>3 DEF setDefaults
<1>4. CASE AddFinalizer
  <2>1. CASE EndPass /\ UNCHANGED mce
    BY <1>1, <2>1 DEF EndPass
  <2>2. CASE /\ mce = snap /\ pc' = "defaults"
             /\ mce'.phase = mce.phase /\ mce'.finalizer = TRUE
    <3>1. pc = "finalizer"
      BY <1>4 DEF AddFinalizer
    <3> QED
      BY <1>1, <2>2, <3>1
  <2> QED
    BY <1>4, <2>1, <2>2, FinalizerAdded
<1>5. CASE RemoveFinalizer
  <2>1. pc = "release" /\ EndPass
    BY <1>5 DEF RemoveFinalizer
  <2>2. CASE UNCHANGED mce
    BY <1>1, <2>1, <2>2 DEF EndPass
  <2>3. CASE mce = snap /\ mce' = NoMCE
    BY <1>1, <2>1, <2>3, NoMCEType DEF EndPass
  <2> QED
    BY <1>5, <2>2, <2>3, FinalizerRemoved
<1>6. CASE DisableMaestro
  BY <1>2, <1>6, MaestroEdits DEF DisableMaestro, LastUpdate
<1>7. CASE setDefaults
  BY <1>2, <1>3, <1>7, DefaultsEdit DEF setDefaults, LastUpdate
<1> QED
  BY <1>4, <1>5, <1>6, <1>7 DEF Updated

LEMMA GuardBeside ==
  ASSUME TypeOK, GuardInv, Beside
  PROVE  GuardInv'
<1> USE DEF GuardInv, Stored, LateLive, LateDeleting, PassAdds, PassFinalizes, PassInstalls
<1>1. UNCHANGED mce
  BY BesideKeeps
<1>2. /\ cache.finalizer \in BOOLEAN /\ mce.finalizer \in BOOLEAN
      /\ cache.phase \in {"absent", "live", "deleting"}
  BY DEF TypeOK, MCE
<1>3. CASE UNCHANGED <<cache, pc, snap>>
  BY <1>1, <1>3
<1>4. CASE WatchMCE
  BY <1>1, <1>4 DEF WatchMCE
<1>5. CASE StartPass
  BY <1>1, <1>2, <1>5 DEF StartPass
<1>6. CASE pc' = "idle" /\ (UNCHANGED cache \/ cache' = mce)
  BY <1>1, <1>6
<1>7. CASE Finalize \/ DeployHub
  BY <1>1, <1>6, <1>7 DEF Finalize, DeployHub, EndPass
<1> QED
  BY <1>3, <1>4, <1>5, <1>6, <1>7
     DEF Beside, MakeConfig, DeleteConfigs, Tamper, InstallKind, ReconcileWebhook,
         EnsureLocalCluster, CallFails, Restart, EndPass, vars

\* A pass deploys the hub and the local cluster only while the stored MCE has the finalizer
\* (Reconcile adds it by an Update of its own and returns when that is refused), whatever the
\* webhook refuses, however late the informer is, and also when the webhook's registration is
\* gone and an MCE is created while the informer still shows the last one.
THEOREM FinalizerFirst == Spec => []InstallsGuarded
<1>1. Init => TypeOK /\ GuardInv
  BY TypeInit, GuardInit
<1>2. TypeOK /\ GuardInv /\ [Next]_vars => (TypeOK /\ GuardInv)'
  BY TypeStep, Groups, GuardRequested, GuardUpdated, GuardBeside
<1>3. GuardInv => InstallsGuarded
  BY DEF GuardInv, PassInstalls, InstallsGuarded
<1> QED
  BY <1>1, <1>2, <1>3, PTL DEF Spec
-----------------------------------------------------------------------------
(* The exclusive families *)

\* Nobody but a user takes the registration away.
Registered == tampers = 0 => hook = "ours"

LEMMA RegisteredStep ==
  ASSUME TypeOK, Registered, [Next]_vars
  PROVE  Registered'
<1>1. CASE Requested \/ Updated
  BY <1>1, RequestedKeeps, UpdatedKeeps DEF Registered, cluster, counters
<1>2. CASE Tamper
  <2>1. tampers' # 0
    BY <1>2 DEF Tamper, TypeOK
  <2> QED
    BY <2>1 DEF Registered
<1>3. CASE Beside /\ ~Tamper
  BY <1>3
     DEF Registered, Beside, MakeConfig, DeleteConfigs, WatchMCE, InstallKind, ReconcileWebhook,
         StartPass, Finalize, DeployHub, EnsureLocalCluster, CallFails, Restart, vars, cluster,
         counters
<1> QED
  BY <1>1, <1>2, <1>3, Groups

\* What an Update may store.
LEMMA StoresExclusive ==
  ASSUME TypeOK, hook = "ours", validateComponentExclusivity(mce), [Next]_vars
  PROVE  validateComponentExclusivity(mce)'
<1>1. CASE UNCHANGED mce
  BY <1>1 DEF validateComponentExclusivity, EnabledOf, Enabled
<1>2. CASE mce' = NoMCE
  BY <1>2, NoMCEType DEF validateComponentExclusivity, EnabledOf, Enabled
<1>3. CASE mce'.comps = mce.comps
  BY <1>3 DEF validateComponentExclusivity, EnabledOf, Enabled
<1>4. ASSUME NEW new, mce' = new, ValidateUpdate(mce, new)
      PROVE  validateComponentExclusivity(mce)'
  BY <1>4 DEF ValidateUpdate, validateComponentExclusivity, Enabled
<1>5. ASSUME NEW new, LastUpdate(new)
      PROVE  validateComponentExclusivity(mce)'
  BY <1>1, <1>4, <1>5 DEF LastUpdate, Accepted, Admits
<1>6. CASE CreateMCE
  BY <1>6, CreateMakes DEF validateComponentExclusivity, Enabled
<1>7. CASE UpdateMCE
  <2>1. PICK new : mce' = new /\ Admits(ValidateUpdate(mce, new))
    BY <1>7 DEF UpdateMCE
  <2> QED
    BY <1>4, <2>1 DEF Admits
<1>8. CASE DeleteMCE
  BY <1>2, <1>3, <1>8, DeleteMarks
<1>9. CASE Updated
  BY <1>1, <1>2, <1>3, <1>5, <1>9, FinalizerAdded, FinalizerRemoved
     DEF Updated, DisableMaestro, setDefaults
<1> QED
  BY <1>1, <1>6, <1>7, <1>8, <1>9, Groups, BesideKeeps DEF Requested

LEMMA ExclusiveStep ==
  ASSUME TypeOK, Registered, FamiliesExclusive, [Next]_vars
  PROVE  FamiliesExclusive'
<1>1. tampers' = 0 => tampers = 0
  BY RequestedKeeps, UpdatedKeeps, Groups
     DEF TypeOK, Beside, Tamper, MakeConfig, DeleteConfigs, WatchMCE, InstallKind,
         ReconcileWebhook, StartPass, Finalize, DeployHub, EnsureLocalCluster, CallFails, Restart,
         vars, cluster, counters
<1>2. SUFFICES ASSUME tampers' = 0
               PROVE  \A m \in {mce', cache', snap'} : validateComponentExclusivity(m)
  BY DEF FamiliesExclusive, validateComponentExclusivity, Enabled
<1>3. /\ hook = "ours" /\ validateComponentExclusivity(mce)
      /\ validateComponentExclusivity(cache) /\ validateComponentExclusivity(snap)
  BY <1>1, <1>2 DEF Registered, FamiliesExclusive
<1>4. validateComponentExclusivity(mce')
  BY <1>3, StoresExclusive DEF validateComponentExclusivity, Enabled
<1> QED
  BY <1>3, <1>4, Copies, NoMCEType DEF validateComponentExclusivity, Enabled

\* While nobody changes the webhook's registration, HyperShift and Cluster API are never on
\* together in a stored MCE or in one a pass works on: the Updates by which setDefaults turns
\* on defaults and the successors of previews are validated (ValidateUpdate) like a user's.
THEOREM FamiliesApart == Spec => []FamiliesExclusive
<1>1. Init => TypeOK /\ Registered /\ FamiliesExclusive
  <2>1. Init => Registered /\ FamiliesExclusive
    BY NoMCEType, EarlierType DEF Init, Registered, FamiliesExclusive
  <2> QED
    BY <2>1, TypeInit
<1>2. TypeOK /\ Registered /\ FamiliesExclusive /\ [Next]_vars
        => (TypeOK /\ Registered /\ FamiliesExclusive)'
  BY TypeStep, RegisteredStep, ExclusiveStep
<1> QED
  BY <1>1, <1>2, PTL DEF Spec
=============================================================================
