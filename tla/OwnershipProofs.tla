-------------------------- MODULE OwnershipProofs --------------------------
(***************************************************************************)
(* Ownership implements Custody, and what was edited by others survives,   *)
(* for any resources, any order of a pass and any number of faults, edits  *)
(* and steps of others.                                                    *)
(***************************************************************************)
EXTENDS Ownership, SequenceTheorems, TLAPS

\* The stage a pass is at.
LEMMA StageType ==
  ASSUME TypeOK, pos # 0
  PROVE  /\ pos \in 1..Len(order)
         /\ order[pos] \in [how : Hows, obj : Objects]
         /\ How \in Hows /\ Target \in Objects
<1>1. order \in Seq([how : Hows, obj : Objects])
  BY OwnershipAssumption DEF TypeOK
<1>2. pos \in 1..Len(order)
  BY <1>1 DEF TypeOK
<1>3. order[pos] \in [how : Hows, obj : Objects]
  BY <1>1, <1>2, ElementOfSeq
<1> QED
  BY <1>2, <1>3 DEF How, Target

\* The resource of a stage is among those handled that way.
LEMMA StageHandled ==
  ASSUME TypeOK, pos # 0
  PROVE  Target \in Handled(How)
<1>1. pos \in 1..Len(order) /\ order[pos] \in [how : Hows, obj : Objects] /\ Target \in Objects
  BY StageType
<1>2. order[pos] = [how |-> How, obj |-> Target]
  BY <1>1 DEF How, Target
<1>3. [how |-> How, obj |-> Target] \in Stages(order)
  BY <1>1, <1>2 DEF Stages
<1>4. order \in Orders
  BY DEF TypeOK
<1> QED
  BY <1>1, <1>3, <1>4 DEF Handled

\* What is looked up in a cache, and what is deleted whoever owns it, are resources.
LEMMA Sets == Cached \subseteq Objects /\ Legacy \subseteq Objects
  BY DEF Cached, Legacy, Handled

\* A handler asks for one of the four calls or for none.
LEMMA HandleType ==
  ASSUME NEW how \in Hows, NEW o, NEW x
  PROVE  Handle(how, o, x) \in {"none", "create", "patch", "delete"}
<1> USE DEF Handle, EnsureDeprecatedResourceCleanup, CleanupVersionedAddOnTemplates,
            ensureComponent, applyTemplate, deleteTemplate, ensureNetworkPolicies,
            createSupport, uninstall
<1>1. CASE how = "deprecated" BY <1>1
<1>2. CASE how = "versioned" BY <1>2
<1>3. CASE how = "template" BY <1>3
<1>4. CASE how = "policy" BY <1>4
<1>5. CASE how = "support" BY <1>5
<1>6. CASE how = "retired" BY <1>6
<1> QED
  BY <1>1, <1>2, <1>3, <1>4, <1>5, <1>6 DEF Hows

\* The mapped licence of Custody.
Licence(x) == x.owner = "me" \/ (x.owner = "none" /\ snap.adoption = "Adopt")

LEMMA OwnershipLicences ==
  ASSUME NEW x, ensureResourceOwnership(x)
  PROVE  Licence(x)
  BY DEF ensureResourceOwnership, getAdoptionPolicy, Licence

\* A handler that patches or deletes what is not a retired resource found a licence for it.
LEMMA HandleLicensed ==
  ASSUME NEW how \in Hows, NEW o, NEW x,
         how \notin {"deprecated", "retired"},
         Handle(how, o, x) \in {"patch", "delete"}
  PROVE  Licence(x)
<1>1. CASE how = "versioned"
  BY <1>1 DEF Handle, CleanupVersionedAddOnTemplates, Licence
<1>2. CASE how = "template"
  <2>1. ensureResourceOwnership(x)
    BY <1>2 DEF Handle, ensureComponent, applyTemplate, deleteTemplate
  <2> QED
    BY <2>1, OwnershipLicences
<1>3. CASE how = "policy"
  BY <1>3 DEF Handle, ensureNetworkPolicies, Licence
<1>4. CASE how = "support"
  BY <1>4 DEF Handle, createSupport
<1> QED
  BY <1>1, <1>2, <1>3, <1>4 DEF Hows
-----------------------------------------------------------------------------
(* Types *)

\* What a resource may become.
LEMMA ResourceType ==
  /\ Absent \in Resources /\ Mine \in Resources
  /\ \A w \in {"none", "other"} : Theirs(w) \in Resources
  /\ \A x \in Resources : /\ [x EXCEPT !.doomed = TRUE] \in Resources
                          /\ [x EXCEPT !.ours = FALSE] \in Resources
                          /\ [Mine EXCEPT !.doomed = x.doomed] \in Resources
  BY DEF Resources, Absent, Mine, Theirs

LEMMA DeletedType ==
  ASSUME TypeOK, NEW o \in Objects
  PROVE  Deleted(o) \in Resources /\ (Deleted(o).owner = "absent" \/ Deleted(o).doomed)
<1>1. obj[o] \in Resources
  BY DEF TypeOK
<1>2. CASE o \in Held
  BY <1>1, <1>2 DEF Deleted, Resources
<1>3. CASE o \notin Held
  BY <1>3, ResourceType DEF Deleted, Absent
<1> QED
  BY <1>2, <1>3

\* How a pass moves on.
LEMMA MovesType ==
  ASSUME TypeOK, pos # 0, order' = order, Advance \/ EndPass
  PROVE  pos' \in 0..Len(order') /\ call' = "get"
<1>1. pos \in 1..Len(order) /\ Len(order) \in Nat
  BY StageType, OwnershipAssumption DEF TypeOK
<1> QED
  BY <1>1 DEF Advance, EndPass

\* The variables keep their types.
LEMMA TypeStep == TypeOK /\ [Next]_vars => TypeOK'
<1> SUFFICES ASSUME TypeOK, [Next]_vars PROVE TypeOK'
  OBVIOUS
<1> USE DEF cluster, counters
<1>0. Len(order) \in Nat /\ Len(order) > 0 /\ MaxForeign \in Nat /\ MaxEdits \in Nat /\ MaxFaults \in Nat
  BY OwnershipAssumption DEF TypeOK
<1>1. CASE Edit
  BY <1>0, <1>1 DEF Edit, TypeOK
<1>2. CASE Namespace
  <2>1. obj' \in [Objects -> Resources]
    BY <1>2, ResourceType DEF Namespace, TypeOK
  <2> QED
    BY <1>0, <1>2, <2>1 DEF Namespace, TypeOK
<1>3. CASE CallFails
  BY <1>0, <1>3 DEF CallFails, EndPass, TypeOK
<1>4. ASSUME NEW o \in Objects, Interfere(o) PROVE TypeOK'
  <2>1. obj[o] \in Resources
    BY DEF TypeOK
  <2>2. \E x \in Resources : obj' = [obj EXCEPT ![o] = x]
    <3>1. CASE \E w \in {"none", "other"} : obj' = [obj EXCEPT ![o] = Theirs(w)]
      BY <3>1, ResourceType
    <3>2. CASE obj' = [obj EXCEPT ![o].ours = FALSE]
      BY <3>2, <2>1, ResourceType
    <3>3. CASE obj' = [obj EXCEPT ![o] = Deleted(o)]
      BY <3>3, DeletedType
    <3> QED
      BY <1>4, <3>1, <3>2, <3>3 DEF Interfere
  <2>3. obj' \in [Objects -> Resources]
    BY <2>2 DEF TypeOK
  <2> QED
    BY <1>0, <1>4, <2>3 DEF Interfere, TypeOK
<1>5. ASSUME NEW o \in Objects, Terminated(o) PROVE TypeOK'
  <2>1. obj' \in [Objects -> Resources]
    BY <1>5, ResourceType DEF Terminated, TypeOK
  <2> QED
    BY <1>5, <2>1 DEF Terminated, TypeOK
<1>6. ASSUME NEW o \in Cached, Watch(o) PROVE TypeOK'
  <2>1. cache' \in [Cached -> Resources]
    BY <1>6, Sets DEF Watch, TypeOK
  <2> QED
    BY <1>6, <2>1 DEF Watch, TypeOK
<1>7. CASE StartPass
  BY <1>0, <1>7 DEF StartPass, TypeOK
<1>8. CASE Get
  <2>1. pos # 0
    BY <1>8 DEF Get, Running
  <2>2. How \in Hows
    BY <2>1, StageType
  <2>3. pos' \in 0..Len(order') /\ call' \in {"get", "create", "patch", "delete"}
    <3>1. CASE Advance
      BY <3>1, <2>1, <1>8, MovesType DEF Get
    <3>2. CASE \E x : call' = Handle(How, Target, x) /\ call' # "none" /\ UNCHANGED pos
      BY <3>2, <2>2, <1>8, HandleType DEF Get, TypeOK
    <3> QED
      BY <1>8, <3>1, <3>2 DEF Get
  <2> QED
    BY <1>8, <2>3 DEF Get, TypeOK
<1>9. ASSUME Create \/ Patch \/ Delete PROVE TypeOK'
  <2>1. pos # 0
    BY <1>9 DEF Create, Patch, Delete, Running
  <2>2. Target \in Objects /\ obj[Target] \in Resources
    BY <2>1, StageType DEF TypeOK
  <2>3. pos' \in 0..Len(order') /\ call' = "get"
    BY <1>9, <2>1, MovesType DEF Create, Patch, Delete
  <2>4. UNCHANGED obj \/ \E x \in Resources : Store(x)
    BY <1>9, <2>2, ResourceType, DeletedType DEF Create, Patch, Delete
  <2>5. obj' \in [Objects -> Resources]
    BY <2>2, <2>4 DEF Store, TypeOK
  <2> QED
    BY <1>9, <2>3, <2>5 DEF Create, Patch, Delete, TypeOK
<1>10. CASE UNCHANGED vars
  BY <1>10 DEF vars, TypeOK
<1> QED
  BY <1>1, <1>2, <1>3, <1>4, <1>5, <1>6, <1>7, <1>8, <1>9, <1>10 DEF Next, Operator

LEMMA TypeInit == Init => TypeOK
<1> SUFFICES ASSUME Init PROVE TypeOK
  OBVIOUS
<1>1. order \in Orders
  BY Zenon DEF Init
<1>2. Len(order) \in Nat
  BY <1>1, OwnershipAssumption
<1>3. obj \in [Objects -> Resources]
  BY ResourceType, Zenon DEF Init
<1>4. cache \in [Cached -> Resources]
  BY <1>3, Sets, Zenon DEF Init
<1>5. PICK a \in {"Strict", "Adopt"} : spec = [enabled |-> TRUE, policies |-> TRUE, adoption |-> a]
  BY Zenon DEF Init
<1>6. spec \in MCESpec
  BY <1>5 DEF MCESpec
<1>7. snap = spec /\ ns = FALSE /\ pos = 0 /\ call = "get" /\ foreign = 0 /\ edits = 0 /\ faults = 0
  BY Zenon DEF Init
<1>8. MaxForeign \in Nat /\ MaxEdits \in Nat /\ MaxFaults \in Nat
  BY OwnershipAssumption, Zenon
<1>9. pos \in 0..Len(order) /\ foreign \in 0..MaxForeign /\ edits \in 0..MaxEdits /\ faults \in 0..MaxFaults
  BY <1>2, <1>7, <1>8
<1> QED
  BY <1>1, <1>3, <1>4, <1>6, <1>7, <1>9, Zenon DEF TypeOK

\* Every reachable state has the types declared: a pass is at a stage of its order and asks
\* for one of the four calls, and every resource is in one of the states of Resources.
THEOREM TypeCorrect == Spec => []TypeOK
<1> QED
  BY TypeInit, TypeStep, PTL DEF Spec

-----------------------------------------------------------------------------
(* Refinement *)

\* A pass begins with a Get: a call is never left over from the pass before, whether that
\* one ended or failed.  Without it a new pass would hold a claim it has not looked for.
Idle == pos = 0 => call = "get"

LEMMA IdleStep ==
  ASSUME TypeOK, Idle, [Next]_vars
  PROVE  Idle'
<1> USE DEF Idle
<1>1. CASE Edit BY <1>1 DEF Edit
<1>2. CASE Namespace BY <1>2 DEF Namespace
<1>3. CASE CallFails BY <1>3 DEF CallFails, EndPass
<1>4. ASSUME NEW o, Interfere(o) PROVE Idle' BY <1>4 DEF Interfere
<1>5. ASSUME NEW o, Terminated(o) PROVE Idle' BY <1>5 DEF Terminated
<1>6. ASSUME NEW o, Watch(o) PROVE Idle' BY <1>6 DEF Watch
<1>7. CASE StartPass BY <1>7 DEF StartPass
<1>8. CASE Get BY <1>8 DEF Get, Running, Advance
<1>9. CASE Create \/ Patch \/ Delete BY <1>9 DEF Create, Patch, Delete, Advance, EndPass
<1>10. CASE UNCHANGED vars BY <1>10 DEF vars
<1> QED
  BY <1>1, <1>2, <1>3, <1>4, <1>5, <1>6, <1>7, <1>8, <1>9, <1>10 DEF Next, Operator

\* The mapped variables of Custody.
Thing == [o \in Objects \ Legacy |-> obj[o]]
Claim == IF Running("patch") \/ Running("delete") THEN {Target} \ Legacy ELSE {}
Consent == snap.adoption = "Adopt"

\* At a call that is neither a patch nor a delete there is no claim.
LEMMA NoClaim ==
  ASSUME pos = 0 \/ call \notin {"patch", "delete"}
  PROVE  Claim = {}
  BY DEF Claim, Running

\* A write to the resource of a stage is one to its thing, unless it is a retired resource.
LEMMA StoreMaps ==
  ASSUME TypeOK, NEW o \in Objects, NEW x, obj' = [obj EXCEPT ![o] = x]
  PROVE  /\ o \in Legacy => Thing' = Thing
         /\ o \notin Legacy => Thing' = [Thing EXCEPT ![o] = x]
  BY DEF Thing, TypeOK

\* What a step of Ownership is in Custody.
Mapped == \/ C!Next
          \/ UNCHANGED <<Thing, cache, Claim, Consent, foreign>>

\* Steps of others.
LEMMA OthersStep ==
  ASSUME TypeOK, TypeOK', foreign' = foreign + 1,
         UNCHANGED <<order, cache, pos, call, snap>>
  PROVE  C!Next
<1>1. Thing' \in [Objects \ Legacy -> Resources]
  BY DEF Thing, TypeOK
<1>2. Claim' = Claim /\ Consent' = Consent
  BY DEF Claim, Consent, Running, Target
<1>3. C!Others
  BY <1>1, <1>2 DEF C!Others, Thing, Claim, Consent
<1> QED
  BY <1>3 DEF C!Next

\* A step that drops the claim and writes nothing.
LEMMA RestartStep ==
  ASSUME Claim' = {}, UNCHANGED <<obj, cache, foreign>>
  PROVE  C!Next
<1>1. Thing' = Thing
  BY DEF Thing
<1>2. Consent' \in BOOLEAN
  BY DEF Consent
<1>3. C!Restart
  BY <1>1, <1>2 DEF C!Restart, Thing, Claim, Consent
<1> QED
  BY <1>3 DEF C!Next

\* What was marked for removal goes.
LEMMA TerminatedStep ==
  ASSUME TypeOK, NEW o \in Objects, Terminated(o)
  PROVE  Mapped
<1>1. UNCHANGED <<cache, foreign, order, pos, call, snap>> /\ obj' = [obj EXCEPT ![o] = Absent]
  BY DEF Terminated, counters
<1>2. Claim' = Claim /\ Consent' = Consent
  BY <1>1 DEF Claim, Consent, Running, Target
<1>3. CASE o \in Legacy
  <2>1. Thing' = Thing
    BY <1>1, <1>3, StoreMaps
  <2> QED
    BY <1>1, <1>2, <2>1 DEF Mapped
<1>4. CASE o \notin Legacy
  <2>1. Thing[o].doomed
    BY <1>4 DEF Thing, Terminated
  <2>2. Thing' = [Thing EXCEPT ![o] = Absent]
    BY <1>1, <1>4, StoreMaps
  <2>3. Absent \in Resources /\ C!Gone(Absent)
    BY ResourceType DEF C!Gone, Absent
  <2>4. C!Expire(o)
    BY <1>1, <1>2, <2>1, <2>2, <2>3 DEF C!Expire, Thing, Claim, Consent
  <2> QED
    BY <1>4, <2>4 DEF C!Next, Mapped
<1> QED
  BY <1>3, <1>4

\* An informer delivers.
LEMMA WatchStep ==
  ASSUME TypeOK, NEW o \in Cached, Watch(o)
  PROVE  C!Next
<1>1. UNCHANGED <<obj, foreign, order, pos, call, snap>> /\ cache' = [cache EXCEPT ![o] = obj[o]]
  BY DEF Watch, counters, cluster
<1>2. Claim' = Claim /\ Consent' = Consent /\ Thing' = Thing
  BY <1>1 DEF Claim, Consent, Thing, Running, Target
<1>3. o \in Objects \ Legacy
  BY Sets, OwnershipAssumption, Zenon
<1>4. Thing[o] = obj[o]
  BY <1>3 DEF Thing
<1>5. C!Sync(o)
  BY <1>1, <1>2, <1>4 DEF C!Sync, Thing, Claim, Consent
<1> QED
  BY <1>5 DEF C!Next

\* A handler looks at the resource of its stage.
LEMMA GetStep ==
  ASSUME TypeOK, Get
  PROVE  Mapped
<1> DEFINE x == IF How # "template" /\ Target \in Cached THEN cache[Target] ELSE obj[Target]
           c == Handle(How, Target, x)
<1>1. pos # 0 /\ call = "get" /\ UNCHANGED <<order, obj, cache, snap, foreign>>
  BY DEF Get, Running, counters, cluster
<1>2. How \in Hows /\ Target \in Objects /\ Target \in Handled(How)
  BY <1>1, StageType, StageHandled
<1>3. Consent' = Consent /\ Thing' = Thing /\ Claim = {}
  BY <1>1, NoClaim DEF Consent, Thing
<1>4. CASE c = "none"
  <2>1. call' = "get"
    BY <1>4 DEF Get, Advance
  <2>2. Claim' = {}
    BY <2>1 DEF Claim, Running
  <2> QED
    BY <1>1, <1>3, <2>2 DEF Mapped
<1>5. CASE c # "none"
  <2>1. call' = c /\ pos' = pos
    BY <1>5 DEF Get
  <2>2. How' = How /\ Target' = Target
    BY <1>1, <2>1 DEF How, Target
  <2>3. CASE c = "create" \/ Target \in Legacy
    <3>1. Claim' = {}
      BY <2>1, <2>2, <2>3 DEF Claim, Running
    <3> QED
      BY <1>1, <1>3, <3>1 DEF Mapped
  <2>4. CASE c # "create" /\ Target \notin Legacy
    <3>1. c \in {"patch", "delete"}
      BY <1>2, <1>5, <2>4, HandleType
    <3>2. How \notin {"deprecated", "retired"}
      BY <1>2, <2>4 DEF Legacy
    <3>3. Licence(x)
      BY <1>2, <3>1, <3>2, HandleLicensed
    <3>4. C!Licensed(x)
      BY <3>3 DEF Licence, C!Licensed, C!Ours
    <3>5. Claim' = {Target}
      BY <1>1, <2>1, <2>2, <2>4, <3>1 DEF Claim, Running
    <3>6. Target \in Objects \ Legacy /\ Thing[Target] = obj[Target]
      BY <1>2, <2>4 DEF Thing
    <3>7. C!Licensed(Thing[Target]) \/ (Target \in Cached /\ C!Licensed(cache[Target]))
      <4>1. CASE How # "template" /\ Target \in Cached
        BY <3>4, <4>1
      <4>2. CASE ~(How # "template" /\ Target \in Cached)
        <5>1. x = Thing[Target]
          BY <3>6, <4>2
        <5> QED
          BY <3>4, <5>1
      <4> QED
        BY <4>1, <4>2
    <3>8. C!Look(Target)
      BY <1>1, <1>3, <3>5, <3>7 DEF C!Look, Thing, Claim, Consent
    <3> QED
      BY <3>6, <3>8 DEF C!Next, Mapped
  <2> QED
    BY <2>3, <2>4
<1> QED
  BY <1>4, <1>5

\* The write of a stage, or its failure.
LEMMA WriteStep ==
  ASSUME TypeOK, Create \/ Patch \/ Delete
  PROVE  Mapped
<1>1. pos # 0 /\ call \in {"create", "patch", "delete"} /\ UNCHANGED <<cache, snap, foreign>>
  BY DEF Create, Patch, Delete, Running, counters
<1>2. Target \in Objects /\ obj[Target] \in Resources
  BY <1>1, StageType DEF TypeOK
<1>3. call' = "get"
  BY DEF Create, Patch, Delete, Advance, EndPass
<1>4. Claim' = {} /\ Consent' = Consent
  BY <1>1, <1>3 DEF Claim, Consent, Running
<1>5. CASE UNCHANGED obj
  BY <1>1, <1>4, <1>5, RestartStep DEF Mapped
<1>6. ASSUME NEW x \in Resources, Store(x),
             \/ call = "create" /\ Missing(obj[Target]) /\ x.owner = "me"
             \/ call \in {"patch", "delete"} /\ (x.owner = "me" \/ x.owner = "absent" \/ x.doomed)
      PROVE  Mapped
  <2>1. obj' = [obj EXCEPT ![Target] = x]
    BY <1>6 DEF Store
  <2>2. CASE Target \in Legacy
    <3>1. Thing' = Thing
      BY <1>2, <2>1, <2>2, StoreMaps
    <3>2. Claim = {}
      BY <2>2 DEF Claim
    <3> QED
      BY <1>1, <1>4, <3>1, <3>2 DEF Mapped
  <2>3. CASE Target \notin Legacy
    <3>0. PICK o \in Objects \ Legacy : o = Target
      BY <1>2, <2>3
    <3>1. Thing[o] = obj[o]
      BY DEF Thing
    <3>2. Thing' = [Thing EXCEPT ![o] = x]
      BY <2>1, <3>0, StoreMaps
    <3>3. CASE call = "create"
      <4>1. C!Gone(Thing[o]) /\ C!Ours(x)
        BY <1>6, <3>0, <3>1, <3>3 DEF C!Gone, C!Ours, Missing
      <4>2. C!Create(o)
        BY <1>1, <1>4, <3>2, <4>1 DEF C!Create, Thing, Claim, Consent
      <4> QED
        BY <4>2 DEF C!Next, Mapped
    <3>4. CASE call \in {"patch", "delete"}
      <4>1. Claim = {o}
        BY <1>1, <3>0, <3>4 DEF Claim, Running
      <4>2. C!Ours(x) \/ C!Gone(x) \/ x.doomed
        BY <1>6, <3>4 DEF C!Gone, C!Ours
      <4>3. C!Write(o)
        BY <1>1, <1>4, <3>2, <4>1, <4>2 DEF C!Write, Thing, Claim, Consent
      <4> QED
        BY <4>3 DEF C!Next, Mapped
    <3> QED
      BY <1>1, <3>3, <3>4
  <2> QED
    BY <2>2, <2>3
<1>7. CASE Create
  BY <1>5, <1>6, <1>7, ResourceType DEF Create, Running, Mine
<1>8. CASE Patch
  <2>1. DEFINE y == [Mine EXCEPT !.doomed = obj[Target].doomed]
  <2>2. y \in Resources /\ y.owner = "me"
    BY <1>2, ResourceType DEF Mine
  <2>3. UNCHANGED obj \/ Store(y)
    BY <1>8 DEF Patch
  <2> QED
    BY <1>5, <1>6, <1>8, <2>2, <2>3 DEF Patch, Running
<1>9. CASE Delete
  <2>1. UNCHANGED obj \/ Store(Deleted(Target))
    BY <1>9 DEF Delete
  <2> QED
    BY <1>2, <1>5, <1>6, <1>9, <2>1, DeletedType DEF Delete, Running
<1> QED
  BY <1>7, <1>8, <1>9

\* Every step of Ownership is a step of Custody or leaves its variables alone.
LEMMA Implements ==
  ASSUME TypeOK, TypeOK', Idle, [Next]_vars
  PROVE  [C!Next]_C!vars
<1>1. Mapped
  <2>1. CASE Edit
    <3>1. UNCHANGED <<order, obj, cache, pos, call, snap, foreign>>
      BY <2>1 DEF Edit
    <3> QED
      BY <3>1 DEF Mapped, Thing, Claim, Consent, Running, Target
  <2>2. CASE Namespace
    BY <2>2, OthersStep DEF Namespace, Mapped
  <2>3. CASE CallFails
    <3>1. Claim' = {} /\ UNCHANGED <<obj, cache, foreign>>
      BY <2>3 DEF CallFails, EndPass, Claim, Running, cluster
    <3> QED
      BY <3>1, RestartStep DEF Mapped
  <2>4. ASSUME NEW o \in Objects, Interfere(o) PROVE Mapped
    BY <2>4, OthersStep DEF Interfere, Mapped
  <2>5. ASSUME NEW o \in Objects, Terminated(o) PROVE Mapped
    BY <2>5, TerminatedStep
  <2>6. ASSUME NEW o \in Cached, Watch(o) PROVE Mapped
    BY <2>6, WatchStep DEF Mapped
  <2>7. CASE StartPass
    <3>1. call' = "get" /\ UNCHANGED <<obj, cache, foreign>>
      BY <2>7 DEF StartPass, Idle, cluster, counters
    <3>2. Claim' = {}
      BY <3>1 DEF Claim, Running
    <3> QED
      BY <3>1, <3>2, RestartStep DEF Mapped
  <2>8. CASE Get
    BY <2>8, GetStep
  <2>9. CASE Create \/ Patch \/ Delete
    BY <2>9, WriteStep
  <2>10. CASE UNCHANGED vars
    BY <2>10 DEF vars, cluster, counters, Mapped, Thing, Claim, Consent, Running, Target
  <2> QED
    BY <2>1, <2>2, <2>3, <2>4, <2>5, <2>6, <2>7, <2>8, <2>9, <2>10 DEF Next, Operator
<1> QED
  BY <1>1 DEF Mapped, C!vars, Thing, Claim, Consent

LEMMA ImplementsInit == Init => C!Init
<1> SUFFICES ASSUME Init PROVE C!Init
  OBVIOUS
<1>1. TypeOK
  BY TypeInit
<1>2. pos = 0 /\ foreign = 0
  BY Zenon DEF Init
<1>3. Thing \in [Objects \ Legacy -> Resources] /\ cache \in [Cached -> Resources]
  BY <1>1 DEF Thing, TypeOK
<1>4. Claim = {} /\ Consent \in BOOLEAN
  BY <1>2, NoClaim DEF Consent
<1> QED
  BY <1>2, <1>3, <1>4 DEF C!Init, Thing, Claim, Consent

\* Ownership implements Custody for any resources, orders and bounds: in applyTemplate,
\* deleteTemplate, the policies and the removals, a write to what carries another mark, or
\* none and no consent to adopt, needs that the handler saw otherwise in the same pass.
THEOREM CustodyKept == Spec => KeepsCustody
<1>1. Init => C!Init /\ TypeOK /\ Idle
  <2>1. Init => Idle
    BY Zenon DEF Init, Idle
  <2> QED
    BY <2>1, ImplementsInit, TypeInit
<1>2. TypeOK /\ Idle /\ [Next]_vars => TypeOK' /\ Idle' /\ [C!Next]_C!vars
  BY TypeStep, IdleStep, Implements
<1> QED
  BY <1>1, <1>2, PTL DEF Spec, KeepsCustody, C!Spec
-----------------------------------------------------------------------------
(* Edits of others *)

\* Why a handler patches or deletes: which one it is, and what it read of the MCE.
Reason(c, how, o) ==
  /\ c = "patch" => how = "template" /\ o \notin Editable
  /\ c = "delete" => \/ how = "template" /\ ~snap.enabled
                     \/ how = "policy" /\ ~snap.policies
                     \/ how \in {"deprecated", "retired", "versioned"}

LEMMA HandleReason ==
  ASSUME NEW how \in Hows, NEW o, NEW x
  PROVE  Reason(Handle(how, o, x), how, o)
<1> USE DEF Handle, Reason
<1>1. CASE how = "deprecated"
  BY <1>1 DEF EnsureDeprecatedResourceCleanup
<1>2. CASE how = "versioned"
  BY <1>2 DEF CleanupVersionedAddOnTemplates
<1>3. CASE how = "template"
  BY <1>3 DEF ensureComponent, applyTemplate, deleteTemplate
<1>4. CASE how = "policy"
  BY <1>4 DEF ensureNetworkPolicies
<1>5. CASE how = "support"
  BY <1>5 DEF createSupport
<1>6. CASE how = "retired"
  BY <1>6 DEF uninstall
<1> QED
  BY <1>1, <1>2, <1>3, <1>4, <1>5, <1>6 DEF Hows

\* The reason outlives the time between the look and the write: a pass keeps to the MCE
\* that it has read.
Decided == pos # 0 => Reason(call, How, Target)

LEMMA DecidedStep ==
  ASSUME TypeOK, Decided, Idle, [Next]_vars
  PROVE  Decided'
<1>1. CASE call' = "get"
  BY <1>1 DEF Decided, Reason
<1>2. CASE UNCHANGED <<order, pos, call, snap>>
  BY <1>2 DEF Decided, Reason, How, Target
<1>3. CASE Get
  <2>1. pos # 0 /\ How \in Hows
    BY <1>3, StageType DEF Get, Running
  <2>2. CASE \E x : call' = Handle(How, Target, x) /\ UNCHANGED pos
    <3>1. Reason(call', How, Target) /\ UNCHANGED <<order, pos, snap>>
      BY <1>3, <2>1, <2>2, HandleReason DEF Get
    <3> QED
      BY <3>1 DEF Decided, Reason, How, Target
  <2> QED
    BY <1>1, <1>3, <2>2 DEF Get, Advance
<1>4. Create \/ Patch \/ Delete \/ CallFails \/ StartPass => call' = "get"
  BY DEF Create, Patch, Delete, CallFails, StartPass, Advance, EndPass, Idle
<1>5. Edit \/ Namespace \/ (\E o : Interfere(o) \/ Terminated(o) \/ Watch(o)) \/ UNCHANGED vars
        => UNCHANGED <<order, pos, call, snap>>
  BY DEF Edit, Namespace, Interfere, Terminated, Watch, vars, cluster, counters
<1> QED
  BY <1>1, <1>2, <1>3, <1>4, <1>5 DEF Next, Operator

\* What is left alone is neither patched nor, while it is wanted, deleted.
LEMMA NotWritten ==
  ASSUME TypeOK, Decided, pos # 0, Target \in LeftAlone, snap.enabled, snap.policies
  PROVE  call \notin {"patch", "delete"}
<1>1. How \in Hows /\ Target \in Handled(How) /\ Reason(call, How, Target)
  BY StageType, StageHandled DEF Decided
<1>2. How = "template" => Target \in Editable
  BY <1>1 DEF LeftAlone
<1>3. How \notin {"deprecated", "retired", "versioned"}
  BY <1>1, OwnershipAssumption DEF LeftAlone, Legacy, Cached
<1> QED
  BY <1>1, <1>2, <1>3 DEF Reason

LEMMA EditsSurviveStep ==
  ASSUME TypeOK, Decided, [Next]_vars, NEW o \in LeftAlone,
         Edited(o), ~obj[o].doomed, snap = spec, spec.enabled, spec.policies
  PROVE  foreign' # foreign \/ obj'[o] = obj[o]
<1>1. CASE UNCHANGED obj
  BY <1>1
<1>2. CASE Namespace \/ \E p \in Objects : Interfere(p)
  <2>1. foreign' = foreign + 1 /\ foreign \in Nat
    BY <1>2, OwnershipAssumption DEF Namespace, Interfere, TypeOK
  <2> QED
    BY <2>1
<1>3. ASSUME NEW p \in Objects, Terminated(p) PROVE obj'[o] = obj[o]
  BY <1>3 DEF Terminated, TypeOK
<1>4. CASE Create \/ Patch \/ Delete
  <2>1. pos # 0 /\ Target \in Objects
    BY <1>4, StageType DEF Create, Patch, Delete, Running
  <2>2. CASE Target # o
    <3>1. UNCHANGED obj \/ \E x : Store(x)
      BY <1>4 DEF Create, Patch, Delete
    <3>2. o \in Objects
      BY OwnershipAssumption DEF LeftAlone, Handled
    <3> QED
      BY <2>2, <3>1, <3>2 DEF Store, TypeOK
  <2>3. CASE Target = o
    <3>1. call \notin {"patch", "delete"}
      BY <2>1, <2>3, NotWritten
    <3>2. Create
      BY <1>4, <3>1 DEF Patch, Delete, Running
    <3> QED
      BY <1>1, <2>3, <3>2 DEF Create, Edited
  <2> QED
    BY <2>2, <2>3
<1>5. Edit \/ CallFails \/ StartPass \/ Get \/ (\E p \in Cached : Watch(p)) \/ UNCHANGED vars => UNCHANGED obj
  BY DEF Edit, CallFails, StartPass, Get, Watch, vars, cluster
<1> QED
  BY <1>1, <1>2, <1>3, <1>4, <1>5 DEF Next, Operator

\* A policy or an editable template that somebody has changed keeps that content while its
\* component and the policies stay enabled (ensureNetworkPolicies, applyTemplate), for any
\* resources, orders and bounds.
THEOREM EditsKept == Spec => EditsSurvive
<1> DEFINE Inv == TypeOK /\ Idle /\ Decided
<1>1. Init => Inv
  <2>1. Init => Idle /\ Decided
    BY Zenon DEF Init, Idle, Decided
  <2> QED
    BY <2>1, TypeInit
<1>2. Inv /\ [Next]_vars => Inv'
  BY TypeStep, IdleStep, DecidedStep
<1>3. Inv /\ [Next]_vars =>
        [\A o \in LeftAlone :
           Edited(o) /\ ~obj[o].doomed /\ snap = spec /\ spec.enabled /\ spec.policies
             => foreign' # foreign \/ obj'[o] = obj[o]]_vars
  BY EditsSurviveStep
<1> QED
  BY <1>1, <1>2, <1>3, PTL DEF Spec, EditsSurvive
=============================================================================
