----------------------------- MODULE Ownership -----------------------------
(***************************************************************************)
(* The single resources of a pass: which of them the operator creates,     *)
(* patches and deletes, and which it leaves to others (applyTemplate,      *)
(* deleteTemplate, ensureResourceOwnership, ensureNetworkPolicies and the  *)
(* removals of what earlier releases left behind).                         *)
(*                                                                         *)
(* A pass goes through the resources in a fixed order, and to each with    *)
(* two calls: a Get, or a look into an informer's cache, and then at most  *)
(* one write.  Neither the write nor anything else makes the two atomic;   *)
(* users and other controllers act in between.  One component stands for   *)
(* them all: it is enabled or disabled.                                    *)
(***************************************************************************)
EXTENDS Naturals, Sequences

CONSTANTS
  Objects,     \* resources, by kind and name
  Orders,      \* what a pass may have to do: sequences of records [how, obj]
  Editable,    \* templates annotated as editable
  APIServices, \* templates of that kind
  Policies,    \* NetworkPolicies
  Remote,      \* resources in a namespace that is not the target namespace
  Held,        \* resources with finalizers
  MaxForeign,  \* steps of others
  MaxEdits,    \* edits of the MCE
  MaxFaults    \* failing calls

Hows == {"deprecated", "versioned", "template", "policy", "support", "retired"}
Stages(l) == {l[i] : i \in 1..Len(l)}
Handled(how) == {o \in Objects : \E l \in Orders : [how |-> how, obj |-> o] \in Stages(l)}

\* Read through an informer; the rest, as unstructured objects, directly.
Cached == Handled("versioned") \cup Handled("policy") \cup Handled("support")

\* What earlier releases left, which goes whoever has marked it.
Legacy == Handled("deprecated") \cup Handled("retired")

ASSUME OwnershipAssumption ==
  /\ \A l \in Orders : l \in Seq([how : Hows, obj : Objects]) /\ l # << >>
  /\ Editable \cup APIServices \subseteq Handled("template") \ Policies
  /\ Policies = Handled("policy")
  /\ Remote \subseteq Handled("template") \ (Policies \cup APIServices)
  /\ Held \subseteq Objects
  /\ Cached \cap Legacy = {}
  /\ Editable \cap (Legacy \cup Handled("versioned")) = {}
  /\ Policies \cap Handled("versioned") = {}
  /\ MaxForeign \in Nat /\ MaxEdits \in Nat /\ MaxFaults \in Nat

VARIABLES
  order,    \* what a pass does on this hub
  spec,     \* the MCE's spec and annotations
  obj,      \* [Objects -> Resources]
  ns,       \* the other namespace exists
  cache,    \* [Cached -> Resources]: what the informers show
  pos,      \* where the pass is in its order, 0 when none runs
  call,     \* its next call
  snap,     \* the MCE this pass works on
  foreign, edits, faults

cluster == <<spec, obj, ns>>
counters == <<foreign, edits, faults>>
vars == <<order, cluster, cache, pos, call, snap, counters>>

MCESpec == [enabled : BOOLEAN, policies : BOOLEAN, adoption : {"Strict", "Adopt", "other"}]

\* owner: by the label backplaneconfig.name or, for what has no such label, by an owner
\* reference.  ours: the content is what the operator's template says.
Resources == [owner : {"absent", "none", "me", "other"}, doomed : BOOLEAN, ours : BOOLEAN]
Absent == [owner |-> "absent", doomed |-> FALSE, ours |-> FALSE]
Mine == [owner |-> "me", doomed |-> FALSE, ours |-> TRUE]
Theirs(w) == [owner |-> w, doomed |-> FALSE, ours |-> FALSE]
Missing(x) == x.owner = "absent"

TypeOK ==
  /\ order \in Orders
  /\ spec \in MCESpec /\ snap \in MCESpec
  /\ obj \in [Objects -> Resources]
  /\ ns \in BOOLEAN
  /\ cache \in [Cached -> Resources]
  /\ pos \in 0..Len(order)
  /\ call \in {"get", "create", "patch", "delete"}
  /\ foreign \in 0..MaxForeign /\ edits \in 0..MaxEdits /\ faults \in 0..MaxFaults

InPass(o) == \E i \in 1..Len(order) : order[i].obj = o

\* A hub after an upgrade: the resources that are no longer wanted are there.
Init ==
  /\ order \in Orders
  /\ spec \in {[enabled |-> TRUE, policies |-> TRUE, adoption |-> a] : a \in {"Strict", "Adopt"}}
  /\ snap = spec
  /\ obj = [o \in Objects |-> IF InPass(o) /\ o \in Legacy \cup Handled("versioned") THEN Mine ELSE Absent]
  /\ ns = FALSE
  /\ cache = [o \in Cached |-> obj[o]]
  /\ pos = 0 /\ call = "get"
  /\ foreign = 0 /\ edits = 0 /\ faults = 0

-----------------------------------------------------------------------------
(* Users, other controllers, Kubernetes *)

Edit ==
  /\ edits < MaxEdits
  /\ edits' = edits + 1
  /\ spec' \in MCESpec \ {spec}
  /\ UNCHANGED <<order, obj, ns, cache, pos, call, snap, foreign, faults>>

Deleted(o) == IF o \in Held THEN [obj[o] EXCEPT !.doomed = TRUE] ELSE Absent

\* Somebody else creates a resource, marks it, edits it or deletes it.
Interfere(o) ==
  /\ foreign < MaxForeign
  /\ foreign' = foreign + 1
  /\ InPass(o) /\ (o \in Remote => ns)
  /\ \/ /\ ~obj[o].doomed
        /\ \E w \in {"none", "other"} : obj' = [obj EXCEPT ![o] = Theirs(w)]
     \/ /\ obj[o].ours
        /\ obj' = [obj EXCEPT ![o].ours = FALSE]
     \/ /\ ~Missing(obj[o])
        /\ obj' = [obj EXCEPT ![o] = Deleted(o)]
  /\ UNCHANGED <<order, spec, ns, cache, pos, call, snap, edits, faults>>

\* The other namespace comes, or goes with what is in it.
Namespace ==
  /\ foreign < MaxForeign
  /\ foreign' = foreign + 1
  /\ \E o \in Remote : InPass(o)
  /\ ns' = ~ns
  /\ obj' = [o \in Objects |-> IF o \in Remote THEN Absent ELSE obj[o]]
  /\ UNCHANGED <<order, spec, cache, pos, call, snap, edits, faults>>

Terminated(o) ==
  /\ obj[o].doomed
  /\ obj' = [obj EXCEPT ![o] = Absent]
  /\ UNCHANGED <<order, spec, ns, cache, pos, call, snap, counters>>

Watch(o) ==
  /\ cache[o] # obj[o]
  /\ cache' = [cache EXCEPT ![o] = obj[o]]
  /\ UNCHANGED <<order, cluster, pos, call, snap, counters>>

-----------------------------------------------------------------------------
(* What the handlers do with the resource they found *)

getAdoptionPolicy == IF snap.adoption = "Adopt" THEN "Adopt" ELSE "Strict"

IgnoresLabels(x) == x.owner # "other"

ensureResourceOwnership(x) ==
  \/ x.owner = "me"
  \/ x.owner = "none" /\ getAdoptionPolicy = "Adopt"

CreatesOnly(o, x) == IF Missing(x) /\ (o \in Remote => ns) THEN "create" ELSE "none"

\* An APIService is only created; a template for a namespace that is not there is skipped.
applyTemplate(o, x) ==
  IF o \in Remote /\ ~ns THEN "none"
  ELSE IF Missing(x) THEN "create"
  ELSE IF o \notin APIServices \cup Editable /\ ensureResourceOwnership(x) THEN "patch"
  ELSE "none"

deleteTemplate(x) == IF ~Missing(x) /\ ensureResourceOwnership(x) THEN "delete" ELSE "none"

\* A component's loop over its templates.  A policy among them is rendered only while
\* policies are enabled and is not deleted with the component.
ensureComponent(o, x) ==
  IF o \in Policies /\ ~(snap.enabled /\ snap.policies) THEN "none"
  ELSE IF snap.enabled THEN applyTemplate(o, x) ELSE deleteTemplate(x)

ReconcilesPolicies(x) ==
  IF ~snap.policies THEN IF x.owner = "me" THEN "delete" ELSE "none"
  ELSE IF ~snap.enabled THEN "none"
  ELSE IF Missing(x) THEN "create"
  ELSE IF ensureResourceOwnership(x) THEN "patch" ELSE "none"

ensureNetworkPolicies(x) ==
  IF ~snap.policies THEN IF x.owner = "me" THEN "delete" ELSE "none"
  ELSE IF snap.enabled /\ Missing(x) THEN "create" ELSE "none"

\* The metrics Service, its ServiceMonitor and, read directly, the trust bundle.
createSupport(x) == IF Missing(x) THEN "create" ELSE "none"

uninstall(x) == IF Missing(x) \/ x.doomed THEN "none" ELSE "delete"

\* The timestamp it looks at is not that of the resource it found.
EnsureDeprecatedResourceCleanup(x) == IF Missing(x) THEN "none" ELSE "delete"

CleanupVersionedAddOnTemplates(x) == IF x.doomed \/ x.owner # "me" THEN "none" ELSE "delete"

Handle(how, o, x) ==
  CASE how = "deprecated" -> EnsureDeprecatedResourceCleanup(x)
    [] how = "versioned" -> CleanupVersionedAddOnTemplates(x)
    [] how = "template" -> ensureComponent(o, x)
    [] how = "policy" -> ensureNetworkPolicies(x)
    [] how = "support" -> createSupport(x)
    [] how = "retired" -> uninstall(x)

-----------------------------------------------------------------------------
(* A pass *)

How == order[pos].how
Target == order[pos].obj
Running(c) == pos # 0 /\ call = c

StartPass ==
  /\ pos = 0
  /\ pos' = 1
  /\ snap' = spec
  /\ UNCHANGED <<order, cluster, cache, call, counters>>

RunsOn == pos' = pos + 1 /\ call' = "get"

Advance == pos' = (IF pos = Len(order) THEN 0 ELSE pos + 1) /\ call' = "get"

\* An error ends the pass; it is made again.
EndPass == pos' = 0 /\ call' = "get"

Get ==
  /\ Running("get")
  /\ LET x == IF How # "template" /\ Target \in Cached THEN cache[Target] ELSE obj[Target]
         c == Handle(How, Target, x)
     IN IF c = "none" THEN Advance ELSE call' = c /\ UNCHANGED pos
  /\ UNCHANGED <<order, cluster, cache, snap, counters>>

Store(x) == obj' = [obj EXCEPT ![Target] = x]

\* That a template has been created meanwhile is fine; an APIService, a policy or a support
\* resource is then an error, as is a namespace that has gone.
Create ==
  /\ Running("create")
  /\ \/ Missing(obj[Target]) /\ (Target \in Remote => ns) /\ Store(Mine) /\ Advance
     \/ Missing(obj[Target]) /\ Target \in Remote /\ ~ns /\ EndPass /\ UNCHANGED obj
     \/ /\ ~Missing(obj[Target])
        /\ IF How = "template" /\ Target \notin APIServices THEN Advance ELSE EndPass
        /\ UNCHANGED obj
  /\ UNCHANGED <<order, spec, ns, cache, snap, counters>>

\* A forced server-side apply: it makes a resource that is no longer there.
Patch ==
  /\ Running("patch")
  /\ \/ (Target \in Remote => ns) /\ Store([Mine EXCEPT !.doomed = obj[Target].doomed]) /\ Advance
     \/ Target \in Remote /\ ~ns /\ EndPass /\ UNCHANGED obj
  /\ UNCHANGED <<order, spec, ns, cache, snap, counters>>

\* The removals of earlier releases' resources take one that is no longer there for an error.
Delete ==
  /\ Running("delete")
  /\ \/ ~Missing(obj[Target]) /\ Store(Deleted(Target)) /\ Advance
     \/ /\ Missing(obj[Target])
        /\ IF How \in {"template", "policy"} THEN Advance ELSE EndPass
        /\ UNCHANGED obj
  /\ UNCHANGED <<order, spec, ns, cache, snap, counters>>

CallFails ==
  /\ pos # 0
  /\ faults < MaxFaults
  /\ faults' = faults + 1
  /\ EndPass
  /\ UNCHANGED <<order, cluster, cache, snap, foreign, edits>>

Operator == StartPass \/ Get \/ Create \/ Patch \/ Delete

Next ==
  \/ Edit \/ Namespace \/ CallFails
  \/ \E o \in Objects : Interfere(o) \/ Terminated(o)
  \/ \E o \in Cached : Watch(o)
  \/ Operator

Spec == Init /\ [][Next]_vars

\* Passes are made one after the other, informers deliver, finalizers are removed.
FairSpec ==
  /\ Spec
  /\ WF_vars(Operator)
  /\ \A o \in Objects : WF_vars(Terminated(o))
  /\ \A o \in Cached : WF_vars(Watch(o))

-----------------------------------------------------------------------------
(* Properties *)

\* The operator's side of Custody: a claim is a patch or a delete it is about to make.
C == INSTANCE Custody WITH
  Things <- Objects \ Legacy,
  States <- Resources,
  thing <- [o \in Objects \ Legacy |-> obj[o]],
  recent <- cache,
  claim <- IF Running("patch") \/ Running("delete") THEN {Target} \ Legacy ELSE {},
  consent <- snap.adoption = "Adopt",
  turns <- foreign

\* Ownership implements Custody: what carries another mark, or none and no consent to adopt,
\* is neither patched nor deleted, whatever cache a handler looks in and whatever others do
\* between the look and the write.
KeepsCustody == C!Spec

\* Written by the operator once, and then left to others.
LeftAlone == (Policies \ Handled("template")) \cup Editable

Edited(o) == ~Missing(obj[o]) /\ ~obj[o].ours

\* A policy or an editable template that somebody has changed, or made before the operator
\* could, keeps that content while its component and the policies stay enabled.
EditsSurvive ==
  [][\A o \in LeftAlone :
       Edited(o) /\ ~obj[o].doomed /\ snap = spec /\ spec.enabled /\ spec.policies
         => foreign' # foreign \/ obj'[o] = obj[o]]_vars

\* The same of every NetworkPolicy.
PoliciesCreatedOnce ==
  [][\A o \in Policies :
       Edited(o) /\ ~obj[o].doomed /\ snap = spec /\ spec.enabled /\ spec.policies
         => foreign' # foreign \/ obj'[o] = obj[o]]_vars

Manages(x) == x.owner = "me" \/ (x.owner = "none" /\ spec.adoption = "Adopt")

Applied(o) ==
  \/ o \in Remote /\ ~ns
  \/ /\ ~Missing(obj[o]) /\ ~obj[o].doomed
     /\ Manages(obj[o]) => o \in Editable \cup APIServices \/ obj[o] = Mine

Settled ==
  /\ \A o \in Legacy : Missing(obj[o])
  /\ \A o \in Handled("versioned") : obj[o].owner # "me"
  /\ \A o \in Handled("template") \ Policies : InPass(o) =>
       IF spec.enabled THEN Applied(o) ELSE Missing(obj[o]) \/ ~Manages(obj[o])
  /\ \A o \in Policies : InPass(o) =>
       IF spec.policies THEN spec.enabled => ~Missing(obj[o]) ELSE obj[o].owner # "me"
  /\ \A o \in Handled("support") : InPass(o) => ~Missing(obj[o])

\* Once users and others stop, passes end with every resource applied, removed or left to
\* its owner as the spec says, although a create or delete that lost a race ends its pass.
Settles == <>[]Settled
=============================================================================
