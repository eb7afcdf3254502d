------------------------------ MODULE Custody ------------------------------
(***************************************************************************)
(* What the operator promises about things in the cluster that others may  *)
(* own: it makes a thing that is not there, and it changes or removes one  *)
(* only with a claim.  A claim comes from looking at the thing and finding *)
(* its own mark on it, or no mark and the user's consent to adopt; it is   *)
(* for that one thing and is used up by one write.                         *)
(*                                                                         *)
(* The promise is about what the operator saw, because nothing in the API  *)
(* it uses ties a write to the state it looked at: others may take a thing *)
(* between the look and the write.                                         *)
(***************************************************************************)
EXTENDS Naturals

CONSTANTS
  Things,   \* what the operator and others may own
  Cached,   \* those it looks at in a cache
  States    \* states of a thing, records with the fields owner and doomed

Gone(x) == x.owner = "absent"
Ours(x) == x.owner = "me"

VARIABLES
  thing,    \* [Things -> States]
  recent,   \* [Cached -> States]: what the cache shows
  claim,    \* the things the operator may write to
  consent,  \* it may adopt what carries no mark
  turns     \* steps of others so far

vars == <<thing, recent, claim, consent, turns>>

Init ==
  /\ thing \in [Things -> States]
  /\ recent \in [Cached -> States]
  /\ claim = {}
  /\ consent \in BOOLEAN
  /\ turns = 0

Licensed(x) == Ours(x) \/ (x.owner = "none" /\ consent)

\* Others do to the things what they like.
Others ==
  /\ turns' = turns + 1
  /\ thing' \in [Things -> States]
  /\ UNCHANGED <<recent, claim, consent>>

\* What was marked for removal goes.
Expire(o) ==
  /\ thing[o].doomed
  /\ \E x \in States : Gone(x) /\ thing' = [thing EXCEPT ![o] = x]
  /\ UNCHANGED <<recent, claim, consent, turns>>

Sync(o) ==
  /\ recent' = [recent EXCEPT ![o] = thing[o]]
  /\ UNCHANGED <<thing, claim, consent, turns>>

\* The operator starts afresh, without claims, and asks for consent again.
Restart ==
  /\ claim' = {}
  /\ consent' \in BOOLEAN
  /\ UNCHANGED <<thing, recent, turns>>

Look(o) ==
  /\ Licensed(thing[o]) \/ (o \in Cached /\ Licensed(recent[o]))
  /\ claim' = {o}
  /\ UNCHANGED <<thing, recent, consent, turns>>

Create(o) ==
  /\ Gone(thing[o])
  /\ \E x \in States : Ours(x) /\ thing' = [thing EXCEPT ![o] = x]
  /\ claim' = {}
  /\ UNCHANGED <<recent, consent, turns>>

\* Mark a thing as its own, or remove it.
Write(o) ==
  /\ o \in claim
  /\ \E x \in States : (Ours(x) \/ Gone(x) \/ x.doomed) /\ thing' = [thing EXCEPT ![o] = x]
  /\ claim' = {}
  /\ UNCHANGED <<recent, consent, turns>>

Next ==
  \/ Others \/ Restart
  \/ \E o \in Things : Expire(o) \/ Look(o) \/ Create(o) \/ Write(o)
  \/ \E o \in Cached : Sync(o)

Spec == Init /\ [][Next]_vars
=============================================================================
