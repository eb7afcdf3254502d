----------------------------- MODULE MCUpgrade -----------------------------
(* Instances of Upgrade for TLC. *)
EXTENDS Upgrade

\* Three minor releases.
EachMinor == [v \in 1..MaxVersion |-> v]
=============================================================================
