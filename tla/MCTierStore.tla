---- MODULE MCTierStore ----
(* TierStore on small instances. *)
EXTENDS TierStore, TLC
CONSTANTS k1, k2
MCKeys == {k1, k2}
MCTextOf == [k \in MCKeys |-> "text"]    \* one text, stored in two sessions
Symm == Permutations(MCKeys)
====
