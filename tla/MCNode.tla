------------------------------- MODULE MCNode -------------------------------
(* Small instances of Node.  The rule kind is chosen by the cfg; values    *)
(* 0 / 1 / 2 / 3 are healthy, inside the hysteresis band, breaching, and   *)
(* breaching harder.                                                       *)
EXTENDS Node

CONSTANTS Fixed, Absolute, ForS

MCRule == [k \in Keys |->
  [fixed |-> Fixed, absolute |-> Absolute, trip |-> 1, clear |-> 0,
   for_s |-> ForS, clear_for_s |-> 2, cooldown_s |-> 2, min_n |-> 1]]

Symmetry == Permutations(Keys)

\* The clock is put right once, backwards.
MCBackward == {-4}
=============================================================================
