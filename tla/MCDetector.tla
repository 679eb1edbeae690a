----------------------------- MODULE MCDetector -----------------------------
(* Small instances of Detector: one key, whose kind of rule is chosen by   *)
(* the cfg.  Values 0 / 1 / 2 / 3 are healthy, inside the hysteresis band, *)
(* breaching, and breaching harder.                                        *)
EXTENDS Detector

CONSTANTS Fixed, Absolute

\* The clock is put right by the size of the stale window.
MCForward == {3}

MCRule == [k \in Keys |->
  [fixed |-> Fixed, absolute |-> Absolute, trip |-> 1, clear |-> 0,
   for_s |-> 2, clear_for_s |-> 2, cooldown_s |-> 3, min_n |-> 2]]
=============================================================================
