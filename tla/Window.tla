-------------------------------- MODULE Window --------------------------------
(***************************************************************************)
(* What the node's memory of recent samples promises, whatever holds it:   *)
(* for at most MaxSignals signals, the newest Size samples of each, oldest *)
(* first.  A signal that comes when the registry is full is refused, and   *)
(* counted, every time.                                                    *)
(***************************************************************************)
EXTENDS Integers, Sequences, FiniteSets

CONSTANTS Signals, Samples, MaxSignals, Size

VARIABLES
  held,     (* for each registered signal, its samples                      *)
  refused   (* feeds turned away since the process started                  *)

Registered == DOMAIN held

Latest(s) == SubSeq(s, Len(s) - Size + 1, Len(s))

Kept(s, x) ==
  LET old == IF s \in Registered THEN held[s] ELSE <<>>
      new == Append(old, x)
  IN IF Len(new) > Size THEN Latest(new) ELSE new

Admitted(s) == s \in Registered \/ Cardinality(Registered) < MaxSignals

Take(s, x) ==
  /\ Admitted(s)
  /\ held' = [r \in Registered \cup {s} |-> IF r = s THEN Kept(s, x) ELSE held[r]]
  /\ UNCHANGED refused

Refuse(s) == ~Admitted(s) /\ refused' = refused + 1 /\ UNCHANGED held

Forget == held' = <<>> /\ refused' = 0

WInit == held = <<>> /\ refused = 0
WNext == Forget \/ \E s \in Signals : Refuse(s) \/ \E x \in Samples : Take(s, x)
WSpec == WInit /\ [][WNext]_<<held, refused>>
=============================================================================
