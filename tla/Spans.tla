-------------------------------- MODULE Spans --------------------------------
(***************************************************************************)
(* analyze.py: incidents as spans of time, visited by start.  merge_spans  *)
(* unions them, for the digest's time in incident and its number of        *)
(* stretches; correlate_incidents groups those that overlap or nearly do.   *)
(* The two are one loop: without a gap the first, with window_s the second. *)
(***************************************************************************)
EXTENDS Integers, Sequences, FiniteSets, FiniteSetsExt, SequencesExt

CONSTANTS
  Moments,   (* the times of a report                                       *)
  WindowS,   (* window_s                                                    *)
  MaxSpans   (* bound: incidents                                            *)

ASSUME SpansAssumption ==
  Moments \subseteq Nat /\ WindowS \in Nat /\ MaxSpans \in Nat

VARIABLES
  spans,      (* the incidents, in the order they were read                 *)
  gap,        (* how far apart two incidents may be and still belong together *)
  todo,       (* positions the loop has yet to visit                        *)
  stretches,  (* out, or groups: their start, end and members               *)
  counted,    (* stretches the digest has added up                          *)
  total       (* their length together                                      *)

pvars == <<spans, gap, todo, stretches, counted, total>>

----------------------------------------------------------------------------
\* Bug: the last span that joins decides where the stretch ends.
JoinedLast(out, i) ==
  IF out # <<>> /\ spans[i].start <= Last(out).end + gap
  THEN Append(Front(out), [Last(out) EXCEPT !.end = spans[i].end, !.members = @ \cup {i}])
  ELSE Append(out, [start |-> spans[i].start, end |-> spans[i].end, members |-> {i}])

Joined(out, i) ==
  IF out # <<>> /\ spans[i].start <= Last(out).end + gap
  THEN Append(Front(out), [Last(out) EXCEPT !.end = Max({@, spans[i].end}),
                                            !.members = @ \cup {i}])
  ELSE Append(out, [start |-> spans[i].start, end |-> spans[i].end, members |-> {i}])

\* Spans that start together come in any order: the two sorts settle it differently.
Visit(i) ==
  /\ i \in todo /\ \A j \in todo : spans[i].start <= spans[j].start
  /\ todo' = todo \ {i}
  /\ stretches' = Joined(stretches, i)
  /\ UNCHANGED <<spans, gap, counted, total>>

\* sum(e - s for s, e in spans), one stretch of it.
AddUp ==
  /\ todo = {} /\ gap = 0 /\ counted < Len(stretches)
  /\ counted' = counted + 1
  /\ total' = total + stretches[counted'].end - stretches[counted'].start
  /\ UNCHANGED <<spans, gap, todo, stretches>>

\* An incident closed after the clock was put back ends before it began.
Inputs == UNION {[1 .. n -> [start : Moments, end : Moments]] : n \in 0 .. MaxSpans}

SpansInit ==
  /\ spans \in Inputs /\ gap \in {0, WindowS}
  /\ todo = DOMAIN spans /\ stretches = <<>>
  /\ counted = 0 /\ total = 0

SpansNext == AddUp \/ \E i \in todo : Visit(i)
SpansSpec == SpansInit /\ [][SpansNext]_pvars

----------------------------------------------------------------------------
Forward == \A i \in DOMAIN spans : spans[i].start <= spans[i].end
Seen == DOMAIN spans \ todo
Covers(s) == s.start .. s.end - 1
Covered == UNION {Covers(spans[i]) : i \in Seen}

Near(i, j) ==
  spans[i].start <= spans[j].end + gap /\ spans[j].start <= spans[i].end + gap

\* However the set is cut in two, a near pair crosses the cut.
Linked(S) ==
  \A A \in (SUBSET S) \ {{}, S} : \E i \in A, j \in S \ A : Near(i, j)

\* Whatever the order, nesting and overlap of the incidents, one pass over them finds
\* the groups of those that a chain of near ones connects, and no incident is hidden
\* or shown twice (analyze.py:104-106); the stretches of the digest are the groups for
\* no gap at all, and the time in incident counts every moment once (report.py:166-170).
ClustersAreComponents ==
  /\ Seen = UNION {stretches[m].members : m \in DOMAIN stretches}
  /\ \A m, n \in DOMAIN stretches : m # n => stretches[m].members \cap stretches[n].members = {}
  /\ Forward =>
       /\ \A m \in DOMAIN stretches : Linked(stretches[m].members)
       /\ \A m, n \in DOMAIN stretches : m # n =>
            \A i \in stretches[m].members, j \in stretches[n].members : ~Near(i, j)
       /\ todo = {} /\ gap = 0 /\ counted = Len(stretches) => total = Cardinality(Covered)
=============================================================================
