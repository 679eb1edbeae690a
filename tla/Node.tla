-------------------------------- MODULE Node --------------------------------
(***************************************************************************)
(* The node's incident pipeline: the detector of module Detector, whose    *)
(* actions incidents.apply persists, and a collector process that can lose *)
(* a write to a contended database, crash, and be started again.           *)
(*                                                                         *)
(* Durable state is what SQLite holds: the mutable incident_state row of   *)
(* each key, the append-only transition log, the evidence rows and the     *)
(* flushed baseline.  Every action of a batch commits on its own (the      *)
(* ext_events row that _emit writes closes its transaction), so a batch    *)
(* that fails persists some of its actions and drops the others.  The      *)
(* order in which a sweep lists the keys is the order they first reported, *)
(* hence any order: what survives a failure is any subset.                 *)
(***************************************************************************)
EXTENDS Detector, HubView, SequencesExt

CONSTANTS
  ReopenS,       (* INCIDENT_REOPEN_WINDOW_S                               *)
  MaxOpen,       (* INCIDENT_MAX_OPEN, the storm budget                    *)
  PreMax,        (* INCIDENT_PRE_SAMPLES                                   *)
  HeadMax,       (* INCIDENT_DURING_HEAD                                   *)
  DuringMax,     (* INCIDENT_DURING_MAX                                    *)
  PostMax,       (* INCIDENT_POST_SAMPLES                                  *)
  Step0,         (* INCIDENT_DURING_STEP0                                  *)
  StepMax,       (* INCIDENT_DURING_STEP_MAX; the ladder doubles up to it  *)
  Downtimes,     (* how long the process may be down                       *)
  MaxRestarts,   (* bound: crashes and restarts                            *)
  MaxLost        (* bound: failed batches                                  *)

ASSUME StoreAssumption ==
  /\ ReopenS \in Nat /\ MaxOpen \in Nat /\ PreMax \in Nat
  /\ PostMax \in Nat \ {0} /\ HeadMax \in Nat \ {0} /\ DuringMax \in Nat \ {0}
  /\ Step0 \in Nat /\ StepMax \in Nat
  /\ Downtimes \subseteq Nat /\ MaxRestarts \in Nat /\ MaxLost \in Nat

VARIABLES
  row,       (* incident_state, one row per key                            *)
  log,       (* incidents, the transition rows of each key in rowid order  *)
  evid,      (* incident_samples of the newest uid of each key, counted    *)
  saved,     (* signal_baseline, as warm-up counts                         *)
  restarts,  (* restarts so far                                            *)
  lost       (* failed batches so far                                      *)

nvars == <<dvars, row, log, evid, saved, restarts, lost>>

----------------------------------------------------------------------------
\* Bug: the action's name is stored as the transition.
TerminalUnmapped == [close |-> "close", stale |-> "stale",
                     expire |-> "expire", persist |-> "persist"]

Terminal == [close |-> "close", stale |-> "stale",
             expire |-> "expired", persist |-> "persistent"]

\* closed = 0 is NULL, which the code's "if closed_wall" treats as 0 too; so is
\* kept = 0.  uid 0 is no row at all: a minted uid is a number never used before.
NoRow == [state |-> "none", uid |-> 0, opened |-> 0, changed |-> 0, closed |-> 0,
          worst |-> 0, n |-> 0, step |-> 0, kept |-> 0]

NoEvidence == [pre |-> 0, during |-> 0, post |-> 0]

OpenCount == Cardinality({k \in Keys : row[k].state = "open"})

\* _transition, less what no reader of the state of an incident looks at.
Transition(uid, transition, a, opened, worst) ==
  [uid |-> uid, transition |-> transition, ts |-> a.wall, opened |-> opened,
   worst |-> worst]

----------------------------------------------------------------------------
(* _apply_open.  The ring hands over pre samples from before the breach    *)
(* began and head of the samples since, at least the one that confirmed.   *)

\* Bug: the reopen window is not consulted.
ReopensForever(a) == row[a.key].closed # 0

Reopens(a) ==
  /\ row[a.key].closed # 0
  /\ a.wall - row[a.key].closed <= ReopenS

WithinBudget == OpenCount < MaxOpen

ApplyOpen(a, pre, head) ==
  LET k == a.key
      prev == row[k]
      uid == IF Reopens(a) THEN prev.uid ELSE prev.uid + 1
      opened == IF Reopens(a) THEN prev.opened ELSE a.wall
      old == IF Reopens(a) THEN evid[k] ELSE NoEvidence
  IN /\ row' = [row EXCEPT ![k] =
                 [state |-> "open", uid |-> uid, opened |-> opened,
                  changed |-> a.wall, closed |-> 0, worst |-> a.value,
                  n |-> IF WithinBudget THEN head ELSE 0, step |-> Step0,
                  kept |-> IF WithinBudget THEN a.wall ELSE 0]]
     /\ log' = [log EXCEPT ![k] = Append(@,
                 Transition(uid, IF Reopens(a) THEN "reopen" ELSE "open",
                            a, opened, a.value))]
     /\ evid' = [evid EXCEPT ![k] =
                  IF WithinBudget
                  THEN [old EXCEPT !.pre = @ + pre, !.during = @ + head]
                  ELSE old]

----------------------------------------------------------------------------
(* _keep_during and _apply_sample: head at native cadence, then a ladder.  *)

\* Bug: the ladder has no last rung.
KeepDuringForever(r, at) == r.n < HeadMax \/ r.kept = 0 \/ at - r.kept >= r.step

KeepDuring(r, at) ==
  /\ r.n < DuringMax
  /\ r.n < HeadMax \/ r.kept = 0 \/ at - r.kept >= r.step

NextStep(r, at) ==
  IF ~KeepDuring(r, at) THEN r.step
  ELSE IF r.n < HeadMax THEN Step0 ELSE Smaller(2 * r.step, StepMax)

ApplySample(a) ==
  LET k == a.key
      r == row[k]
      keep == KeepDuring(r, a.wall)
  IN IF r.state = "none"
     THEN UNCHANGED <<row, log, evid>>
     ELSE /\ row' = [row EXCEPT ![k] =
                      [r EXCEPT !.worst = a.worst, !.step = NextStep(r, a.wall),
                                !.n = IF keep THEN @ + 1 ELSE @,
                                !.kept = IF keep THEN a.wall ELSE @]]
          /\ evid' = [evid EXCEPT ![k].during = IF keep THEN @ + 1 ELSE @]
          /\ UNCHANGED log

----------------------------------------------------------------------------
(* _apply_terminal, for all the actions T of a batch (on distinct keys); a  *)
(* close also keeps the tail of the ring, post samples at most.            *)

ActionOn(T, k) == CHOOSE a \in T : a.key = k
Hits(T) == {k \in {a.key : a \in T} : row[k].state # "none"}

\* Bug: the transition is written and the state row left as it was.
CooledLater(r, a) == [r EXCEPT !.worst = a.worst]

Cooled(r, a) ==
  [r EXCEPT !.state = "cooldown", !.changed = a.wall, !.closed = a.wall,
            !.worst = a.worst]

ApplyTerminals(T, post) ==
  /\ row' = [k \in Keys |->
       IF k \in Hits(T) THEN Cooled(row[k], ActionOn(T, k)) ELSE row[k]]
  /\ log' = [k \in Keys |->
       IF k \notin Hits(T) THEN log[k]
       ELSE LET a == ActionOn(T, k)
            IN Append(log[k], Transition(row[k].uid, Terminal[a.op], a,
                                         row[k].opened, a.worst))]
  /\ evid' = [k \in Keys |->
       IF k \in Hits(T) /\ ActionOn(T, k).op = "close"
       THEN [evid[k] EXCEPT !.post = @ + post] ELSE evid[k]]

----------------------------------------------------------------------------
(* apply(): the batch A is persisted, or an OperationalError stops it after *)
(* the actions P and the caller is told nothing.                           *)

ApplyAll(A) ==
  IF A = {} THEN UNCHANGED <<row, log, evid>>
  ELSE LET a == CHOOSE x \in A : TRUE
       IN CASE a.op = "open" ->
                 \E pre \in {0, PreMax}, head \in {1, HeadMax} : ApplyOpen(a, pre, head)
            [] a.op = "sample" -> ApplySample(a)
            [] OTHER -> \E post \in {1, PostMax} : ApplyTerminals(A, post)

Apply(A) ==
  \/ ApplyAll(A) /\ UNCHANGED lost
  \/ /\ lost < MaxLost
     /\ \E P \in SUBSET A : P # A /\ ApplyAll(P)
     /\ lost' = lost + 1

Sample(k, v) == Evaluate(k, v) /\ Apply(acts') /\ UNCHANGED <<saved, restarts>>

SweepAll == Sweep /\ Apply(acts') /\ UNCHANGED <<saved, restarts>>

----------------------------------------------------------------------------
(* baseline.maybe_flush: only dirty baselines are written, and thaw leaves  *)
(* no dirty mark behind, so a forgotten baseline stays on disk.            *)

Flushed == [k \in Keys |-> IF base[k].dirty THEN base[k].n ELSE saved[k]]
Clean == [k \in Keys |-> [base[k] EXCEPT !.dirty = FALSE]]

FlushBaseline ==
  /\ \E k \in Keys : base[k].dirty
  /\ saved' = Flushed /\ base' = Clean /\ acts' = {}
  /\ UNCHANGED <<mono, wall, steps, due, swept, det, hist, row, log, evid,
                 restarts, lost>>

----------------------------------------------------------------------------
(* The process dies -- with a last flush when it was asked to stop -- and   *)
(* main() starts it again after d: baseline.load, then load_open.          *)

Restart(d, stopped) ==
  /\ restarts < MaxRestarts /\ mono + d <= MaxMono
  /\ mono' = mono + d /\ wall' = wall + d
  /\ due' = 0 /\ swept' = mono + d
  /\ restarts' = restarts + 1
  /\ saved' = IF stopped THEN Flushed ELSE saved
  /\ base' = [k \in Keys |-> [n |-> saved'[k], dirty |-> FALSE]]
  /\ det' = [k \in Keys |->
               IF row[k].state = "none" THEN Fresh
               ELSE Restored(row[k].state, row[k].opened, row[k].changed,
                             row[k].worst, mono + d, wall + d)]
  /\ hist' = [k \in Keys |-> [hist[k] EXCEPT !.run = 0]]
  /\ acts' = {}
  /\ UNCHANGED <<steps, row, log, evid, lost>>

----------------------------------------------------------------------------
Init ==
  /\ DInit
  /\ row = [k \in Keys |-> NoRow]
  /\ log = [k \in Keys |-> <<>>]
  /\ evid = [k \in Keys |-> NoEvidence]
  /\ saved = [k \in Keys |-> 0]
  /\ restarts = 0 /\ lost = 0

Clocks ==
  /\ Tick \/ \E d \in WallSteps : StepWall(d)
  /\ UNCHANGED <<row, log, evid, saved, restarts, lost>>

Next ==
  \/ \E k \in Keys, v \in Values : Sample(k, v)
  \/ SweepAll
  \/ FlushBaseline
  \/ \E d \in Downtimes, stopped \in BOOLEAN : Restart(d, stopped)
  \/ Clocks
  \/ Horizon /\ UNCHANGED nvars

Spec == Init /\ [][Next]_nvars

----------------------------------------------------------------------------
(* Properties.                                                             *)

Rows == [state: {"none", "open", "cooldown"}, uid: Nat, opened: Int, changed: Int,
         closed: Int, worst: Int, n: Nat, step: Nat, kept: Int]
Evidence == [pre: Nat, during: Nat, post: Nat]
Transitions == {"open", "reopen", "close", "stale", "expired", "persistent"}
LogRows == [uid: Nat, transition: Transitions, ts: Int, opened: Int, worst: Int]

\* Types of everything the node stores.
TypeOK ==
  /\ DTypeOK
  /\ row \in [Keys -> Rows]
  /\ log \in [Keys -> Seq(LogRows)]
  /\ evid \in [Keys -> Evidence]
  /\ saved \in [Keys -> Nat]
  /\ restarts \in Nat /\ lost \in Nat

Openings == {"open", "reopen"}

\* Invariant 4 of the ADR: a transition and its state row commit together.  The
\* newest transition of a key names the uid of its state row, and that row is
\* open exactly when the transition was an opening -- across failed batches,
\* crashes and restarts.
LogMatchesState ==
  \A k \in Keys :
    IF row[k].state = "none" THEN log[k] = <<>>
    ELSE /\ log[k] # <<>> /\ Last(log[k]).uid = row[k].uid
         /\ (row[k].state = "open") = (Last(log[k]).transition \in Openings)

\* load_open's purpose: the detector and the disk agree on which incidents are
\* open, so that after any number of crashes a broken condition resumes its
\* incident and a closed one is not closed again (no batch being lost).
MemoryMatchesDisk ==
  lost = 0 => \A k \in Keys :
    /\ det[k].state \in Active <=> row[k].state = "open"
    /\ det[k].state = "cooldown" => row[k].state = "cooldown"

\* The life of a key in the log: openings and terminals alternate, a reopen
\* continues the uid that ended at most ReopenS before, an open starts the next
\* uid, and no row is older than the one before (no batch being lost, no clock
\* correction).
LogAlternates ==
  lost = 0 /\ steps = 0 => \A k \in Keys : \A i \in DOMAIN log[k] :
    LET r == log[k][i]
    IN IF i = 1 THEN r.transition = "open"
       ELSE LET p == log[k][i - 1]
            IN /\ p.ts <= r.ts
               /\ (p.transition \in Openings) # (r.transition \in Openings)
               /\ CASE r.transition = "open" ->
                         r.uid = p.uid + 1 /\ r.ts - p.ts > ReopenS
                    [] r.transition = "reopen" ->
                         r.uid = p.uid /\ r.ts - p.ts <= ReopenS
                    [] OTHER -> r.uid = p.uid /\ r.opened = p.opened

\* worst_value of an open incident is the worst sample since it opened, also when
\* decimation kept no row for that sample and the node restarted since (no batch
\* being lost).
WorstIsPeak ==
  lost = 0 => \A k \in Keys : row[k].state = "open" => row[k].worst = hist[k].peak

Uids(k) == {log[k][i].uid : i \in DOMAIN log[k]}

\* The uid the state row of k held open when its log had n rows.
HeldOpen(k, n, u) ==
  IF n = Len(log[k]) THEN row[k].state = "open" /\ row[k].uid = u
  ELSE log[k][n].transition \in Openings /\ log[k][n].uid = u

\* However far a hub is behind, what it says is what the node knew when it wrote the
\* newest row the hub has: a uid is ongoing exactly when its last transition says the
\* condition persists, or it is the one the node's state row held open (no batch
\* being lost, no clock correction).
HubAgrees ==
  lost = 0 /\ steps = 0 => \A k \in Keys : \A n \in DOMAIN log[k], u \in Uids(k) :
    LET have == SubSeq(log[k], 1, n)
    IN Ongoing(have, u) <=>
         \/ HeldOpen(k, n, u)
         \/ /\ RowsOf(have, u) # {}
            /\ have[Max(RowsOf(have, u))].transition = "persistent"

CountOf(k, u, T) ==
  Cardinality({i \in RowsOf(log[k], u) : log[k][i].transition \in T})

\* Evidence is paid for per transition: however long an incident lasts and however
\* often the node restarts or loses a batch, each opening of a uid buys at most
\* PreMax and one ladder of samples, each close at most PostMax.
EvidencePerTransition ==
  \A k \in Keys :
    LET opens == CountOf(k, row[k].uid, Openings)
    IN /\ evid[k].pre <= opens * PreMax
       /\ evid[k].during <= opens * Larger(DuringMax, HeadMax)
       /\ evid[k].post <= CountOf(k, row[k].uid, {"close"}) * PostMax

----------------------------------------------------------------------------
(* What the documentation and comments promise and the code does not keep.  *)

\* Invariant 12 of the ADR, "the hub never reads the absence of a close as evidence
\* the fault persists": once the detector of a key is back in OK, no uid of it is
\* ongoing on a hub that has received every row.
NoCloseIsNoEvidence ==
  \A k \in Keys : det[k].state = "ok" =>
    \A u \in Uids(k) : ~Ongoing(log[k], u)

\* incidents.apply: "a lost write means the condition is re-observed and re-acted on
\* next cycle".  By the time the detector is back in OK, no row is left open.
LostWriteIsReacted ==
  \A k \in Keys : det[k].state = "ok" => row[k].state # "open"
=============================================================================
