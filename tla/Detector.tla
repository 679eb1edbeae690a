------------------------------ MODULE Detector ------------------------------
(***************************************************************************)
(* The online detector of a node: detect.py, with the part of baseline.py  *)
(* that decides whether a learned rule is usable.  One state machine per   *)
(* signal key, fed one sample at a time by the collector's only thread,    *)
(* and an age-based sweep.  The detector writes nothing: a step's output   *)
(* is the set acts of actions that incidents.py is asked to persist.       *)
(*                                                                         *)
(* Data abstraction.  A sample is an integer badness: values above trip    *)
(* breach, values above clear do not count as recovered (a rule of         *)
(* direction "-" is the mirror image).  For a learned rule the thresholds  *)
(* are positions relative to the node's baseline, and exist only once the  *)
(* baseline holds min_n samples; the centre and spread themselves are      *)
(* abstracted to that count.                                               *)
(***************************************************************************)
EXTENDS Integers, FiniteSets

CONSTANTS
  Keys,          (* the signal keys (incident_key)                         *)
  Rule,          (* the effective rule of each key                         *)
  Values,        (* the sample values the probes can hand over             *)
  BaselineMaxN,  (* BASELINE_MAX_N, where the warm-up counter saturates    *)
  StaleS,        (* SIGNAL_STALE_S                                         *)
  MaxOpenS,      (* INCIDENT_MAX_OPEN_S, compared on the wall clock        *)
  SweepEvery,    (* the sweep's cadence, PROBE_INTERVAL                    *)
  WallSteps,     (* the NTP corrections the wall clock may receive         *)
  MaxWallSteps,  (* bound: how many of them                                *)
  MaxMono        (* bound: when time stops                                 *)

\* A fixed rule has its own thresholds; a learned one takes them from the
\* baseline.  absolute is the separate flag that says what expiry may do.
Rules == [fixed: BOOLEAN, absolute: BOOLEAN, trip: Int, clear: Int,
          for_s: Nat, clear_for_s: Nat, cooldown_s: Nat, min_n: Nat]

ASSUME RuleAssumption == Rule \in [Keys -> Rules]
ASSUME ValuesAssumption == Values \subseteq Int
ASSUME DurationAssumption ==
  /\ StaleS \in Nat \ {0} /\ MaxOpenS \in Nat \ {0} /\ SweepEvery \in Nat \ {0}
  /\ BaselineMaxN \in Nat \ {0}
  /\ MaxMono \in Nat /\ MaxWallSteps \in Nat /\ WallSteps \subseteq Int

VARIABLES
  mono,    (* time.monotonic()                                             *)
  wall,    (* time.time()                                                  *)
  steps,   (* corrections of the wall clock so far                         *)
  due,     (* the next slot of the sweep in the scheduler, on wall         *)
  swept,   (* when the sweep last ran, on mono (for the properties only)   *)
  det,     (* _states: the state machine of each key                       *)
  base,    (* baseline._cache, as a warm-up count and its dirty mark       *)
  acts,    (* the actions returned by the last step                        *)
  hist     (* history of the samples themselves, for the properties only   *)

dvars == <<mono, wall, steps, due, swept, det, base, acts, hist>>

----------------------------------------------------------------------------
States == {"ok", "armed", "open", "closing", "cooldown"}
Active == {"open", "closing"}
Ops == {"open", "sample", "close", "stale", "expire", "persist"}

Machine == [state: States, since: Int, last: Int, opened: Int, worst: Int]
History == [run: Int, sick: Int, peak: Int]

Fresh == [state |-> "ok", since |-> 0, last |-> 0, opened |-> 0, worst |-> 0]
Cold == [n |-> 0, dirty |-> FALSE]

\* run: first sample of the unbroken run of breaching samples now in progress
\* (0 when the last sample did not breach).  sick: the last sample above the
\* clear threshold.  peak: the largest sample since the incident opened.
NoHistory == [run |-> 0, sick |-> 0, peak |-> 0]

Larger(a, b) == IF a >= b THEN a ELSE b
Smaller(a, b) == IF a <= b THEN a ELSE b

----------------------------------------------------------------------------
(* The trip and recovery tests.                                            *)

HasThresholds(k) == Rule[k].fixed \/ base[k].n >= Rule[k].min_n
Breaching(k, v) == HasThresholds(k) /\ v > Rule[k].trip
Clearing(k, v) == HasThresholds(k) => v <= Rule[k].clear

Action(k, op, v, worst) ==
  [op |-> op, key |-> k, wall |-> wall, value |-> v, worst |-> worst]

\* baseline.update: one more sample folded in, never past the cap.
Learnt(b) == [n |-> IF b.n = 0 THEN 1 ELSE Smaller(b.n + 1, BaselineMaxN),
              dirty |-> TRUE]

\* What the samples themselves say, recorded next to every evaluation.
Observed(k, v) ==
  [run    |-> IF ~Breaching(k, v) THEN 0
              ELSE IF hist[k].run = 0 THEN mono ELSE hist[k].run,
   sick   |-> IF v > Rule[k].clear THEN mono ELSE hist[k].sick,
   peak   |-> hist[k].peak]

\* The machine of k moves to st; the emitted actions are out.
Moves(k, st, out) ==
  /\ det' = [det EXCEPT ![k] = [st EXCEPT !.last = mono]]
  /\ acts' = out

----------------------------------------------------------------------------
(* evaluate(), one operator per row of its transition structure.           *)

Arm(k, v) ==
  /\ det[k].state = "ok" /\ Breaching(k, v)
  /\ Moves(k, [det[k] EXCEPT !.state = "armed", !.since = mono], {})
  /\ hist' = [hist EXCEPT ![k] = Observed(k, v)]
  /\ UNCHANGED base

\* The one place the baseline learns.
Learn(k, v) ==
  /\ det[k].state = "ok" /\ ~Breaching(k, v)
  /\ Moves(k, det[k], {})
  /\ base' = [base EXCEPT ![k] = Learnt(@)]
  /\ hist' = [hist EXCEPT ![k] = Observed(k, v)]

\* Bug: the candidate survives a sample that does not breach.
DisarmForgotten(k, v) ==
  /\ det[k].state = "armed" /\ ~Breaching(k, v)
  /\ Moves(k, det[k], {})
  /\ hist' = [hist EXCEPT ![k] = Observed(k, v)]
  /\ UNCHANGED base

Disarm(k, v) ==
  /\ det[k].state = "armed" /\ ~Breaching(k, v)
  /\ Moves(k, [det[k] EXCEPT !.state = "ok"], {})
  /\ hist' = [hist EXCEPT ![k] = Observed(k, v)]
  /\ UNCHANGED base

Opened(k, v) == [det[k] EXCEPT !.state = "open", !.opened = wall, !.worst = v]

Debounce(k, v) ==
  /\ det[k].state = "armed" /\ Breaching(k, v)
  /\ IF mono - det[k].since >= Rule[k].for_s
     THEN /\ Moves(k, Opened(k, v), {Action(k, "open", v, v)})
          /\ hist' = [hist EXCEPT ![k] = [Observed(k, v) EXCEPT !.peak = v]]
     ELSE /\ Moves(k, det[k], {})
          /\ hist' = [hist EXCEPT ![k] = Observed(k, v)]
  /\ UNCHANGED base

Worst(k, v) == Larger(det[k].worst, v)

\* A breaching sample of an open incident, or one that bounces it back open.
During(k, v) ==
  /\ det[k].state \in Active /\ Breaching(k, v)
  /\ Moves(k, [det[k] EXCEPT !.state = "open", !.worst = Worst(k, v)],
           {Action(k, "sample", v, Worst(k, v))})
  /\ hist' = [hist EXCEPT ![k] = [Observed(k, v) EXCEPT !.peak = Larger(@, v)]]
  /\ UNCHANGED base

StartClosing(k, v) ==
  /\ det[k].state = "open" /\ ~Breaching(k, v)
  /\ Moves(k, [det[k] EXCEPT !.state = "closing", !.since = mono,
                             !.worst = Worst(k, v)],
           {Action(k, "sample", v, Worst(k, v))})
  /\ hist' = [hist EXCEPT ![k] = [Observed(k, v) EXCEPT !.peak = Larger(@, v)]]
  /\ UNCHANGED base

HoldServed(k) == mono - det[k].since >= Rule[k].clear_for_s

Close(k, v) ==
  /\ det[k].state = "closing" /\ ~Breaching(k, v) /\ Clearing(k, v) /\ HoldServed(k)
  /\ Moves(k, [det[k] EXCEPT !.state = "cooldown", !.since = mono,
                             !.worst = Worst(k, v)],
           {Action(k, "close", v, Worst(k, v))})
  /\ hist' = [hist EXCEPT ![k] = [Observed(k, v) EXCEPT !.peak = Larger(@, v)]]
  /\ UNCHANGED base

\* Bug: the hysteresis band does not restart the hold.
HoldKeepsRunning(k, v) ==
  /\ det[k].state = "closing" /\ ~Breaching(k, v)
  /\ ~(Clearing(k, v) /\ HoldServed(k))
  /\ Moves(k, [det[k] EXCEPT !.worst = Worst(k, v)], {})
  /\ hist' = [hist EXCEPT ![k] = [Observed(k, v) EXCEPT !.peak = Larger(@, v)]]
  /\ UNCHANGED base

\* Inside the hysteresis band the hold starts over; otherwise it runs on.
Hold(k, v) ==
  /\ det[k].state = "closing" /\ ~Breaching(k, v)
  /\ ~(Clearing(k, v) /\ HoldServed(k))
  /\ Moves(k, [det[k] EXCEPT !.since = IF Clearing(k, v) THEN @ ELSE mono,
                             !.worst = Worst(k, v)], {})
  /\ hist' = [hist EXCEPT ![k] = [Observed(k, v) EXCEPT !.peak = Larger(@, v)]]
  /\ UNCHANGED base

\* Tested before the cooldown's own deadline: no ARMED phase, at any age.
Retrip(k, v) ==
  /\ det[k].state = "cooldown" /\ Breaching(k, v)
  /\ Moves(k, Opened(k, v), {Action(k, "open", v, v)})
  /\ hist' = [hist EXCEPT ![k] = [Observed(k, v) EXCEPT !.peak = v]]
  /\ UNCHANGED base

CoolDown(k, v) ==
  /\ det[k].state = "cooldown" /\ ~Breaching(k, v)
  /\ Moves(k, IF mono - det[k].since >= Rule[k].cooldown_s
              THEN [det[k] EXCEPT !.state = "ok"] ELSE det[k], {})
  /\ hist' = [hist EXCEPT ![k] = Observed(k, v)]
  /\ UNCHANGED base

\* One probe feeds a signal, once per interval: never twice at one instant.
Due(k) == det[k].last < mono

Evaluate(k, v) ==
  /\ Due(k)
  /\ \/ Arm(k, v) \/ Learn(k, v) \/ Disarm(k, v) \/ Debounce(k, v)
     \/ During(k, v) \/ StartClosing(k, v) \/ Close(k, v) \/ Hold(k, v)
     \/ Retrip(k, v) \/ CoolDown(k, v)
  /\ UNCHANGED <<mono, wall, steps, due, swept>>

----------------------------------------------------------------------------
(* sweep(): incidents whose signal fell silent, then those open too long.  *)

\* Bug: an incident already on its way to closing is not looked at.
StaleOpenOnly(k) == det[k].state = "open" /\ mono - det[k].last >= StaleS

Stale(k) == det[k].state \in Active /\ mono - det[k].last >= StaleS
\* Bug: the age is counted from the last sample, which keeps moving.
OutlivedSinceLast(k) ==
  det[k].state \in Active /\ ~Stale(k) /\ mono - det[k].last >= MaxOpenS

Outlived(k) ==
  det[k].state \in Active /\ ~Stale(k) /\ wall - det[k].opened >= MaxOpenS
Retired(k) == Stale(k) \/ Outlived(k)

RetireAction(k) ==
  IF Stale(k) THEN Action(k, "stale", 0, det[k].worst)
  ELSE Action(k, IF Rule[k].absolute THEN "persist" ELSE "expire",
              det[k].worst, det[k].worst)

\* Bug: expiry forgets the baseline of absolute rules too.
ThawsAll(k) == Outlived(k)

Thaws(k) == Outlived(k) /\ ~Rule[k].absolute

\* run_scheduler: the first multiple of the interval past the wall clock.  (The
\* per-node jitter, a constant phase, is left out.)
NextSlot == wall + (SweepEvery - (wall % SweepEvery))

Sweep ==
  /\ wall >= due /\ due' = NextSlot
  /\ det' = [k \in Keys |-> IF Retired(k)
                            THEN [det[k] EXCEPT !.state = "cooldown", !.since = mono]
                            ELSE det[k]]
  /\ acts' = {RetireAction(k) : k \in {j \in Keys : Retired(j)}}
  \* baseline.thaw drops the cached baseline; its dirty mark goes with it.
  /\ base' = [k \in Keys |-> IF Thaws(k) THEN Cold ELSE base[k]]
  /\ swept' = mono
  /\ UNCHANGED <<mono, wall, steps, hist>>

----------------------------------------------------------------------------
(* The two clocks.                                                         *)

\* Time passes.  The scheduler serves the sweep's slot as soon as the wall clock
\* reaches it, and not before, however much time goes by until then.
Tick ==
  /\ mono < MaxMono /\ wall < due
  /\ mono' = mono + 1 /\ wall' = wall + 1
  /\ acts' = {}
  /\ UNCHANGED <<steps, due, swept, det, base, hist>>

StepWall(d) ==
  /\ steps < MaxWallSteps /\ wall + d > 0
  /\ wall' = wall + d /\ steps' = steps + 1
  /\ acts' = {}
  /\ UNCHANGED <<mono, due, swept, det, base, hist>>

----------------------------------------------------------------------------
(* detect.restore: the machine a persisted row comes back as.  Elapsed     *)
(* time is re-seeded from the wall clock; a negative age starts it afresh. *)

\* Bug: a resumed incident has to earn its debounce again.
RestoredArmed(state, opened, changed, worst, atMono, atWall) ==
  [state |-> IF state = "cooldown" THEN state ELSE "armed",
   since |-> atMono, last |-> atMono, opened |-> opened, worst |-> worst]

\* Bug: the running extremum starts over with the process.
RestoredWithoutWorst(state, opened, changed, worst, atMono, atWall) ==
  [state |-> IF state = "closing" THEN "open" ELSE state,
   since |-> atMono, last |-> atMono, opened |-> opened, worst |-> 0]

Restored(state, opened, changed, worst, atMono, atWall) ==
  [state |-> IF state = "closing" THEN "open" ELSE state,
   since |-> IF atWall < changed THEN atMono ELSE atMono - (atWall - changed),
   last |-> atMono, opened |-> opened, worst |-> worst]

----------------------------------------------------------------------------
\* The bound MaxMono ends time, not the node.
Horizon == mono = MaxMono /\ UNCHANGED dvars

DInit ==
  /\ mono = 1 /\ wall = 1 /\ steps = 0 /\ due = 0 /\ swept = 1
  /\ det = [k \in Keys |-> Fresh]
  /\ base = [k \in Keys |-> Cold]
  /\ acts = {}
  /\ hist = [k \in Keys |-> NoHistory]

DNext ==
  \/ \E k \in Keys, v \in Values : Evaluate(k, v)
  \/ Sweep
  \/ Tick
  \/ \E d \in WallSteps : StepWall(d)
  \/ Horizon

DSpec == DInit /\ [][DNext]_dvars

----------------------------------------------------------------------------
(* Properties.                                                             *)

Actions == [op: Ops, key: Keys, wall: Int, value: Int, worst: Int]

\* Types of everything the detector keeps.
DTypeOK ==
  /\ mono \in Int /\ wall \in Int /\ steps \in Nat /\ due \in Int /\ swept \in Int
  /\ det \in [Keys -> Machine]
  /\ base \in [Keys -> [n: Nat, dirty: BOOLEAN]]
  /\ acts \in SUBSET Actions
  /\ hist \in [Keys -> History]

Emits(k, op) == \E a \in acts' : a.key = k /\ a.op = op

\* The debounce of detect.py's ARMED state: an incident that opens anywhere but
\* inside a cooldown had every sample breach for at least for_s before.
DebounceBeforeOpen ==
  [][\A k \in Keys :
       Emits(k, "open") /\ det[k].state # "cooldown"
         => hist[k].run # 0 /\ mono - hist[k].run >= Rule[k].for_s]_dvars

\* The recovery hold of CLOSING: a close says that no sample for at least
\* clear_for_s was above the clear threshold -- whatever bounced in between, and
\* whether the thresholds are fixed or learned.
HoldBeforeClose ==
  [][\A k \in Keys :
       Emits(k, "close") => mono - hist[k].sick >= Rule[k].clear_for_s]_dvars

\* sweep's stale path: an incident whose signal has gone silent is retired within
\* one sweep of SIGNAL_STALE_S (as long as the wall clock, which paces the sweep,
\* is never put back).
SilentSignalIsRetired ==
  \A k \in Keys : det[k].state \in Active => mono - det[k].last < StaleS + SweepEvery

\* sweep's expiry: no incident stays open longer than INCIDENT_MAX_OPEN_S and one
\* sweep, whatever its samples do (until the wall clock is stepped).
NothingStaysOpen ==
  steps = 0 => \A k \in Keys :
    det[k].state \in Active => wall - det[k].opened < MaxOpenS + SweepEvery

\* The freeze policy: a baseline changes only by learning from a sample that did
\* not breach and came outside every incident, or by the thaw of an expired
\* relative rule -- an absolute one is never trained away.
BaselineLearnsOnlyHealth ==
  [][\A k \in Keys : base'[k] # base[k] =>
       \/ det[k].state = "ok" /\ det'[k].state = "ok" /\ hist'[k].run = 0
       \/ Emits(k, "expire") /\ ~Rule[k].absolute]_dvars
=============================================================================
