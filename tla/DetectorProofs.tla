--------------------------- MODULE DetectorProofs ---------------------------
(***************************************************************************)
(* What module Detector keeps for every set of keys, every rule and every  *)
(* choice of the durations.                                                *)
(***************************************************************************)
EXTENDS Detector, TLAPS

\* The inductive invariant of one key.  In ok the last sample did not breach, and a
\* candidate's timer is the start of the unbroken run; the hold's timer is not older
\* than the last sick sample, as long as there are thresholds to hold against; and
\* the last sweep found the signal of an active incident alive.
KeyInv(k) ==
  /\ hist[k].sick <= mono
  /\ det[k].state = "ok" => hist[k].run = 0
  /\ det[k].state = "armed" => hist[k].run # 0 /\ hist[k].run = det[k].since
  /\ det[k].state = "closing" /\ HasThresholds(k) => hist[k].sick <= det[k].since
  /\ det[k].state \in Active => swept - det[k].last < StaleS

DInv ==
  /\ DTypeOK
  /\ mono >= 1 /\ swept <= mono
  /\ \A k \in Keys : KeyInv(k)

----------------------------------------------------------------------------
(* Initially.                                                              *)

\* The detector starts inside its invariant.
LEMMA InitInv == DInit => DInv
  BY RuleAssumption, DurationAssumption
  DEF DInit, DInv, DTypeOK, KeyInv, Machine, History, Fresh, Cold, NoHistory, Active,
      States, Rules

----------------------------------------------------------------------------
(* Evaluating one sample.                                                  *)

\* The value a rule of some key has, field by field.
LEMMA RuleTypes ==
  ASSUME NEW k \in Keys
  PROVE  /\ Rule[k].fixed \in BOOLEAN /\ Rule[k].absolute \in BOOLEAN
         /\ Rule[k].trip \in Int /\ Rule[k].clear \in Int
         /\ Rule[k].for_s \in Nat /\ Rule[k].clear_for_s \in Nat
         /\ Rule[k].cooldown_s \in Nat /\ Rule[k].min_n \in Nat
  BY RuleAssumption DEF Rules

\* Observed keeps its type; its run and sick are at most now.
LEMMA ObservedType ==
  ASSUME DInv, NEW k \in Keys, NEW v \in Int
  PROVE  /\ Observed(k, v) \in History
         /\ Observed(k, v).sick <= mono
         /\ v <= Rule[k].clear => Observed(k, v).sick = hist[k].sick
         /\ Breaching(k, v) /\ hist[k].run # 0 => Observed(k, v).run = hist[k].run
         /\ Breaching(k, v) => Observed(k, v).run # 0
         /\ Breaching(k, v) /\ hist[k].run = 0 => Observed(k, v).run = mono
<1>1. hist[k] \in History /\ mono \in Int
      /\ mono >= 1 /\ hist[k].sick <= mono
  BY DEF DInv, DTypeOK, KeyInv, History
<1>2. Rule[k].clear \in Int
  BY RuleTypes
<1> QED
  BY <1>1, <1>2, RuleTypes DEF Observed, Breaching, HasThresholds, History

\* What a move of k leaves behind, field by field.
LEMMA MovesFields ==
  ASSUME DInv, NEW k \in Keys, NEW st \in Machine, NEW out, Moves(k, st, out)
  PROVE  /\ det' \in [Keys -> Machine]
         /\ det'[k].state = st.state /\ det'[k].since = st.since
         /\ det'[k].last = mono /\ det'[k].opened = st.opened
         /\ det'[k].worst = st.worst
         /\ \A j \in Keys \ {k} : det'[j] = det[j]
         /\ acts' = out
<1>1. det \in [Keys -> Machine] /\ mono \in Int
  BY DEF DInv, DTypeOK
<1>2. [st EXCEPT !.last = mono] =
        [state |-> st.state, since |-> st.since, last |-> mono,
         opened |-> st.opened, worst |-> st.worst]
  BY DEF Machine
<1>3. det' = [det EXCEPT ![k] = [st EXCEPT !.last = mono]] /\ acts' = out
  BY DEF Moves
<1> QED  BY <1>1, <1>2, <1>3 DEF Machine

\* A step on k alone: the invariant of every other key, and the clocks, stand.
LEMMA OneKey ==
  ASSUME DInv, NEW k \in Keys,
         UNCHANGED <<mono, wall, steps, due, swept>>,
         det' \in [Keys -> Machine], hist' \in [Keys -> History],
         base' \in [Keys -> [n: Nat, dirty: BOOLEAN]], acts' \in SUBSET Actions,
         \A j \in Keys \ {k} :
           det'[j] = det[j] /\ hist'[j] = hist[j] /\ base'[j] = base[j],
         KeyInv(k)'
  PROVE  DInv'
<1>1. \A j \in Keys \ {k} : KeyInv(j)'
  BY DEF DInv, KeyInv, HasThresholds
<1> QED  BY <1>1 DEF DInv, DTypeOK

\* Everything a move has to show about the machine st and the history h it leaves.
LEMMA MoveInv ==
  ASSUME DInv, NEW k \in Keys, NEW st \in Machine, NEW h \in History,
         NEW out \in SUBSET Actions,
         UNCHANGED <<mono, wall, steps, due, swept, base>>,
         Moves(k, st, out), hist' = [hist EXCEPT ![k] = h],
         h.sick <= mono,
         st.state = "ok" => h.run = 0,
         st.state = "armed" => h.run # 0 /\ h.run = st.since,
         st.state = "closing" /\ HasThresholds(k) => h.sick <= st.since
  PROVE  DInv'
<1>1. /\ hist \in [Keys -> History] /\ base \in [Keys -> [n: Nat, dirty: BOOLEAN]]
      /\ mono \in Int /\ swept \in Int /\ swept <= mono
  BY DEF DInv, DTypeOK
<1>2. hist' \in [Keys -> History] /\ hist'[k] = h
      /\ \A j \in Keys \ {k} : hist'[j] = hist[j]
  BY <1>1
<1>3. KeyInv(k)'
  BY <1>1, <1>2, MovesFields, DurationAssumption DEF KeyInv, Active, HasThresholds
<1> QED  BY <1>1, <1>2, <1>3, MovesFields, OneKey

\* What the state before says of the machine of k.
LEMMA Before ==
  ASSUME DInv, NEW k \in Keys
  PROVE  /\ det[k] \in Machine /\ hist[k] \in History
         /\ mono \in Int /\ wall \in Int
         /\ hist \in [Keys -> History]
         /\ base \in [Keys -> [n: Nat, dirty: BOOLEAN]]
  BY DEF DInv, DTypeOK

\* What Action builds is an action.
LEMMA ActionType ==
  ASSUME NEW k \in Keys, NEW op \in Ops, NEW v \in Int, NEW w \in Int, wall \in Int
  PROVE  {Action(k, op, v, w)} \in SUBSET Actions
  BY DEF Action, Actions

\* The running extremum is an integer.
LEMMA WorstType ==
  ASSUME DInv, NEW k \in Keys, NEW v \in Int
  PROVE  Worst(k, v) \in Int
  BY Before DEF Worst, Larger, Machine

\* A first breach (detect.py's OK row) keeps the invariant.
LEMMA ArmInv ==
  ASSUME DInv, NEW k \in Keys, NEW v \in Int, Arm(k, v),
         UNCHANGED <<mono, wall, steps, due, swept>>
  PROVE  DInv'
<1> DEFINE st == [det[k] EXCEPT !.state = "armed", !.since = mono]
<1>1. st \in Machine /\ st.state = "armed" /\ st.since = mono
  BY Before DEF Machine, States
<1>2. Moves(k, st, {}) /\ Breaching(k, v) /\ det[k].state = "ok" /\ UNCHANGED base
      /\ hist' = [hist EXCEPT ![k] = Observed(k, v)]
  BY DEF Arm
<1> HIDE DEF st
<1>3. hist[k].run = 0
  BY <1>2 DEF DInv, KeyInv
<1> QED  BY <1>1, <1>2, <1>3, ObservedType, MoveInv

\* A healthy sample in OK, the one that teaches the baseline, keeps the invariant:
\* the warm-up count only grows, so no threshold is lost.
LEMMA LearnInv ==
  ASSUME DInv, NEW k \in Keys, NEW v \in Int, Learn(k, v),
         UNCHANGED <<mono, wall, steps, due, swept>>
  PROVE  DInv'
<1>1. Moves(k, det[k], {}) /\ ~Breaching(k, v) /\ det[k].state = "ok"
      /\ base' = [base EXCEPT ![k] = Learnt(@)]
      /\ hist' = [hist EXCEPT ![k] = Observed(k, v)]
  BY DEF Learn
<1>2. base[k] \in [n: Nat, dirty: BOOLEAN]
  BY Before
<1>3. Learnt(base[k]) \in [n: Nat, dirty: BOOLEAN]
  BY <1>2, DurationAssumption DEF Learnt, Smaller
<1>4. base' \in [Keys -> [n: Nat, dirty: BOOLEAN]]
      /\ \A j \in Keys \ {k} : base'[j] = base[j]
  BY <1>1, <1>3, Before
<1>5. hist' \in [Keys -> History] /\ hist'[k] = Observed(k, v)
      /\ \A j \in Keys \ {k} : hist'[j] = hist[j]
  BY <1>1, ObservedType, Before
<1>6. Observed(k, v).run = 0
  BY <1>1 DEF Observed
<1>7. KeyInv(k)'
  BY <1>1, <1>5, <1>6, MovesFields, ObservedType, Before DEF KeyInv, Active
<1> QED  BY <1>1, <1>4, <1>5, <1>7, MovesFields, Before, OneKey

\* A candidate that did not hold keeps the invariant.
LEMMA DisarmInv ==
  ASSUME DInv, NEW k \in Keys, NEW v \in Int, Disarm(k, v),
         UNCHANGED <<mono, wall, steps, due, swept>>
  PROVE  DInv'
<1> DEFINE st == [det[k] EXCEPT !.state = "ok"]
<1>1. st \in Machine /\ st.state = "ok"
  BY Before DEF Machine, States
<1>2. Moves(k, st, {}) /\ ~Breaching(k, v) /\ UNCHANGED base
      /\ hist' = [hist EXCEPT ![k] = Observed(k, v)]
  BY DEF Disarm
<1> HIDE DEF st
<1>3. Observed(k, v).run = 0
  BY <1>2 DEF Observed
<1> QED  BY <1>1, <1>2, <1>3, ObservedType, MoveInv

\* The machine an opening leaves behind.
LEMMA OpenedType ==
  ASSUME DInv, NEW k \in Keys, NEW v \in Int
  PROVE  Opened(k, v) \in Machine /\ Opened(k, v).state = "open"
  BY Before DEF Opened, Machine, States

\* An observation whose peak is then overwritten.
LEMMA MarkedType ==
  ASSUME NEW o \in History, NEW p \in Int
  PROVE  /\ [o EXCEPT !.peak = p] \in History
         /\ [o EXCEPT !.peak = p].run = o.run /\ [o EXCEPT !.peak = p].sick = o.sick
  BY DEF History

\* The history an opening records: the observation, with its peak set.
LEMMA MarkedObservation ==
  ASSUME DInv, NEW k \in Keys, NEW v \in Int, NEW p \in Int
  PROVE  /\ [Observed(k, v) EXCEPT !.peak = p] \in History
         /\ [Observed(k, v) EXCEPT !.peak = p].sick <= mono
         /\ [Observed(k, v) EXCEPT !.peak = p].sick = Observed(k, v).sick
<1> DEFINE o == Observed(k, v)
<1>1. o \in History /\ o.sick <= mono /\ mono \in Int
  BY ObservedType, Before
<1> HIDE DEF o
<1>2. /\ [o EXCEPT !.peak = p] \in History
      /\ [o EXCEPT !.peak = p].sick <= mono
      /\ [o EXCEPT !.peak = p].sick = o.sick
  BY <1>1, MarkedType
<1> QED  BY <1>2 DEF o

\* The history an open incident records: the observation, with a larger peak.
LEMMA PeakType ==
  ASSUME DInv, NEW k \in Keys, NEW v \in Int
  PROVE  Larger(Observed(k, v).peak, v) \in Int
<1> DEFINE o == Observed(k, v)
<1>1. o \in History
  BY ObservedType
<1> HIDE DEF o
<1>2. Larger(o.peak, v) \in Int
  BY <1>1 DEF Larger, History
<1> QED  BY <1>2 DEF o

\* The step that confirms a candidate, or waits on, keeps the invariant.
LEMMA DebounceInv ==
  ASSUME DInv, NEW k \in Keys, NEW v \in Int, Debounce(k, v),
         UNCHANGED <<mono, wall, steps, due, swept>>
  PROVE  DInv'
<1>1. Breaching(k, v) /\ det[k].state = "armed" /\ UNCHANGED base
  BY DEF Debounce
<1>2. CASE mono - det[k].since >= Rule[k].for_s
  <2> DEFINE h == [Observed(k, v) EXCEPT !.peak = v]
  <2>1. Moves(k, Opened(k, v), {Action(k, "open", v, v)})
        /\ hist' = [hist EXCEPT ![k] = h]
    BY <1>2 DEF Debounce
  <2>2. h \in History /\ h.sick <= mono
    BY MarkedObservation
  <2>3. {Action(k, "open", v, v)} \in SUBSET Actions
    BY ActionType, Before DEF Ops
  <2> HIDE DEF h
  <2> QED  BY <1>1, <2>1, <2>2, <2>3, OpenedType, MoveInv
<1>3. CASE ~(mono - det[k].since >= Rule[k].for_s)
  <2>1. Moves(k, det[k], {}) /\ hist' = [hist EXCEPT ![k] = Observed(k, v)]
    BY <1>3 DEF Debounce
  <2>2. hist[k].run # 0 /\ hist[k].run = det[k].since
    BY <1>1 DEF DInv, KeyInv
  <2> DEFINE h == Observed(k, v)
  <2>3. h \in History /\ h.sick <= mono /\ h.run # 0 /\ h.run = det[k].since
    BY <1>1, <2>2, ObservedType
  <2>4. hist' = [hist EXCEPT ![k] = h]
    BY <2>1
  <2> DEFINE st == det[k]
  <2>5. st \in Machine /\ st.state = "armed" /\ st.since = det[k].since
        /\ Moves(k, st, {})
    BY <1>1, <2>1, Before
  <2> HIDE DEF h, st
  <2> QED  BY <1>1, <2>3, <2>4, <2>5, MoveInv
<1> QED  BY <1>2, <1>3

\* A breaching sample of an open incident keeps the invariant.
LEMMA DuringInv ==
  ASSUME DInv, NEW k \in Keys, NEW v \in Int, During(k, v),
         UNCHANGED <<mono, wall, steps, due, swept>>
  PROVE  DInv'
<1> DEFINE w == Worst(k, v)
           st == [det[k] EXCEPT !.state = "open", !.worst = w]
           p == Larger(Observed(k, v).peak, v)
           h == [Observed(k, v) EXCEPT !.peak = p]
           out == {Action(k, "sample", v, w)}
<1>1. w \in Int /\ p \in Int
  BY WorstType, PeakType
<1>2. st \in Machine /\ st.state = "open"
  BY <1>1, Before DEF Machine, States
<1>3. h \in History /\ h.sick <= mono
  BY <1>1, MarkedObservation
<1>4. out \in SUBSET Actions
  BY <1>1, ActionType, Before DEF Ops
<1>5. Moves(k, st, out) /\ hist' = [hist EXCEPT ![k] = h] /\ UNCHANGED base
  BY DEF During
<1> HIDE DEF st, h, out
<1> QED  BY <1>2, <1>3, <1>4, <1>5, MoveInv

\* The first sample that no longer breaches starts the hold: no sample from now on
\* is older than its timer.
LEMMA StartClosingInv ==
  ASSUME DInv, NEW k \in Keys, NEW v \in Int, StartClosing(k, v),
         UNCHANGED <<mono, wall, steps, due, swept>>
  PROVE  DInv'
<1> DEFINE w == Worst(k, v)
           st == [det[k] EXCEPT !.state = "closing", !.since = mono, !.worst = w]
           p == Larger(Observed(k, v).peak, v)
           h == [Observed(k, v) EXCEPT !.peak = p]
           out == {Action(k, "sample", v, w)}
<1>1. w \in Int /\ p \in Int
  BY WorstType, PeakType
<1>2. st \in Machine /\ st.state = "closing" /\ st.since = mono
  BY <1>1, Before DEF Machine, States
<1>3. h \in History /\ h.sick <= mono
  BY <1>1, MarkedObservation
<1>4. out \in SUBSET Actions
  BY <1>1, ActionType, Before DEF Ops
<1>5. Moves(k, st, out) /\ hist' = [hist EXCEPT ![k] = h] /\ UNCHANGED base
  BY DEF StartClosing
<1> HIDE DEF st, h, out
<1> QED  BY <1>2, <1>3, <1>4, <1>5, MoveInv

\* A close keeps the invariant.
LEMMA CloseInv ==
  ASSUME DInv, NEW k \in Keys, NEW v \in Int, Close(k, v),
         UNCHANGED <<mono, wall, steps, due, swept>>
  PROVE  DInv'
<1> DEFINE w == Worst(k, v)
           st == [det[k] EXCEPT !.state = "cooldown", !.since = mono, !.worst = w]
           p == Larger(Observed(k, v).peak, v)
           h == [Observed(k, v) EXCEPT !.peak = p]
           out == {Action(k, "close", v, w)}
<1>1. w \in Int /\ p \in Int
  BY WorstType, PeakType
<1>2. st \in Machine /\ st.state = "cooldown"
  BY <1>1, Before DEF Machine, States
<1>3. h \in History /\ h.sick <= mono
  BY <1>1, MarkedObservation
<1>4. out \in SUBSET Actions
  BY <1>1, ActionType, Before DEF Ops
<1>5. Moves(k, st, out) /\ hist' = [hist EXCEPT ![k] = h] /\ UNCHANGED base
  BY DEF Close
<1> HIDE DEF st, h, out
<1> QED  BY <1>2, <1>3, <1>4, <1>5, MoveInv

\* The hold: the band restarts it, and without a sick sample it keeps its bound.
LEMMA HoldInv ==
  ASSUME DInv, NEW k \in Keys, NEW v \in Int, Hold(k, v),
         UNCHANGED <<mono, wall, steps, due, swept>>
  PROVE  DInv'
<1> DEFINE w == Worst(k, v)
           t == IF Clearing(k, v) THEN det[k].since ELSE mono
           st == [det[k] EXCEPT !.since = t, !.worst = w]
           p == Larger(Observed(k, v).peak, v)
           h == [Observed(k, v) EXCEPT !.peak = p]
<1>1. w \in Int /\ p \in Int /\ t \in Int
  BY WorstType, PeakType, Before DEF Machine
<1>2. st \in Machine /\ st.state = det[k].state /\ st.since = t
  BY <1>1, Before DEF Machine, States
<1>3. h \in History /\ h.sick <= mono /\ h.sick = Observed(k, v).sick
  BY <1>1, MarkedObservation
<1>4. Moves(k, st, {}) /\ hist' = [hist EXCEPT ![k] = h] /\ UNCHANGED base
      /\ det[k].state = "closing"
  BY DEF Hold
<1>5. HasThresholds(k) => hist[k].sick <= det[k].since
  BY <1>4 DEF DInv, KeyInv
<1>6. HasThresholds(k) => h.sick <= t
  <2> SUFFICES ASSUME HasThresholds(k) PROVE h.sick <= t
    OBVIOUS
  <2>1. CASE Clearing(k, v)
    <3>1. v <= Rule[k].clear
      BY <1>5, <2>1 DEF Clearing
    <3> QED  BY <1>3, <1>5, <2>1, <3>1, ObservedType
  <2>2. CASE ~Clearing(k, v)
    BY <1>3, <2>2
  <2> QED  BY <2>1, <2>2
<1> HIDE DEF st, h, t
<1> QED  BY <1>2, <1>3, <1>4, <1>5, <1>6, MoveInv

\* A re-trip out of COOLDOWN keeps the invariant.
LEMMA RetripInv ==
  ASSUME DInv, NEW k \in Keys, NEW v \in Int, Retrip(k, v),
         UNCHANGED <<mono, wall, steps, due, swept>>
  PROVE  DInv'
<1> DEFINE h == [Observed(k, v) EXCEPT !.peak = v]
<1>1. Moves(k, Opened(k, v), {Action(k, "open", v, v)}) /\ UNCHANGED base
      /\ hist' = [hist EXCEPT ![k] = h]
  BY DEF Retrip
<1>2. h \in History /\ h.sick <= mono
  BY MarkedObservation
<1>3. {Action(k, "open", v, v)} \in SUBSET Actions
  BY ActionType, Before DEF Ops
<1> HIDE DEF h
<1> QED  BY <1>1, <1>2, <1>3, OpenedType, MoveInv

\* A sample in COOLDOWN that does not breach keeps the invariant.
LEMMA CoolDownInv ==
  ASSUME DInv, NEW k \in Keys, NEW v \in Int, CoolDown(k, v),
         UNCHANGED <<mono, wall, steps, due, swept>>
  PROVE  DInv'
<1> DEFINE st == IF mono - det[k].since >= Rule[k].cooldown_s
                 THEN [det[k] EXCEPT !.state = "ok"] ELSE det[k]
<1>1. Moves(k, st, {}) /\ UNCHANGED base /\ det[k].state = "cooldown"
      /\ hist' = [hist EXCEPT ![k] = Observed(k, v)] /\ ~Breaching(k, v)
  BY DEF CoolDown
<1>2. st \in Machine /\ st.state \in {"ok", "cooldown"}
  BY <1>1, Before DEF Machine, States
<1>3. Observed(k, v).run = 0
  BY <1>1 DEF Observed
<1> HIDE DEF st
<1> QED  BY <1>1, <1>2, <1>3, ObservedType, MoveInv

\* Whatever evaluate does with a sample keeps the invariant.
LEMMA EvaluateInv ==
  ASSUME DInv, NEW k \in Keys, NEW v \in Values, Evaluate(k, v)
  PROVE  DInv'
<1>1. v \in Int /\ UNCHANGED <<mono, wall, steps, due, swept>>
  BY ValuesAssumption DEF Evaluate
<1> QED
  BY <1>1, ArmInv, LearnInv, DisarmInv, DebounceInv, DuringInv, StartClosingInv,
     CloseInv, HoldInv, RetripInv, CoolDownInv DEF Evaluate

----------------------------------------------------------------------------
(* The sweep and the clocks.                                               *)

\* What the sweep emits is an action.
LEMMA RetireActionType ==
  ASSUME DInv, NEW k \in Keys
  PROVE  RetireAction(k) \in Actions
<1>1. det[k].worst \in Int /\ wall \in Int
  BY Before DEF Machine
<1> QED  BY <1>1 DEF RetireAction, Action, Actions, Ops

\* The next slot is a whole number, in the future, and at most one interval away.
LEMMA SlotInt ==
  ASSUME wall \in Int
  PROVE  NextSlot \in Int /\ wall < NextSlot /\ NextSlot - wall <= SweepEvery
<1>1. SweepEvery \in Int /\ SweepEvery > 0
  BY DurationAssumption
<1>2. wall % SweepEvery \in 0 .. (SweepEvery - 1)
  BY <1>1
<1> QED  BY <1>1, <1>2 DEF NextSlot

\* The sweep keeps the invariant: what it leaves active reported less than StaleS
\* ago, and what it thaws is no longer active.
LEMMA SweepInv ==
  ASSUME DInv, Sweep
  PROVE  DInv'
<1>1. /\ det \in [Keys -> Machine] /\ hist \in [Keys -> History]
      /\ base \in [Keys -> [n: Nat, dirty: BOOLEAN]]
      /\ mono \in Int /\ wall \in Int /\ steps \in Nat /\ mono >= 1
  BY DEF DInv, DTypeOK
<1>2. acts' \in SUBSET Actions
  BY RetireActionType DEF Sweep
<1>3. det' \in [Keys -> Machine]
  BY <1>1 DEF Sweep, Machine, States
<1>4. hist' \in [Keys -> History]
  BY <1>1 DEF Sweep, History
<1>5. base' \in [Keys -> [n: Nat, dirty: BOOLEAN]]
  BY <1>1 DEF Sweep, Cold
<1>6. ASSUME NEW k \in Keys PROVE KeyInv(k)'
  <2>1. det[k] \in Machine /\ hist[k] \in History /\ KeyInv(k)
    BY <1>1 DEF DInv
  <2>2. UNCHANGED mono /\ swept' = mono
    BY DEF Sweep
  <2>3. CASE Retired(k)
    <3>1. det'[k].state = "cooldown" /\ hist'[k].sick = hist[k].sick
      BY <2>1, <2>3 DEF Sweep, Machine, History
    <3> QED  BY <2>1, <2>2, <3>1 DEF KeyInv, Active
  <2>4. CASE ~Retired(k)
    <3>1. det'[k] = det[k] /\ hist'[k] = hist[k]
      BY <2>4 DEF Sweep
    <3>2. UNCHANGED base[k]
      BY <2>4 DEF Sweep, Thaws, Retired
    <3>3. det[k].state \in Active => mono - det[k].last < StaleS
      BY <1>1, <2>1, <2>4, DurationAssumption DEF Retired, Stale, Machine
    <3> QED  BY <2>1, <2>2, <3>1, <3>2, <3>3 DEF KeyInv, HasThresholds
  <2> QED  BY <2>3, <2>4
<1>7. mono' = mono /\ wall' = wall /\ steps' = steps /\ swept' = mono /\ due' \in Int
  BY <1>1, SlotInt DEF Sweep
<1> QED
  BY <1>1, <1>2, <1>3, <1>4, <1>5, <1>6, <1>7, DurationAssumption DEF DInv, DTypeOK

\* The passing of time keeps the invariant: the sweep's mark does not move.
LEMMA TickInv ==
  ASSUME DInv, Tick
  PROVE  DInv'
<1>1. \A k \in Keys : hist[k] \in History
  BY DEF DInv, DTypeOK
<1> QED
  BY <1>1, DurationAssumption
  DEF Tick, DInv, DTypeOK, KeyInv, HasThresholds, History

\* A correction of the wall clock keeps the invariant, which is about mono alone.
LEMMA StepWallInv ==
  ASSUME DInv, NEW d \in WallSteps, StepWall(d)
  PROVE  DInv'
BY DurationAssumption DEF StepWall, DInv, DTypeOK, KeyInv, HasThresholds

\* A step that changes nothing keeps the invariant.
LEMMA StutterInv ==
  ASSUME DInv, UNCHANGED dvars
  PROVE  DInv'
BY DEF dvars, DInv, DTypeOK, KeyInv, HasThresholds

\* The end of the bounded time keeps the invariant.
LEMMA HorizonInv == ASSUME DInv, Horizon PROVE DInv'
BY StutterInv DEF Horizon

\* Every step of the detector keeps the invariant.
LEMMA NextInv == DInv /\ [DNext]_dvars => DInv'
  BY EvaluateInv, SweepInv, TickInv, StepWallInv, StutterInv, HorizonInv DEF DNext

(* Thresholds outlive what was judged by them, until the process does not.  *)

\* While an incident is being believed, its thresholds exist.
Believed(k) == det[k].state \in {"armed", "open", "closing"} => HasThresholds(k)

\* A baseline is forgotten only with its incident, and learnt only outside one.
LEMMA BelievedStep ==
  ASSUME DInv, \A k \in Keys : Believed(k), [DNext]_dvars, NEW k \in Keys
  PROVE  Believed(k)'
<1>1. det[k] \in Machine /\ base[k] \in [n: Nat, dirty: BOOLEAN] /\ Believed(k)
  BY Before
<1>2. ASSUME NEW j \in Keys, NEW v \in Values, Evaluate(j, v) PROVE Believed(k)'
  <2>1. CASE j # k
    <3>1. \E st : det' = [det EXCEPT ![j] = st]
      BY <1>2 DEF Evaluate, Moves, Arm, Learn, Disarm, Debounce, During, StartClosing,
         Close, Hold, Retrip, CoolDown
    <3>2. UNCHANGED base \/ base' = [base EXCEPT ![j] = Learnt(@)]
      BY <1>2 DEF Evaluate, Arm, Learn, Disarm, Debounce, During, StartClosing, Close,
         Hold, Retrip, CoolDown
    <3>3. det'[k] = det[k] /\ base'[k] = base[k]
      <4>1. /\ j \in Keys /\ k \in Keys /\ j # k
            /\ det \in [Keys -> Machine] /\ base \in [Keys -> [n: Nat, dirty: BOOLEAN]]
        BY <2>1 DEF DInv, DTypeOK
      <4>2. det'[k] = det[k]
        BY <3>1, <4>1
      <4>3. base'[k] = base[k]
        BY <3>2, <4>1
      <4> QED  BY <4>2, <4>3
    <3> QED  BY <1>1, <3>3 DEF Believed, HasThresholds
  <2>2. CASE j = k /\ Learn(k, v)
    <3>1. det'[k].state = "ok"
      BY <1>1, <2>2, Before, MovesFields DEF Learn
    <3> QED  BY <3>1 DEF Believed
  <2>3. CASE j = k /\ ~Learn(k, v)
    <3>1. UNCHANGED base
      BY <1>2, <2>3 DEF Evaluate, Arm, Disarm, Debounce, During, StartClosing, Close,
         Hold, Retrip, CoolDown
    <3>2. CASE CoolDown(k, v)
      <4> DEFINE st == IF mono - det[k].since >= Rule[k].cooldown_s
                       THEN [det[k] EXCEPT !.state = "ok"] ELSE det[k]
      <4>1. Moves(k, st, {}) /\ st \in Machine /\ st.state \in {"ok", "cooldown"}
        BY <1>1, <3>2 DEF CoolDown, Machine, States
      <4> HIDE DEF st
      <4> QED  BY <4>1, MovesFields DEF Believed
    <3>3. CASE ~CoolDown(k, v)
      <4>1. HasThresholds(k)
        BY <1>1, <1>2, <2>3, <3>3
        DEF Evaluate, Arm, Disarm, Debounce, During, StartClosing, Close, Hold, Retrip,
            Breaching, Believed, Active
      <4> QED  BY <3>1, <4>1 DEF Believed, HasThresholds
    <3> QED  BY <3>2, <3>3
  <2> QED  BY <2>1, <2>2, <2>3
<1>3. CASE Sweep
  <2>1. CASE Retired(k)
    <3>1. det'[k].state = "cooldown"
      BY <1>1, <1>3, <2>1 DEF Sweep, Machine
    <3> QED  BY <3>1 DEF Believed
  <2>2. CASE ~Retired(k)
    BY <1>1, <1>3, <2>2 DEF Sweep, Retired, Thaws, Believed, HasThresholds
  <2> QED  BY <2>1, <2>2
<1>4. CASE Tick \/ (\E d \in WallSteps : StepWall(d)) \/ UNCHANGED dvars
  BY <1>1, <1>4 DEF Tick, StepWall, dvars, Believed, HasThresholds
<1> QED  BY <1>2, <1>3, <1>4 DEF DNext, Horizon

\* The inductive invariant holds in every reachable state: for every set of keys, all
\* rules, durations, samples and clock corrections, the timers and the history of a
\* key are those its state promises.
THEOREM Invariance == DSpec => []DInv
  BY InitInv, NextInv, PTL DEF DSpec

----------------------------------------------------------------------------
(* What each step may emit.                                                *)

\* A sweep or a clock emits no open, no close and no sample.
LEMMA OnlyEvaluateSpeaks ==
  ASSUME DInv, DNext, dvars' # dvars, NEW k \in Keys,
         NEW op \in {"open", "close"}, Emits(k, op)
  PROVE  \E v \in Values : Evaluate(k, v)
<1>1. CASE Sweep
  <2>1. \A j \in Keys : RetireAction(j).op \in {"stale", "persist", "expire"}
    BY DEF RetireAction, Action
  <2>2. PICK a \in acts' : a.op = op
    BY DEF Emits
  <2>3. \E j \in Keys : a = RetireAction(j)
    BY <1>1, <2>2 DEF Sweep
  <2> QED  BY <2>1, <2>2, <2>3
<1>2. CASE Tick \/ \E d \in WallSteps : StepWall(d)
  BY <1>2 DEF Tick, StepWall, Emits
<1>3. ASSUME NEW j \in Keys, NEW v \in Values, Evaluate(j, v)
      PROVE  j = k
  BY <1>3 DEF Evaluate, Emits, Moves, Action, Arm, Learn, Disarm, Debounce, During,
              StartClosing, Close, Hold, Retrip, CoolDown
<1> QED  BY <1>1, <1>2, <1>3 DEF DNext, Horizon

\* Outside a cooldown only a debounce that has run its time opens.
LEMMA OpenStep ==
  ASSUME DInv, DNext, dvars' # dvars, NEW k \in Keys,
         Emits(k, "open"), det[k].state # "cooldown"
  PROVE  hist[k].run # 0 /\ mono - hist[k].run >= Rule[k].for_s
<1>1. PICK v \in Values : Evaluate(k, v)
  BY OnlyEvaluateSpeaks
<1>2. Debounce(k, v)
  BY <1>1 DEF Evaluate, Emits, Moves, Action, Arm, Learn, Disarm, Debounce, During,
              StartClosing, Close, Hold, Retrip, CoolDown
<1>3. det[k].state = "armed" /\ mono - det[k].since >= Rule[k].for_s
  BY <1>2 DEF Debounce, Emits, Moves
<1> QED  BY <1>3 DEF DInv, KeyInv

\* Only a served hold closes.
LEMMA ClosesFromClosing ==
  ASSUME DInv, DNext, dvars' # dvars, NEW k \in Keys, Emits(k, "close")
  PROVE  det[k].state = "closing" /\ mono - det[k].since >= Rule[k].clear_for_s
<1>1. PICK v \in Values : Evaluate(k, v)
  BY OnlyEvaluateSpeaks
<1>2. Close(k, v)
  BY <1>1 DEF Evaluate, Emits, Moves, Action, Arm, Learn, Disarm, Debounce, During,
              StartClosing, Close, Hold, Retrip, CoolDown
<1> QED  BY <1>2 DEF Close, HoldServed

LEMMA CloseStep ==
  ASSUME DInv, DNext, dvars' # dvars, NEW k \in Keys, Emits(k, "close"), HasThresholds(k)
  PROVE  mono - hist[k].sick >= Rule[k].clear_for_s
<1>1. det[k].state = "closing" /\ mono - det[k].since >= Rule[k].clear_for_s
  BY ClosesFromClosing
<1>2. hist[k].sick <= det[k].since
  BY <1>1 DEF DInv, KeyInv
<1>3. /\ hist[k].sick \in Int /\ det[k].since \in Int /\ mono \in Int
      /\ Rule[k].clear_for_s \in Int
  BY Before, RuleTypes DEF Machine, History
<1> QED  BY <1>1, <1>2, <1>3

\* The baseline of k changes where the freeze policy lets it.
LEMMA BaselineStep ==
  ASSUME DInv, DNext, dvars' # dvars, NEW k \in Keys, base'[k] # base[k]
  PROVE  \/ det[k].state = "ok" /\ det'[k].state = "ok" /\ hist'[k].run = 0
         \/ Emits(k, "expire") /\ ~Rule[k].absolute
<1>1. CASE Sweep
  <2>1. Thaws(k) /\ Retired(k)
    BY <1>1 DEF Sweep, Thaws, Retired
  <2>2. RetireAction(k).op = "expire" /\ RetireAction(k).key = k
    BY <2>1 DEF RetireAction, Thaws, Outlived, Action
  <2>3. RetireAction(k) \in acts'
    BY <1>1, <2>1 DEF Sweep
  <2> QED  BY <2>1, <2>2, <2>3 DEF Emits, Thaws
<1>2. ASSUME NEW j \in Keys, NEW v \in Values, Evaluate(j, v)
      PROVE  det[k].state = "ok" /\ det'[k].state = "ok" /\ hist'[k].run = 0
  <2>1. Learn(j, v) /\ v \in Int
    BY <1>2, ValuesAssumption
    DEF Evaluate, Arm, Disarm, Debounce, During, StartClosing, Close, Hold,
        Retrip, CoolDown
  <2>2. j = k
    BY <2>1, Before DEF Learn
  <2>3. Moves(k, det[k], {}) /\ det[k].state = "ok" /\ det[k] \in Machine
    BY <2>1, <2>2, Before DEF Learn
  <2>4. hist' = [hist EXCEPT ![k] = Observed(k, v)] /\ ~Breaching(k, v)
    BY <2>1, <2>2 DEF Learn
  <2>5. Observed(k, v).run = 0
    BY <2>4 DEF Observed
  <2> QED  BY <2>1, <2>3, <2>4, <2>5, MovesFields, Before
<1>3. CASE Tick \/ \E d \in WallSteps : StepWall(d)
  BY <1>3 DEF Tick, StepWall
<1> QED  BY <1>1, <1>2, <1>3 DEF DNext, Horizon

----------------------------------------------------------------------------
(* The sweep's cadence, while nobody puts the wall clock back.             *)

\* The time since the last sweep and the time to the next slot make one interval.
Cadence ==
  /\ mono - swept <= SweepEvery
  /\ (due - wall) + (mono - swept) <= SweepEvery

\* No step breaks the cadence, unless it puts the wall clock back.
LEMMA CadenceStep ==
  ASSUME DInv, Cadence, [DNext]_dvars, WallSteps \subseteq Nat \/ steps' = 0
  PROVE  Cadence'
<1>1. /\ mono \in Int /\ wall \in Int /\ swept \in Int /\ due \in Int
      /\ SweepEvery \in Nat \ {0}
  BY DurationAssumption DEF DInv, DTypeOK
<1>2. ASSUME NEW k \in Keys, NEW v \in Values, Evaluate(k, v) PROVE Cadence'
  BY <1>2 DEF Evaluate, Cadence
<1>3. CASE Sweep
  <2>1. mono' = mono /\ wall' = wall /\ swept' = mono /\ due' = NextSlot
    BY <1>3 DEF Sweep
  <2> QED  BY <1>1, <2>1, SlotInt DEF Cadence
<1>4. CASE Tick
  BY <1>1, <1>4 DEF Tick, Cadence
<1>5. ASSUME NEW d \in WallSteps, StepWall(d) PROVE Cadence'
  <2>1. d \in Nat /\ wall' = wall + d /\ UNCHANGED <<mono, due, swept>>
    BY <1>5 DEF StepWall, DInv, DTypeOK
  <2> QED  BY <1>1, <2>1 DEF Cadence
<1>6. CASE UNCHANGED dvars
  BY <1>6 DEF dvars, Cadence
<1> QED  BY <1>2, <1>3, <1>4, <1>5, <1>6 DEF DNext, Horizon

----------------------------------------------------------------------------
(* Expiry, while nobody corrects the wall clock.                           *)

\* The two clocks run together, and the last sweep found no incident too old.
AgeInv ==
  /\ steps = 0 /\ wall = mono /\ Cadence
  /\ \A k \in Keys : det[k].state \in Active => swept - det[k].opened < MaxOpenS

\* Only an opening moves opened, and it sets it to now.
LEMMA OpenedMoves ==
  ASSUME DInv, NEW k \in Keys, NEW v \in Values, Evaluate(k, v)
  PROVE  /\ \A j \in Keys \ {k} : det'[j] = det[j]
         /\ det'[k].state \in Active =>
              \/ det'[k].opened = wall
              \/ det[k].state \in Active /\ det'[k].opened = det[k].opened
<1>1. det[k] \in Machine /\ v \in Int /\ det \in [Keys -> Machine] /\ mono \in Int
  BY Before, ValuesAssumption DEF DInv, DTypeOK
<1>2. CASE Arm(k, v) \/ Learn(k, v) \/ Disarm(k, v)
  BY <1>1, <1>2, ZenonT(40) DEF Arm, Learn, Disarm, Moves, Machine, Active
<1>3. CASE Debounce(k, v) \/ Retrip(k, v)
  BY <1>1, <1>3 DEF Debounce, Retrip, Opened, Moves, Machine, Active
<1>4. CASE During(k, v)
  <2> DEFINE st == [det[k] EXCEPT !.state = "open", !.worst = Worst(k, v)]
             out == {Action(k, "sample", v, Worst(k, v))}
  <2>1. st \in Machine /\ st.opened = det[k].opened
    BY <1>1, WorstType DEF Machine, States
  <2>2. Moves(k, st, out) /\ det[k].state \in Active
    BY <1>4 DEF During, Active
  <2> HIDE DEF st, out
  <2> QED  BY <2>1, <2>2, MovesFields
<1>5. CASE StartClosing(k, v)
  <2> DEFINE st == [det[k] EXCEPT !.state = "closing", !.since = mono,
                                 !.worst = Worst(k, v)]
             out == {Action(k, "sample", v, Worst(k, v))}
  <2>1. st \in Machine /\ st.opened = det[k].opened
    BY <1>1, WorstType DEF Machine, States
  <2>2. Moves(k, st, out) /\ det[k].state \in Active
    BY <1>5 DEF StartClosing, Active
  <2> HIDE DEF st, out
  <2> QED  BY <2>1, <2>2, MovesFields
<1>6. CASE Hold(k, v)
  <2> DEFINE st == [det[k] EXCEPT !.since = IF Clearing(k, v) THEN @ ELSE mono,
                                 !.worst = Worst(k, v)]
             out == {}
  <2>1. st \in Machine /\ st.opened = det[k].opened
    BY <1>1, WorstType DEF Machine, States
  <2>2. Moves(k, st, out) /\ det[k].state \in Active
    BY <1>6 DEF Hold, Active
  <2> HIDE DEF st, out
  <2> QED  BY <2>1, <2>2, MovesFields
<1>7. CASE Close(k, v)
  BY <1>1, <1>7 DEF Close, Moves, Machine, Active
<1>8. CASE CoolDown(k, v)
  <2> DEFINE st == IF mono - det[k].since >= Rule[k].cooldown_s
                   THEN [det[k] EXCEPT !.state = "ok"] ELSE det[k]
  <2>1. st \in Machine /\ st.state \notin Active
    BY <1>1, <1>8 DEF CoolDown, Machine, States, Active
  <2>2. Moves(k, st, {})
    BY <1>8 DEF CoolDown
  <2> HIDE DEF st
  <2> QED  BY <2>1, <2>2, MovesFields
<1> QED  BY <1>2, <1>3, <1>4, <1>5, <1>6, <1>7, <1>8 DEF Evaluate

\* While nobody steps the wall clock, what a sweep left active was younger than
\* MaxOpenS then.
\* A sweep leaves no incident that has outlived MaxOpenS.
LEMMA SweepAges ==
  ASSUME DInv, wall = mono, Sweep
  PROVE  \A k \in Keys : det'[k].state \in Active => swept' - det'[k].opened < MaxOpenS
<1>1. mono \in Int /\ wall \in Int /\ det \in [Keys -> Machine] /\ swept' = mono
  BY DEF DInv, DTypeOK, Sweep
<1>2. SUFFICES ASSUME NEW k \in Keys, det'[k].state \in Active
               PROVE  mono - det'[k].opened < MaxOpenS
  BY <1>1
<1>3. det[k] \in Machine
  BY <1>1
<1>4. ~Retired(k)
  BY <1>2, <1>3 DEF Sweep, Active, Machine
<1>5. det'[k] = det[k]
  BY <1>4 DEF Sweep
<1> QED
  BY <1>1, <1>2, <1>3, <1>4, <1>5, DurationAssumption DEF Retired, Outlived, Machine

LEMMA AgeStep ==
  ASSUME DInv, AgeInv, steps' = 0, [DNext]_dvars
  PROVE  AgeInv'
<1>0. Cadence'
  BY CadenceStep DEF AgeInv
<1>1. /\ mono \in Int /\ wall \in Int /\ swept \in Int /\ swept <= mono
      /\ det \in [Keys -> Machine] /\ steps = 0 /\ wall = mono
  BY DEF DInv, DTypeOK, AgeInv
<1>2. ASSUME NEW k \in Keys, NEW v \in Values, Evaluate(k, v) PROVE AgeInv'
  <2>1. UNCHANGED <<mono, wall, steps, due, swept>>
    BY <1>2 DEF Evaluate
  <2> QED  BY <1>1, <1>2, <1>0, <2>1, OpenedMoves, DurationAssumption DEF AgeInv
<1>3. CASE Sweep
  <2>1. UNCHANGED <<mono, wall, steps>> /\ swept' = mono
    BY <1>3 DEF Sweep
  <2> QED  BY <1>0, <1>1, <1>3, <2>1, SweepAges DEF AgeInv
<1>4. CASE Tick
  BY <1>0, <1>1, <1>4 DEF Tick, AgeInv
<1>5. ASSUME NEW d \in WallSteps, StepWall(d) PROVE AgeInv'
  BY <1>1, <1>5 DEF StepWall
<1>6. CASE UNCHANGED dvars
  BY <1>0, <1>6 DEF dvars, AgeInv
<1> QED  BY <1>2, <1>3, <1>4, <1>5, <1>6 DEF DNext, Horizon

----------------------------------------------------------------------------
(* The theorems.                                                           *)

\* Every field of the detector keeps its type, for any rules, any values the
\* probes deliver and any movement of the clocks (detect.py, evaluate and sweep).
THEOREM TypeCorrect == DSpec => []DTypeOK
<1>1. DInv => DTypeOK
  BY DEF DInv
<1> QED  BY <1>1, Invariance, PTL

\* While nobody puts the wall clock back, a silent signal is retired within StaleS
\* plus one sweep (detect.py, sweep, on the cadence of core.run_scheduler).
THEOREM SilentSignals ==
  ASSUME WallSteps \subseteq Nat PROVE DSpec => []SilentSignalIsRetired
<1>1. DInit => Cadence
  BY DurationAssumption DEF DInit, Cadence
<1>2. DInv /\ Cadence /\ [DNext]_dvars => Cadence'
  BY CadenceStep
<1>3. ASSUME DInv, Cadence, NEW k \in Keys, det[k].state \in Active
      PROVE  mono - det[k].last < StaleS + SweepEvery
  <2>1. /\ swept - det[k].last < StaleS /\ mono - swept <= SweepEvery
        /\ mono \in Int /\ swept \in Int
    BY <1>3 DEF DInv, DTypeOK, KeyInv, Cadence
  <2>2. det[k].last \in Int
    BY <1>3, Before DEF Machine
  <2> QED  BY <2>1, <2>2, DurationAssumption
<1>4. DInv /\ Cadence => SilentSignalIsRetired
  BY <1>3 DEF SilentSignalIsRetired
<1> QED  BY <1>1, <1>2, <1>4, Invariance, PTL DEF DSpec

\* An incident that opens outside a cooldown was breaching at every sample of the
\* last for_s seconds (detect.py, evaluate, the ARMED state).
THEOREM Debounced == DSpec => DebounceBeforeOpen
<1>1. DInv /\ [DNext]_dvars =>
        [\A k \in Keys :
           Emits(k, "open") /\ det[k].state # "cooldown"
             => hist[k].run # 0 /\ mono - hist[k].run >= Rule[k].for_s]_dvars
  BY OpenStep
<1> QED  BY <1>1, Invariance, PTL DEF DSpec, DebounceBeforeOpen

\* An incident that closes had no sample above its clear threshold for clear_for_s
\* seconds, however often it bounced through the hysteresis band (detect.py,
\* evaluate, the CLOSING state).
THEOREM HoldServedBeforeClose == DSpec => HoldBeforeClose
<1> DEFINE AllBelieved == \A k \in Keys : Believed(k)
<1>1. DInit => AllBelieved
  BY DEF DInit, Fresh, Believed
<1>2. DInv /\ AllBelieved /\ [DNext]_dvars => AllBelieved'
  BY BelievedStep
<1>3. DInv /\ AllBelieved /\ [DNext]_dvars =>
        [\A k \in Keys :
           Emits(k, "close") => mono - hist[k].sick >= Rule[k].clear_for_s]_dvars
  <2> SUFFICES ASSUME DInv, AllBelieved, DNext, dvars' # dvars, NEW k \in Keys,
                      Emits(k, "close")
               PROVE  mono - hist[k].sick >= Rule[k].clear_for_s
    OBVIOUS
  <2>1. det[k].state = "closing"
    BY ClosesFromClosing
  <2> QED  BY <2>1, CloseStep DEF Believed
<1> QED  BY <1>1, <1>2, <1>3, Invariance, PTL DEF DSpec, HoldBeforeClose

\* A baseline changes by a healthy sample outside every incident, or by the thaw
\* of an expired relative rule, and in no other way (detect.py and baseline.py).
THEOREM BaselineFrozen == DSpec => BaselineLearnsOnlyHealth
<1>1. DInv /\ [DNext]_dvars =>
        [\A k \in Keys : base'[k] # base[k] =>
           \/ det[k].state = "ok" /\ det'[k].state = "ok" /\ hist'[k].run = 0
           \/ Emits(k, "expire") /\ ~Rule[k].absolute]_dvars
  BY BaselineStep
<1> QED  BY <1>1, Invariance, PTL DEF DSpec, BaselineLearnsOnlyHealth

\* Until the wall clock is corrected, no incident outlives INCIDENT_MAX_OPEN_S by
\* more than one sweep, whatever its samples do (detect.py, sweep).
THEOREM Expiry == DSpec => []NothingStaysOpen
<1> DEFINE Until == steps = 0 => AgeInv
<1>1. DInit => Until
  BY DurationAssumption DEF DInit, AgeInv, Cadence, Fresh, Active
<1>2. DInv /\ Until /\ [DNext]_dvars => Until'
  <2> SUFFICES ASSUME DInv, Until, [DNext]_dvars, steps' = 0  PROVE AgeInv'
    OBVIOUS
  <2>1. steps \in Nat
    BY DEF DInv, DTypeOK
  <2>2. steps = 0
    <3>1. ASSUME NEW d \in WallSteps, StepWall(d) PROVE steps' # 0
      BY <2>1, <3>1 DEF StepWall
    <3>2. CASE \E k \in Keys, v \in Values : Evaluate(k, v)
      BY <3>2 DEF Evaluate
    <3>3. CASE Sweep \/ Tick \/ UNCHANGED dvars
      BY <3>3 DEF Sweep, Tick, dvars
    <3> QED  BY <3>1, <3>2, <3>3 DEF DNext, Horizon
  <2> QED  BY <2>2, AgeStep
<1>3. ASSUME DInv, AgeInv, NEW k \in Keys, det[k].state \in Active
      PROVE  wall - det[k].opened < MaxOpenS + SweepEvery
  <2>1. /\ mono \in Int /\ swept \in Int /\ mono - swept <= SweepEvery
        /\ wall = mono /\ swept - det[k].opened < MaxOpenS
    BY <1>3 DEF DInv, DTypeOK, AgeInv, Cadence
  <2>2. det[k].opened \in Int
    BY <1>3, Before DEF Machine
  <2> QED  BY <2>1, <2>2, DurationAssumption
<1>4. DInv /\ Until => NothingStaysOpen
  BY <1>3 DEF NothingStaysOpen
<1> QED  BY <1>1, <1>2, <1>4, Invariance, PTL DEF DSpec
=============================================================================
