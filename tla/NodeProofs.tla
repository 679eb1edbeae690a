------------------------------ MODULE NodeProofs ------------------------------
(***************************************************************************)
(* What the incident pipeline of module Node keeps for every set of keys,  *)
(* every rule, value and duration, every loss of a batch and every         *)
(* restart: what is on disk, in memory and in the transition log agree.    *)
(***************************************************************************)
EXTENDS Node, DetectorProofs, NaturalsInduction, WellFoundedInduction, FiniteSetTheorems

TerminalOps == {"close", "stale", "expire", "persist"}
Baselines == [Keys -> [n : Nat, dirty : BOOLEAN]]

----------------------------------------------------------------------------
(* Types of the detector, which is all the store asks of it.                *)

LEMMA Typed ==
  ASSUME DTypeOK, NEW k \in Keys
  PROVE  /\ det[k] \in Machine /\ hist[k] \in History /\ det \in [Keys -> Machine]
         /\ hist \in [Keys -> History] /\ base \in Baselines
         /\ mono \in Int /\ wall \in Int
BY DEF DTypeOK, Baselines

LEMMA ObservedTyped ==
  ASSUME DTypeOK, NEW k \in Keys, NEW v \in Int
  PROVE  Observed(k, v) \in History /\ Observed(k, v).peak = hist[k].peak
BY Typed DEF Observed, History

LEMMA PeakTyped ==
  ASSUME DTypeOK, NEW k \in Keys, NEW v \in Int
  PROVE  /\ [Observed(k, v) EXCEPT !.peak = v] \in History
         /\ [Observed(k, v) EXCEPT !.peak = v].peak = v
         /\ [Observed(k, v) EXCEPT !.peak = Larger(@, v)] \in History
         /\ [Observed(k, v) EXCEPT !.peak = Larger(@, v)].peak = Larger(hist[k].peak, v)
<1> DEFINE o == Observed(k, v)
<1>1. o \in History /\ o.peak = hist[k].peak
  BY ObservedTyped
<1> HIDE DEF o
<1>2. Larger(o.peak, v) \in Int
  BY <1>1 DEF Larger, History
<1>3. /\ [o EXCEPT !.peak = v] \in History /\ [o EXCEPT !.peak = v].peak = v
      /\ [o EXCEPT !.peak = Larger(o.peak, v)] \in History
      /\ [o EXCEPT !.peak = Larger(o.peak, v)].peak = Larger(o.peak, v)
  BY <1>1, <1>2 DEF History
<1>4. QED
  BY <1>1, <1>3 DEF o

----------------------------------------------------------------------------
(* What a sample does, as the store sees it.                               *)

Silent(k) ==
  /\ acts' = {} /\ det[k].state \notin Active /\ det'[k].state \notin Active
  /\ det'[k].state = "cooldown" => det[k].state = "cooldown"

Opening(k, v) ==
  /\ acts' = {Action(k, "open", v, v)} /\ det[k].state \notin Active
  /\ det'[k].state = "open" /\ det'[k].worst = v /\ hist'[k].peak = v /\ Breaching(k, v)

Goes(k, v) == det'[k].worst = Worst(k, v) /\ hist'[k].peak = Larger(hist[k].peak, v)

Going(k, v) ==
  /\ acts' = {Action(k, "sample", v, Worst(k, v))}
  /\ det[k].state \in Active /\ det'[k].state \in Active /\ Goes(k, v)

Holding(k, v) ==
  /\ acts' = {} /\ ~Breaching(k, v)
  /\ det[k].state \in Active /\ det'[k].state \in Active /\ Goes(k, v)

Closing(k, v) ==
  /\ acts' = {Action(k, "close", v, Worst(k, v))}
  /\ det[k].state \in Active /\ det'[k].state = "cooldown"

Turn(k, v) ==
  \/ Silent(k) \/ Opening(k, v) \/ Going(k, v) \/ Holding(k, v) \/ Closing(k, v)

Others(k) == \A j \in Keys \ {k} : det'[j] = det[j] /\ hist'[j] = hist[j]

LEMMA MoveTyped ==
  ASSUME DTypeOK, NEW k \in Keys, NEW st \in Machine, NEW h \in History,
         NEW out \in SUBSET Actions, Moves(k, st, out),
         hist' = [hist EXCEPT ![k] = h], base' \in Baselines,
         UNCHANGED <<mono, wall, steps, due, swept>>
  PROVE  /\ DTypeOK' /\ Others(k) /\ acts' = out
         /\ det'[k].state = st.state /\ det'[k].worst = st.worst /\ hist'[k] = h
<1>1. [st EXCEPT !.last = mono] =
        [state |-> st.state, since |-> st.since, last |-> mono, opened |-> st.opened,
         worst |-> st.worst]
  BY DEF Machine
<1>2. det' = [det EXCEPT ![k] = [st EXCEPT !.last = mono]] /\ acts' = out
  BY DEF Moves
<1>3. [st EXCEPT !.last = mono] \in Machine
  BY <1>1, Typed DEF Machine
<1>4. det' \in [Keys -> Machine] /\ det'[k].state = st.state /\ det'[k].worst = st.worst
  BY <1>1, <1>2, <1>3, Typed
<1>5. hist' \in [Keys -> History] /\ hist'[k] = h
  BY Typed
<1>6. Others(k)
  BY <1>2, Typed DEF Others
<1>7. DTypeOK'
  BY <1>2, <1>4, <1>5 DEF DTypeOK, Baselines
<1>8. QED
  BY <1>2, <1>4, <1>5, <1>6, <1>7

LEMMA WorstTyped ==
  ASSUME DTypeOK, NEW k \in Keys, NEW v \in Int PROVE Worst(k, v) \in Int
BY Typed DEF Worst, Larger, Machine

LEMMA SaysTyped ==
  ASSUME DTypeOK, NEW k \in Keys, NEW op \in Ops, NEW v \in Int, NEW w \in Int
  PROVE  {Action(k, op, v, w)} \in SUBSET Actions
BY Typed DEF Action, Actions

LEMMA SilentTurn ==
  ASSUME DTypeOK, NEW k \in Keys, NEW v \in Int, NEW st \in Machine,
         Moves(k, st, {}), hist' = [hist EXCEPT ![k] = Observed(k, v)], base' \in Baselines,
         UNCHANGED <<mono, wall, steps, due, swept>>,
         det[k].state \notin Active, st.state \notin Active,
         st.state = "cooldown" => det[k].state = "cooldown"
  PROVE  DTypeOK' /\ Others(k) /\ Silent(k)
<1> DEFINE h == Observed(k, v)
<1>1. h \in History
  BY ObservedTyped
<1>2. hist' = [hist EXCEPT ![k] = h] /\ {} \in SUBSET Actions
  OBVIOUS
<1> HIDE DEF h
<1>3. DTypeOK' /\ Others(k) /\ acts' = {} /\ det'[k].state = st.state
  BY <1>1, <1>2, MoveTyped, ZenonT(40)
<1>4. QED
  BY <1>3 DEF Silent

LEMMA SampleTurn ==
  ASSUME DTypeOK, NEW k \in Keys, NEW v \in Int, Evaluate(k, v)
  PROVE  DTypeOK' /\ Others(k) /\ Turn(k, v)
<1> USE DEF Active
<1>1. UNCHANGED <<mono, wall, steps, due, swept>> /\ base \in Baselines /\ det[k] \in Machine
  BY Typed DEF Evaluate
<1>2. CASE Arm(k, v)
  <2> DEFINE st == [det[k] EXCEPT !.state = "armed", !.since = mono]
  <2>1. st \in Machine /\ st.state = "armed"
    BY <1>1, Typed DEF Machine, States
  <2>2. Moves(k, st, {}) /\ hist' = [hist EXCEPT ![k] = Observed(k, v)] /\ base' = base
        /\ det[k].state = "ok"
    BY <1>2 DEF Arm
  <2> HIDE DEF st
  <2>3. QED
    BY <1>1, <2>1, <2>2, SilentTurn DEF Turn
<1>3. CASE Learn(k, v)
  <2>1. Moves(k, det[k], {}) /\ hist' = [hist EXCEPT ![k] = Observed(k, v)]
        /\ det[k].state = "ok" /\ base' = [base EXCEPT ![k] = Learnt(@)]
    BY <1>3 DEF Learn
  <2>2. Learnt(base[k]) \in [n : Nat, dirty : BOOLEAN]
    BY <1>1, DurationAssumption DEF Learnt, Smaller, Baselines
  <2>3. base' \in Baselines
    BY <1>1, <2>1, <2>2 DEF Baselines
  <2>4. QED
    BY <1>1, <2>1, <2>3, SilentTurn DEF Turn
<1>4. CASE Disarm(k, v)
  <2> DEFINE st == [det[k] EXCEPT !.state = "ok"]
  <2>1. st \in Machine /\ st.state = "ok"
    BY <1>1, Typed DEF Machine, States
  <2>2. Moves(k, st, {}) /\ hist' = [hist EXCEPT ![k] = Observed(k, v)] /\ base' = base
        /\ det[k].state = "armed"
    BY <1>4 DEF Disarm
  <2> HIDE DEF st
  <2>3. QED
    BY <1>1, <2>1, <2>2, SilentTurn DEF Turn
<1>5. ASSUME Moves(k, Opened(k, v), {Action(k, "open", v, v)}), base' = base,
             hist' = [hist EXCEPT ![k] = [Observed(k, v) EXCEPT !.peak = v]],
             det[k].state \notin Active, Breaching(k, v)
      PROVE  DTypeOK' /\ Others(k) /\ Opening(k, v)
  <2> DEFINE st == Opened(k, v)
             h == [Observed(k, v) EXCEPT !.peak = v]
             out == {Action(k, "open", v, v)}
  <2>1. st \in Machine /\ st.state = "open" /\ st.worst = v
    BY <1>1, Typed DEF Opened, Machine, States
  <2>2. h \in History /\ h.peak = v
    BY PeakTyped
  <2>3. out \in SUBSET Actions
    BY SaysTyped DEF Ops
  <2>4. Moves(k, st, out) /\ hist' = [hist EXCEPT ![k] = h]
    BY <1>5
  <2> HIDE DEF st, h, out
  <2>5. base' \in Baselines
    BY <1>1, <1>5
  <2>6. /\ DTypeOK' /\ Others(k) /\ acts' = out /\ det'[k].state = st.state
        /\ det'[k].worst = st.worst /\ hist'[k] = h
    BY <1>1, <2>1, <2>2, <2>3, <2>4, <2>5, MoveTyped
  <2>7. QED
    BY <1>5, <2>1, <2>2, <2>6 DEF Opening, out
<1>6. CASE Debounce(k, v)
  <2>1. CASE mono - det[k].since >= Rule[k].for_s
    BY <1>5, <1>6, <2>1 DEF Debounce, Turn
  <2>2. CASE ~(mono - det[k].since >= Rule[k].for_s)
    BY <1>1, <1>6, <2>2, SilentTurn DEF Debounce, Turn
  <2>3. QED
    BY <2>1, <2>2
<1>7. CASE Retrip(k, v)
  BY <1>5, <1>7 DEF Retrip, Turn
<1>8. CASE CoolDown(k, v)
  <2> DEFINE st == IF mono - det[k].since >= Rule[k].cooldown_s
                   THEN [det[k] EXCEPT !.state = "ok"] ELSE det[k]
  <2>1. Moves(k, st, {}) /\ hist' = [hist EXCEPT ![k] = Observed(k, v)] /\ base' = base
        /\ det[k].state = "cooldown"
    BY <1>8 DEF CoolDown
  <2>2. st \in Machine /\ st.state \in {"ok", "cooldown"}
    BY <1>1, <2>1 DEF Machine, States
  <2> HIDE DEF st
  <2>3. QED
    BY <1>1, <2>1, <2>2, SilentTurn DEF Turn
<1>9. ASSUME NEW st \in Machine, NEW out \in SUBSET Actions, Moves(k, st, out),
             st.worst = Worst(k, v), base' = base,
             hist' = [hist EXCEPT ![k] = [Observed(k, v) EXCEPT !.peak = Larger(@, v)]]
      PROVE  /\ DTypeOK' /\ Others(k) /\ Goes(k, v)
             /\ acts' = out /\ det'[k].state = st.state
  <2> DEFINE h == [Observed(k, v) EXCEPT !.peak = Larger(@, v)]
  <2>1. h \in History /\ h.peak = Larger(hist[k].peak, v)
    BY PeakTyped
  <2>2. hist' = [hist EXCEPT ![k] = h]
    BY <1>9
  <2> HIDE DEF h
  <2>3. /\ DTypeOK' /\ Others(k) /\ acts' = out /\ det'[k].state = st.state
        /\ det'[k].worst = st.worst /\ hist'[k] = h
    BY <1>1, <1>9, <2>1, <2>2, MoveTyped, ZenonT(40)
  <2>4. QED
    BY <1>9, <2>1, <2>3 DEF Goes
<1> DEFINE W == Worst(k, v)
<1>10. W \in Int /\ {} \in SUBSET Actions /\ {Action(k, "sample", v, W)} \in SUBSET Actions
       /\ {Action(k, "close", v, W)} \in SUBSET Actions
  BY WorstTyped, SaysTyped DEF Ops
<1>11. CASE During(k, v)
  <2> DEFINE st == [det[k] EXCEPT !.state = "open", !.worst = W]
  <2>1. st \in Machine /\ st.state = "open" /\ st.worst = W
    BY <1>1, <1>10, Typed DEF Machine, States
  <2>2. Moves(k, st, {Action(k, "sample", v, W)})
    BY <1>11 DEF During
  <2> HIDE DEF st
  <2>3. QED
    BY <1>9, <1>10, <1>11, <2>1, <2>2 DEF During, Turn, Going
<1>12. CASE StartClosing(k, v)
  <2> DEFINE st == [det[k] EXCEPT !.state = "closing", !.since = mono, !.worst = W]
  <2>1. st \in Machine /\ st.state = "closing" /\ st.worst = W
    BY <1>1, <1>10, Typed DEF Machine, States
  <2>2. Moves(k, st, {Action(k, "sample", v, W)})
    BY <1>12 DEF StartClosing
  <2> HIDE DEF st
  <2>3. QED
    BY <1>9, <1>10, <1>12, <2>1, <2>2 DEF StartClosing, Turn, Going
<1>13. CASE Close(k, v)
  <2> DEFINE st == [det[k] EXCEPT !.state = "cooldown", !.since = mono, !.worst = W]
  <2>1. st \in Machine /\ st.state = "cooldown" /\ st.worst = W
    BY <1>1, <1>10, Typed DEF Machine, States
  <2>2. Moves(k, st, {Action(k, "close", v, W)})
    BY <1>13 DEF Close
  <2> HIDE DEF st
  <2>3. QED
    BY <1>9, <1>10, <1>13, <2>1, <2>2 DEF Close, Turn, Closing
<1>14. CASE Hold(k, v)
  <2> DEFINE st == [det[k] EXCEPT !.since = IF Clearing(k, v) THEN @ ELSE mono, !.worst = W]
  <2>1. st \in Machine /\ st.state = det[k].state /\ st.worst = W
    BY <1>1, <1>10, Typed DEF Machine, States
  <2>2. Moves(k, st, {})
    BY <1>14 DEF Hold
  <2> HIDE DEF st
  <2>3. QED
    BY <1>9, <1>10, <1>14, <2>1, <2>2 DEF Hold, Turn, Holding
<1>15. QED
  BY <1>2, <1>3, <1>4, <1>6, <1>7, <1>8, <1>11, <1>12, <1>13, <1>14 DEF Evaluate

\* What a sweep does to every key: it retires it, and says so, or leaves it alone.
LEMMA SweepTurn ==
  ASSUME DTypeOK, Sweep
  PROVE  /\ DTypeOK' /\ hist' = hist
         /\ acts' = {RetireAction(k) : k \in {j \in Keys : Retired(j)}}
         /\ \A k \in Keys :
              /\ RetireAction(k) \in Actions /\ RetireAction(k).key = k
              /\ RetireAction(k).op \in TerminalOps
              /\ Retired(k) => det[k].state \in Active /\ det'[k].state = "cooldown"
              /\ ~Retired(k) => det'[k] = det[k]
<1>1. /\ det \in [Keys -> Machine] /\ hist \in [Keys -> History] /\ base \in Baselines
      /\ mono \in Int /\ wall \in Int /\ steps \in Nat
  BY DEF DTypeOK, Baselines
<1>2. ASSUME NEW k \in Keys
      PROVE  /\ RetireAction(k) \in Actions /\ RetireAction(k).key = k
             /\ RetireAction(k).op \in TerminalOps
  <2>1. det[k].worst \in Int
    BY <1>1 DEF Machine
  <2>2. QED
    BY <1>1, <2>1 DEF RetireAction, Action, Actions, Ops, TerminalOps
<1>3. acts' = {RetireAction(k) : k \in {j \in Keys : Retired(j)}} /\ hist' = hist
  BY DEF Sweep
<1>4. acts' \in SUBSET Actions
  BY <1>2, <1>3
<1>5. det' \in [Keys -> Machine]
  BY <1>1 DEF Sweep, Machine, States
<1>6. base' \in Baselines
  BY <1>1 DEF Sweep, Cold, Baselines
<1>7. due' \in Int
  <2>1. SweepEvery \in Int /\ SweepEvery > 0
    BY DurationAssumption
  <2>2. wall % SweepEvery \in 0 .. (SweepEvery - 1)
    BY <1>1, <2>1
  <2>3. NextSlot \in Int
    BY <1>1, <2>1, <2>2 DEF NextSlot
  <2>4. QED
    BY <2>3 DEF Sweep
<1>8. DTypeOK'
  BY <1>1, <1>3, <1>4, <1>5, <1>6, <1>7 DEF Sweep, DTypeOK, Baselines
<1>9. ASSUME NEW k \in Keys
      PROVE  /\ Retired(k) => det[k].state \in Active /\ det'[k].state = "cooldown"
             /\ ~Retired(k) => det'[k] = det[k]
  BY <1>1 DEF Sweep, Machine, Retired, Stale, Outlived
<1>10. QED
  BY <1>2, <1>3, <1>8, <1>9

----------------------------------------------------------------------------
(* What a batch of actions does to the tables, key by key.                 *)

Batch(A) ==
  /\ A \in SUBSET Actions
  /\ \A a, b \in A : a.key = b.key => a = b
  /\ (\E a \in A : A = {a}) \/ \A a \in A : a.op \in TerminalOps

StoreTypeOK ==
  /\ row \in [Keys -> Rows] /\ log \in [Keys -> Seq(LogRows)] /\ evid \in [Keys -> Evidence]

Stays(k) == row'[k] = row[k] /\ log'[k] = log[k]

Opens(k, a) ==
  /\ row'[k].state = "open" /\ row'[k].worst = a.value
  /\ row'[k].uid = IF Reopens(a) THEN row[k].uid ELSE row[k].uid + 1
  /\ row'[k].opened = IF Reopens(a) THEN row[k].opened ELSE a.wall
  /\ log'[k] = Append(log[k], Transition(row'[k].uid, IF Reopens(a) THEN "reopen" ELSE "open",
                                         a, row'[k].opened, a.value))

Samples(k, a) ==
  /\ row[k].state # "none" /\ log'[k] = log[k] /\ row'[k].worst = a.worst
  /\ row'[k].state = row[k].state /\ row'[k].uid = row[k].uid
  /\ row'[k].opened = row[k].opened /\ row'[k].closed = row[k].closed

Ends(k, a) ==
  /\ row[k].state # "none" /\ row'[k].state = "cooldown" /\ row'[k].closed = a.wall
  /\ row'[k].uid = row[k].uid /\ row'[k].opened = row[k].opened
  /\ log'[k] = Append(log[k], Transition(row[k].uid, Terminal[a.op], a, row[k].opened, a.worst))

\* On k, given what the batch says about it.
Effect(A, k) ==
  \/ Stays(k) /\ \A a \in A : a.key = k => a.op # "open" /\ row[k].state = "none"
  \/ \E a \in A : a.key = k /\ a.op = "open" /\ Opens(k, a)
  \/ \E a \in A : a.key = k /\ a.op = "sample" /\ Samples(k, a)
  \/ \E a \in A : a.key = k /\ a.op \in TerminalOps /\ Ends(k, a)

\* What the tables hold afterwards is typed, and every key had its effect.
Stored(A) == StoreTypeOK' /\ \A k \in Keys : Effect(A, k)

LEMMA RowTypes ==
  ASSUME StoreTypeOK, NEW k \in Keys
  PROVE  /\ row[k] \in Rows /\ log[k] \in Seq(LogRows) /\ evid[k] \in Evidence
         /\ row[k].state \in {"none", "open", "cooldown"} /\ row[k].uid \in Nat
         /\ row[k].opened \in Int /\ row[k].changed \in Int /\ row[k].closed \in Int
         /\ row[k].worst \in Int /\ row[k].n \in Nat /\ row[k].step \in Nat
         /\ row[k].kept \in Int
         /\ evid[k].pre \in Nat /\ evid[k].during \in Nat /\ evid[k].post \in Nat
<1>1. row[k] \in Rows /\ log[k] \in Seq(LogRows) /\ evid[k] \in Evidence
  BY DEF StoreTypeOK
<1>2. QED
  BY <1>1 DEF Rows, Evidence

LEMMA ActionTypes ==
  ASSUME NEW a \in Actions
  PROVE  /\ a.key \in Keys /\ a.op \in Ops /\ a.wall \in Int /\ a.value \in Int
         /\ a.worst \in Int
BY DEF Actions

LEMMA OpenStored ==
  ASSUME StoreTypeOK, NEW a \in Actions, a.op = "open",
         NEW pre \in {0, PreMax}, NEW head \in {1, HeadMax}, ApplyOpen(a, pre, head)
  PROVE  Stored({a})
<1> DEFINE k == a.key
           uid == IF Reopens(a) THEN row[k].uid ELSE row[k].uid + 1
           opened == IF Reopens(a) THEN row[k].opened ELSE a.wall
           old == IF Reopens(a) THEN evid[k] ELSE NoEvidence
           r == [state |-> "open", uid |-> uid, opened |-> opened,
                 changed |-> a.wall, closed |-> 0, worst |-> a.value,
                 n |-> IF WithinBudget THEN head ELSE 0, step |-> Step0,
                 kept |-> IF WithinBudget THEN a.wall ELSE 0]
           t == Transition(uid, IF Reopens(a) THEN "reopen" ELSE "open", a, opened, a.value)
           e == IF WithinBudget THEN [old EXCEPT !.pre = @ + pre, !.during = @ + head] ELSE old
<1>1. /\ row' = [row EXCEPT ![k] = r] /\ log' = [log EXCEPT ![k] = Append(@, t)]
      /\ evid' = [evid EXCEPT ![k] = e]
  BY DEF ApplyOpen
<1>2. k \in Keys /\ a.wall \in Int /\ a.value \in Int
  BY ActionTypes
<1>3. uid \in Nat /\ opened \in Int /\ old \in Evidence
  BY <1>2, RowTypes DEF NoEvidence, Evidence
<1>4. head \in Nat /\ pre \in Nat /\ Step0 \in Nat
  BY StoreAssumption
<1>5. r \in Rows
  BY <1>2, <1>3, <1>4 DEF Rows
<1>6. t \in LogRows
  BY <1>2, <1>3 DEF Transition, LogRows, Transitions
<1>7. e \in Evidence
  <2> HIDE DEF old
  <2>1. [old EXCEPT !.pre = old.pre + pre, !.during = old.during + head] \in Evidence
    <3>1. old.pre + pre \in Nat /\ old.during + head \in Nat
      BY <1>3, <1>4 DEF Evidence
    <3>2. QED
      BY <1>3, <3>1 DEF Evidence
  <2>2. QED
    BY <1>3, <2>1
<1>8. /\ r.state = "open" /\ r.worst = a.value /\ r.uid = uid /\ r.opened = opened
  OBVIOUS
<1>9. t = Transition(r.uid, IF Reopens(a) THEN "reopen" ELSE "open", a, r.opened, a.value)
  OBVIOUS
<1> HIDE DEF r, t, e
<1>10. StoreTypeOK'
  BY <1>1, <1>2, <1>5, <1>6, <1>7 DEF StoreTypeOK
<1>11. row'[k] = r /\ log'[k] = Append(log[k], t)
  BY <1>1, <1>2 DEF StoreTypeOK
<1>12. Opens(k, a)
  BY <1>8, <1>9, <1>11 DEF Opens
<1>13. \A j \in Keys : j # k => Stays(j)
  BY <1>1 DEF Stays, StoreTypeOK
<1>14. \A j \in Keys : Effect({a}, j)
  BY <1>12, <1>13 DEF Effect
<1>15. QED
  BY <1>10, <1>14 DEF Stored

LEMMA SampleStored ==
  ASSUME StoreTypeOK, NEW a \in Actions, a.op = "sample", ApplySample(a)
  PROVE  Stored({a})
<1> DEFINE k == a.key
           keep == KeepDuring(row[k], a.wall)
           r == [row[k] EXCEPT !.worst = a.worst, !.step = NextStep(row[k], a.wall),
                               !.n = IF keep THEN @ + 1 ELSE @,
                               !.kept = IF keep THEN a.wall ELSE @]
<1>1. k \in Keys /\ a.wall \in Int /\ a.worst \in Int
  BY ActionTypes
<1>2. CASE row[k].state = "none"
  <2>1. UNCHANGED <<row, log, evid>>
    BY <1>2 DEF ApplySample
  <2>2. QED
    BY <1>2, <2>1 DEF Stored, StoreTypeOK, Effect, Stays
<1>3. CASE row[k].state # "none"
  <2>1. /\ row' = [row EXCEPT ![k] = r] /\ log' = log
        /\ evid' = [evid EXCEPT ![k].during = IF keep THEN @ + 1 ELSE @]
    BY <1>3 DEF ApplySample
  <2>2. NextStep(row[k], a.wall) \in Nat
    BY <1>1, RowTypes, StoreAssumption DEF NextStep, Smaller
  <2>3. /\ r \in Rows /\ r.state = row[k].state /\ r.uid = row[k].uid
        /\ r.opened = row[k].opened /\ r.closed = row[k].closed /\ r.worst = a.worst
    <3> HIDE DEF keep
    <3>1. row[k] \in Rows /\ row[k].n + 1 \in Nat
      BY <1>1, RowTypes
    <3>2. QED
      BY <1>1, <2>2, <3>1 DEF Rows
  <2>4. evid' \in [Keys -> Evidence]
    <3> HIDE DEF keep
    <3>1. [evid[k] EXCEPT !.during = IF keep THEN @ + 1 ELSE @] \in Evidence
      BY <1>1, RowTypes DEF Evidence
    <3>2. evid' = [evid EXCEPT ![k] = [evid[k] EXCEPT !.during = IF keep THEN @ + 1 ELSE @]]
      BY <1>1, <2>1 DEF StoreTypeOK
    <3>3. QED
      BY <1>1, <3>1, <3>2 DEF StoreTypeOK
  <2> HIDE DEF r
  <2>5. StoreTypeOK'
    BY <1>1, <2>1, <2>3, <2>4 DEF StoreTypeOK
  <2>6. row'[k] = r /\ \A j \in Keys : j # k => row'[j] = row[j]
    BY <1>1, <2>1 DEF StoreTypeOK
  <2>7. Samples(k, a)
    BY <1>3, <2>1, <2>3, <2>6 DEF Samples
  <2>8. \A j \in Keys : j # k => Stays(j)
    BY <2>1, <2>6 DEF Stays
  <2>9. \A j \in Keys : Effect({a}, j)
    BY <2>7, <2>8 DEF Effect
  <2>10. QED
    BY <2>5, <2>9 DEF Stored
<1>4. QED
  BY <1>2, <1>3

LEMMA TerminalsStored ==
  ASSUME StoreTypeOK, NEW A, Batch(A), \A a \in A : a.op \in TerminalOps,
         NEW post \in {1, PostMax}, ApplyTerminals(A, post)
  PROVE  Stored(A)
<1>1. post \in Nat
  BY StoreAssumption
<1>2. ASSUME NEW k \in Hits(A)
      PROVE  ActionOn(A, k) \in A /\ ActionOn(A, k).key = k /\ row[k].state # "none" /\ k \in Keys
  <2>1. \E a \in A : a.key = k /\ row[k].state # "none"
    BY DEF Hits
  <2>2. k \in Keys
    BY <2>1, ActionTypes DEF Batch
  <2>3. QED
    BY <2>1, <2>2 DEF ActionOn
<1>3. ASSUME NEW k \in Keys, k \notin Hits(A)
      PROVE  row'[k] = row[k] /\ log'[k] = log[k] /\ Effect(A, k)
  <2>1. row'[k] = row[k] /\ log'[k] = log[k]
    BY <1>3 DEF ApplyTerminals
  <2>2. \A a \in A : a.key = k => a.op # "open" /\ row[k].state = "none"
    BY <1>3 DEF Hits, TerminalOps
  <2>3. QED
    BY <2>1, <2>2 DEF Effect, Stays
<1>4. ASSUME NEW k \in Hits(A)
      PROVE  row'[k] \in Rows /\ log'[k] \in Seq(LogRows) /\ Effect(A, k)
  <2> DEFINE a == ActionOn(A, k)
             t == Transition(row[k].uid, Terminal[a.op], a, row[k].opened, a.worst)
  <2>1. a \in A /\ a.key = k /\ row[k].state # "none" /\ k \in Keys
    BY <1>2
  <2>2. row'[k] = Cooled(row[k], a) /\ log'[k] = Append(log[k], t)
    BY <1>4, <2>1 DEF ApplyTerminals
  <2> HIDE DEF a
  <2>3. a.wall \in Int /\ a.worst \in Int /\ a.op \in TerminalOps
    BY <2>1, ActionTypes DEF Batch
  <2>4. Terminal[a.op] \in Transitions
    BY <2>3 DEF Terminal, TerminalOps, Transitions
  <2>5. t \in LogRows
    BY <2>1, <2>3, <2>4, RowTypes DEF Transition, LogRows
  <2> HIDE DEF t
  <2>6. log'[k] \in Seq(LogRows)
    BY <2>1, <2>2, <2>5, RowTypes
  <2>7. /\ row'[k] \in Rows /\ row'[k].state = "cooldown" /\ row'[k].closed = a.wall
        /\ row'[k].uid = row[k].uid /\ row'[k].opened = row[k].opened
    <3>1. row[k] \in Rows
      BY <2>1, RowTypes
    <3>2. QED
      BY <2>2, <2>3, <3>1 DEF Cooled, Rows
  <2>8. Ends(k, a)
    BY <2>1, <2>2, <2>7 DEF Ends, t
  <2>9. QED
    BY <2>1, <2>3, <2>6, <2>7, <2>8 DEF Effect
<1>5. row' \in [Keys -> Rows] /\ log' \in [Keys -> Seq(LogRows)]
  <2>1. \A k \in Keys : row'[k] \in Rows /\ log'[k] \in Seq(LogRows)
    BY <1>3, <1>4, RowTypes
  <2>2. row' = [k \in Keys |-> row'[k]] /\ log' = [k \in Keys |-> log'[k]]
    BY DEF ApplyTerminals
  <2>3. QED
    BY <2>1, <2>2
<1>6. evid' \in [Keys -> Evidence]
  <2>1. \A k \in Keys : evid[k] \in Evidence /\ [evid[k] EXCEPT !.post = @ + post] \in Evidence
    BY <1>1, RowTypes DEF Evidence
  <2>2. QED
    BY <2>1 DEF ApplyTerminals
<1>7. QED
  BY <1>3, <1>4, <1>5, <1>6 DEF Stored, StoreTypeOK

LEMMA AllStored ==
  ASSUME StoreTypeOK, NEW A, Batch(A), ApplyAll(A) PROVE Stored(A)
<1>1. CASE A = {}
  BY <1>1 DEF ApplyAll, Stored, StoreTypeOK, Effect, Stays
<1>2. CASE A # {} /\ \A a \in A : a.op \in TerminalOps
  <2> DEFINE x == CHOOSE x \in A : TRUE
  <2>1. x \in A /\ x.op # "open" /\ x.op # "sample"
    BY <1>2 DEF TerminalOps
  <2>2. \E post \in {1, PostMax} : ApplyTerminals(A, post)
    BY <1>2, <2>1 DEF ApplyAll
  <2>3. QED
    BY <1>2, <2>2, TerminalsStored
<1>3. ASSUME NEW a \in A, A = {a}, a.op \notin TerminalOps PROVE Stored(A)
  <2> DEFINE x == CHOOSE x \in A : TRUE
  <2>1. x = a /\ A # {} /\ a \in Actions
    BY <1>3 DEF Batch
  <2>2. a.op \in {"open", "sample"}
    BY <1>3, <2>1, ActionTypes DEF Ops, TerminalOps
  <2>3. CASE a.op = "open"
    <3>1. \E pre \in {0, PreMax}, head \in {1, HeadMax} : ApplyOpen(a, pre, head)
      BY <2>1, <2>3 DEF ApplyAll
    <3>2. QED
      BY <1>3, <2>1, <2>3, <3>1, OpenStored
  <2>4. CASE a.op = "sample"
    <3>1. ApplySample(a)
      BY <2>1, <2>4 DEF ApplyAll
    <3>2. QED
      BY <1>3, <2>1, <2>4, <3>1, SampleStored
  <2>5. QED
    BY <2>2, <2>3, <2>4
<1>4. QED
  BY <1>1, <1>2, <1>3 DEF Batch

\* A batch, or the part of it that a failure leaves.
LEMMA BatchStored ==
  ASSUME StoreTypeOK, NEW A, Batch(A), Apply(A), lost \in Nat
  PROVE  /\ StoreTypeOK' /\ lost' \in Nat
         /\ \E P \in SUBSET A : Batch(P) /\ Stored(P)
         /\ lost' = 0 => lost = 0 /\ Stored(A)
<1>1. CASE ApplyAll(A) /\ UNCHANGED lost
  BY <1>1, AllStored DEF Stored
<1>2. CASE lost' = lost + 1 /\ \E P \in SUBSET A : ApplyAll(P)
  <2>1. PICK P \in SUBSET A : ApplyAll(P)
    BY <1>2
  <2>2. Batch(P)
    BY DEF Batch
  <2>3. Stored(P)
    BY <2>1, <2>2, AllStored
  <2>4. QED
    BY <1>2, <2>2, <2>3 DEF Stored
<1>3. QED
  BY <1>1, <1>2 DEF Apply

----------------------------------------------------------------------------
(* The steps of the node.                                                  *)

LEMMA SampleBatch ==
  ASSUME DTypeOK, NEW k \in Keys, NEW v \in Int, DTypeOK', Turn(k, v) PROVE Batch(acts')
<1>1. acts' \in SUBSET Actions
  BY DEF DTypeOK
<1>2. acts' = {} \/ \E a : acts' = {a}
  BY DEF Turn, Silent, Opening, Going, Holding, Closing
<1>3. QED
  BY <1>1, <1>2 DEF Batch

LEMMA SweepBatch == ASSUME DTypeOK, Sweep PROVE Batch(acts')
<1>1. acts' \in SUBSET Actions /\ \A a \in acts' : a.op \in TerminalOps
  BY SweepTurn DEF DTypeOK
<1>2. \A a, b \in acts' : a.key = b.key => a = b
  BY SweepTurn
<1>3. QED
  BY <1>1, <1>2 DEF Batch

\* A step that neither evaluates, sweeps nor restarts.
Calm ==
  /\ UNCHANGED <<row, log, evid, lost, restarts, det, hist, mono>> /\ acts' \in SUBSET Actions
  /\ base' \in Baselines /\ saved' \in [Keys -> Nat]
  /\ steps' \in Nat /\ due' \in Int /\ swept' \in Int /\ wall' \in Int
  /\ steps' = 0 => steps = 0 /\ wall' >= wall

Ticks == Tick /\ UNCHANGED <<row, log, evid, saved, restarts, lost>>

LEMMA StepKinds ==
  ASSUME TypeOK, [Next]_nvars
  PROVE  \/ \E k \in Keys, v \in Values : Sample(k, v)
         \/ SweepAll
         \/ \E d \in Downtimes, stopped \in BOOLEAN : Restart(d, stopped)
         \/ Ticks
         \/ Calm
<1>1. /\ DTypeOK /\ saved \in [Keys -> Nat] /\ base \in Baselines
      /\ acts \in SUBSET Actions /\ steps \in Nat /\ wall \in Int /\ due \in Int /\ swept \in Int
  BY DEF TypeOK, DTypeOK, Baselines
<1>2. CASE FlushBaseline
  <2>1. base' \in Baselines
    BY <1>1, <1>2 DEF FlushBaseline, Clean, Baselines
  <2>2. saved' \in [Keys -> Nat]
    BY <1>1, <1>2 DEF FlushBaseline, Flushed, Baselines
  <2>3. UNCHANGED <<row, log, evid, lost, restarts, det, hist, mono, wall, steps, due, swept>>
        /\ acts' = {}
    BY <1>2 DEF FlushBaseline
  <2>4. QED
    BY <1>1, <2>1, <2>2, <2>3 DEF Calm
<1>3. CASE UNCHANGED nvars
  BY <1>1, <1>3 DEF nvars, dvars, Calm
<1>4. ASSUME NEW d \in WallSteps, StepWall(d), UNCHANGED <<row, log, evid, saved, restarts, lost>>
      PROVE  Calm
  <2>1. d \in Int
    BY DurationAssumption
  <2>2. /\ wall' = wall + d /\ steps' = steps + 1 /\ acts' = {}
        /\ UNCHANGED <<mono, due, swept, det, base, hist>>
    BY <1>4 DEF StepWall
  <2>3. steps' # 0 /\ steps' \in Nat /\ wall' \in Int
    BY <1>1, <2>1, <2>2
  <2>4. QED
    BY <1>1, <1>4, <2>2, <2>3 DEF Calm
<1>5. QED
  BY <1>2, <1>3, <1>4 DEF Next, Clocks, Ticks

LEMMA RestartTyped ==
  ASSUME TypeOK, NEW d \in Downtimes, NEW stopped \in BOOLEAN, Restart(d, stopped)
  PROVE  /\ TypeOK' /\ UNCHANGED <<row, log, evid, steps, lost>> /\ acts' = {}
         /\ wall' = wall + d /\ d \in Nat
         /\ \A k \in Keys :
              /\ hist'[k].peak = hist[k].peak
              /\ det'[k].state = IF row[k].state = "none" THEN "ok" ELSE row[k].state
              /\ row[k].state # "none" => det'[k].worst = row[k].worst
<1>1. /\ d \in Nat /\ mono \in Int /\ wall \in Int /\ base \in Baselines
      /\ saved \in [Keys -> Nat] /\ hist \in [Keys -> History] /\ StoreTypeOK
      /\ restarts \in Nat /\ lost \in Nat /\ steps \in Nat
  BY StoreAssumption DEF TypeOK, DTypeOK, Baselines, StoreTypeOK
<1>2. /\ UNCHANGED <<row, log, evid, steps, lost>> /\ acts' = {} /\ wall' = wall + d
      /\ mono' = mono + d /\ due' = 0 /\ swept' = mono + d /\ restarts' = restarts + 1
  BY DEF Restart
<1>3. saved' \in [Keys -> Nat]
  <2>1. Flushed \in [Keys -> Nat]
    BY <1>1 DEF Flushed, Baselines
  <2>2. QED
    BY <1>1, <2>1 DEF Restart
<1>4. base' \in Baselines
  BY <1>3 DEF Restart, Baselines
<1>5. /\ hist' \in [Keys -> History]
      /\ \A k \in Keys : hist'[k].peak = hist[k].peak
  <2>1. hist' = [k \in Keys |-> [hist[k] EXCEPT !.run = 0]]
    BY DEF Restart
  <2>2. ASSUME NEW k \in Keys
        PROVE  hist'[k] \in History /\ hist'[k].peak = hist[k].peak
    <3>1. hist'[k] = [hist[k] EXCEPT !.run = 0] /\ hist[k] \in History
      BY <1>1, <2>1
    <3>2. QED
      BY <3>1 DEF History
  <2>3. QED
    BY <2>1, <2>2
<1>6. ASSUME NEW k \in Keys
      PROVE  /\ det'[k] \in Machine
             /\ det'[k].state = IF row[k].state = "none" THEN "ok" ELSE row[k].state
             /\ row[k].state # "none" => det'[k].worst = row[k].worst
  <2>1. det'[k] = IF row[k].state = "none" THEN Fresh
                  ELSE Restored(row[k].state, row[k].opened, row[k].changed, row[k].worst,
                                mono + d, wall + d)
    BY DEF Restart
  <2>2. CASE row[k].state = "none"
    BY <2>1, <2>2 DEF Fresh, Machine, States
  <2>3. CASE row[k].state # "none"
    <3>1. mono + d \in Int /\ wall + d \in Int /\ row[k].state \in {"open", "cooldown"}
      BY <1>1, <2>3, RowTypes
    <3>2. row[k].opened \in Int /\ row[k].changed \in Int /\ row[k].worst \in Int
      BY <1>1, RowTypes
    <3>3. det'[k] = Restored(row[k].state, row[k].opened, row[k].changed, row[k].worst,
                             mono + d, wall + d)
      BY <2>1, <2>3
    <3>4. QED
      BY <2>3, <3>1, <3>2, <3>3 DEF Restored, Machine, States
  <2>4. QED
    BY <2>2, <2>3
<1>7. det' \in [Keys -> Machine]
  BY <1>6 DEF Restart
<1>8. DTypeOK'
  BY <1>1, <1>2, <1>4, <1>5, <1>7 DEF DTypeOK, Baselines
<1>9. TypeOK'
  BY <1>1, <1>2, <1>3, <1>8 DEF TypeOK, StoreTypeOK
<1>10. QED
  BY <1>1, <1>2, <1>5, <1>6, <1>9

LEMMA TypedStore == ASSUME TypeOK PROVE StoreTypeOK /\ DTypeOK /\ lost \in Nat
BY DEF TypeOK, StoreTypeOK

LEMMA StepTyped == ASSUME TypeOK, [Next]_nvars PROVE TypeOK'
<1>1. /\ saved \in [Keys -> Nat] /\ restarts \in Nat /\ StoreTypeOK /\ DTypeOK /\ lost \in Nat
  BY TypedStore DEF TypeOK
<1>2. ASSUME DTypeOK', StoreTypeOK', lost' \in Nat, UNCHANGED <<saved, restarts>> PROVE TypeOK'
  BY <1>1, <1>2 DEF TypeOK, StoreTypeOK
<1>3. ASSUME NEW k \in Keys, NEW v \in Values, Sample(k, v) PROVE TypeOK'
  <2>1. v \in Int /\ Evaluate(k, v) /\ Apply(acts') /\ UNCHANGED <<saved, restarts>>
    BY <1>3, ValuesAssumption DEF Sample
  <2>2. DTypeOK' /\ Batch(acts')
    BY <1>1, <2>1, SampleTurn, SampleBatch
  <2>3. StoreTypeOK' /\ lost' \in Nat
    BY <1>1, <2>1, <2>2, BatchStored
  <2>4. QED
    BY <1>2, <2>1, <2>2, <2>3
<1>4. CASE SweepAll
  <2>1. Sweep /\ Apply(acts') /\ UNCHANGED <<saved, restarts>>
    BY <1>4 DEF SweepAll
  <2>2. DTypeOK' /\ Batch(acts')
    BY <1>1, <2>1, SweepTurn, SweepBatch
  <2>3. StoreTypeOK' /\ lost' \in Nat
    BY <1>1, <2>1, <2>2, BatchStored
  <2>4. QED
    BY <1>2, <2>1, <2>2, <2>3
<1>5. CASE Ticks
  <2>1. DTypeOK'
    BY <1>1, <1>5 DEF Ticks, Tick, DTypeOK
  <2>2. QED
    BY <1>1, <1>2, <1>5, <2>1 DEF Ticks, StoreTypeOK
<1>6. CASE Calm
  <2>1. DTypeOK'
    BY <1>1, <1>6 DEF Calm, DTypeOK, Baselines
  <2>2. QED
    BY <1>1, <1>6, <2>1 DEF Calm, TypeOK, StoreTypeOK
<1>7. QED
  BY <1>3, <1>4, <1>5, <1>6, StepKinds, RestartTyped

LEMMA InitTyped == ASSUME Init PROVE TypeOK
<1>1. DTypeOK
  BY DEF Init, DInit, DTypeOK, Machine, History, Fresh, Cold, NoHistory, States
<1>2. row \in [Keys -> Rows] /\ evid \in [Keys -> Evidence]
  BY DEF Init, NoRow, Rows, NoEvidence, Evidence
<1>3. log \in [Keys -> Seq(LogRows)] /\ saved \in [Keys -> Nat]
  BY DEF Init
<1>4. QED
  BY <1>1, <1>2, <1>3 DEF Init, TypeOK

(* Everything the node stores keeps its type.                               *)
THEOREM NodeTypeCorrect == Spec => []TypeOK
<1>1. Init => TypeOK
  BY InitTyped
<1>2. TypeOK /\ [Next]_nvars => TypeOK'
  BY StepTyped
<1>3. QED
  BY <1>1, <1>2, PTL DEF Spec

\* Every step leaves a key's rows alone or has on them the effect of a batch, and
\* the whole batch unless something was lost.
LEMMA StoreStep ==
  ASSUME TypeOK, [Next]_nvars
  PROVE  \/ \A k \in Keys : Stays(k)
         \/ \E A \in SUBSET Actions : \A k \in Keys : Effect(A, k)
<1>1. StoreTypeOK /\ DTypeOK /\ lost \in Nat
  BY TypedStore
<1>2. ASSUME NEW k \in Keys, NEW v \in Values, Sample(k, v)
      PROVE  \E A \in SUBSET Actions : \A j \in Keys : Effect(A, j)
  <2>1. v \in Int /\ Evaluate(k, v) /\ Apply(acts')
    BY <1>2, ValuesAssumption DEF Sample
  <2>2. Batch(acts')
    BY <1>1, <2>1, SampleTurn, SampleBatch
  <2>3. QED
    BY <1>1, <2>1, <2>2, BatchStored DEF Stored, Batch
<1>3. CASE SweepAll
  <2>1. Batch(acts') /\ Apply(acts')
    BY <1>1, <1>3, SweepBatch DEF SweepAll
  <2>2. QED
    BY <1>1, <2>1, BatchStored DEF Stored, Batch
<1>4. ASSUME NEW d \in Downtimes, NEW stopped \in BOOLEAN, Restart(d, stopped)
      PROVE  \A k \in Keys : Stays(k)
  BY <1>4 DEF Restart, Stays
<1>5. Ticks \/ Calm => \A k \in Keys : Stays(k)
  BY DEF Ticks, Calm, Stays
<1>6. QED
  BY <1>2, <1>3, <1>4, <1>5, StepKinds

----------------------------------------------------------------------------
(* The state row and the newest transition.                                *)

LEMMA LastOfAppend ==
  ASSUME NEW s \in Seq(LogRows), NEW t \in LogRows
  PROVE  Append(s, t) # <<>> /\ Last(Append(s, t)) = t
BY DEF Last

Matches(k) ==
  IF row[k].state = "none" THEN log[k] = <<>>
  ELSE /\ log[k] # <<>> /\ Last(log[k]).uid = row[k].uid
       /\ (row[k].state = "open") = (Last(log[k]).transition \in Openings)

\* What an opening and an ending append.
LEMMA OpensAppend ==
  ASSUME StoreTypeOK, StoreTypeOK', NEW k \in Keys, NEW a \in Actions, Opens(k, a)
  PROVE  \E t \in LogRows :
           /\ log'[k] = Append(log[k], t) /\ t.uid = row'[k].uid /\ t.opened = row'[k].opened
           /\ t.transition = (IF Reopens(a) THEN "reopen" ELSE "open") /\ t.ts = a.wall
<1> DEFINE t == Transition(row'[k].uid, IF Reopens(a) THEN "reopen" ELSE "open", a,
                           row'[k].opened, a.value)
<1>1. row'[k].uid \in Nat /\ row'[k].opened \in Int
  <2>1. row'[k] \in Rows
    BY DEF StoreTypeOK
  <2>2. QED
    BY <2>1 DEF Rows
<1>2. t \in LogRows
  BY <1>1, ActionTypes DEF Transition, LogRows, Transitions
<1>3. log'[k] = Append(log[k], t)
  BY DEF Opens
<1>4. QED
  BY <1>2, <1>3 DEF Transition

LEMMA EndsAppend ==
  ASSUME StoreTypeOK, NEW k \in Keys, NEW a \in Actions, a.op \in TerminalOps, Ends(k, a)
  PROVE  \E t \in LogRows :
           /\ log'[k] = Append(log[k], t) /\ t.uid = row[k].uid /\ t.opened = row[k].opened
           /\ t.transition \in Transitions \ Openings /\ t.ts = a.wall
<1> DEFINE t == Transition(row[k].uid, Terminal[a.op], a, row[k].opened, a.worst)
<1>1. Terminal[a.op] \in Transitions \ Openings
  BY DEF Terminal, TerminalOps, Transitions, Openings
<1>2. t \in LogRows
  BY <1>1, ActionTypes, RowTypes DEF Transition, LogRows
<1>3. log'[k] = Append(log[k], t)
  BY DEF Ends
<1>4. QED
  BY <1>1, <1>2, <1>3 DEF Transition

LEMMA EffectMatches ==
  ASSUME StoreTypeOK, StoreTypeOK', NEW k \in Keys, Matches(k), NEW A \in SUBSET Actions,
         Effect(A, k)
  PROVE  Matches(k)'
<1>1. log[k] \in Seq(LogRows)
  BY RowTypes
<1>2. CASE Stays(k)
  BY <1>2 DEF Stays, Matches
<1>3. ASSUME NEW a \in A, Opens(k, a) PROVE Matches(k)'
  <2>1. PICK t \in LogRows : /\ log'[k] = Append(log[k], t) /\ t.uid = row'[k].uid
                             /\ t.transition \in Openings
    BY <1>3, OpensAppend DEF Openings
  <2>2. row'[k].state = "open"
    BY <1>3 DEF Opens
  <2>3. QED
    BY <1>1, <2>1, <2>2, LastOfAppend DEF Matches
<1>4. ASSUME NEW a \in A, Samples(k, a) PROVE Matches(k)'
  BY <1>4 DEF Samples, Matches
<1>5. ASSUME NEW a \in A, a.op \in TerminalOps, Ends(k, a) PROVE Matches(k)'
  <2>1. PICK t \in LogRows : /\ log'[k] = Append(log[k], t) /\ t.uid = row[k].uid
                             /\ t.transition \notin Openings
    BY <1>5, EndsAppend
  <2>2. row'[k].state = "cooldown" /\ row'[k].uid = row[k].uid
    BY <1>5 DEF Ends
  <2>3. QED
    BY <1>1, <2>1, <2>2, LastOfAppend DEF Matches
<1>6. QED
  BY <1>2, <1>3, <1>4, <1>5 DEF Effect

LEMMA MatchesStep ==
  ASSUME TypeOK, TypeOK', LogMatchesState, [Next]_nvars PROVE LogMatchesState'
<1>1. StoreTypeOK /\ StoreTypeOK'
  BY DEF TypeOK, StoreTypeOK
<1>2. \A k \in Keys : Matches(k)
  BY DEF LogMatchesState, Matches
<1>3. ASSUME NEW k \in Keys PROVE Matches(k)'
  <2>1. CASE Stays(k)
    BY <1>2, <2>1 DEF Stays, Matches
  <2>2. CASE \E A \in SUBSET Actions : Effect(A, k)
    BY <1>1, <1>2, <2>2, EffectMatches
  <2>3. QED
    BY <2>1, <2>2, StoreStep
<1>4. QED
  BY <1>3 DEF LogMatchesState, Matches

(* Invariant 4 of the ADR for every instance: the newest transition of a    *)
(* key and its state row agree, whatever batches fail and whenever the      *)
(* process dies (incidents.py, _apply_open and _apply_terminal).            *)
THEOREM LogAndStateAgree == Spec => []LogMatchesState
<1>1. Init => LogMatchesState
  BY DEF Init, NoRow, LogMatchesState
<1>2. TypeOK /\ LogMatchesState /\ [Next]_nvars => LogMatchesState'
  BY StepTyped, MatchesStep
<1>3. QED
  BY <1>1, <1>2, NodeTypeCorrect, PTL DEF Spec

----------------------------------------------------------------------------
(* Memory and disk together: what a step does to one key when no batch has  *)
(* been lost, and the detector and the disk agreed about the key before.    *)

Held(k) ==
  /\ det[k].state \in Active <=> row[k].state = "open"
  /\ det[k].state = "cooldown" => row[k].state = "cooldown"

Idle(k) ==
  /\ Stays(k) /\ det[k].state \notin Active /\ det'[k].state \notin Active
  /\ det'[k].state = "cooldown" => det[k].state = "cooldown"

Same(k) ==
  /\ Stays(k) /\ det'[k].state = det[k].state /\ det'[k].worst = det[k].worst
  /\ hist'[k].peak = hist[k].peak

Restores(k) ==
  /\ Stays(k) /\ hist'[k].peak = hist[k].peak
  /\ det'[k].state = IF row[k].state = "none" THEN "ok" ELSE row[k].state
  /\ row[k].state # "none" => det'[k].worst = row[k].worst

OpensNow(k, v) ==
  /\ det[k].state \notin Active /\ det'[k].state = "open" /\ Breaching(k, v)
  /\ det'[k].worst = v /\ hist'[k].peak = v /\ wall' = wall
  /\ \E a \in Actions : a.wall = wall /\ a.key = k /\ a.value = v /\ Opens(k, a)

GoesOn(k, v) ==
  /\ det[k].state \in Active /\ det'[k].state \in Active /\ Goes(k, v)
  /\ \E a \in Actions : a.worst = Worst(k, v) /\ Samples(k, a)

HoldsOn(k, v) ==
  /\ det[k].state \in Active /\ det'[k].state \in Active /\ Goes(k, v)
  /\ ~Breaching(k, v) /\ Stays(k)

EndsNow(k) ==
  /\ det[k].state \in Active /\ det'[k].state = "cooldown" /\ wall' = wall
  /\ \E a \in Actions : a.wall = wall /\ a.op \in TerminalOps /\ Ends(k, a)

Step(k) ==
  \/ Idle(k) \/ Same(k) \/ Restores(k) \/ EndsNow(k)
  \/ \E v \in Int : OpensNow(k, v) \/ GoesOn(k, v) \/ HoldsOn(k, v)

LEMMA SaidTyped ==
  ASSUME DTypeOK, NEW k \in Keys, NEW op \in Ops, NEW v \in Int, NEW w \in Int
  PROVE  /\ Action(k, op, v, w) \in Actions /\ Action(k, op, v, w).key = k
         /\ Action(k, op, v, w).op = op /\ Action(k, op, v, w).wall = wall
         /\ Action(k, op, v, w).value = v /\ Action(k, op, v, w).worst = w
BY Typed DEF Action, Actions

LEMMA SampleStep ==
  ASSUME DTypeOK, NEW k \in Keys, NEW v \in Int, Turn(k, v), Held(k), Effect(acts', k),
         wall' = wall
  PROVE  Step(k)
<1> DEFINE W == Worst(k, v)
<1>1. W \in Int
  BY WorstTyped
<1>2. CASE Silent(k)
  BY <1>2 DEF Silent, Effect, Idle, Step
<1>3. CASE Holding(k, v)
  <2>1. Stays(k)
    BY <1>3 DEF Holding, Effect
  <2>2. QED
    BY <1>3, <2>1 DEF Holding, HoldsOn, Step
<1>4. CASE Opening(k, v)
  <2> DEFINE a == Action(k, "open", v, v)
  <2>1. a \in Actions /\ a.key = k /\ a.op = "open" /\ a.wall = wall /\ a.value = v
    BY SaidTyped DEF Ops
  <2>2. acts' = {a}
    BY <1>4 DEF Opening
  <2> HIDE DEF a
  <2>3. Opens(k, a)
    BY <2>1, <2>2 DEF Effect, TerminalOps
  <2>4. QED
    BY <1>4, <2>1, <2>3 DEF Opening, OpensNow, Step
<1>5. CASE Going(k, v)
  <2> DEFINE a == Action(k, "sample", v, W)
  <2>1. a \in Actions /\ a.key = k /\ a.op = "sample" /\ a.worst = W
    BY <1>1, SaidTyped DEF Ops
  <2>2. acts' = {a} /\ row[k].state = "open"
    BY <1>5 DEF Going, Held
  <2> HIDE DEF a
  <2>3. Samples(k, a)
    BY <2>1, <2>2 DEF Effect, TerminalOps
  <2>4. QED
    BY <1>5, <2>1, <2>3 DEF Going, GoesOn, Step
<1>6. CASE Closing(k, v)
  <2> DEFINE a == Action(k, "close", v, W)
  <2>1. a \in Actions /\ a.key = k /\ a.op = "close" /\ a.wall = wall
    BY <1>1, SaidTyped DEF Ops
  <2>2. acts' = {a} /\ row[k].state = "open"
    BY <1>6 DEF Closing, Held
  <2> HIDE DEF a
  <2>3. Ends(k, a) /\ a.op \in TerminalOps
    BY <2>1, <2>2 DEF Effect, TerminalOps
  <2>4. QED
    BY <1>6, <2>1, <2>3 DEF Closing, EndsNow, Step
<1>7. QED
  BY <1>2, <1>3, <1>4, <1>5, <1>6 DEF Turn

\* A sample of another key says nothing of this one.
LEMMA OtherStep ==
  ASSUME DTypeOK, NEW j \in Keys, NEW v \in Int, Turn(j, v), Others(j),
         NEW k \in Keys \ {j}, Effect(acts', k)
  PROVE  Step(k)
<1>1. \A a \in acts' : a.key = j
  <2>1. \A op, x, w : Action(j, op, x, w).key = j
    BY DEF Action
  <2>2. CASE acts' = {}
    BY <2>2
  <2>3. CASE \E op, x, w : acts' = {Action(j, op, x, w)}
    BY <2>1, <2>3
  <2>4. QED
    BY <2>2, <2>3 DEF Turn, Silent, Opening, Going, Holding, Closing
<1>2. Stays(k)
  BY <1>1 DEF Effect
<1>3. QED
  BY <1>2 DEF Others, Same, Step

LEMMA SweepStep ==
  ASSUME DTypeOK, Sweep, NEW k \in Keys, Held(k), Effect(acts', k)
  PROVE  Step(k)
<1>1. wall' = wall /\ hist' = hist
  BY SweepTurn DEF Sweep
<1>2. CASE Retired(k)
  <2> DEFINE a == RetireAction(k)
  <2>1. /\ a \in Actions /\ a \in acts' /\ a.key = k /\ a.op \in TerminalOps
        /\ det[k].state \in Active /\ det'[k].state = "cooldown"
    BY <1>2, SweepTurn
  <2>2. a.wall = wall
    BY DEF RetireAction, Action
  <2>3. \A b \in acts' : b.key = k => b = a
    BY SweepTurn
  <2> HIDE DEF a
  <2>4. Ends(k, a)
    BY <2>1, <2>3 DEF Effect, Held, TerminalOps
  <2>5. QED
    BY <1>1, <2>1, <2>2, <2>4 DEF EndsNow, Step
<1>3. CASE ~Retired(k)
  <2>1. \A a \in acts' : a.key # k
    BY <1>3, SweepTurn
  <2>2. Stays(k)
    BY <2>1 DEF Effect
  <2>3. QED
    BY <1>1, <1>3, <2>2, SweepTurn DEF Same, Step
<1>4. QED
  BY <1>2, <1>3

\* Nothing is lost that was not lost before, and the clock goes forward unless it
\* is corrected.
Onward == lost = 0 /\ (steps' = 0 => steps = 0 /\ wall' >= wall)

LEMMA KeyStep ==
  ASSUME TypeOK, [Next]_nvars, lost' = 0
  PROVE  Onward /\ \A k \in Keys : Held(k) => Step(k)
<1>1. StoreTypeOK /\ DTypeOK /\ lost \in Nat /\ wall \in Int
  BY TypedStore DEF DTypeOK
<1>2. ASSUME NEW j \in Keys, NEW v \in Values, Sample(j, v)
      PROVE  Onward /\ \A k \in Keys : Held(k) => Step(k)
  <2>1. v \in Int /\ Evaluate(j, v) /\ Apply(acts')
    BY <1>2, ValuesAssumption DEF Sample
  <2>2. DTypeOK' /\ Others(j) /\ Turn(j, v) /\ Batch(acts')
    BY <1>1, <2>1, SampleTurn, SampleBatch
  <2>3. lost = 0 /\ Stored(acts')
    BY <1>1, <2>1, <2>2, BatchStored
  <2>4. wall' = wall /\ steps' = steps
    BY <2>1 DEF Evaluate
  <2>5. ASSUME NEW k \in Keys, Held(k) PROVE Step(k)
    <3>1. Effect(acts', k)
      BY <2>3 DEF Stored
    <3>2. QED
      BY <1>1, <2>1, <2>2, <2>4, <2>5, <3>1, SampleStep, OtherStep
  <2>6. QED
    BY <1>1, <2>3, <2>4, <2>5 DEF Onward
<1>3. CASE SweepAll
  <2>1. Sweep /\ Apply(acts') /\ Batch(acts')
    BY <1>1, <1>3, SweepBatch DEF SweepAll
  <2>2. lost = 0 /\ Stored(acts')
    BY <1>1, <2>1, BatchStored
  <2>3. wall' = wall /\ steps' = steps
    BY <2>1 DEF Sweep
  <2>4. ASSUME NEW k \in Keys, Held(k) PROVE Step(k)
    BY <1>1, <2>1, <2>2, <2>4, SweepStep DEF Stored
  <2>5. QED
    BY <1>1, <2>2, <2>3, <2>4 DEF Onward
<1>4. ASSUME NEW d \in Downtimes, NEW stopped \in BOOLEAN, Restart(d, stopped)
      PROVE  Onward /\ \A k \in Keys : Step(k)
  <2>1. /\ UNCHANGED <<row, log, evid, steps, lost>> /\ wall' = wall + d /\ d \in Nat
        /\ \A k \in Keys :
             /\ hist'[k].peak = hist[k].peak
             /\ det'[k].state = IF row[k].state = "none" THEN "ok" ELSE row[k].state
             /\ row[k].state # "none" => det'[k].worst = row[k].worst
    BY <1>4, RestartTyped
  <2>2. \A k \in Keys : Restores(k)
    BY <2>1 DEF Restores, Stays
  <2>3. QED
    BY <1>1, <2>1, <2>2 DEF Onward, Step
<1>5. CASE Ticks
  <2>1. UNCHANGED <<row, log, lost, steps, det, hist>> /\ wall' = wall + 1
    BY <1>5 DEF Ticks, Tick
  <2>2. QED
    BY <1>1, <2>1 DEF Onward, Step, Same, Stays
<1>6. CASE Calm
  BY <1>1, <1>6 DEF Calm, Onward, Step, Same, Stays
<1>7. QED
  BY <1>2, <1>3, <1>4, <1>5, <1>6, StepKinds

LEMMA HeldStep ==
  ASSUME TypeOK, NEW k \in Keys, Held(k), Step(k) PROVE Held(k)'
<1>1. row[k].state \in {"none", "open", "cooldown"}
  BY TypedStore, RowTypes
<1>2. CASE Idle(k) \/ Same(k)
  BY <1>2 DEF Idle, Same, Stays, Held, Active
<1>3. CASE Restores(k)
  BY <1>1, <1>3 DEF Restores, Stays, Held, Active
<1>4. CASE EndsNow(k)
  BY <1>4 DEF EndsNow, Ends, Held, Active
<1>5. ASSUME NEW v \in Int, OpensNow(k, v) PROVE Held(k)'
  BY <1>5 DEF OpensNow, Opens, Held, Active
<1>6. ASSUME NEW v \in Int, GoesOn(k, v) PROVE Held(k)'
  BY <1>6 DEF GoesOn, Samples, Held, Active
<1>7. ASSUME NEW v \in Int, HoldsOn(k, v) PROVE Held(k)'
  BY <1>7 DEF HoldsOn, Stays, Held, Active
<1>8. QED
  BY <1>2, <1>3, <1>4, <1>5, <1>6, <1>7 DEF Step

LEMMA MemoryStep ==
  ASSUME TypeOK, MemoryMatchesDisk, [Next]_nvars PROVE MemoryMatchesDisk'
<1>1. SUFFICES ASSUME lost' = 0 PROVE \A k \in Keys : Held(k)'
  BY DEF MemoryMatchesDisk, Held
<1>2. \A k \in Keys : Held(k) /\ Step(k)
  BY <1>1, KeyStep DEF MemoryMatchesDisk, Held, Onward
<1>3. QED
  BY <1>2, HeldStep

(* load_open's promise for every instance: as long as no batch was lost,    *)
(* what the detector believes open is what the disk holds open, whenever    *)
(* the process dies and for however long.                                   *)
THEOREM MemoryFollowsDisk == Spec => []MemoryMatchesDisk
<1>1. Init => MemoryMatchesDisk
  BY DEF Init, DInit, Fresh, NoRow, MemoryMatchesDisk, Active
<1>2. TypeOK /\ MemoryMatchesDisk /\ [Next]_nvars => MemoryMatchesDisk'
  BY MemoryStep
<1>3. QED
  BY <1>1, <1>2, NodeTypeCorrect, PTL DEF Spec

----------------------------------------------------------------------------
(* The worst value.  In memory, on disk and in the samples themselves it is *)
(* one number, and above the trip threshold: a sample that only holds a     *)
(* closing incident, and is not written, cannot exceed it.  This needs a    *)
(* fixed threshold; a learned one may be gone when the sample comes.        *)

Agree(k) ==
  det[k].state \in Active =>
    /\ det[k].worst = hist[k].peak /\ row[k].worst = hist[k].peak
    /\ hist[k].peak > Rule[k].trip

WorstAgrees == lost = 0 => \A k \in Keys : Agree(k)

LEMMA AgreeStep ==
  ASSUME TypeOK, NEW k \in Keys, Rule[k].fixed, Held(k), Agree(k), Step(k) PROVE Agree(k)'
<1>1. /\ row[k].state \in {"none", "open", "cooldown"} /\ det[k].worst \in Int
      /\ hist[k].peak \in Int /\ row[k].worst \in Int /\ Rule[k].trip \in Int
  BY TypedStore, Typed, RowTypes, RuleAssumption DEF Machine, History, Rules
<1>2. CASE Idle(k) \/ EndsNow(k)
  BY <1>2 DEF Idle, EndsNow, Agree, Active
<1>3. CASE Same(k)
  BY <1>3 DEF Same, Stays, Agree
<1>4. CASE Restores(k)
  BY <1>1, <1>4 DEF Restores, Stays, Held, Agree, Active
<1>5. ASSUME NEW v \in Int, OpensNow(k, v) PROVE Agree(k)'
  <2>1. v > Rule[k].trip
    BY <1>5 DEF OpensNow, Breaching
  <2>2. row'[k].worst = v
    BY <1>5 DEF OpensNow, Opens
  <2>3. QED
    BY <1>5, <2>1, <2>2 DEF OpensNow, Agree
<1>6. ASSUME NEW v \in Int, GoesOn(k, v) PROVE Agree(k)'
  <2>1. row'[k].worst = Worst(k, v) /\ Goes(k, v) /\ det[k].state \in Active
    BY <1>6 DEF GoesOn, Samples
  <2>2. QED
    BY <1>1, <2>1 DEF Goes, Worst, Larger, Agree
<1>7. ASSUME NEW v \in Int, HoldsOn(k, v) PROVE Agree(k)'
  <2>1. ~(v > Rule[k].trip) /\ row'[k] = row[k] /\ Goes(k, v) /\ det[k].state \in Active
    BY <1>7 DEF HoldsOn, Breaching, HasThresholds, Stays
  <2>2. QED
    BY <1>1, <2>1 DEF Goes, Worst, Larger, Agree
<1>8. QED
  BY <1>2, <1>3, <1>4, <1>5, <1>6, <1>7 DEF Step

(* worst_value for every instance whose thresholds are fixed: the state row *)
(* of an open incident names the worst sample since it opened, although     *)
(* most of them are decimated and the process may die at any time.          *)
THEOREM WorstSurvives ==
  ASSUME \A k \in Keys : Rule[k].fixed PROVE Spec => []WorstIsPeak
<1>1. Init => WorstAgrees
  BY DEF Init, DInit, Fresh, WorstAgrees, Agree, Active
<1>2. TypeOK /\ MemoryMatchesDisk /\ WorstAgrees /\ [Next]_nvars => WorstAgrees'
  <2>1. SUFFICES ASSUME TypeOK, MemoryMatchesDisk, WorstAgrees, [Next]_nvars, lost' = 0
                 PROVE  \A k \in Keys : Agree(k)'
    BY DEF WorstAgrees
  <2>2. \A k \in Keys : Held(k) /\ Step(k) /\ Agree(k)
    BY <2>1, KeyStep DEF MemoryMatchesDisk, Held, Onward, WorstAgrees
  <2>3. QED
    BY <2>1, <2>2, AgreeStep
<1>3. MemoryMatchesDisk /\ WorstAgrees => WorstIsPeak
  BY DEF MemoryMatchesDisk, WorstAgrees, Agree, WorstIsPeak
<1>4. QED
  BY <1>1, <1>2, <1>3, NodeTypeCorrect, MemoryFollowsDisk, PTL DEF Spec

----------------------------------------------------------------------------
(* The life of a key in its log.                                           *)

\* Row i of s follows row i - 1.
Follows(s, i) ==
  LET r == s[i]
  IN IF i = 1 THEN r.transition = "open"
     ELSE LET p == s[i - 1]
          IN /\ p.ts <= r.ts
             /\ (p.transition \in Openings) # (r.transition \in Openings)
             /\ CASE r.transition = "open" -> r.uid = p.uid + 1 /\ r.ts - p.ts > ReopenS
                  [] r.transition = "reopen" -> r.uid = p.uid /\ r.ts - p.ts <= ReopenS
                  [] OTHER -> r.uid = p.uid /\ r.opened = p.opened

Alternates(k) == \A i \in DOMAIN log[k] : Follows(log[k], i)

\* What the state row remembers of the newest transition, and when that was.
Remembers(k) ==
  IF row[k].state = "none" THEN row[k].closed = 0
  ELSE /\ Last(log[k]).ts <= wall /\ Last(log[k]).opened = row[k].opened
       /\ row[k].state = "cooldown" => row[k].closed = Last(log[k]).ts /\ row[k].closed # 0

LogInv ==
  lost = 0 /\ steps = 0 => wall >= 1 /\ \A k \in Keys : Alternates(k) /\ Remembers(k)

LEMMA FollowsAppend ==
  ASSUME NEW s \in Seq(LogRows), NEW t \in LogRows, \A i \in DOMAIN s : Follows(s, i),
         IF s = <<>> THEN t.transition = "open"
         ELSE LET p == Last(s)
              IN /\ p.ts <= t.ts
                 /\ (p.transition \in Openings) # (t.transition \in Openings)
                 /\ CASE t.transition = "open" -> t.uid = p.uid + 1 /\ t.ts - p.ts > ReopenS
                      [] t.transition = "reopen" -> t.uid = p.uid /\ t.ts - p.ts <= ReopenS
                      [] OTHER -> t.uid = p.uid /\ t.opened = p.opened
  PROVE  \A i \in DOMAIN Append(s, t) : Follows(Append(s, t), i)
<1> DEFINE u == Append(s, t)
<1>1. /\ Len(s) \in Nat /\ DOMAIN s = 1 .. Len(s) /\ DOMAIN u = 1 .. Len(s) + 1
      /\ u[Len(s) + 1] = t /\ \A i \in 1 .. Len(s) : u[i] = s[i]
  OBVIOUS
<1> HIDE DEF u
<1>2. ASSUME NEW i \in 1 .. Len(s) PROVE Follows(u, i)
  <2>1. Follows(s, i) /\ u[i] = s[i]
    BY <1>1
  <2>2. i # 1 => u[i - 1] = s[i - 1]
    BY <1>1
  <2>3. QED
    BY <2>1, <2>2 DEF Follows
<1>3. Follows(u, Len(s) + 1)
  <2>1. CASE s = <<>>
    <3>1. Len(s) = 0 /\ t.transition = "open"
      BY <2>1
    <3>2. QED
      BY <1>1, <3>1 DEF Follows
  <2>2. CASE s # <<>>
    <3>1. Len(s) # 0 /\ Last(s) = s[Len(s)]
      BY <1>1, <2>2 DEF Last
    <3>2. u[Len(s) + 1 - 1] = Last(s) /\ Len(s) + 1 # 1
      BY <1>1, <3>1
    <3>3. QED
      BY <1>1, <2>2, <3>2 DEF Follows
  <2>3. QED
    BY <2>1, <2>2
<1>4. QED
  BY <1>1, <1>2, <1>3 DEF u

LEMMA LastTyped ==
  ASSUME StoreTypeOK, NEW k \in Keys, log[k] # <<>>
  PROVE  Last(log[k]) \in LogRows /\ Last(log[k]).ts \in Int
<1>1. log[k] \in Seq(LogRows) /\ Len(log[k]) \in DOMAIN log[k]
  BY RowTypes
<1>2. Last(log[k]) \in LogRows
  BY <1>1 DEF Last
<1>3. QED
  BY <1>2 DEF LogRows

LEMMA OpenFollows ==
  ASSUME StoreTypeOK, StoreTypeOK', NEW k \in Keys, Matches(k), Held(k), wall \in Int,
         wall >= 1, Alternates(k), Remembers(k), NEW v \in Int, OpensNow(k, v)
  PROVE  Alternates(k)' /\ Remembers(k)'
<1>1. PICK a \in Actions : a.wall = wall /\ a.key = k /\ Opens(k, a)
  BY DEF OpensNow
<1>2. PICK t \in LogRows :
        /\ log'[k] = Append(log[k], t) /\ t.uid = row'[k].uid /\ t.opened = row'[k].opened
        /\ t.transition = (IF Reopens(a) THEN "reopen" ELSE "open") /\ t.ts = wall
  BY <1>1, OpensAppend
<1>3. /\ row[k].state \in {"none", "cooldown"} /\ row'[k].state = "open" /\ wall' = wall
      /\ row'[k].uid = IF Reopens(a) THEN row[k].uid ELSE row[k].uid + 1
  BY <1>1, RowTypes DEF OpensNow, Held, Opens
<1>4. log[k] \in Seq(LogRows) /\ row[k].closed \in Int /\ ReopenS \in Int
  BY RowTypes, StoreAssumption
<1>5. Reopens(a) <=> row[k].closed # 0 /\ wall - row[k].closed <= ReopenS
  BY <1>1 DEF Reopens
<1>6. CASE row[k].state = "none"
  <2>1. log[k] = <<>> /\ ~Reopens(a)
    BY <1>5, <1>6 DEF Matches, Remembers
  <2>2. \A i \in DOMAIN Append(log[k], t) : Follows(Append(log[k], t), i)
    BY <1>2, <1>4, <2>1, FollowsAppend DEF Alternates
  <2>3. QED
    BY <1>2, <1>3, <1>4, <2>2, LastOfAppend DEF Alternates, Remembers
<1>7. CASE row[k].state = "cooldown"
  <2> DEFINE p == Last(log[k])
  <2>1. /\ log[k] # <<>> /\ p.uid = row[k].uid /\ p.transition \notin Openings
        /\ p.ts <= wall /\ row[k].closed = p.ts /\ row[k].closed # 0
    BY <1>7 DEF Matches, Remembers
  <2>2. p.ts \in Int
    BY <2>1, LastTyped
  <2> HIDE DEF p
  <2>3. /\ p.ts <= t.ts /\ t.transition \in Openings
        /\ t.transition = "open" => t.uid = p.uid + 1 /\ t.ts - p.ts > ReopenS
        /\ t.transition = "reopen" => t.uid = p.uid /\ t.ts - p.ts <= ReopenS
    BY <1>2, <1>3, <1>4, <1>5, <2>1, <2>2 DEF Openings
  <2>4. \A i \in DOMAIN Append(log[k], t) : Follows(Append(log[k], t), i)
    BY <1>4, <2>1, <2>3, FollowsAppend DEF Alternates, Openings, p
  <2>5. QED
    BY <1>2, <1>3, <1>4, <2>4, LastOfAppend DEF Alternates, Remembers
<1>8. QED
  BY <1>3, <1>6, <1>7

LEMMA EndFollows ==
  ASSUME StoreTypeOK, StoreTypeOK', NEW k \in Keys, Matches(k), Held(k), wall \in Int,
         wall >= 1, Alternates(k), Remembers(k), EndsNow(k)
  PROVE  Alternates(k)' /\ Remembers(k)'
<1>1. PICK a \in Actions : a.wall = wall /\ a.op \in TerminalOps /\ Ends(k, a)
  BY DEF EndsNow
<1>2. PICK t \in LogRows :
        /\ log'[k] = Append(log[k], t) /\ t.uid = row[k].uid /\ t.opened = row[k].opened
        /\ t.transition \in Transitions \ Openings /\ t.ts = wall
  BY <1>1, EndsAppend
<1>3. /\ row[k].state = "open" /\ row'[k].state = "cooldown" /\ row'[k].closed = wall
      /\ row'[k].opened = row[k].opened /\ wall' = wall
  BY <1>1 DEF EndsNow, Held, Ends
<1> DEFINE p == Last(log[k])
<1>4. /\ log[k] # <<>> /\ p.uid = row[k].uid /\ p.transition \in Openings
      /\ p.ts <= wall /\ p.opened = row[k].opened /\ log[k] \in Seq(LogRows)
  BY <1>3, RowTypes DEF Matches, Remembers
<1> HIDE DEF p
<1>5. \A i \in DOMAIN Append(log[k], t) : Follows(Append(log[k], t), i)
  BY <1>2, <1>4, FollowsAppend DEF Alternates, Openings, p
<1>6. QED
  BY <1>2, <1>3, <1>4, <1>5, LastOfAppend DEF Alternates, Remembers

LEMMA LogStep ==
  ASSUME TypeOK, TypeOK', LogMatchesState, MemoryMatchesDisk, LogInv, [Next]_nvars
  PROVE  LogInv'
<1>1. SUFFICES ASSUME lost' = 0, steps' = 0
               PROVE  wall' >= 1 /\ \A k \in Keys : Alternates(k)' /\ Remembers(k)'
  BY DEF LogInv
<1>2. /\ StoreTypeOK /\ StoreTypeOK' /\ wall \in Int /\ wall' \in Int
  BY DEF TypeOK, StoreTypeOK, DTypeOK
<1>3. lost = 0 /\ steps = 0 /\ wall' >= wall
  BY <1>1, KeyStep DEF Onward
<1>4. wall >= 1 /\ wall' >= 1
  BY <1>2, <1>3 DEF LogInv
<1>5. ASSUME NEW k \in Keys PROVE Alternates(k)' /\ Remembers(k)'
  <2>1. /\ Alternates(k) /\ Remembers(k) /\ Held(k) /\ Matches(k)
    BY <1>3 DEF LogInv, MemoryMatchesDisk, Held, LogMatchesState, Matches
  <2>2. Step(k)
    BY <1>1, <2>1, KeyStep
  <2>3. ASSUME log'[k] = log[k], row'[k].state = row[k].state,
               row'[k].opened = row[k].opened, row'[k].closed = row[k].closed
        PROVE  Alternates(k)' /\ Remembers(k)'
    <3>1. row[k].state # "none" => Last(log[k]).ts \in Int
      BY <1>2, <2>1, LastTyped DEF Matches
    <3>2. Alternates(k)'
      BY <2>1, <2>3 DEF Alternates
    <3>3. QED
      BY <1>2, <1>3, <2>1, <2>3, <3>1, <3>2 DEF Remembers
  <2>4. CASE Idle(k) \/ Same(k) \/ Restores(k)
    BY <2>3, <2>4 DEF Idle, Same, Restores, Stays
  <2>5. CASE EndsNow(k)
    BY <1>2, <1>4, <2>1, <2>5, EndFollows
  <2>6. ASSUME NEW v \in Int, OpensNow(k, v) PROVE Alternates(k)' /\ Remembers(k)'
    BY <1>2, <1>4, <2>1, <2>6, OpenFollows
  <2>7. ASSUME NEW v \in Int, GoesOn(k, v) PROVE Alternates(k)' /\ Remembers(k)'
    BY <2>3, <2>7 DEF GoesOn, Samples
  <2>8. ASSUME NEW v \in Int, HoldsOn(k, v) PROVE Alternates(k)' /\ Remembers(k)'
    BY <2>3, <2>8 DEF HoldsOn, Stays
  <2>9. QED
    BY <2>2, <2>4, <2>5, <2>6, <2>7, <2>8 DEF Step
<1>6. QED
  BY <1>4, <1>5

(* The life of a key for every instance: openings and endings alternate,    *)
(* uids count up, and a uid is reopened only within the reopen window of    *)
(* its end (no batch being lost, no clock correction).                      *)
THEOREM LogIsALife == Spec => []LogAlternates
<1>1. Init => LogInv
  BY DEF Init, DInit, NoRow, LogInv, Alternates, Remembers
<1>2. /\ TypeOK /\ LogMatchesState /\ MemoryMatchesDisk /\ LogInv /\ [Next]_nvars => LogInv'
  BY StepTyped, LogStep
<1>3. LogInv => LogAlternates
  BY DEF LogInv, LogAlternates, Alternates, Follows
<1>4. QED
  BY <1>1, <1>2, <1>3, NodeTypeCorrect, LogAndStateAgree, MemoryFollowsDisk, PTL DEF Spec

----------------------------------------------------------------------------
(* What the hub makes of the rows.                                         *)

\* A bounded set of natural numbers has a greatest element.
LEMMA BoundedHasMax ==
  ASSUME NEW S \in SUBSET Nat, S # {}, NEW b \in Nat, \A x \in S : x <= b
  PROVE  Max(S) \in S /\ \A x \in S : x <= Max(S)
<1> DEFINE T == {u \in Nat : \A x \in S : x <= u}
<1>1. PICK u \in T : \A v \in T : ~ (<<v, u>> \in OpToRel(<, Nat))
  BY b \in T, NatLessThanWellFounded, WFMin, T \subseteq Nat
<1>2. \A v \in T : ~ (v < u)
  BY <1>1 DEF OpToRel
<1>3. u \in S
  <2>1. CASE u = 0
    <3>1. PICK x \in S : TRUE
      OBVIOUS
    <3>2. x \in Nat /\ x <= 0
      BY <2>1, <3>1
    <3>3. QED
      BY <2>1, <3>1, <3>2
  <2>2. CASE u # 0
    <3>1. u - 1 \in Nat /\ u - 1 < u
      BY <2>2
    <3>2. u - 1 \notin T
      BY <1>2, <3>1
    <3>3. PICK x \in S : ~ (x <= u - 1)
      BY <3>1, <3>2
    <3>4. x = u
      BY <3>1, <3>3
    <3>5. QED
      BY <3>4
  <2>3. QED
    BY <2>1, <2>2
<1>4. \E m \in S : \A x \in S : m >= x
  BY <1>3
<1>5. Max(S) \in S /\ \A x \in S : Max(S) >= x
  BY <1>4 DEF Max
<1>6. QED
  BY <1>5

\* The rows of a key in their order: neither time nor the uid goes back.
Rises(s) ==
  \A i, j \in DOMAIN s : i <= j => s[i].ts <= s[j].ts /\ s[i].uid <= s[j].uid

OrderInv == lost = 0 /\ steps = 0 => \A k \in Keys : Rises(log[k])

LEMMA RisesAppend ==
  ASSUME NEW s \in Seq(LogRows), NEW t \in LogRows, Rises(s),
         Follows(Append(s, t), Len(s) + 1)
  PROVE  Rises(Append(s, t))
<1> DEFINE u == Append(s, t)
           n == Len(s)
<1>1. /\ n \in Nat /\ DOMAIN s = 1 .. n /\ DOMAIN u = 1 .. n + 1
      /\ u[n + 1] = t /\ \A i \in 1 .. n : u[i] = s[i] /\ u[i] \in LogRows
  OBVIOUS
<1>2. Follows(u, n + 1)
  OBVIOUS
<1> HIDE DEF u, n
<1>3. \A i \in 1 .. n + 1 : u[i].ts \in Int /\ u[i].uid \in Nat
  <2>1. \A i \in 1 .. n + 1 : u[i] \in LogRows
    <3>1. \A i \in 1 .. n + 1 : i \in 1 .. n \/ i = n + 1
      BY <1>1
    <3>2. QED
      BY <1>1, <3>1
  <2>2. \A x \in LogRows : x.ts \in Int /\ x.uid \in Nat
    BY DEF LogRows
  <2>3. QED
    BY <2>1, <2>2
<1>4. n # 0 => u[n].ts <= t.ts /\ u[n].uid <= t.uid
  <2>1. SUFFICES ASSUME n # 0 PROVE u[n].ts <= t.ts /\ u[n].uid <= t.uid
    OBVIOUS
  <2>2. u[n + 1 - 1] = u[n] /\ n \in 1 .. n + 1 /\ n + 1 # 1
    BY <1>1, <2>1
  <2>3. u[n].ts <= t.ts /\ (t.uid = u[n].uid + 1 \/ t.uid = u[n].uid)
    BY <1>1, <1>2, <2>2 DEF Follows
  <2>4. QED
    BY <1>3, <2>2, <2>3
<1>5. ASSUME NEW i \in 1 .. n + 1, NEW j \in 1 .. n + 1, i <= j
      PROVE  u[i].ts <= u[j].ts /\ u[i].uid <= u[j].uid
  <2>1. CASE j <= n
    BY <1>1, <1>5, <2>1 DEF Rises
  <2>2. CASE j = n + 1 /\ i = n + 1
    BY <1>3, <2>2
  <2>3. CASE j = n + 1 /\ i <= n
    <3>1. n # 0 /\ n \in 1 .. n + 1 /\ i \in DOMAIN s /\ n \in DOMAIN s
      BY <1>1, <2>3
    <3>2. u[i].ts <= u[n].ts /\ u[i].uid <= u[n].uid
      BY <1>1, <2>3, <3>1 DEF Rises
    <3>3. QED
      BY <1>1, <1>3, <1>4, <2>3, <3>1, <3>2
  <2>4. QED
    BY <1>1, <2>1, <2>2, <2>3
<1>6. QED
  BY <1>1, <1>5 DEF Rises, u

LEMMA OrderStep ==
  ASSUME TypeOK, TypeOK', OrderInv, LogInv', [Next]_nvars PROVE OrderInv'
<1>1. SUFFICES ASSUME lost' = 0, steps' = 0 PROVE \A k \in Keys : Rises(log'[k])
  BY DEF OrderInv
<1>2. /\ StoreTypeOK /\ StoreTypeOK' /\ lost = 0 /\ steps = 0
  BY <1>1, KeyStep DEF TypeOK, StoreTypeOK, Onward
<1>3. ASSUME NEW k \in Keys PROVE Rises(log'[k])
  <2>1. log'[k] = log[k] \/ \E t \in LogRows : log'[k] = Append(log[k], t)
    <3>1. CASE Stays(k)
      BY <3>1 DEF Stays
    <3>2. ASSUME NEW A \in SUBSET Actions, Effect(A, k)
          PROVE  log'[k] = log[k] \/ \E t \in LogRows : log'[k] = Append(log[k], t)
      <4>1. \A a \in A : Opens(k, a) => \E t \in LogRows : log'[k] = Append(log[k], t)
        BY <1>2, OpensAppend
      <4>2. \A a \in A : a.op \in TerminalOps /\ Ends(k, a) =>
              \E t \in LogRows : log'[k] = Append(log[k], t)
        BY <1>2, EndsAppend
      <4>3. QED
        BY <3>2, <4>1, <4>2 DEF Effect, Stays, Samples
    <3>3. QED
      BY <3>1, <3>2, StoreStep
  <2>2. Rises(log[k]) /\ log[k] \in Seq(LogRows)
    BY <1>2, RowTypes DEF OrderInv
  <2>3. \A i \in DOMAIN log'[k] : Follows(log'[k], i)
    BY <1>1 DEF LogInv, Alternates
  <2>4. ASSUME NEW t \in LogRows, log'[k] = Append(log[k], t) PROVE Rises(log'[k])
    <3>1. Len(log[k]) + 1 \in DOMAIN Append(log[k], t)
      BY <2>2
    <3>2. Follows(Append(log[k], t), Len(log[k]) + 1)
      BY <2>3, <2>4, <3>1
    <3>3. QED
      BY <2>2, <2>4, <3>2, RisesAppend
  <2>5. QED
    BY <2>1, <2>2, <2>4
<1>4. QED
  BY <1>3

\* The last row by time is the last that was written.
LEMMA LastIsLast ==
  ASSUME NEW s \in Seq(LogRows), Rises(s), NEW u, RowsOf(s, u) # {}
  PROVE  /\ Max(RowsOf(s, u)) \in RowsOf(s, u)
         /\ \A i \in RowsOf(s, u) : i <= Max(RowsOf(s, u))
         /\ LastByTs(s, u) = s[Max(RowsOf(s, u))]
<1> DEFINE R == RowsOf(s, u)
           m == Max(R)
           Newest(i) == \A j \in R : s[j].ts < s[i].ts \/ (s[j].ts = s[i].ts /\ j <= i)
<1>1. R \in SUBSET Nat /\ Len(s) \in Nat /\ (\A i \in R : i <= Len(s)) /\ R \subseteq DOMAIN s
  BY DEF RowsOf
<1> HIDE DEF R
<1>2. R # {}
  BY DEF R
<1>3. m \in R /\ \A i \in R : i <= m
  BY <1>1, <1>2, BoundedHasMax
<1> HIDE DEF m
<1>4. \A i \in R : s[i].ts \in Int /\ s[i].ts <= s[m].ts
  <2>1. \A i \in R : s[i] \in LogRows
    BY <1>1
  <2>2. QED
    BY <1>1, <1>3, <2>1 DEF Rises, LogRows
<1>5. Newest(m)
  BY <1>1, <1>3, <1>4
<1>6. \A i \in R : Newest(i) => i = m
  BY <1>1, <1>3, <1>4
<1>7. (CHOOSE i \in R : Newest(i)) = m
  BY <1>3, <1>5, <1>6
<1>8. LastByTs(s, u) = s[CHOOSE i \in R : Newest(i)]
  BY DEF LastByTs, R
<1>9. QED
  BY <1>3, <1>7, <1>8 DEF m, R

\* A row that is not the newest of its uid's and of the key's was followed by an open.
LEMMA LeftBehind ==
  ASSUME NEW s \in Seq(LogRows), Rises(s), \A i \in DOMAIN s : Follows(s, i),
         NEW m \in DOMAIN s, \A i \in RowsOf(s, s[m].uid) : i <= m, m # Len(s)
  PROVE  s[m].transition \notin Openings /\ s[m].uid < Last(s).uid
<1>1. /\ Len(s) \in Nat /\ DOMAIN s = 1 .. Len(s) /\ m + 1 \in DOMAIN s /\ m + 1 # 1
      /\ (m + 1) - 1 = m /\ Len(s) \in DOMAIN s /\ m + 1 <= Len(s)
  OBVIOUS
<1>2. s[m + 1].uid # s[m].uid
  BY <1>1 DEF RowsOf
<1>3. s[m].uid \in Nat /\ s[m + 1].uid \in Nat /\ s[Len(s)].uid \in Nat
  <2>1. s[m] \in LogRows /\ s[m + 1] \in LogRows /\ s[Len(s)] \in LogRows
    BY <1>1
  <2>2. QED
    BY <2>1 DEF LogRows
<1>4. /\ (s[m].transition \in Openings) # (s[m + 1].transition \in Openings)
      /\ s[m + 1].transition = "open" /\ s[m + 1].uid = s[m].uid + 1
  BY <1>1, <1>2 DEF Follows
<1>5. s[m + 1].uid <= s[Len(s)].uid
  BY <1>1 DEF Rises
<1>6. Last(s) = s[Len(s)]
  BY DEF Last
<1>7. QED
  BY <1>3, <1>4, <1>5, <1>6 DEF Openings

\* What a hub makes of the rows of a key: only the uid of the newest row can be held
\* open, and any other it still shows is one that persists.
LEMMA HubShows ==
  ASSUME NEW s \in Seq(LogRows), s # <<>>, Rises(s), \A i \in DOMAIN s : Follows(s, i),
         NEW u
  PROVE  Ongoing(s, u) <=>
           \/ Last(s).transition \in Openings /\ Last(s).uid = u
           \/ RowsOf(s, u) # {} /\ s[Max(RowsOf(s, u))].transition = "persistent"
<1> DEFINE m == Max(RowsOf(s, u))
<1>1. Last(s) = s[Len(s)] /\ Len(s) \in DOMAIN s
  BY DEF Last
<1>2. CASE RowsOf(s, u) = {}
  BY <1>1, <1>2 DEF Ongoing, RowsOf
<1>3. CASE RowsOf(s, u) # {}
  <2>1. /\ m \in RowsOf(s, u) /\ (\A i \in RowsOf(s, u) : i <= m) /\ LastByTs(s, u) = s[m]
    BY <1>3, LastIsLast
  <2>2. m \in DOMAIN s /\ s[m].uid = u
    BY <2>1 DEF RowsOf
  <2> HIDE DEF m
  <2>3. Ongoing(s, u) <=> s[m].transition \notin HubTerminal
    BY <1>3, <2>1 DEF Ongoing
  <2>4. s[m] \in LogRows /\ Last(s) \in LogRows
    BY <1>1, <2>2
  <2>5. s[m].transition \in Transitions /\ s[m].uid \in Nat /\ Last(s).uid \in Nat
    BY <2>4 DEF LogRows
  <2>6. CASE m = Len(s)
    BY <1>1, <1>3, <2>2, <2>3, <2>5, <2>6 DEF Openings, Transitions, HubTerminal, m
  <2>7. CASE m # Len(s)
    <3>1. \A i \in RowsOf(s, s[m].uid) : i <= m
      BY <2>1, <2>2
    <3>2. s[m].transition \notin Openings /\ s[m].uid < Last(s).uid
      BY <2>2, <2>7, <3>1, LeftBehind
    <3>3. s[m].uid # Last(s).uid
      BY <2>5, <3>2
    <3>4. QED
      BY <1>3, <2>2, <2>3, <2>5, <3>2, <3>3 DEF Openings, Transitions, HubTerminal, m
  <2>8. QED
    BY <2>6, <2>7
<1>4. QED
  BY <1>2, <1>3

\* What a hub that is behind has of a log is a log of the same kind.
LEMMA PrefixKeeps ==
  ASSUME NEW s \in Seq(LogRows), Rises(s), \A i \in DOMAIN s : Follows(s, i),
         NEW n \in DOMAIN s
  PROVE  LET p == SubSeq(s, 1, n)
         IN /\ p \in Seq(LogRows) /\ p # <<>> /\ Last(p) = s[n]
            /\ Rises(p) /\ \A i \in DOMAIN p : Follows(p, i)
<1> DEFINE p == SubSeq(s, 1, n)
<1>1. n \in Nat /\ n >= 1 /\ n <= Len(s) /\ DOMAIN s = 1 .. Len(s) /\ Len(s) \in Nat
  OBVIOUS
<1>2. p \in Seq(LogRows) /\ Len(p) = n /\ DOMAIN p = 1 .. n /\ \A i \in 1 .. n : p[i] = s[i]
  BY <1>1
<1> HIDE DEF p
<1>3. p # <<>> /\ Last(p) = s[n]
  BY <1>1, <1>2 DEF Last
<1>4. Rises(p)
  BY <1>1, <1>2 DEF Rises
<1>5. ASSUME NEW i \in DOMAIN p PROVE Follows(p, i)
  <2>1. i \in DOMAIN s /\ p[i] = s[i] /\ (i # 1 => p[i - 1] = s[i - 1])
    BY <1>1, <1>2
  <2>2. Follows(s, i)
    BY <2>1
  <2>3. QED
    BY <2>1, <2>2 DEF Follows
<1>6. QED
  BY <1>2, <1>3, <1>4, <1>5 DEF p

(* Whatever the process goes through and however far a hub is behind, the   *)
(* hub calls an incident ongoing exactly when the node's state row held it  *)
(* open as of the newest row the hub has, or the last thing the hub has of  *)
(* it is that the condition persists (query.load_incidents against          *)
(* incidents.py's two tables, with ship.py in between).                     *)
THEOREM HubKnows == Spec => []HubAgrees
<1>1. Init => LogInv /\ OrderInv
  BY DEF Init, DInit, NoRow, LogInv, Alternates, Remembers, OrderInv, Rises
<1>2. /\ TypeOK /\ LogMatchesState /\ MemoryMatchesDisk /\ LogInv /\ OrderInv /\ [Next]_nvars
      => LogInv' /\ OrderInv'
  BY StepTyped, LogStep, OrderStep
<1>3. ASSUME TypeOK, LogMatchesState, LogInv, OrderInv PROVE HubAgrees
  <2>1. SUFFICES ASSUME lost = 0, steps = 0, NEW k \in Keys, NEW n \in DOMAIN log[k],
                        NEW u \in Uids(k)
                 PROVE  LET have == SubSeq(log[k], 1, n)
                        IN Ongoing(have, u) <=>
                             \/ HeldOpen(k, n, u)
                             \/ /\ RowsOf(have, u) # {}
                                /\ have[Max(RowsOf(have, u))].transition = "persistent"
    BY DEF HubAgrees
  <2> DEFINE s == log[k]
             have == SubSeq(s, 1, n)
  <2>2. /\ s \in Seq(LogRows) /\ Rises(s) /\ \A i \in DOMAIN s : Follows(s, i)
    BY <1>3, <2>1 DEF TypeOK, OrderInv, LogInv, Alternates
  <2>3. /\ have \in Seq(LogRows) /\ have # <<>> /\ Last(have) = s[n]
        /\ Rises(have) /\ \A i \in DOMAIN have : Follows(have, i)
    BY <2>2, PrefixKeeps
  <2> HIDE DEF have
  <2>4. Ongoing(have, u) <=>
          \/ s[n].transition \in Openings /\ s[n].uid = u
          \/ RowsOf(have, u) # {} /\ have[Max(RowsOf(have, u))].transition = "persistent"
    BY <2>3, HubShows
  <2>5. HeldOpen(k, n, u) <=> s[n].transition \in Openings /\ s[n].uid = u
    <3>1. CASE n = Len(s)
      <4>1. s # <<>> /\ Last(s) = s[n]
        BY <2>2, <3>1 DEF Last
      <4>2. Last(s).uid = row[k].uid /\ (row[k].state = "open") = (Last(s).transition \in Openings)
        BY <1>3, <4>1 DEF LogMatchesState
      <4>3. QED
        BY <3>1, <4>1, <4>2 DEF HeldOpen
    <3>2. CASE n # Len(s)
      BY <3>2 DEF HeldOpen
    <3>3. QED
      BY <3>1, <3>2
  <2>6. QED
    BY <2>4, <2>5 DEF have
<1>4. QED
  BY <1>1, <1>2, <1>3, NodeTypeCorrect, LogAndStateAgree, MemoryFollowsDisk, PTL DEF Spec

----------------------------------------------------------------------------
(* What an incident costs in evidence.                                     *)

\* The longest ladder, whichever of the two limits is the larger.
Ladder == Larger(DuringMax, HeadMax)

\* What a step may add to the evidence of a key, and what it adds to the log for it.
EvidenceStays(k) ==
  /\ log'[k] = log[k] /\ evid'[k] = evid[k] /\ row'[k].state = row[k].state
  /\ row'[k].uid = row[k].uid /\ row'[k].n = row[k].n

OpeningPays(k) ==
  \E t \in LogRows, pre \in 0 .. PreMax, head \in 0 .. Ladder :
    /\ log'[k] = Append(log[k], t) /\ t.transition \in Openings /\ t.uid = row'[k].uid
    /\ row'[k].state = "open" /\ row'[k].n = head
    /\ \/ /\ row'[k].uid = row[k].uid /\ evid'[k].post = evid[k].post
          /\ evid'[k].pre = evid[k].pre + pre /\ evid'[k].during = evid[k].during + head
       \/ /\ evid'[k].post = 0 /\ evid'[k].pre = pre /\ evid'[k].during = head

SamplePays(k) ==
  /\ log'[k] = log[k] /\ row'[k].state = row[k].state /\ row'[k].uid = row[k].uid
  /\ row[k].state # "none"
  /\ evid'[k].pre = evid[k].pre /\ evid'[k].post = evid[k].post
  /\ row[k].n < DuringMax /\ row'[k].n = row[k].n + 1
  /\ evid'[k].during = evid[k].during + 1

EndingPays(k) ==
  \E t \in LogRows, post \in 0 .. PostMax :
    /\ log'[k] = Append(log[k], t) /\ t.transition \notin Openings /\ t.uid = row[k].uid
    /\ row[k].state # "none" /\ row'[k].state = "cooldown" /\ row'[k].uid = row[k].uid
    /\ row'[k].n = row[k].n
    /\ evid'[k].pre = evid[k].pre /\ evid'[k].during = evid[k].during
    /\ evid'[k].post = evid[k].post + post /\ (post = 0 \/ t.transition = "close")

Pays(k) == EvidenceStays(k) \/ OpeningPays(k) \/ SamplePays(k) \/ EndingPays(k)

LEMMA LadderType ==
  Ladder \in Nat \ {0} /\ DuringMax <= Ladder /\ HeadMax <= Ladder /\ 1 <= HeadMax
BY StoreAssumption DEF Ladder, Larger

LEMMA OpenPays ==
  ASSUME StoreTypeOK, StoreTypeOK', NEW a \in Actions, NEW pre \in {0, PreMax},
         NEW head \in {1, HeadMax}, ApplyOpen(a, pre, head), a.op = "open"
  PROVE  \A k \in Keys : Pays(k)
<1> DEFINE k == a.key
           uid == IF Reopens(a) THEN row[k].uid ELSE row[k].uid + 1
           n == IF WithinBudget THEN head ELSE 0
           p == IF WithinBudget THEN pre ELSE 0
           old == IF Reopens(a) THEN evid[k] ELSE NoEvidence
           e == IF WithinBudget THEN [old EXCEPT !.pre = @ + pre, !.during = @ + head] ELSE old
<1>1. /\ \A j \in Keys : j # k => row'[j] = row[j] /\ log'[j] = log[j] /\ evid'[j] = evid[j]
      /\ row'[k].state = "open" /\ row'[k].uid = uid /\ row'[k].n = n /\ evid'[k] = e
      /\ k \in Keys
  BY ActionTypes DEF ApplyOpen, StoreTypeOK
<1>2. old \in Evidence /\ pre \in Nat /\ head \in Nat
  <2>1. NoEvidence \in Evidence
    BY DEF NoEvidence, Evidence
  <2>2. evid[k] \in Evidence
    BY <1>1, RowTypes
  <2>3. pre \in Nat /\ head \in Nat
    BY StoreAssumption
  <2>4. QED
    BY <2>1, <2>2, <2>3
<1>3. n \in 0 .. Ladder /\ p \in 0 .. PreMax
  BY LadderType, StoreAssumption
<1>4. e.pre = old.pre + p /\ e.during = old.during + n /\ e.post = old.post
  <2> HIDE DEF old
  <2>1. old.pre \in Nat /\ old.during \in Nat
    BY <1>2 DEF Evidence
  <2>2. QED
    BY <1>2, <2>1 DEF Evidence
<1>5. Opens(k, a)
  <2>1. Stored({a})
    BY OpenStored
  <2>2. Effect({a}, k)
    BY <1>1, <2>1 DEF Stored
  <2>3. QED
    BY <2>2 DEF Effect, TerminalOps
<1>6. PICK t \in LogRows : /\ log'[k] = Append(log[k], t) /\ t.uid = row'[k].uid
                           /\ t.transition \in Openings
  BY <1>1, <1>5, OpensAppend DEF Openings
<1> HIDE DEF e, n, p
<1>7. OpeningPays(k)
  <2>1. CASE Reopens(a)
    <3>1. old = evid[k] /\ uid = row[k].uid
      BY <2>1
    <3> HIDE DEF old, uid
    <3>2. QED
      BY <1>1, <1>3, <1>4, <1>6, <3>1 DEF OpeningPays
  <2>2. CASE ~Reopens(a)
    <3>1. old.pre = 0 /\ old.during = 0 /\ old.post = 0
      BY <2>2 DEF NoEvidence
    <3> HIDE DEF old, uid
    <3>2. e.pre = p /\ e.during = n /\ e.post = 0
      BY <1>3, <1>4, <3>1, LadderType, StoreAssumption
    <3>3. QED
      BY <1>1, <1>3, <1>6, <3>2 DEF OpeningPays
  <2>3. QED
    BY <2>1, <2>2
<1>8. \A j \in Keys : j # k => EvidenceStays(j)
  BY <1>1 DEF EvidenceStays
<1>9. \A j \in Keys : j = k => OpeningPays(j)
  BY <1>7
<1>10. QED
  BY <1>8, <1>9 DEF Pays

LEMMA SampleIsPaid ==
  ASSUME StoreTypeOK, NEW a \in Actions, ApplySample(a)
  PROVE  \A k \in Keys : Pays(k)
<1> DEFINE k == a.key
           keep == KeepDuring(row[k], a.wall)
<1>1. k \in Keys
  BY ActionTypes
<1>2. CASE row[k].state = "none"
  BY <1>2 DEF ApplySample, Pays, EvidenceStays
<1>3. CASE row[k].state # "none"
  <2>1. /\ \A j \in Keys : j # k => row'[j] = row[j] /\ evid'[j] = evid[j]
        /\ log' = log
        /\ row'[k].state = row[k].state /\ row'[k].uid = row[k].uid
        /\ row'[k].n = IF keep THEN row[k].n + 1 ELSE row[k].n
    <3> DEFINE r == [row[k] EXCEPT !.worst = a.worst, !.step = NextStep(row[k], a.wall),
                                   !.n = IF keep THEN @ + 1 ELSE @,
                                   !.kept = IF keep THEN a.wall ELSE @]
               e == [evid EXCEPT ![k].during = IF keep THEN @ + 1 ELSE @]
    <3>1. row' = [row EXCEPT ![k] = r] /\ log' = log /\ evid' = e
      BY <1>3 DEF ApplySample
    <3> HIDE DEF keep
    <3>2. /\ r.state = row[k].state /\ r.uid = row[k].uid
          /\ r.n = IF keep THEN row[k].n + 1 ELSE row[k].n
      <4>1. row[k] \in Rows
        BY <1>1, RowTypes
      <4>2. QED
        BY <4>1 DEF Rows
    <3>3. \A j \in Keys : j # k => e[j] = evid[j]
      BY DEF StoreTypeOK
    <3> HIDE DEF r, e
    <3>4. QED
      BY <1>1, <3>1, <3>2, <3>3 DEF StoreTypeOK
  <2>2. /\ evid'[k].during = IF keep THEN evid[k].during + 1 ELSE evid[k].during
        /\ evid'[k].pre = evid[k].pre /\ evid'[k].post = evid[k].post
        /\ evid'[k] \in Evidence
    <3> DEFINE e == [evid[k] EXCEPT !.during = IF keep THEN @ + 1 ELSE @]
    <3>1. evid' = [evid EXCEPT ![k].during = IF keep THEN @ + 1 ELSE @]
      BY <1>3 DEF ApplySample
    <3> HIDE DEF keep
    <3>2. evid' = [evid EXCEPT ![k] = e]
      BY <1>1, <3>1 DEF StoreTypeOK
    <3>3. evid[k] \in Evidence /\ evid[k].during + 1 \in Nat
      BY <1>1, RowTypes
    <3>4. /\ e.during = IF keep THEN evid[k].during + 1 ELSE evid[k].during
          /\ e.pre = evid[k].pre /\ e.post = evid[k].post /\ e \in Evidence
      BY <3>3 DEF Evidence
    <3> HIDE DEF e
    <3>5. QED
      BY <1>1, <3>2, <3>4 DEF StoreTypeOK
  <2>3. keep => row[k].n < DuringMax
    BY DEF KeepDuring
  <2> HIDE DEF keep
  <2>4. keep => SamplePays(k)
    BY <1>3, <2>1, <2>2, <2>3 DEF SamplePays
  <2>5. ~keep => EvidenceStays(k)
    <3>1. SUFFICES ASSUME ~keep PROVE evid'[k] = evid[k]
      BY <2>1 DEF EvidenceStays
    <3>2. evid[k] \in Evidence
      BY <1>1, RowTypes
    <3>3. QED
      BY <2>2, <3>1, <3>2 DEF Evidence
  <2>6. \A j \in Keys : j # k => EvidenceStays(j)
    BY <2>1 DEF EvidenceStays
  <2>7. QED
    BY <2>4, <2>5, <2>6 DEF Pays
<1>4. QED
  BY <1>2, <1>3

LEMMA TerminalsPay ==
  ASSUME StoreTypeOK, NEW A, Batch(A), \A a \in A : a.op \in TerminalOps,
         NEW post \in {1, PostMax}, ApplyTerminals(A, post)
  PROVE  \A k \in Keys : Pays(k)
<1>1. post \in 0 .. PostMax
  BY StoreAssumption
<1>2. ASSUME NEW k \in Keys, k \notin Hits(A) PROVE EvidenceStays(k)
  BY <1>2 DEF ApplyTerminals, EvidenceStays
<1>3. ASSUME NEW k \in Keys, k \in Hits(A) PROVE EndingPays(k)
  <2> DEFINE a == ActionOn(A, k)
             t == Transition(row[k].uid, Terminal[a.op], a, row[k].opened, a.worst)
             p == IF a.op = "close" THEN post ELSE 0
  <2>1. a \in A /\ row[k].state # "none"
    <3>1. \E x \in A : x.key = k /\ row[k].state # "none"
      BY <1>3 DEF Hits
    <3>2. QED
      BY <3>1 DEF ActionOn
  <2>2. /\ row'[k] = Cooled(row[k], a) /\ log'[k] = Append(log[k], t)
        /\ evid'[k] = IF a.op = "close" THEN [evid[k] EXCEPT !.post = @ + post] ELSE evid[k]
    BY <1>3 DEF ApplyTerminals
  <2> HIDE DEF a
  <2>3. a.op \in TerminalOps /\ a \in Actions
    BY <2>1 DEF Batch
  <2>4. /\ t.uid = row[k].uid /\ t.transition = Terminal[a.op] /\ t \in LogRows
    <3>1. Terminal[a.op] \in Transitions
      BY <2>3 DEF Terminal, TerminalOps, Transitions
    <3>2. QED
      BY <2>3, <3>1, ActionTypes, RowTypes DEF Transition, LogRows
  <2>5. t.transition \notin Openings /\ (a.op = "close" => t.transition = "close")
    BY <2>3, <2>4 DEF Terminal, TerminalOps, Openings
  <2>6. row'[k].state = "cooldown" /\ row'[k].uid = row[k].uid /\ row'[k].n = row[k].n
    <3>1. row[k] \in Rows
      BY RowTypes
    <3>2. QED
      BY <2>2, <3>1 DEF Cooled, Rows
  <2>7. /\ evid'[k].pre = evid[k].pre /\ evid'[k].during = evid[k].during
        /\ evid'[k].post = evid[k].post + p
    <3>1. evid[k] \in Evidence /\ evid[k].post \in Nat
      BY RowTypes
    <3>2. QED
      BY <2>2, <3>1 DEF Evidence
  <2>8. p \in 0 .. PostMax /\ (p = 0 \/ t.transition = "close")
    BY <1>1, <2>5, StoreAssumption
  <2> HIDE DEF t, p
  <2>9. QED
    BY <2>1, <2>2, <2>4, <2>5, <2>6, <2>7, <2>8 DEF EndingPays
<1>4. QED
  BY <1>2, <1>3 DEF Pays

LEMMA BatchPays ==
  ASSUME StoreTypeOK, NEW A, Batch(A), Apply(A), lost \in Nat PROVE \A k \in Keys : Pays(k)
<1>1. ASSUME NEW B \in SUBSET A, ApplyAll(B) PROVE \A k \in Keys : Pays(k)
  <2>1. Batch(B) /\ StoreTypeOK'
    BY <1>1, AllStored DEF Batch, Stored
  <2> DEFINE x == CHOOSE x \in B : TRUE
  <2>2. CASE B = {}
    BY <1>1, <2>2 DEF ApplyAll, Pays, EvidenceStays
  <2>3. CASE B # {}
    <3>1. x \in B /\ x \in Actions /\ x.op \in Ops
      BY <2>1, <2>3, ActionTypes DEF Batch
    <3>2. CASE x.op = "open"
      BY <1>1, <2>1, <2>3, <3>1, <3>2, OpenPays DEF ApplyAll
    <3>3. CASE x.op = "sample"
      BY <1>1, <2>1, <2>3, <3>1, <3>3, SampleIsPaid DEF ApplyAll
    <3>4. CASE x.op \in TerminalOps
      <4>1. \E post \in {1, PostMax} : ApplyTerminals(B, post)
        BY <1>1, <2>3, <3>4 DEF ApplyAll, TerminalOps
      <4>2. \A b \in B : b.op \in TerminalOps
        BY <2>1, <3>1, <3>4 DEF Batch
      <4>3. QED
        BY <2>1, <4>1, <4>2, TerminalsPay
    <3>5. QED
      BY <3>1, <3>2, <3>3, <3>4 DEF Ops, TerminalOps
  <2>4. QED
    BY <2>2, <2>3
<1>2. QED
  BY <1>1 DEF Apply

LEMMA StepPays == ASSUME TypeOK, [Next]_nvars PROVE \A k \in Keys : Pays(k)
<1>1. StoreTypeOK /\ DTypeOK /\ lost \in Nat
  BY TypedStore
<1>2. ASSUME NEW k \in Keys, NEW v \in Values, Sample(k, v) PROVE \A j \in Keys : Pays(j)
  <2>1. v \in Int /\ Evaluate(k, v) /\ Apply(acts')
    BY <1>2, ValuesAssumption DEF Sample
  <2>2. Batch(acts')
    BY <1>1, <2>1, SampleTurn, SampleBatch
  <2>3. QED
    BY <1>1, <2>1, <2>2, BatchPays
<1>3. SweepAll => \A k \in Keys : Pays(k)
  BY <1>1, SweepBatch, BatchPays DEF SweepAll
<1>4. ASSUME UNCHANGED <<row, log, evid>> PROVE \A k \in Keys : Pays(k)
  BY <1>4 DEF Pays, EvidenceStays
<1>5. QED
  BY <1>2, <1>3, <1>4, StepKinds DEF Restart, Ticks, Calm

\* Rows of a uid with some transitions, when one more row is written.
LEMMA CountAppend ==
  ASSUME NEW k \in Keys, NEW u, NEW T, log[k] \in Seq(LogRows), NEW t \in LogRows,
         log'[k] = Append(log[k], t)
  PROVE  /\ CountOf(k, u, T) \in Nat
         /\ CountOf(k, u, T)' = IF t.uid = u /\ t.transition \in T
                                THEN CountOf(k, u, T) + 1 ELSE CountOf(k, u, T)
<1> DEFINE s == log[k]
           n == Len(s)
           C == {i \in RowsOf(s, u) : s[i].transition \in T}
           D == {i \in RowsOf(log'[k], u) : log'[k][i].transition \in T}
<1>1. /\ n \in Nat /\ DOMAIN s = 1 .. n /\ DOMAIN log'[k] = 1 .. n + 1
      /\ log'[k][n + 1] = t /\ \A i \in 1 .. n : log'[k][i] = s[i]
  OBVIOUS
<1>2. IsFiniteSet(C) /\ Cardinality(C) \in Nat /\ n + 1 \notin C
  <2>1. C \subseteq 1 .. n /\ IsFiniteSet(1 .. n)
    BY <1>1, FS_Interval DEF RowsOf
  <2>2. QED
    BY <1>1, <2>1, FS_Subset, FS_CardinalityType
<1>3. D = IF t.uid = u /\ t.transition \in T THEN C \cup {n + 1} ELSE C
  BY <1>1 DEF RowsOf
<1>4. Cardinality(C \cup {n + 1}) = Cardinality(C) + 1
  BY <1>2, FS_AddElement
<1>5. CountOf(k, u, T) = Cardinality(C) /\ CountOf(k, u, T)' = Cardinality(D)
  BY DEF CountOf
<1> HIDE DEF C, D
<1>6. QED
  BY <1>2, <1>3, <1>4, <1>5

LEMMA CountType ==
  ASSUME NEW k \in Keys, NEW u, NEW T, log[k] \in Seq(LogRows) PROVE CountOf(k, u, T) \in Nat
<1> DEFINE C == {i \in RowsOf(log[k], u) : log[k][i].transition \in T}
<1>1. C \subseteq 1 .. Len(log[k]) /\ IsFiniteSet(1 .. Len(log[k]))
  BY FS_Interval DEF RowsOf
<1>2. IsFiniteSet(C) /\ Cardinality(C) \in Nat
  BY <1>1, FS_Subset, FS_CardinalityType
<1>3. QED
  BY <1>2 DEF CountOf

\* One more payment.
LEMMA OneMore ==
  \A n, x \in Nat : (n + 1) * x = n * x + x /\ n * x \in Nat /\ (n >= 1 => x <= n * x)
OBVIOUS

\* What is kept of a uid is paid for by its rows, the ladder of its last opening as far
\* as that has come.
Paid(k) ==
  LET opens == CountOf(k, row[k].uid, Openings)
  IN IF row[k].state = "none" THEN evid[k] = NoEvidence
     ELSE /\ opens >= 1 /\ evid[k].pre <= opens * PreMax
          /\ row[k].n <= Ladder /\ evid[k].during + Ladder <= opens * Ladder + row[k].n
          /\ evid[k].post <= CountOf(k, row[k].uid, {"close"}) * PostMax

PaidInv == \A k \in Keys : Paid(k)

\* The bounds that hold of a key in every state.
LEMMA PaidFor ==
  ASSUME StoreTypeOK, NEW k \in Keys, Paid(k)
  PROVE  LET opens == CountOf(k, row[k].uid, Openings)
         IN /\ evid[k].pre <= opens * PreMax /\ evid[k].during <= opens * Ladder
            /\ evid[k].post <= CountOf(k, row[k].uid, {"close"}) * PostMax
<1> DEFINE n == CountOf(k, row[k].uid, Openings)
           c == CountOf(k, row[k].uid, {"close"})
<1>1. /\ n \in Nat /\ c \in Nat /\ PreMax \in Nat /\ PostMax \in Nat /\ Ladder \in Nat
      /\ evid[k].during \in Nat /\ row[k].n \in Nat
  BY RowTypes, CountType, LadderType, StoreAssumption
<1> HIDE DEF n, c
<1>2. n * PreMax \in Nat /\ n * Ladder \in Nat /\ c * PostMax \in Nat
  BY <1>1, OneMore
<1>3. CASE row[k].state = "none"
  <2>1. evid[k].pre = 0 /\ evid[k].during = 0 /\ evid[k].post = 0
    BY <1>3 DEF Paid, NoEvidence
  <2>2. QED
    BY <1>2, <2>1 DEF n, c
<1>4. CASE row[k].state # "none"
  <2> DEFINE nl == n * Ladder
  <2>1. /\ evid[k].pre <= n * PreMax /\ evid[k].post <= c * PostMax
        /\ row[k].n <= Ladder /\ evid[k].during + Ladder <= nl + row[k].n
    BY <1>4 DEF Paid, n, c
  <2>2. nl \in Nat
    BY <1>2
  <2> HIDE DEF nl
  <2>3. evid[k].during <= nl
    BY <1>1, <2>1, <2>2
  <2>4. QED
    BY <2>1, <2>3 DEF nl, n, c
<1>5. QED
  BY <1>3, <1>4

LEMMA OpeningIsPaid ==
  ASSUME StoreTypeOK, StoreTypeOK', NEW k \in Keys, Paid(k), OpeningPays(k) PROVE Paid(k)'
<1>1. PICK t \in LogRows, pre \in 0 .. PreMax, head \in 0 .. Ladder :
        /\ log'[k] = Append(log[k], t) /\ t.transition \in Openings /\ t.uid = row'[k].uid
        /\ row'[k].state = "open" /\ row'[k].n = head
        /\ \/ /\ row'[k].uid = row[k].uid /\ evid'[k].post = evid[k].post
              /\ evid'[k].pre = evid[k].pre + pre /\ evid'[k].during = evid[k].during + head
           \/ /\ evid'[k].post = 0 /\ evid'[k].pre = pre /\ evid'[k].during = head
  BY DEF OpeningPays
<1> PICK u : u = row'[k].uid
  OBVIOUS
<1> DEFINE n == CountOf(k, u, Openings)
           c == CountOf(k, u, {"close"})
<1>2. /\ n \in Nat /\ n' = n + 1 /\ c \in Nat /\ c' = c
  <2>1. t.transition # "close" /\ log[k] \in Seq(LogRows)
    BY <1>1, RowTypes DEF Openings
  <2>2. QED
    BY <1>1, <2>1, CountAppend
<1> DEFINE nl == n * Ladder
           np == n * PreMax
           cp == c * PostMax
<1>3. /\ (n + 1) * Ladder = nl + Ladder /\ nl \in Nat /\ Ladder \in Nat
      /\ (n + 1) * PreMax = np + PreMax /\ np \in Nat /\ PreMax \in Nat /\ cp \in Nat
  BY <1>2, OneMore, LadderType, StoreAssumption
<1>4. /\ evid[k].pre \in Nat /\ evid[k].during \in Nat
  BY RowTypes
<1>5. /\ evid'[k].pre <= np + PreMax /\ evid'[k].during + Ladder <= nl + Ladder + head
      /\ evid'[k].post <= cp
  <2>1. CASE /\ row'[k].uid = row[k].uid /\ evid'[k].post = evid[k].post
             /\ evid'[k].pre = evid[k].pre + pre /\ evid'[k].during = evid[k].during + head
    <3>1. evid[k].pre <= np /\ evid[k].during <= nl /\ evid[k].post <= cp
      BY <2>1, PaidFor
    <3> HIDE DEF n, c, nl, np, cp
    <3>2. QED
      BY <1>3, <1>4, <2>1, <3>1
  <2>2. CASE evid'[k].post = 0 /\ evid'[k].pre = pre /\ evid'[k].during = head
    <3> HIDE DEF n, c, nl, np, cp
    <3>1. QED
      BY <1>3, <2>2
  <2>3. QED
    BY <1>1, <2>1, <2>2
<1>6. /\ evid'[k].pre <= n' * PreMax /\ evid'[k].during + Ladder <= n' * Ladder + head
      /\ evid'[k].post <= c' * PostMax /\ n' >= 1
  <2>1. n' * PreMax = np + PreMax /\ n' * Ladder = nl + Ladder /\ c' * PostMax = cp
    <3> HIDE DEF n, c
    <3>1. QED
      BY <1>2, <1>3
  <2>2. n' >= 1
    <3> HIDE DEF n, c
    <3>1. QED
      BY <1>2
  <2> HIDE DEF n, c, nl, np, cp
  <2>3. QED
    BY <1>5, <2>1, <2>2
<1>7. head <= Ladder
  BY <1>3
<1>8. /\ n' = CountOf(k, row[k].uid, Openings)' /\ c' = CountOf(k, row[k].uid, {"close"})'
  BY DEF CountOf
<1> HIDE DEF n, c
<1>9. QED
  BY <1>1, <1>6, <1>7, <1>8 DEF Paid

LEMMA EndingIsPaid ==
  ASSUME StoreTypeOK, StoreTypeOK', NEW k \in Keys, Paid(k), EndingPays(k) PROVE Paid(k)'
<1>1. PICK t \in LogRows, post \in 0 .. PostMax :
        /\ log'[k] = Append(log[k], t) /\ t.transition \notin Openings /\ t.uid = row[k].uid
        /\ row[k].state # "none" /\ row'[k].state = "cooldown" /\ row'[k].uid = row[k].uid
        /\ row'[k].n = row[k].n
        /\ evid'[k].pre = evid[k].pre /\ evid'[k].during = evid[k].during
        /\ evid'[k].post = evid[k].post + post /\ (post = 0 \/ t.transition = "close")
  BY DEF EndingPays
<1> PICK u : u = row[k].uid
  OBVIOUS
<1> DEFINE n == CountOf(k, u, Openings)
           c == CountOf(k, u, {"close"})
<1>2. /\ n \in Nat /\ n' = n /\ c \in Nat
      /\ c' = IF t.transition = "close" THEN c + 1 ELSE c
  <2>1. log[k] \in Seq(LogRows)
    BY RowTypes
  <2>2. QED
    BY <1>1, <2>1, CountAppend
<1>3. /\ n >= 1 /\ evid[k].pre <= n * PreMax /\ row[k].n <= Ladder
      /\ evid[k].during + Ladder <= n * Ladder + row[k].n /\ evid[k].post <= c * PostMax
  BY <1>1 DEF Paid
<1>4. /\ n' = CountOf(k, row[k].uid, Openings)' /\ c' = CountOf(k, row[k].uid, {"close"})'
  BY <1>1 DEF CountOf
<1>5. evid[k].post \in Nat /\ PostMax \in Nat
  BY RowTypes, StoreAssumption
<1> HIDE DEF n, c
<1>6. evid'[k].post <= c' * PostMax
  <2> DEFINE cp == c * PostMax
  <2>1. (c + 1) * PostMax = cp + PostMax /\ cp \in Nat
    BY <1>2, <1>5, OneMore
  <2>2. evid[k].post <= cp
    BY <1>3
  <2>3. CASE t.transition = "close"
    <3>1. c' * PostMax = cp + PostMax
      BY <1>2, <2>1, <2>3
    <3> HIDE DEF cp
    <3>2. QED
      BY <1>1, <1>5, <2>1, <2>2, <3>1
  <2>4. CASE t.transition # "close"
    <3>1. c' * PostMax = cp /\ post = 0
      BY <1>1, <1>2, <2>4
    <3> HIDE DEF cp
    <3>2. QED
      BY <1>1, <1>5, <2>2, <3>1
  <2>5. QED
    BY <2>3, <2>4
<1>7. QED
  BY <1>1, <1>2, <1>3, <1>4, <1>6 DEF Paid

LEMMA PaidStep == ASSUME TypeOK, TypeOK', PaidInv, [Next]_nvars PROVE PaidInv'
<1>1. StoreTypeOK /\ StoreTypeOK'
  BY DEF TypeOK, StoreTypeOK
<1>2. ASSUME NEW k \in Keys PROVE Paid(k)'
  <2>1. Pays(k) /\ Paid(k)
    BY StepPays DEF PaidInv
  <2>2. ASSUME log'[k] = log[k], row'[k].uid = row[k].uid
        PROVE  \A T : CountOf(k, row[k].uid, T)' = CountOf(k, row[k].uid, T)
    BY <2>2 DEF CountOf
  <2>3. CASE EvidenceStays(k)
    BY <2>1, <2>2, <2>3 DEF EvidenceStays, Paid
  <2>4. CASE SamplePays(k)
    <3> DEFINE n == CountOf(k, row[k].uid, Openings)
               nl == n * Ladder
    <3>1. n' = n /\ n \in Nat /\ nl \in Nat
      BY <1>1, <2>2, <2>4, RowTypes, CountType, OneMore, LadderType DEF SamplePays
    <3>2. /\ evid[k].during + Ladder <= nl + row[k].n
          /\ evid'[k].during = evid[k].during + 1 /\ row'[k].n = row[k].n + 1
          /\ row[k].n < DuringMax
      BY <2>1, <2>4 DEF SamplePays, Paid
    <3>3. /\ evid[k].during \in Nat /\ row[k].n \in Nat /\ Ladder \in Nat /\ DuringMax \in Nat
          /\ DuringMax <= Ladder
      BY <1>1, RowTypes, LadderType, StoreAssumption
    <3>4. evid'[k].during + Ladder <= nl + row'[k].n /\ row'[k].n <= Ladder
      <4> HIDE DEF nl
      <4>1. QED
        BY <3>1, <3>2, <3>3
    <3>5. CountOf(k, row[k].uid, {"close"})' = CountOf(k, row[k].uid, {"close"})
      BY <2>2, <2>4 DEF SamplePays
    <3>6. QED
      BY <2>1, <2>4, <3>1, <3>4, <3>5 DEF SamplePays, Paid
  <2>5. QED
    BY <1>1, <2>1, <2>3, <2>4, OpeningIsPaid, EndingIsPaid DEF Pays
<1>3. QED
  BY <1>2 DEF PaidInv

(* Evidence is bounded by what the log shows was paid for, for every rule,  *)
(* every length of an incident, every loss and every restart               *)
(* (incidents.py, _apply_open, _apply_sample, _apply_terminal).             *)
THEOREM EvidenceIsPaidFor == Spec => []EvidencePerTransition
<1>1. Init => PaidInv
  BY DEF Init, NoRow, PaidInv, Paid
<1>2. TypeOK /\ PaidInv /\ [Next]_nvars => PaidInv'
  BY StepTyped, PaidStep
<1>3. TypeOK /\ PaidInv => EvidencePerTransition
  <2>1. SUFFICES ASSUME StoreTypeOK, PaidInv PROVE EvidencePerTransition
    BY DEF TypeOK, StoreTypeOK
  <2>2. QED
    BY <2>1, PaidFor DEF PaidInv, EvidencePerTransition, Ladder
<1>4. QED
  BY <1>1, <1>2, <1>3, NodeTypeCorrect, PTL DEF Spec

----------------------------------------------------------------------------
(* The detector's promises, through crashes.  A restart drops the machines  *)
(* and rebuilds them from the disk; a flush marks the baselines clean.  What *)
(* module DetectorProofs knows of a key survives both.                      *)

\* A step of the node is a step of its detector, a flush or a restart.
LEMMA DetectorStep ==
  ASSUME [Next]_nvars
  PROVE  \/ [DNext]_dvars \/ FlushBaseline
         \/ \E d \in Downtimes, stopped \in BOOLEAN : Restart(d, stopped)
BY DEF Next, Sample, SweepAll, Clocks, Horizon, DNext, nvars

LEMMA FlushKeeps ==
  ASSUME DInv, FlushBaseline
  PROVE  DInv' /\ \A k \in Keys : base'[k].n = base[k].n
<1>1. base \in [Keys -> [n: Nat, dirty: BOOLEAN]]
  BY DEF DInv, DTypeOK
<1>2. /\ base' = [k \in Keys |-> [base[k] EXCEPT !.dirty = FALSE]] /\ acts' = {}
      /\ UNCHANGED <<mono, wall, steps, due, swept, det, hist>>
  BY DEF FlushBaseline, Clean
<1>3. \A k \in Keys : base'[k] \in [n: Nat, dirty: BOOLEAN] /\ base'[k].n = base[k].n
  BY <1>1, <1>2
<1>4. base' \in [Keys -> [n: Nat, dirty: BOOLEAN]]
  BY <1>2, <1>3
<1>5. DTypeOK'
  BY <1>2, <1>4 DEF DInv, DTypeOK
<1>6. ASSUME NEW k \in Keys PROVE KeyInv(k)'
  <2>1. KeyInv(k) /\ base'[k].n = base[k].n
    BY <1>3 DEF DInv
  <2>2. QED
    BY <1>2, <2>1 DEF KeyInv, HasThresholds
<1>7. QED
  BY <1>2, <1>3, <1>5, <1>6 DEF DInv

\* What a restart leaves of a key: no candidate and no hold, and a signal that counts
\* as heard now.
LEMMA RestartKeeps ==
  ASSUME TypeOK, DInv, NEW d \in Downtimes, NEW stopped \in BOOLEAN, Restart(d, stopped)
  PROVE  /\ DInv' /\ acts' = {}
         /\ d \in Nat /\ mono' = mono + d /\ wall' = wall + d /\ swept' = mono + d /\ due' = 0
         /\ steps' = steps
<1>1. /\ TypeOK' /\ d \in Nat /\ mono' = mono + d /\ wall' = wall + d /\ swept' = mono + d
      /\ due' = 0 /\ steps' = steps /\ acts' = {}
  BY RestartTyped, StoreAssumption DEF Restart
<1>2. mono \in Int /\ mono >= 1 /\ swept \in Int
  BY DEF DInv, DTypeOK
<1>3. ASSUME NEW k \in Keys PROVE KeyInv(k)'
  <2>1. hist[k] \in History /\ hist[k].sick <= mono /\ row[k] \in Rows
    BY DEF DInv, DTypeOK, KeyInv, TypeOK
  <2>2. hist'[k].run = 0 /\ hist'[k].sick = hist[k].sick /\ hist[k].sick \in Int
    BY <2>1 DEF Restart, History
  <2>3. det'[k] = IF row[k].state = "none" THEN Fresh
                  ELSE Restored(row[k].state, row[k].opened, row[k].changed,
                                row[k].worst, mono + d, wall + d)
    BY DEF Restart
  <2>4. row[k].state \in {"none", "open", "cooldown"}
    BY <2>1 DEF Rows
  <2>5. det'[k].state \in {"ok", "open", "cooldown"}
    BY <2>3, <2>4 DEF Fresh, Restored
  <2>6. det'[k].state = "open" => det'[k].last = mono + d
    BY <2>3, <2>4 DEF Fresh, Restored
  <2>7. det'[k].state \in Active => swept' - det'[k].last < StaleS
    BY <1>1, <1>2, <2>5, <2>6, DurationAssumption DEF Active
  <2>8. hist'[k].sick <= mono'
    BY <1>1, <1>2, <2>1, <2>2
  <2>9. QED
    BY <2>2, <2>5, <2>7, <2>8 DEF KeyInv
<1>4. DTypeOK'
  BY <1>1 DEF TypeOK
<1>5. mono' >= 1 /\ swept' <= mono'
  BY <1>1, <1>2
<1>6. QED
  BY <1>1, <1>3, <1>4, <1>5 DEF DInv

LEMMA DetectorKept == ASSUME TypeOK, DInv, [Next]_nvars PROVE DInv'
BY DetectorStep, NextInv, FlushKeeps, RestartKeeps

(* The inductive invariant of the detector (Invariance, which is about an   *)
(* uninterrupted process) is one of the node as well: what incidents.py     *)
(* stores and detect.restore makes of it never contradicts the samples.     *)
THEOREM DetectorSurvives == Spec => []DInv
<1>1. Init => DInv
  BY InitInv DEF Init
<1>2. TypeOK /\ DInv /\ [Next]_nvars => DInv'
  BY DetectorKept
<1>3. QED
  BY <1>1, <1>2, NodeTypeCorrect, PTL DEF Spec

(* The debounce of detect.py holds through any crash and whatever is lost:  *)
(* outside a cooldown nothing opens that has not breached for for_s in one  *)
(* life of the process.                                                     *)
THEOREM DebounceSurvives == Spec => DebounceBeforeOpen
<1>1. TypeOK /\ DInv /\ [Next]_nvars =>
        [\A k \in Keys :
           Emits(k, "open") /\ det[k].state # "cooldown"
             => hist[k].run # 0 /\ mono - hist[k].run >= Rule[k].for_s]_dvars
  <2>1. SUFFICES ASSUME TypeOK, DInv, [Next]_nvars, dvars' # dvars, NEW k \in Keys,
                        Emits(k, "open"), det[k].state # "cooldown"
                 PROVE  hist[k].run # 0 /\ mono - hist[k].run >= Rule[k].for_s
    OBVIOUS
  <2>2. acts' # {}
    BY <2>1 DEF Emits
  <2>3. DNext
    BY <2>1, <2>2, DetectorStep, RestartKeeps DEF FlushBaseline
  <2>4. QED
    BY <2>1, <2>3, OpenStep
<1>2. QED
  BY <1>1, NodeTypeCorrect, DetectorSurvives, PTL DEF Spec, DebounceBeforeOpen

(* The recovery hold holds through any crash, for every rule whose          *)
(* thresholds exist when the incident closes: a resumed incident serves its *)
(* hold anew (detect.restore).                                              *)
THEOREM HoldSurvives ==
  Spec => [][\A k \in Keys : Emits(k, "close") /\ HasThresholds(k)
                               => mono - hist[k].sick >= Rule[k].clear_for_s]_dvars
<1>1. TypeOK /\ DInv /\ [Next]_nvars =>
        [\A k \in Keys : Emits(k, "close") /\ HasThresholds(k)
                           => mono - hist[k].sick >= Rule[k].clear_for_s]_dvars
  <2>1. SUFFICES ASSUME TypeOK, DInv, [Next]_nvars, dvars' # dvars, NEW k \in Keys,
                        Emits(k, "close"), HasThresholds(k)
                 PROVE  mono - hist[k].sick >= Rule[k].clear_for_s
    OBVIOUS
  <2>2. acts' # {}
    BY <2>1 DEF Emits
  <2>3. DNext
    BY <2>1, <2>2, DetectorStep, RestartKeeps DEF FlushBaseline
  <2>4. QED
    BY <2>1, <2>3, CloseStep
<1>2. QED
  BY <1>1, NodeTypeCorrect, DetectorSurvives, PTL DEF Spec

(* In particular for fixed thresholds, which no crash can lose.             *)
THEOREM FixedHoldSurvives ==
  ASSUME \A k \in Keys : Rule[k].fixed PROVE Spec => HoldBeforeClose
<1>1. \A k \in Keys : HasThresholds(k)
  BY DEF HasThresholds
<1>2. [\A k \in Keys : Emits(k, "close") /\ HasThresholds(k)
                         => mono - hist[k].sick >= Rule[k].clear_for_s]_dvars
      => [\A k \in Keys : Emits(k, "close")
                            => mono - hist[k].sick >= Rule[k].clear_for_s]_dvars
  BY <1>1
<1>3. QED
  BY <1>2, HoldSurvives, PTL DEF HoldBeforeClose

----------------------------------------------------------------------------
(* The sweep's promises, through crashes: after a start it is due at once.  *)

\* The wall clock is a time after the epoch, and the sweep keeps its cadence.
Paced == wall > 0 /\ Cadence

LEMMA PacedStep ==
  ASSUME TypeOK, DInv, Paced, [Next]_nvars, WallSteps \subseteq Nat \/ steps' = 0
  PROVE  Paced'
<1>1. /\ mono \in Int /\ wall \in Int /\ swept \in Int /\ due \in Int
      /\ SweepEvery \in Nat \ {0}
  BY DurationAssumption DEF DInv, DTypeOK
<1>2. CASE [DNext]_dvars
  <2>1. wall' > 0
    <3>1. CASE \/ \E k \in Keys, v \in Values : Evaluate(k, v)
               \/ Sweep \/ Horizon \/ UNCHANGED dvars
      BY <3>1 DEF Evaluate, Sweep, Horizon, dvars, Paced
    <3>2. CASE Tick
      BY <1>1, <3>2 DEF Tick, Paced
    <3>3. ASSUME NEW d \in WallSteps, StepWall(d) PROVE wall' > 0
      BY <3>3 DEF StepWall
    <3>4. QED
      BY <1>2, <3>1, <3>2, <3>3 DEF DNext
  <2>2. QED
    BY <1>2, <2>1, CadenceStep DEF Paced
<1>3. CASE FlushBaseline
  BY <1>3 DEF FlushBaseline, Paced, Cadence
<1>4. ASSUME NEW d \in Downtimes, NEW stopped \in BOOLEAN, Restart(d, stopped)
      PROVE  Paced'
  BY <1>1, <1>4, RestartKeeps DEF Paced, Cadence
<1>5. QED
  BY <1>2, <1>3, <1>4, DetectorStep

(* While nobody puts the clock back, an incident whose signal fell silent   *)
(* is retired in time although the process died in between: what a restart  *)
(* resumes is given StaleS to report again, no more.                        *)
THEOREM SilenceSurvives ==
  ASSUME WallSteps \subseteq Nat PROVE Spec => []SilentSignalIsRetired
<1>1. Init => Paced
  BY DurationAssumption DEF Init, DInit, Paced, Cadence
<1>2. TypeOK /\ DInv /\ Paced /\ [Next]_nvars => Paced'
  BY PacedStep
<1>3. DInv /\ Paced => SilentSignalIsRetired
  <2>1. SUFFICES ASSUME DInv, Paced, NEW k \in Keys, det[k].state \in Active
                 PROVE  mono - det[k].last < StaleS + SweepEvery
    BY DEF SilentSignalIsRetired
  <2>2. /\ swept - det[k].last < StaleS /\ mono - swept <= SweepEvery
        /\ mono \in Int /\ swept \in Int
    BY <2>1 DEF DInv, DTypeOK, KeyInv, Paced, Cadence
  <2>3. det[k].last \in Int
    BY <2>1, Before DEF Machine
  <2>4. QED
    BY <2>2, <2>3, DurationAssumption
<1>4. QED
  BY <1>1, <1>2, <1>3, NodeTypeCorrect, DetectorSurvives, PTL DEF Spec

\* The two clocks run together, and the last sweep of this process found nothing too old.
Aged ==
  steps = 0 =>
    /\ Paced /\ wall = mono
    /\ due # 0 => \A k \in Keys : det[k].state \in Active => swept - det[k].opened < MaxOpenS

LEMMA StepsOnlyGrow ==
  ASSUME TypeOK, DInv, [Next]_nvars, steps' = 0 PROVE steps = 0
<1>1. steps \in Nat
  BY DEF DInv, DTypeOK
<1>2. ASSUME NEW d \in WallSteps, StepWall(d) PROVE steps' # 0
  BY <1>1, <1>2 DEF StepWall
<1>3. CASE \E k \in Keys, v \in Values : Evaluate(k, v)
  BY <1>3 DEF Evaluate
<1>4. CASE Sweep \/ Tick \/ UNCHANGED dvars \/ FlushBaseline
  BY <1>4 DEF Sweep, Tick, dvars, FlushBaseline
<1>5. QED
  BY <1>2, <1>3, <1>4, DetectorStep, RestartKeeps DEF DNext, Horizon

LEMMA AgedStep ==
  ASSUME TypeOK, DInv, Aged, [Next]_nvars PROVE Aged'
<1>1. SUFFICES ASSUME steps' = 0
               PROVE  /\ Paced' /\ wall' = mono'
                      /\ due' # 0 => \A k \in Keys : det'[k].state \in Active
                                                       => swept' - det'[k].opened < MaxOpenS
  BY DEF Aged
<1>2. /\ steps = 0 /\ Paced /\ wall = mono
      /\ due # 0 => \A k \in Keys : det[k].state \in Active => swept - det[k].opened < MaxOpenS
  BY <1>1, StepsOnlyGrow DEF Aged
<1>3. Paced'
  BY <1>1, <1>2, PacedStep
<1>4. CASE [DNext]_dvars /\ due # 0
  <2>1. AgeInv
    BY <1>2, <1>4 DEF AgeInv, Paced
  <2>2. QED
    BY <1>1, <1>3, <1>4, <2>1, AgeStep DEF AgeInv
<1>5. CASE [DNext]_dvars /\ due = 0
  <2>1. CASE Sweep
    BY <1>2, <1>3, <2>1, SweepAges DEF Sweep
  <2>2. CASE \E k \in Keys, v \in Values : Evaluate(k, v)
    BY <1>2, <1>3, <1>5, <2>2 DEF Evaluate
  <2>3. ~Tick
    BY <1>2, <1>5 DEF Tick, Paced, DInv, DTypeOK
  <2>4. ASSUME NEW d \in WallSteps, StepWall(d) PROVE FALSE
    BY <1>1, <1>2, <2>4 DEF StepWall
  <2>5. CASE UNCHANGED dvars
    BY <1>2, <1>3, <1>5, <2>5 DEF dvars
  <2>6. QED
    BY <1>5, <2>1, <2>2, <2>3, <2>4, <2>5 DEF DNext, Horizon
<1>6. CASE FlushBaseline
  BY <1>2, <1>3, <1>6 DEF FlushBaseline
<1>7. ASSUME NEW d \in Downtimes, NEW stopped \in BOOLEAN, Restart(d, stopped)
      PROVE  wall' = mono' /\ due' = 0
  BY <1>2, <1>7, RestartKeeps
<1>8. QED
  BY <1>3, <1>4, <1>5, <1>6, <1>7, DetectorStep

(* Until the wall clock is corrected, and from the first sweep of a process *)
(* on, nothing is open that is older than INCIDENT_MAX_OPEN_S and one       *)
(* sweep: the age a restart resumes is that of the incident, down time      *)
(* included (detect.restore keeps opened).                                  *)
THEOREM ExpirySurvives == Spec => [](due # 0 => NothingStaysOpen)
<1>1. Init => Aged
  BY DurationAssumption DEF Init, DInit, Paced, Cadence, Aged
<1>2. TypeOK /\ DInv /\ Aged /\ [Next]_nvars => Aged'
  BY AgedStep
<1>3. DInv /\ Aged => (due # 0 => NothingStaysOpen)
  <2>1. SUFFICES ASSUME DInv, Aged, due # 0, steps = 0, NEW k \in Keys, det[k].state \in Active
                 PROVE  wall - det[k].opened < MaxOpenS + SweepEvery
    BY DEF NothingStaysOpen
  <2>2. /\ mono \in Int /\ swept \in Int /\ mono - swept <= SweepEvery
        /\ wall = mono /\ swept - det[k].opened < MaxOpenS
    BY <2>1 DEF DInv, DTypeOK, Aged, Paced, Cadence
  <2>3. det[k].opened \in Int
    BY <2>1, Before DEF Machine
  <2>4. QED
    BY <2>2, <2>3, DurationAssumption
<1>4. QED
  BY <1>1, <1>2, <1>3, NodeTypeCorrect, DetectorSurvives, PTL DEF Spec
=============================================================================
