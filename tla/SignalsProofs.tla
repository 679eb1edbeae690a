----------------------------- MODULE SignalsProofs -----------------------------
(***************************************************************************)
(* Theorems about Signals: the ring arithmetic implements the window of    *)
(* module Window, and what is read back about an incident is split where   *)
(* its breach began, for every size, every cap and every number of samples.*)
(***************************************************************************)
EXTENDS Signals, FiniteSetTheorems, NaturalsInduction, WellFoundedInduction, TLAPS

Items == [id : 1 .. MaxFeeds, mono : Now0 .. MaxNow]
Stored == Items \cup {Blank}
Rings == [buf : [Indices -> Stored], i : Indices, n : 0 .. RingSize]

----------------------------------------------------------------------------
(* Positions in a ring.                                                    *)

LEMMA Wraps ==
  ASSUME NEW x \in Int, -RingSize <= x, x <= RingSize
  PROVE  x % RingSize = IF x < 0 THEN x + RingSize
                        ELSE IF x = RingSize THEN 0 ELSE x
<1>1. RingSize \in Int /\ RingSize > 0
  BY SignalsAssumption
<1>2. CASE x < 0
  BY <1>1, <1>2
<1>3. CASE x = RingSize
  BY <1>1, <1>3
<1>4. CASE 0 <= x /\ x < RingSize
  BY <1>1, <1>4
<1>5. QED
  BY <1>1, <1>2, <1>3, <1>4

Slot(r, j) == (r.i - r.n + j - 1) % RingSize

LEMMA OrderedSeq ==
  ASSUME NEW r \in Rings
  PROVE  /\ Ordered(r) \in Seq(Stored) /\ Len(Ordered(r)) = r.n /\ r.n \in Nat
         /\ \A j \in 1 .. r.n : Slot(r, j) \in Indices /\ Ordered(r)[j] = r.buf[Slot(r, j)]
<1>1. /\ RingSize \in Nat \ {0} /\ r.n \in 0 .. RingSize /\ r.i \in 0 .. RingSize - 1
      /\ r.buf \in [Indices -> Stored]
  BY SignalsAssumption DEF Rings, Indices
<1>2. ASSUME NEW j \in 1 .. r.n PROVE Slot(r, j) \in Indices
  <2>1. r.i - r.n + j - 1 \in Int /\ -RingSize <= r.i - r.n + j - 1
        /\ r.i - r.n + j - 1 <= RingSize - 1
    BY <1>1
  <2>2. QED
    BY <1>1, <2>1, Wraps DEF Slot, Indices
<1>3. Ordered(r) = [j \in 1 .. r.n |-> r.buf[Slot(r, j)]]
  BY DEF Ordered, Slot
<1>4. QED
  BY <1>1, <1>2, <1>3

\* What a push leaves where it was, and where the new sample goes.
LEMMA PushTyped ==
  ASSUME NEW r \in Rings, NEW x \in Items
  PROVE  /\ Push(r, x) \in Rings
         /\ Push(r, x).n = IF r.n < RingSize THEN r.n + 1 ELSE RingSize
         /\ Push(r, x).i = IF r.i + 1 = RingSize THEN 0 ELSE r.i + 1
         /\ Push(r, x).buf = [r.buf EXCEPT ![r.i] = x]
<1>1. /\ RingSize \in Nat \ {0} /\ r.n \in 0 .. RingSize /\ r.i \in 0 .. RingSize - 1
      /\ r.buf \in [Indices -> Stored]
  BY SignalsAssumption DEF Rings, Indices
<1>2. (r.i + 1) % RingSize = IF r.i + 1 = RingSize THEN 0 ELSE r.i + 1
  BY <1>1, Wraps
<1>3. [r.buf EXCEPT ![r.i] = x] \in [Indices -> Stored]
  BY <1>1 DEF Stored
<1>4. QED
  BY <1>1, <1>2, <1>3 DEF Push, Rings, Indices

LEMMA PushSlots ==
  ASSUME NEW r \in Rings, NEW x \in Items
  PROVE  LET p == Push(r, x)
         IN /\ Slot(p, p.n) = r.i
            /\ r.n < RingSize => \A j \in 1 .. r.n : Slot(p, j) = Slot(r, j) /\ Slot(r, j) # r.i
            /\ r.n = RingSize =>
                 \A j \in 1 .. RingSize - 1 :
                   Slot(p, j) = Slot(r, j + 1) /\ Slot(r, j + 1) # r.i
<1> DEFINE p == Push(r, x)
<1>1. /\ RingSize \in Nat \ {0} /\ r.n \in 0 .. RingSize /\ r.i \in 0 .. RingSize - 1
  BY SignalsAssumption DEF Rings, Indices
<1>2. /\ p.n = IF r.n < RingSize THEN r.n + 1 ELSE RingSize
      /\ p.i = IF r.i + 1 = RingSize THEN 0 ELSE r.i + 1
  BY PushTyped
<1> HIDE DEF p
<1>3. \A m \in Int : -RingSize <= m /\ m <= RingSize =>
        m % RingSize = IF m < 0 THEN m + RingSize ELSE IF m = RingSize THEN 0 ELSE m
  BY Wraps
<1>4. ASSUME NEW j \in 1 .. r.n
      PROVE  Slot(r, j) = IF r.i - r.n + j - 1 < 0 THEN r.i - r.n + j - 1 + RingSize
                          ELSE r.i - r.n + j - 1
  <2> DEFINE m == r.i - r.n + j - 1
  <2>1. m \in Int /\ -RingSize <= m /\ m <= RingSize /\ m # RingSize
    BY <1>1
  <2>2. Slot(r, j) = m % RingSize
    BY DEF Slot
  <2> HIDE DEF m
  <2>3. Slot(r, j) = IF m < 0 THEN m + RingSize ELSE m
    BY <1>3, <2>1, <2>2
  <2>4. QED
    BY <2>3 DEF m
<1>5. p.n \in 1 .. RingSize /\ p.i \in 0 .. RingSize - 1
  BY <1>1, <1>2
<1>6. ASSUME NEW j \in 1 .. p.n
      PROVE  Slot(p, j) = IF p.i - p.n + j - 1 < 0 THEN p.i - p.n + j - 1 + RingSize
                          ELSE p.i - p.n + j - 1
  <2> DEFINE m == p.i - p.n + j - 1
  <2>1. m \in Int /\ -RingSize <= m /\ m <= RingSize /\ m # RingSize
    BY <1>1, <1>5
  <2>2. Slot(p, j) = m % RingSize
    BY DEF Slot
  <2> HIDE DEF m
  <2>3. Slot(p, j) = IF m < 0 THEN m + RingSize ELSE m
    BY <1>3, <2>1, <2>2
  <2>4. QED
    BY <2>3 DEF m
<1>7. Slot(p, p.n) = r.i
  BY <1>1, <1>2, <1>5, <1>6
<1>8. ASSUME r.n < RingSize, NEW j \in 1 .. r.n
      PROVE  Slot(p, j) = Slot(r, j) /\ Slot(r, j) # r.i
  BY <1>1, <1>2, <1>4, <1>6, <1>8
<1>9. ASSUME r.n = RingSize, NEW j \in 1 .. RingSize - 1
      PROVE  Slot(p, j) = Slot(r, j + 1) /\ Slot(r, j + 1) # r.i
  BY <1>1, <1>2, <1>4, <1>6, <1>9
<1>10. QED
  BY <1>7, <1>8, <1>9 DEF p

(* A push on the ring is an addition to the window, for every size.         *)
LEMMA PushKeeps ==
  ASSUME NEW r \in Rings, NEW x \in Items
  PROVE  LET new == Append(Ordered(r), x)
         IN Ordered(Push(r, x)) =
              IF Len(new) > RingSize THEN SubSeq(new, Len(new) - RingSize + 1, Len(new))
              ELSE new
<1> DEFINE p == Push(r, x)
           s == Ordered(r)
           new == Append(s, x)
           o == Ordered(p)
<1>1. RingSize \in Nat \ {0} /\ r.n \in 0 .. RingSize
  BY SignalsAssumption DEF Rings
<1>2. /\ s \in Seq(Stored) /\ Len(s) = r.n /\ r.n \in Nat
      /\ \A j \in 1 .. r.n : Slot(r, j) \in Indices /\ s[j] = r.buf[Slot(r, j)]
  BY OrderedSeq
<1>3. /\ p \in Rings /\ p.n = IF r.n < RingSize THEN r.n + 1 ELSE RingSize
      /\ p.buf = [r.buf EXCEPT ![r.i] = x]
  BY PushTyped
<1>4. /\ Slot(p, p.n) = r.i
      /\ r.n < RingSize => \A j \in 1 .. r.n : Slot(p, j) = Slot(r, j) /\ Slot(r, j) # r.i
      /\ r.n = RingSize =>
           \A j \in 1 .. RingSize - 1 : Slot(p, j) = Slot(r, j + 1) /\ Slot(r, j + 1) # r.i
  BY PushSlots
<1> HIDE DEF p
<1>5. /\ o \in Seq(Stored) /\ Len(o) = p.n
      /\ \A j \in 1 .. p.n : o[j] = p.buf[Slot(p, j)]
  BY <1>3, OrderedSeq
<1>6. r.buf \in [Indices -> Stored] /\ r.i \in Indices /\ x \in Stored
  BY DEF Rings, Stored
<1>7. p.buf[r.i] = x /\ \A m \in Indices : m # r.i => p.buf[m] = r.buf[m]
  BY <1>3, <1>6
<1> HIDE DEF s, o
<1>8. /\ new \in Seq(Stored) /\ Len(new) = r.n + 1 /\ new[r.n + 1] = x
      /\ \A j \in 1 .. r.n : new[j] = s[j]
  BY <1>2, <1>6
<1> HIDE DEF new
<1>9. CASE r.n < RingSize
  <2>1. p.n = r.n + 1 /\ ~(Len(new) > RingSize)
    BY <1>1, <1>3, <1>8, <1>9
  <2>2. o[r.n + 1] = x
    BY <1>1, <1>4, <1>5, <1>7, <2>1
  <2>3. \A j \in 1 .. r.n : o[j] = new[j]
    <3>1. ASSUME NEW j \in 1 .. r.n PROVE o[j] = new[j]
      <4>1. j \in 1 .. p.n
        BY <1>2, <2>1
      <4>2. new[j] = r.buf[Slot(r, j)] /\ Slot(r, j) \in Indices
        BY <1>2, <1>8
      <4>3. Slot(p, j) = Slot(r, j) /\ Slot(r, j) # r.i
        BY <1>4, <1>9
      <4>4. QED
        BY <1>5, <1>7, <4>1, <4>2, <4>3
    <3>2. QED
      BY <3>1
  <2>4. o = new
    <3>1. \A j \in 1 .. r.n + 1 : o[j] = new[j]
      BY <1>1, <1>8, <2>2, <2>3
    <3>2. o \in Seq(Stored) /\ new \in Seq(Stored) /\ Len(o) = r.n + 1 /\ Len(new) = r.n + 1
      BY <1>5, <1>8, <2>1
    <3>3. QED
      BY <3>1, <3>2
  <2>5. QED
    BY <2>1, <2>4 DEF o, new, s, p
<1>10. CASE r.n = RingSize
  <2> DEFINE q == SubSeq(new, 2, RingSize + 1)
  <2>1. p.n = RingSize /\ Len(new) = RingSize + 1 /\ Len(new) > RingSize
    BY <1>1, <1>3, <1>8, <1>10
  <2>2. q \in Seq(Stored) /\ Len(q) = RingSize /\ \A j \in 1 .. RingSize : q[j] = new[j + 1]
    BY <1>1, <1>8, <2>1
  <2> HIDE DEF q
  <2>3. o[RingSize] = x /\ q[RingSize] = x
    BY <1>1, <1>4, <1>5, <1>7, <1>8, <1>10, <2>1, <2>2
  <2>4. ASSUME NEW j \in 1 .. RingSize - 1 PROVE o[j] = q[j]
    <3>1. j \in 1 .. p.n /\ j + 1 \in 1 .. r.n /\ j \in 1 .. RingSize
      BY <1>1, <1>10, <2>1
    <3>2. q[j] = new[j + 1] /\ new[j + 1] = s[j + 1] /\ s[j + 1] = r.buf[Slot(r, j + 1)]
      BY <1>2, <1>8, <2>2, <3>1
    <3>3. Slot(p, j) = Slot(r, j + 1) /\ Slot(r, j + 1) # r.i /\ Slot(r, j + 1) \in Indices
      BY <1>2, <1>4, <1>10, <3>1
    <3>4. QED
      BY <1>5, <1>7, <3>1, <3>2, <3>3
  <2>5. \A j \in 1 .. RingSize : o[j] = q[j]
    BY <1>1, <2>3, <2>4
  <2>6. o = q
    BY <1>5, <2>1, <2>2, <2>5
  <2>7. Len(new) - RingSize + 1 = 2
    BY <1>1, <2>1
  <2>8. QED
    BY <2>1, <2>6, <2>7 DEF o, q, new, s, p
<1>11. r.n < RingSize \/ r.n = RingSize
  BY <1>1
<1>12. QED
  BY <1>9, <1>10, <1>11

----------------------------------------------------------------------------
(* The registry.                                                           *)

RegInv ==
  /\ DOMAIN rings \subseteq Signals /\ IsFiniteSet(DOMAIN rings)
  /\ \A s \in DOMAIN rings : rings[s] \in Rings
  /\ fed \in Nat /\ drops \in Nat /\ clock \in Now0 .. MaxNow

Held == [s \in DOMAIN rings |-> Ordered(rings[s])]

LEMMA NewTyped == NewRing \in Rings /\ Ordered(NewRing) = <<>>
<1>1. RingSize \in Nat \ {0}
  BY SignalsAssumption
<1>2. NewRing.buf \in [Indices -> Stored] /\ 0 \in Indices /\ 0 \in 0 .. RingSize
  BY <1>1 DEF NewRing, Stored, Indices
<1>3. NewRing \in Rings
  BY <1>2 DEF NewRing, Rings
<1>4. Len(Ordered(NewRing)) = 0 /\ Ordered(NewRing) \in Seq(Stored)
  BY <1>3, OrderedSeq DEF NewRing
<1>5. QED
  BY <1>3, <1>4

\* A feed takes the sample into the window of its signal, or refuses it.
LEMMA FeedMaps ==
  ASSUME RegInv, NEW s \in Signals, Feed(s)
  PROVE  RegInv' /\ W!WNext
<1>1. /\ fed \in Nat /\ fed < MaxFeeds /\ fed' = fed + 1 /\ clock \in Now0 .. MaxNow
      /\ clock' = clock /\ MaxFeeds \in Nat /\ MaxSignals \in Nat
  BY SignalsAssumption DEF RegInv, Feed
<1> DEFINE x == [id |-> fed', mono |-> clock]
           r == RingOf(s)
<1>2. x \in Items
  BY <1>1 DEF Items
<1>3. /\ r \in Rings
      /\ Ordered(r) = IF s \in DOMAIN rings THEN Held[s] ELSE <<>>
  BY NewTyped DEF RegInv, RingOf, Held
<1>4. Cardinality(DOMAIN rings) \in Nat
  BY FS_CardinalityType DEF RegInv
<1>5. W!Cardinality(DOMAIN rings) = Cardinality(DOMAIN rings)
  BY DEF Cardinality, W!Cardinality
<1>6. CASE s \notin DOMAIN rings /\ Full
  <2>1. drops' = drops + 1 /\ rings' = rings
    BY <1>6 DEF Feed
  <2>2. ~W!Admitted(s)
    BY <1>1, <1>4, <1>6, <1>5 DEF Full, W!Admitted, W!Registered
  <2>3. W!Refuse(s)
    BY <2>1, <2>2 DEF W!Refuse
  <2>4. QED
    BY <1>1, <2>1, <2>3 DEF RegInv, W!WNext
<1>7. CASE ~(s \notin DOMAIN rings /\ Full)
  <2> DEFINE f == [q \in DOMAIN rings \cup {s} |-> IF q = s THEN Push(r, x) ELSE rings[q]]
  <2>1. rings' = f /\ drops' = drops
    BY <1>7 DEF Feed
  <2>2. Push(r, x) \in Rings
    BY <1>2, <1>3, PushTyped
  <2>3. W!Admitted(s)
    BY <1>1, <1>4, <1>7, <1>5 DEF Full, W!Admitted, W!Registered
  <2>4. Ordered(Push(r, x)) = W!Kept(s, x)
    <3>1. Ordered(r) = IF s \in W!Registered THEN Held[s] ELSE <<>>
      BY <1>3 DEF W!Registered
    <3>2. LET new == Append(Ordered(r), x)
          IN Ordered(Push(r, x)) =
               IF Len(new) > RingSize THEN SubSeq(new, Len(new) - RingSize + 1, Len(new))
               ELSE new
      BY <1>2, <1>3, PushKeeps
    <3> HIDE DEF x, r
    <3>3. QED
      BY <3>1, <3>2 DEF W!Kept, W!Latest, W!Registered, Held
  <2> HIDE DEF x, r
  <2>5. /\ DOMAIN rings' = DOMAIN rings \cup {s}
        /\ \A q \in DOMAIN rings' : rings'[q] = IF q = s THEN Push(r, x) ELSE rings[q]
    BY <2>1
  <2>6. [q \in DOMAIN rings' |-> Ordered(rings'[q])] =
          [q \in DOMAIN rings \cup {s} |-> IF q = s THEN W!Kept(s, x) ELSE Held[q]]
    BY <2>4, <2>5 DEF Held
  <2>7. W!Take(s, x)
    BY <2>1, <2>3, <2>6 DEF W!Take, W!Registered, Held
  <2>8. RegInv'
    BY <1>1, <2>1, <2>2, <2>5, FS_AddElement DEF RegInv
  <2>9. QED
    BY <1>2, <2>7, <2>8 DEF W!WNext, Items
<1>8. QED
  BY <1>6, <1>7

LEMMA StepMaps ==
  ASSUME RegInv, [SigNext]_svars
  PROVE  RegInv' /\ (W!WNext \/ UNCHANGED <<Held, drops>>)
<1>1. CASE \E s \in Signals : Feed(s)
  BY <1>1, FeedMaps
<1>2. CASE Reborn
  <2>1. DOMAIN rings' = {} /\ drops' = 0 /\ UNCHANGED <<clock, fed>>
    BY <1>2 DEF Reborn
  <2>2. RegInv'
    BY <2>1, FS_EmptySet DEF RegInv
  <2>3. W!Forget
    BY <2>1 DEF W!Forget
  <2>4. QED
    BY <2>2, <2>3 DEF W!WNext
<1>3. CASE ClockMoves
  <2>1. UNCHANGED <<rings, drops, fed>> /\ clock' \in Now0 .. MaxNow
    BY <1>3, SignalsAssumption DEF ClockMoves, RegInv
  <2>2. QED
    BY <2>1 DEF RegInv, Held
<1>4. CASE Warn \/ UNCHANGED svars
  BY <1>4 DEF Warn, svars, RegInv, Held
<1>5. QED
  BY <1>1, <1>2, <1>3, <1>4 DEF SigNext

(* The rings implement the window for every size, cap and number of         *)
(* samples: the newest RingSize samples of each registered signal, in       *)
(* order, and one count for every sample refused (signals.py, Ring and      *)
(* feed).                                                                   *)
THEOREM RingsAreWindows == SigSpec => RingIsWindow
<1>1. SigInit => RegInv /\ W!WInit
  BY SignalsAssumption, FS_EmptySet DEF SigInit, RegInv, W!WInit
<1>2. RegInv /\ [SigNext]_svars => RegInv' /\ [W!WNext]_<<Held, drops>>
  BY StepMaps
<1>3. QED
  BY <1>1, <1>2, PTL DEF SigSpec, RingIsWindow, W!WSpec, Held

----------------------------------------------------------------------------
(* Types.                                                                  *)

Counted ==
  /\ \A s \in DOMAIN rings : rings[s].n >= 1
  /\ drops <= fed /\ fed <= MaxFeeds
  /\ warned \in {Never} \cup Now0 .. MaxNow

LEMMA FeedCounts ==
  ASSUME RegInv, Counted, NEW s \in Signals, Feed(s) PROVE Counted'
<1>1. /\ fed \in Nat /\ drops \in Nat /\ fed' = fed + 1 /\ fed < MaxFeeds /\ MaxFeeds \in Nat
      /\ warned' = warned
  BY SignalsAssumption DEF RegInv, Feed
<1>2. drops' <= fed' /\ fed' <= MaxFeeds
  BY <1>1 DEF Feed, Counted
<1>3. \A q \in DOMAIN rings' : rings'[q].n >= 1
  <2>1. CASE s \notin DOMAIN rings /\ Full
    BY <2>1 DEF Feed, Counted
  <2>2. CASE ~ (s \notin DOMAIN rings /\ Full)
    <3> DEFINE x == [id |-> fed', mono |-> clock]
    <3>1. rings' = [q \in DOMAIN rings \cup {s} |->
                      IF q = s THEN Push(RingOf(s), x) ELSE rings[q]]
      BY <2>2 DEF Feed
    <3>2. RingOf(s) \in Rings
      BY NewTyped DEF RegInv, RingOf
    <3>3. RingOf(s).n \in 0 .. RingSize /\ RingSize \in Nat \ {0}
      BY <3>2, SignalsAssumption DEF Rings
    <3>4. Push(RingOf(s), x).n >= 1
      BY <3>3 DEF Push
    <3> HIDE DEF x
    <3>5. QED
      BY <3>1, <3>4 DEF Counted
  <2>3. QED
    BY <2>1, <2>2
<1>4. QED
  BY <1>1, <1>2, <1>3 DEF Counted

LEMMA StepCounts ==
  ASSUME RegInv, Counted, [SigNext]_svars PROVE RegInv' /\ Counted'
<1>1. RegInv'
  BY StepMaps
<1>2. CASE \E s \in Signals : Feed(s)
  BY <1>1, <1>2, FeedCounts
<1>3. CASE Reborn
  <2>1. DOMAIN rings' = {} /\ drops' = 0 /\ warned' = Never /\ fed' = fed /\ fed \in Nat
    BY <1>3 DEF Reborn, RegInv
  <2>2. QED
    BY <1>1, <2>1 DEF Counted
<1>4. CASE Warn
  BY <1>1, <1>4 DEF Warn, Counted, RegInv
<1>5. CASE ClockMoves \/ UNCHANGED svars
  BY <1>1, <1>5 DEF ClockMoves, svars, Counted
<1>6. QED
  BY <1>2, <1>3, <1>4, <1>5 DEF SigNext

(* Every variable keeps its type: no ring's write position or count leaves  *)
(* its arrays (signals.py, Ring and feed; heartbeat.py's warning).          *)
THEOREM SignalsTypeCorrect == SigSpec => []SigTypeOK
<1>1. SigInit => RegInv /\ Counted
  BY SignalsAssumption, FS_EmptySet DEF SigInit, RegInv, Counted
<1>2. RegInv /\ Counted /\ [SigNext]_svars => RegInv' /\ Counted'
  BY StepCounts
<1>3. RegInv /\ Counted => SigTypeOK
  <2> SUFFICES ASSUME RegInv, Counted PROVE SigTypeOK
    OBVIOUS
  <2>1. \A s \in DOMAIN rings : rings[s].i \in Indices /\ rings[s].n \in 1 .. RingSize
    BY SignalsAssumption DEF RegInv, Rings, Counted
  <2>2. drops \in 0 .. MaxFeeds
    BY SignalsAssumption DEF RegInv, Counted
  <2>3. QED
    BY <2>1, <2>2 DEF SigTypeOK, RegInv, Counted
<1>4. QED
  BY <1>1, <1>2, <1>3, PTL DEF SigSpec

----------------------------------------------------------------------------
(* What is read back.                                                      *)

Taken(f, a, b) == {f[i] : i \in a .. b}
Apart(f, a, b) == \A i, j \in a .. b : f[i] = f[j] => i = j
Rises(f, n) == \A i \in 1 .. n : f[i] \in Nat /\ \A j \in 1 .. n : i < j => f[i] < f[j]

LEMMA TakenSize ==
  ASSUME NEW a \in Int, NEW b \in Int, NEW f, Apart(f, a, b)
  PROVE  Cardinality(Taken(f, a, b)) = IF a > b THEN 0 ELSE b - a + 1
<1> DEFINE T == Taken(f, a, b)
           g == [i \in a .. b |-> f[i]]
<1>1. IsFiniteSet(a .. b) /\ Cardinality(a .. b) = IF a > b THEN 0 ELSE b - a + 1
  BY FS_Interval
<1>2. g \in Surjection(a .. b, T) /\ g \in Injection(a .. b, T)
  BY DEF Surjection, Injection, IsInjective, Taken, Apart
<1> HIDE DEF g, T
<1>3. Cardinality(T) = Cardinality(a .. b)
  BY <1>1, <1>2, FS_Surjection
<1>4. QED
  BY <1>1, <1>3 DEF T

LEMMA LeastOfTwo ==
  ASSUME NEW k \in Nat, NEW n \in Nat
  PROVE  Min({k, n}) = IF k < n THEN k ELSE n
<1> DEFINE m == IF k < n THEN k ELSE n
<1>1. m \in {k, n} /\ \A y \in {k, n} : m <= y
  OBVIOUS
<1>2. \A x \in {k, n} : (\A y \in {k, n} : x <= y) => x = m
  OBVIOUS
<1> HIDE DEF m
<1>3. Min({k, n}) = m
  BY <1>1, <1>2 DEF Min
<1>4. QED
  BY <1>3 DEF m

\* The k greatest and the k least of a strictly increasing list.
LEMMA Extremes ==
  ASSUME NEW n \in Nat, NEW f, NEW k \in Nat, Rises(f, n)
  PROVE  /\ Newest(Taken(f, 1, n), k) = Taken(f, n - Min({k, n}) + 1, n)
         /\ Oldest(Taken(f, 1, n), k) = Taken(f, 1, Min({k, n}))
<1> DEFINE S == Taken(f, 1, n)
           m == Min({k, n})
<1>1. m = IF k < n THEN k ELSE n
  BY LeastOfTwo
<1> HIDE DEF m
<1>0. /\ \A i \in 1 .. n : f[i] \in Nat
      /\ \A i, j \in 1 .. n : i < j => f[i] < f[j]
  BY DEF Rises
<1>2. \A i, j \in 1 .. n : f[i] < f[j] <=> i < j
  <2>1. ASSUME NEW i \in 1 .. n, NEW j \in 1 .. n PROVE f[i] < f[j] <=> i < j
    <3>1. i < j \/ j < i \/ i = j
      OBVIOUS
    <3>2. f[i] \in Nat /\ f[j] \in Nat
      BY <1>0
    <3>3. CASE i < j
      BY <1>0, <3>3
    <3>4. CASE j < i
      <4>1. f[j] < f[i]
        BY <1>0, <3>4
      <4>2. ~(f[i] < f[j]) /\ ~(i < j)
        BY <3>2, <3>4, <4>1
      <4>3. QED
        BY <4>2
    <3>5. CASE i = j
      BY <3>2, <3>5
    <3>6. QED
      BY <3>1, <3>3, <3>4, <3>5
  <2>2. QED
    BY <2>1
<1>3. \A i, j \in 1 .. n : f[i] = f[j] => i = j
  <2>1. ASSUME NEW i \in 1 .. n, NEW j \in 1 .. n, f[i] = f[j] PROVE i = j
    <3>1. ~(f[i] < f[j]) /\ ~(f[j] < f[i])
      BY <1>0, <2>1
    <3>2. ~(i < j) /\ ~(j < i)
      BY <1>2, <3>1
    <3>3. QED
      BY <3>2
  <2>2. QED
    BY <2>1
<1>4. ASSUME NEW j \in 1 .. n
      PROVE  /\ Cardinality({y \in S : y > f[j]}) = n - j
             /\ Cardinality({y \in S : y < f[j]}) = j - 1
  <2>1. {y \in S : y > f[j]} = Taken(f, j + 1, n)
    <3>1. \A i \in 1 .. n : f[i] > f[j] <=> i \in (j + 1) .. n
      <4>1. ASSUME NEW i \in 1 .. n PROVE f[i] > f[j] <=> i \in (j + 1) .. n
        <5>1. f[j] < f[i] <=> j < i
          BY <1>2
        <5>2. f[i] \in Nat /\ f[j] \in Nat
          BY <1>0
        <5>3. QED
          BY <5>1, <5>2
      <4>2. QED
        BY <4>1
    <3>2. (j + 1) .. n \subseteq 1 .. n
      OBVIOUS
    <3>3. QED
      BY <3>1, <3>2 DEF Taken
  <2>2. {y \in S : y < f[j]} = Taken(f, 1, j - 1)
    <3>1. \A i \in 1 .. n : f[i] < f[j] <=> i \in 1 .. (j - 1)
      <4>1. ASSUME NEW i \in 1 .. n PROVE f[i] < f[j] <=> i \in 1 .. (j - 1)
        <5>1. f[i] < f[j] <=> i < j
          BY <1>2
        <5>2. QED
          BY <5>1
      <4>2. QED
        BY <4>1
    <3>2. 1 .. (j - 1) \subseteq 1 .. n
      OBVIOUS
    <3>3. QED
      BY <3>1, <3>2 DEF Taken
  <2>3. Cardinality(Taken(f, j + 1, n)) = IF j + 1 > n THEN 0 ELSE n - (j + 1) + 1
    <3> DEFINE a == j + 1
    <3>1. a .. n \subseteq 1 .. n /\ a \in Int /\ n \in Int
      OBVIOUS
    <3> HIDE DEF a
    <3>2. Apart(f, a, n)
      BY <1>3, <3>1 DEF Apart
    <3>3. Cardinality(Taken(f, a, n)) = IF a > n THEN 0 ELSE n - a + 1
      BY <3>1, <3>2, TakenSize
    <3>4. QED
      BY <3>3 DEF a
  <2>4. Cardinality(Taken(f, 1, j - 1)) = IF 1 > j - 1 THEN 0 ELSE (j - 1) - 1 + 1
    <3> DEFINE b == j - 1
    <3>1. 1 .. b \subseteq 1 .. n /\ b \in Int /\ 1 \in Int
      OBVIOUS
    <3> HIDE DEF b
    <3>2. Apart(f, 1, b)
      BY <1>3, <3>1 DEF Apart
    <3>3. Cardinality(Taken(f, 1, b)) = IF 1 > b THEN 0 ELSE b - 1 + 1
      BY <3>1, <3>2, TakenSize
    <3>4. QED
      BY <3>3 DEF b
  <2>5. (IF j + 1 > n THEN 0 ELSE n - (j + 1) + 1) = n - j
        /\ (IF 1 > j - 1 THEN 0 ELSE (j - 1) - 1 + 1) = j - 1
    OBVIOUS
  <2>6. QED
    BY <2>1, <2>2, <2>3, <2>4, <2>5
<1>5. Newest(S, k) = Taken(f, n - m + 1, n)
  <2>1. \A j \in 1 .. n : n - j < k <=> j \in (n - m + 1) .. n
    BY <1>1
  <2>2. (n - m + 1) .. n \subseteq 1 .. n
    BY <1>1
  <2>3. \A j \in 1 .. n : Cardinality({y \in S : y > f[j]}) < k <=> j \in (n - m + 1) .. n
    BY <1>4, <2>1
  <2>4. QED
    BY <2>2, <2>3 DEF Newest, Taken
<1>6. Oldest(S, k) = Taken(f, 1, m)
  <2>1. \A j \in 1 .. n : j - 1 < k <=> j \in 1 .. m
    BY <1>1
  <2>2. 1 .. m \subseteq 1 .. n
    BY <1>1
  <2>3. \A j \in 1 .. n : Cardinality({y \in S : y < f[j]}) < k <=> j \in 1 .. m
    BY <1>4, <2>1
  <2>4. QED
    BY <2>2, <2>3 DEF Oldest, Taken
<1>7. QED
  BY <1>5, <1>6 DEF m

\* A list of samples in the order they were taken.
Rising(q) == \A i, j \in 1 .. Len(q) : i < j => q[i].id < q[j].id
Samples == [id : Nat, mono : Int]

LEMMA Segment ==
  ASSUME NEW q \in Seq(Samples), NEW b \in 0 .. Len(q), NEW a \in 1 .. (b + 1)
  PROVE  /\ SubSeq(q, a, b) \in Seq(Samples) /\ Len(SubSeq(q, a, b)) = b - a + 1
         /\ \A j \in 1 .. (b - a + 1) : SubSeq(q, a, b)[j] = q[a + j - 1]
<1>1. Len(q) \in Nat /\ \A i \in a .. b : q[i] \in Samples
  OBVIOUS
<1>2. SubSeq(q, a, b) \in Seq(Samples)
  BY <1>1
<1>3. Len(SubSeq(q, a, b)) = b - a + 1
  BY <1>1
<1>4. QED
  BY <1>1, <1>2, <1>3

LEMMA CutEnds ==
  ASSUME NEW q \in Seq(Samples), Rising(q), NEW k \in Nat
  PROVE  /\ LastOf(q, k) \in Seq(Samples) /\ Rising(LastOf(q, k))
         /\ FirstOf(q, k) \in Seq(Samples) /\ Rising(FirstOf(q, k))
         /\ Ids(LastOf(q, k)) = Newest(Ids(q), k)
         /\ Ids(FirstOf(q, k)) = Oldest(Ids(q), k)
<1> DEFINE n == Len(q)
           m == Min({k, n})
           f == [j \in 1 .. n |-> q[j].id]
           last == LastOf(q, k)
           first == FirstOf(q, k)
<1>1. n \in Nat /\ DOMAIN q = 1 .. n /\ \A j \in 1 .. n : q[j] \in Samples
  OBVIOUS
<1>2. m = (IF k < n THEN k ELSE n) /\ m \in 0 .. n
  <2>1. m = IF k < n THEN k ELSE n
    BY <1>1, LeastOfTwo
  <2> HIDE DEF m, n
  <2>2. m \in 0 .. n
    BY <1>1, <2>1
  <2>3. QED
    BY <2>1, <2>2
<1>3. last = SubSeq(q, n - m + 1, n) /\ first = SubSeq(q, 1, m)
  BY DEF LastOf, FirstOf
<1> HIDE DEF m, n, last, first
<1>4. /\ last \in Seq(Samples) /\ Len(last) = m
      /\ \A j \in 1 .. m : last[j] = q[n - m + j]
  <2> DEFINE a == n - m + 1
  <2>1. a \in 1 .. (n + 1) /\ n \in 0 .. n /\ n - a + 1 = m
    BY <1>1, <1>2
  <2>2. \A j \in 1 .. m : a + j - 1 = n - m + j
    BY <1>1, <1>2
  <2>3. last = SubSeq(q, a, n)
    BY <1>3
  <2> HIDE DEF a
  <2>4. last \in Seq(Samples) /\ Len(last) = m /\ \A j \in 1 .. m : last[j] = q[a + j - 1]
    BY <1>1, <2>1, <2>3, Segment DEF n
  <2>5. QED
    BY <2>2, <2>4
<1>5. /\ first \in Seq(Samples) /\ Len(first) = m
      /\ \A j \in 1 .. m : first[j] = q[j]
  <2>1. 1 \in 1 .. (m + 1) /\ m \in 0 .. n /\ m - 1 + 1 = m /\ \A j \in 1 .. m : 1 + j - 1 = j
    BY <1>1, <1>2
  <2>2. /\ first \in Seq(Samples) /\ Len(first) = m - 1 + 1
        /\ \A j \in 1 .. (m - 1 + 1) : first[j] = q[1 + j - 1]
    BY <1>1, <1>3, <2>1, Segment DEF n
  <2>3. QED
    BY <2>1, <2>2
<1>6. /\ \A i \in 1 .. n : f[i] \in Nat
      /\ \A i, j \in 1 .. n : i < j => f[i] < f[j]
      /\ \A i \in 1 .. n : f[i] = q[i].id
  BY <1>1 DEF Rising, Samples, n
<1>7. Ids(q) = Taken(f, 1, n)
  BY <1>1 DEF Ids, Taken
<1> HIDE DEF f
<1>8. /\ Newest(Ids(q), k) = Taken(f, n - m + 1, n)
      /\ Oldest(Ids(q), k) = Taken(f, 1, m)
  <2>1. m = Min({k, n})
    BY DEF m
  <2>2. Rises(f, n)
    BY <1>6 DEF Rises
  <2>3. n \in Nat
    BY <1>1
  <2>4. /\ Newest(Taken(f, 1, n), k) = Taken(f, n - m + 1, n)
        /\ Oldest(Taken(f, 1, n), k) = Taken(f, 1, m)
    <3>1. /\ Newest(Taken(f, 1, n), k) = Taken(f, n - Min({k, n}) + 1, n)
          /\ Oldest(Taken(f, 1, n), k) = Taken(f, 1, Min({k, n}))
      BY <2>2, <2>3, Extremes
    <3>2. QED
      BY <2>1, <3>1
  <2>5. QED
    BY <1>7, <2>4
<1>9. Ids(last) = Taken(f, n - m + 1, n) /\ Rising(last)
  <2>1. \A j \in 1 .. m : n - m + j \in (n - m + 1) .. n /\ n - m + j \in 1 .. n
    BY <1>1, <1>2
  <2>2. \A i \in (n - m + 1) .. n : i - (n - m) \in 1 .. m /\ n - m + (i - (n - m)) = i
    BY <1>1, <1>2
  <2>3. \A j \in 1 .. m : last[j].id = f[n - m + j]
    BY <1>4, <1>6, <2>1
  <2>4. Ids(last) = {last[j].id : j \in 1 .. m}
    <3>1. DOMAIN last = 1 .. m
      BY <1>4
    <3>2. QED
      BY <3>1 DEF Ids
  <2>5. {last[j].id : j \in 1 .. m} = Taken(f, n - m + 1, n)
    BY <2>1, <2>2, <2>3 DEF Taken
  <2>6. ASSUME NEW i \in 1 .. m, NEW j \in 1 .. m, i < j PROVE last[i].id < last[j].id
    <3>1. n - m + i < n - m + j
      BY <1>1, <1>2, <2>6
    <3>2. QED
      BY <1>6, <2>1, <2>3, <3>1
  <2>7. QED
    BY <1>4, <2>4, <2>5, <2>6 DEF Rising
<1>10. Ids(first) = Taken(f, 1, m) /\ Rising(first)
  <2>1. \A j \in 1 .. m : j \in 1 .. n /\ first[j].id = f[j]
    BY <1>1, <1>2, <1>5, <1>6
  <2>2. Ids(first) = {first[j].id : j \in 1 .. m}
    <3>1. DOMAIN first = 1 .. m
      BY <1>5
    <3>2. QED
      BY <3>1 DEF Ids
  <2>3. {first[j].id : j \in 1 .. m} = Taken(f, 1, m)
    BY <2>1 DEF Taken
  <2>4. Rising(first)
    BY <1>5, <1>6, <2>1 DEF Rising
  <2>5. QED
    BY <2>2, <2>3, <2>4
<1>11. QED
  BY <1>4, <1>5, <1>8, <1>9, <1>10 DEF last, first

\* The samples at consecutive positions are those positions, shifted.
Shifted(s, a, b) == [j \in 1 .. (b - a) |-> s[a + j]]

LEMMA PickedRange ==
  ASSUME NEW s, NEW a \in Nat, NEW b \in Nat, a <= b, NEW P, P = (a + 1) .. b
  PROVE  Picked(s, P) = Shifted(s, a, b)
<1>1. Cardinality(P) = b - a
  <2>1. a + 1 \in Int /\ b \in Int /\ (IF a + 1 > b THEN 0 ELSE b - (a + 1) + 1) = b - a
    OBVIOUS
  <2>2. Cardinality((a + 1) .. b) = IF a + 1 > b THEN 0 ELSE b - (a + 1) + 1
    BY <2>1, FS_Interval
  <2>3. QED
    BY <2>1, <2>2
<1>2. ASSUME NEW i \in P PROVE Cardinality({h \in P : h < i}) = i - a - 1
  <2>1. {h \in P : h < i} = (a + 1) .. (i - 1)
    OBVIOUS
  <2>2. a + 1 \in Int /\ i - 1 \in Int
    OBVIOUS
  <2>3. Cardinality((a + 1) .. (i - 1)) = IF a + 1 > i - 1 THEN 0 ELSE (i - 1) - (a + 1) + 1
    BY <2>2, FS_Interval
  <2>4. (IF a + 1 > i - 1 THEN 0 ELSE (i - 1) - (a + 1) + 1) = i - a - 1
    OBVIOUS
  <2>5. QED
    BY <2>1, <2>3, <2>4
<1>3. ASSUME NEW j \in 1 .. (b - a) PROVE Nth(P, j) = a + j
  <2>1. a + j \in P /\ (a + j) - a - 1 = j - 1
    OBVIOUS
  <2>2. Cardinality({h \in P : h < a + j}) = j - 1
    BY <1>2, <2>1
  <2>3. \A i \in P : i - a - 1 = j - 1 => i = a + j
    OBVIOUS
  <2>4. \A i \in P : Cardinality({h \in P : h < i}) = j - 1 => i = a + j
    BY <1>2, <2>3
  <2>5. QED
    BY <2>1, <2>2, <2>4 DEF Nth
<1>4. Picked(s, P) = [j \in 1 .. Cardinality(P) |-> s[Nth(P, j)]]
  BY DEF Picked
<1>5. QED
  BY <1>1, <1>3, <1>4 DEF Shifted

----------------------------------------------------------------------------
\* A ring holds samples in the order they were taken, and nothing else.
Sorted(q) == \A i, j \in 1 .. Len(q) : i < j => q[i].id < q[j].id /\ q[i].mono <= q[j].mono
Filled(r) == r.n < RingSize => r.i = r.n /\ \A x \in Indices : x >= r.n => r.buf[x] = Blank
UpTo(q, id, mono) == \A j \in 1 .. Len(q) : q[j].id <= id /\ q[j].mono <= mono

Orderly(r) ==
  /\ r \in Rings /\ Filled(r) /\ Ordered(r) \in Seq(Items) /\ Sorted(Ordered(r))

InOrder ==
  \A s \in DOMAIN rings : Orderly(rings[s]) /\ UpTo(Ordered(rings[s]), fed, clock)

LEMMA NewOrderly ==
  Orderly(NewRing) /\ Ordered(NewRing) = <<>>
<1>1. NewRing \in Rings /\ Ordered(NewRing) = <<>>
  BY NewTyped
<1>2. Filled(NewRing)
  BY DEF Filled, NewRing
<1>3. <<>> \in Seq(Items) /\ Sorted(<<>>)
  BY DEF Sorted
<1>4. QED
  BY <1>1, <1>2, <1>3 DEF Orderly

LEMMA ItemsAre == ASSUME NEW x \in Items PROVE x.id \in Nat /\ x.id >= 1 /\ x.mono \in Nat /\ x \in Samples
  BY SignalsAssumption DEF Items, Samples

LEMMA AppendSorted ==
  ASSUME NEW q \in Seq(Items), Sorted(q), NEW x \in Items,
         \A j \in 1 .. Len(q) : q[j].id < x.id /\ q[j].mono <= x.mono
  PROVE  Append(q, x) \in Seq(Items) /\ Sorted(Append(q, x)) /\ UpTo(Append(q, x), x.id, x.mono)
<1> DEFINE n == Len(q)
           p == Append(q, x)
<1>1. /\ p \in Seq(Items) /\ Len(p) = n + 1 /\ n \in Nat /\ p[n + 1] = x
      /\ \A j \in 1 .. n : p[j] = q[j] /\ q[j] \in Items
  OBVIOUS
<1>2. /\ \A i, j \in 1 .. n : i < j => q[i].id < q[j].id /\ q[i].mono <= q[j].mono
      /\ \A j \in 1 .. n : q[j].id < x.id /\ q[j].mono <= x.mono
  BY DEF Sorted
<1> HIDE DEF n, p
<1>3. ASSUME NEW i \in 1 .. n + 1, NEW j \in 1 .. n + 1, i < j
      PROVE  p[i].id < p[j].id /\ p[i].mono <= p[j].mono
  <2>1. i \in 1 .. n /\ p[i] = q[i]
    BY <1>1, <1>3
  <2>2. CASE j = n + 1
    BY <1>1, <1>2, <2>1, <2>2
  <2>3. CASE j \in 1 .. n
    BY <1>1, <1>2, <1>3, <2>1, <2>3
  <2>4. QED
    BY <1>1, <2>2, <2>3
<1>4. ASSUME NEW j \in 1 .. n + 1 PROVE p[j].id <= x.id /\ p[j].mono <= x.mono
  <2>1. x.id \in Nat /\ x.mono \in Nat /\ p[j].id \in Nat /\ p[j] \in Items
    <3>1. p[j] \in Items
      BY <1>1
    <3>2. QED
      BY <3>1, ItemsAre
  <2>2. CASE j = n + 1
    BY <1>1, <2>1, <2>2
  <2>3. CASE j \in 1 .. n
    BY <1>1, <1>2, <2>1, <2>3
  <2>4. QED
    BY <1>1, <2>2, <2>3
<1>5. QED
  BY <1>1, <1>3, <1>4 DEF Sorted, UpTo, p

LEMMA TailSorted ==
  ASSUME NEW q \in Seq(Items), Sorted(q), NEW id, NEW mono, UpTo(q, id, mono),
         Len(q) = RingSize + 1
  PROVE  /\ SubSeq(q, 2, RingSize + 1) \in Seq(Items) /\ Sorted(SubSeq(q, 2, RingSize + 1))
         /\ UpTo(SubSeq(q, 2, RingSize + 1), id, mono)
<1> DEFINE t == SubSeq(q, 2, RingSize + 1)
<1>1. RingSize \in Nat \ {0}
  BY SignalsAssumption
<1>2. t \in Seq(Items) /\ Len(t) = RingSize /\ \A j \in 1 .. RingSize : t[j] = q[j + 1]
  BY <1>1
<1> HIDE DEF t
<1>3. ASSUME NEW i \in 1 .. RingSize, NEW j \in 1 .. RingSize, i < j
      PROVE  t[i].id < t[j].id /\ t[i].mono <= t[j].mono
  <2>1. i + 1 \in 1 .. Len(q) /\ j + 1 \in 1 .. Len(q) /\ i + 1 < j + 1
    BY <1>1, <1>3
  <2>2. q[i + 1].id < q[j + 1].id /\ q[i + 1].mono <= q[j + 1].mono
    BY <2>1 DEF Sorted
  <2>3. QED
    BY <1>2, <2>2
<1>4. ASSUME NEW j \in 1 .. RingSize PROVE t[j].id <= id /\ t[j].mono <= mono
  <2>1. j + 1 \in 1 .. Len(q)
    BY <1>1
  <2>2. q[j + 1].id <= id /\ q[j + 1].mono <= mono
    BY <2>1 DEF UpTo
  <2>3. QED
    BY <1>2, <2>2
<1>5. QED
  BY <1>2, <1>3, <1>4 DEF Sorted, UpTo, t

LEMMA PushOrderly ==
  ASSUME NEW r, Orderly(r), NEW x \in Items,
         \A j \in 1 .. Len(Ordered(r)) : Ordered(r)[j].id < x.id /\ Ordered(r)[j].mono <= x.mono
  PROVE  Orderly(Push(r, x)) /\ UpTo(Ordered(Push(r, x)), x.id, x.mono)
<1> DEFINE p == Push(r, x)
           new == Append(Ordered(r), x)
<1>1. r \in Rings /\ Filled(r) /\ Ordered(r) \in Seq(Items) /\ Sorted(Ordered(r))
  BY DEF Orderly
<1>2. /\ p \in Rings /\ p.n = IF r.n < RingSize THEN r.n + 1 ELSE RingSize
      /\ p.i = IF r.i + 1 = RingSize THEN 0 ELSE r.i + 1
      /\ p.buf = [r.buf EXCEPT ![r.i] = x]
  BY <1>1, PushTyped
<1>3. Filled(p)
  <2>1. /\ RingSize \in Nat \ {0} /\ r.n \in 0 .. RingSize /\ r.i \in Indices
        /\ r.buf \in [Indices -> Stored]
    BY <1>1, SignalsAssumption DEF Rings
  <2> SUFFICES ASSUME p.n < RingSize
               PROVE  p.i = p.n /\ \A y \in Indices : y >= p.n => p.buf[y] = Blank
    BY DEF Filled
  <2>2. r.n < RingSize /\ p.n = r.n + 1 /\ r.n + 1 < RingSize
    BY <1>2, <2>1
  <2>3. r.i = r.n /\ \A y \in Indices : y >= r.n => r.buf[y] = Blank
    BY <1>1, <2>2 DEF Filled
  <2>4. p.i = p.n
    BY <1>2, <2>1, <2>2, <2>3
  <2>5. ASSUME NEW y \in Indices, y >= r.n + 1 PROVE p.buf[y] = Blank
    <3>1. y # r.i /\ y >= r.n
      BY <2>1, <2>3, <2>5 DEF Indices
    <3>2. QED
      BY <1>2, <2>1, <2>3, <3>1
  <2> HIDE DEF p
  <2>6. QED
    BY <2>2, <2>4, <2>5
<1>4. new \in Seq(Items) /\ Sorted(new) /\ UpTo(new, x.id, x.mono)
  BY <1>1, AppendSorted
<1>5. /\ Len(new) = r.n + 1 /\ r.n \in 0 .. RingSize /\ RingSize \in Nat \ {0}
      /\ Ordered(p) = IF Len(new) > RingSize THEN SubSeq(new, Len(new) - RingSize + 1, Len(new))
                      ELSE new
  <2>1. Len(Ordered(r)) = r.n
    BY <1>1, OrderedSeq
  <2>2. r.n \in 0 .. RingSize /\ RingSize \in Nat \ {0}
    BY <1>1, SignalsAssumption DEF Rings
  <2>3. Len(new) = r.n + 1
    BY <1>1, <2>1
  <2>4. QED
    BY <1>1, <2>2, <2>3, PushKeeps
<1> HIDE DEF p, new
<1>6. Ordered(p) \in Seq(Items) /\ Sorted(Ordered(p)) /\ UpTo(Ordered(p), x.id, x.mono)
  <2>1. CASE r.n < RingSize
    <3>1. ~(Len(new) > RingSize)
      BY <1>5, <2>1
    <3>2. QED
      BY <1>4, <1>5, <3>1
  <2>2. CASE r.n = RingSize
    <3>1. Len(new) = RingSize + 1 /\ Len(new) > RingSize /\ Len(new) - RingSize + 1 = 2
      BY <1>5, <2>2
    <3>2. Ordered(p) = SubSeq(new, 2, RingSize + 1)
      BY <1>5, <3>1
    <3>3. QED
      BY <1>4, <3>1, <3>2, TailSorted
  <2>3. QED
    BY <1>5, <2>1, <2>2
<1>7. QED
  BY <1>2, <1>3, <1>6 DEF Orderly, p

LEMMA FeedOrders ==
  ASSUME RegInv, InOrder, NEW s \in Signals, Feed(s) PROVE InOrder'
<1>1. /\ fed \in Nat /\ fed' = fed + 1 /\ fed < MaxFeeds /\ MaxFeeds \in Nat
      /\ clock' = clock /\ clock \in Now0 .. MaxNow
  BY SignalsAssumption DEF RegInv, Feed
<1> DEFINE x == [id |-> fed', mono |-> clock]
           r == RingOf(s)
<1>2. x \in Items /\ x.id = fed + 1 /\ x.mono = clock
  BY <1>1 DEF Items
<1>3. Orderly(r) /\ UpTo(Ordered(r), fed, clock)
  <2>1. CASE s \in DOMAIN rings
    BY <2>1 DEF InOrder, RingOf
  <2>2. CASE s \notin DOMAIN rings
    <3>1. r = NewRing
      BY <2>2 DEF RingOf
    <3>2. UpTo(<<>>, fed, clock)
      BY DEF UpTo
    <3>3. QED
      BY <3>1, <3>2, NewOrderly
  <2>3. QED
    BY <2>1, <2>2
<1>4. ASSUME NEW q \in DOMAIN rings
      PROVE  Orderly(rings[q]) /\ UpTo(Ordered(rings[q]), fed', clock')
  <2>1. Orderly(rings[q]) /\ UpTo(Ordered(rings[q]), fed, clock)
    BY DEF InOrder
  <2> DEFINE o == Ordered(rings[q])
  <2>2. o \in Seq(Items)
    BY <2>1 DEF Orderly
  <2> HIDE DEF o
  <2>3. UpTo(o, fed, clock)
    BY <2>1 DEF o
  <2>4. ASSUME NEW j \in 1 .. Len(o) PROVE o[j].id <= fed + 1 /\ o[j].mono <= clock
    <3>1. o[j] \in Items
      BY <2>2
    <3>2. o[j].id \in Nat
      BY <3>1, ItemsAre
    <3>3. QED
      BY <1>1, <2>3, <3>2 DEF UpTo
  <2>5. QED
    BY <1>1, <2>1, <2>4 DEF UpTo, o
<1>5. CASE s \notin DOMAIN rings /\ Full
  <2>1. rings' = rings
    BY <1>5 DEF Feed
  <2>2. QED
    BY <1>4, <2>1 DEF InOrder
<1>6. CASE ~(s \notin DOMAIN rings /\ Full)
  <2>1. rings' = [q \in DOMAIN rings \cup {s} |-> IF q = s THEN Push(r, x) ELSE rings[q]]
    BY <1>6 DEF Feed
  <2>2. \A j \in 1 .. Len(Ordered(r)) :
          Ordered(r)[j].id < x.id /\ Ordered(r)[j].mono <= x.mono
    <3> DEFINE o == Ordered(r)
    <3>1. o \in Seq(Items) /\ UpTo(o, fed, clock)
      BY <1>3 DEF Orderly
    <3> HIDE DEF o, x
    <3>2. ASSUME NEW j \in 1 .. Len(o) PROVE o[j].id < x.id /\ o[j].mono <= x.mono
      <4>1. o[j] \in Items /\ o[j].id <= fed /\ o[j].mono <= clock
        BY <3>1 DEF UpTo
      <4>2. o[j].id \in Nat
        BY <4>1, ItemsAre
      <4>3. QED
        BY <1>1, <1>2, <4>1, <4>2
    <3>3. QED
      BY <3>2 DEF o
  <2> HIDE DEF x, r
  <2>3. Orderly(Push(r, x)) /\ UpTo(Ordered(Push(r, x)), x.id, x.mono)
    BY <1>2, <1>3, <2>2, PushOrderly
  <2>4. Orderly(Push(r, x)) /\ UpTo(Ordered(Push(r, x)), fed', clock')
    BY <1>1, <1>2, <2>3
  <2>5. ASSUME NEW q \in DOMAIN rings'
        PROVE  Orderly(rings'[q]) /\ UpTo(Ordered(rings'[q]), fed', clock')
    <3>1. CASE q = s
      BY <2>1, <2>4, <3>1
    <3>2. CASE q # s
      BY <1>4, <2>1, <3>2
    <3>3. QED
      BY <3>1, <3>2
  <2>6. QED
    BY <2>5 DEF InOrder
<1>7. QED
  BY <1>5, <1>6

LEMMA StepOrders ==
  ASSUME RegInv, InOrder, [SigNext]_svars PROVE InOrder'
<1>1. CASE \E s \in Signals : Feed(s)
  BY <1>1, FeedOrders
<1>2. CASE Reborn
  <2>1. DOMAIN rings' = {}
    BY <1>2 DEF Reborn
  <2>2. QED
    BY <2>1 DEF InOrder
<1>3. CASE ClockMoves
  <2>1. rings' = rings /\ fed' = fed /\ clock' = clock + 1 /\ clock \in Nat
    BY <1>3, SignalsAssumption DEF ClockMoves, RegInv
  <2>2. ASSUME NEW q \in DOMAIN rings
        PROVE  Orderly(rings[q]) /\ UpTo(Ordered(rings[q]), fed, clock + 1)
    <3> DEFINE o == Ordered(rings[q])
    <3>1. Orderly(rings[q]) /\ UpTo(o, fed, clock) /\ o \in Seq(Items)
      BY DEF InOrder, Orderly
    <3> HIDE DEF o
    <3>2. ASSUME NEW j \in 1 .. Len(o) PROVE o[j].id <= fed /\ o[j].mono <= clock + 1
      <4>1. o[j] \in Items /\ o[j].id <= fed /\ o[j].mono <= clock
        BY <3>1 DEF UpTo
      <4>2. o[j].mono \in Nat
        BY <4>1, ItemsAre
      <4>3. QED
        BY <2>1, <4>1, <4>2
    <3>3. QED
      BY <3>1, <3>2 DEF UpTo, o
  <2>3. QED
    BY <2>1, <2>2 DEF InOrder
<1>4. CASE Warn \/ UNCHANGED svars
  BY <1>4 DEF Warn, svars, InOrder
<1>5. QED
  BY <1>1, <1>2, <1>3, <1>4 DEF SigNext

----------------------------------------------------------------------------
\* Every sample in the arrays is one of the samples in order.
LEMMA SlotsCover ==
  ASSUME NEW r, Orderly(r), NEW y \in Indices, r.buf[y].id # 0
  PROVE  \E j \in 1 .. r.n : Slot(r, j) = y
<1>1. /\ RingSize \in Nat \ {0} /\ r.n \in 0 .. RingSize /\ r.i \in 0 .. RingSize - 1
      /\ y \in 0 .. RingSize - 1 /\ r \in Rings
  BY SignalsAssumption DEF Orderly, Rings, Indices
<1>2. \A m \in Int : -RingSize <= m /\ m <= RingSize =>
        m % RingSize = IF m < 0 THEN m + RingSize ELSE IF m = RingSize THEN 0 ELSE m
  BY Wraps
<1>3. CASE r.n < RingSize
  <2>1. r.i = r.n /\ y < r.n
    <3>1. r.i = r.n /\ (y >= r.n => r.buf[y] = Blank)
      BY <1>3 DEF Orderly, Filled
    <3>2. r.buf[y] # Blank
      BY DEF Blank
    <3>3. QED
      BY <1>1, <3>1, <3>2
  <2> DEFINE m == r.i - r.n + (y + 1) - 1
  <2>2. y + 1 \in 1 .. r.n /\ m = y
    BY <1>1, <2>1
  <2>3. Slot(r, y + 1) = m % RingSize
    BY DEF Slot
  <2> HIDE DEF m
  <2>4. m % RingSize = y
    BY <1>1, <1>2, <2>2
  <2>5. QED
    BY <2>2, <2>3, <2>4
<1>4. CASE r.n = RingSize
  <2> DEFINE j == IF y >= r.i THEN y - r.i + 1 ELSE y - r.i + 1 + RingSize
             m == r.i - r.n + j - 1
  <2>1. j \in 1 .. r.n
    BY <1>1, <1>4
  <2>2. m = IF y >= r.i THEN y - RingSize ELSE y
    BY <1>1, <1>4
  <2>3. Slot(r, j) = m % RingSize
    BY DEF Slot
  <2> HIDE DEF m, j
  <2>4. m \in Int /\ -RingSize <= m /\ m <= RingSize /\ m # RingSize /\ (m < 0 <=> y >= r.i)
    BY <1>1, <2>2
  <2>5. m % RingSize = IF m < 0 THEN m + RingSize ELSE m
    BY <1>2, <2>4
  <2>6. m % RingSize = y
    BY <1>1, <2>2, <2>4, <2>5
  <2>7. QED
    BY <2>1, <2>3, <2>6
<1>5. QED
  BY <1>1, <1>3, <1>4

LEMMA Contents ==
  ASSUME NEW r, Orderly(r), r.n >= 1
  PROVE  LET o == Ordered(r)
         IN /\ o \in Seq(Items) /\ Len(o) = r.n /\ r.n \in Nat
            /\ HeldIds(r) = {o[j].id : j \in 1 .. r.n}
            /\ \A c : OlderThan(r, c) = {o[j].id : j \in {h \in 1 .. r.n : o[h].mono < c}}
            /\ LastSample(r) = o[r.n]
<1> DEFINE o == Ordered(r)
<1>1. /\ Len(o) = r.n /\ r.n \in Nat
      /\ \A j \in 1 .. r.n : Slot(r, j) \in Indices /\ o[j] = r.buf[Slot(r, j)]
  BY OrderedSeq DEF Orderly
<1>2. o \in Seq(Items) /\ \A j \in 1 .. r.n : o[j] \in Items
  <2>1. o \in Seq(Items)
    BY DEF Orderly
  <2> HIDE DEF o
  <2>2. QED
    BY <1>1, <2>1
<1>3. \A j \in 1 .. r.n : o[j].id # 0
  <2>1. ASSUME NEW j \in 1 .. r.n PROVE o[j].id # 0
    <3>1. o[j] \in Items
      BY <1>2
    <3> HIDE DEF o
    <3>2. o[j].id \in Nat /\ o[j].id >= 1
      BY <3>1, ItemsAre
    <3>3. QED
      BY <3>2
  <2>2. QED
    BY <2>1
<1>4. \A y \in Indices : r.buf[y].id # 0 => \E j \in 1 .. r.n : Slot(r, j) = y
  BY SlotsCover
<1>5. LastSample(r) = o[r.n]
  <2>1. r.n \in 1 .. r.n
    BY <1>1
  <2>2. r.i - r.n + r.n - 1 = r.i - 1
    BY <1>1, SignalsAssumption DEF Orderly, Rings, Indices
  <2>3. Slot(r, r.n) = (r.i - 1) % RingSize
    BY <2>2 DEF Slot
  <2>4. QED
    BY <1>1, <2>1, <2>3 DEF LastSample
<1> HIDE DEF o
<1>6. HeldIds(r) = {o[j].id : j \in 1 .. r.n}
  <2>1. ASSUME NEW z \in HeldIds(r) PROVE z \in {o[j].id : j \in 1 .. r.n}
    <3>1. PICK y \in Indices : z = r.buf[y].id /\ r.buf[y].id # 0
      BY DEF HeldIds
    <3>2. PICK j \in 1 .. r.n : Slot(r, j) = y
      BY <1>4, <3>1
    <3>3. QED
      BY <1>1, <3>1, <3>2
  <2>2. ASSUME NEW j \in 1 .. r.n PROVE o[j].id \in HeldIds(r)
    BY <1>1, <1>3 DEF HeldIds
  <2>3. QED
    BY <2>1, <2>2
<1>7. ASSUME NEW c
      PROVE  OlderThan(r, c) = {o[j].id : j \in {h \in 1 .. r.n : o[h].mono < c}}
  <2>1. ASSUME NEW z \in OlderThan(r, c)
        PROVE  z \in {o[j].id : j \in {h \in 1 .. r.n : o[h].mono < c}}
    <3>1. PICK y \in Indices : z = r.buf[y].id /\ r.buf[y].id # 0 /\ r.buf[y].mono < c
      BY DEF OlderThan
    <3>2. PICK j \in 1 .. r.n : Slot(r, j) = y
      BY <1>4, <3>1
    <3>3. QED
      BY <1>1, <3>1, <3>2
  <2>2. ASSUME NEW j \in 1 .. r.n, o[j].mono < c PROVE o[j].id \in OlderThan(r, c)
    BY <1>1, <1>3, <2>2 DEF OlderThan
  <2>3. QED
    BY <2>1, <2>2
<1>8. QED
  BY <1>1, <1>2, <1>5, <1>6, <1>7 DEF o

----------------------------------------------------------------------------
\* Time does not run back within a ring: what is older than an onset comes first.
LEMMA OnsetCuts ==
  ASSUME NEW o \in Seq(Items), Sorted(o), NEW c \in Nat
  PROVE  \E m \in 0 .. Len(o) : \A j \in 1 .. Len(o) : o[j].mono < c <=> j <= m
<1> DEFINE n == Len(o)
           T == {j \in 1 .. n + 1 : j = n + 1 \/ o[j].mono >= c}
<1>1. n \in Nat /\ \A j \in 1 .. n : o[j].mono \in Nat
  <2>1. n \in Nat /\ \A j \in 1 .. n : o[j] \in Items
    OBVIOUS
  <2> HIDE DEF n
  <2>2. QED
    BY <2>1, ItemsAre
<1>2. \A i, j \in 1 .. n : i < j => o[i].mono <= o[j].mono
  BY DEF Sorted
<1> HIDE DEF n
<1>3. n + 1 \in T /\ T \in SUBSET Nat
  BY <1>1
<1>4. \A j \in 1 .. n : j \notin T => o[j].mono < c
  BY <1>1
<1>5. \A j \in 1 .. n : j \in T => o[j].mono >= c
  BY <1>1
<1>6. T \subseteq 1 .. n + 1
  OBVIOUS
<1> HIDE DEF T
<1>7. PICK e \in T : \A v \in T : ~ (<<v, e>> \in OpToRel(<, Nat))
  BY <1>3, NatLessThanWellFounded, WFMin
<1>8. e \in 1 .. n + 1 /\ \A v \in T : ~(v < e)
  BY <1>3, <1>6, <1>7 DEF OpToRel
<1>9. ASSUME NEW j \in 1 .. n PROVE o[j].mono < c <=> j <= e - 1
  <2>1. CASE j < e
    BY <1>1, <1>4, <1>8, <2>1
  <2>2. CASE j = e
    <3>1. o[j].mono >= c
      BY <1>5, <1>7, <2>2
    <3>2. QED
      BY <1>1, <1>8, <2>2, <3>1
  <2>3. CASE e < j
    <3>1. e \in 1 .. n
      BY <1>1, <1>8, <2>3
    <3>2. o[e].mono >= c /\ o[e].mono <= o[j].mono
      BY <1>2, <1>5, <1>7, <2>3, <3>1
    <3>3. o[e].mono \in Nat /\ o[j].mono \in Nat
      BY <1>1, <3>1
    <3>4. QED
      BY <1>1, <1>8, <2>3, <3>2, <3>3
  <2>4. QED
    BY <1>1, <1>8, <2>1, <2>2, <2>3
<1>10. e - 1 \in 0 .. n
  BY <1>1, <1>8
<1>11. QED
  BY <1>9, <1>10 DEF n

\* A stretch of a sorted list is sorted, and has the numbers of its positions.
LEMMA Stretch ==
  ASSUME NEW o \in Seq(Items), Sorted(o), NEW b \in 0 .. Len(o), NEW a \in 0 .. b,
         NEW q, q = Shifted(o, a, b)
  PROVE  q \in Seq(Samples) /\ Rising(q) /\ Ids(q) = {o[j].id : j \in (a + 1) .. b}
<1> DEFINE n == b - a
<1>1. n \in Nat /\ \A j \in 1 .. n : a + j \in 1 .. Len(o) /\ a + j \in (a + 1) .. b
  OBVIOUS
<1>2. \A j \in (a + 1) .. b : j - a \in 1 .. n /\ a + (j - a) = j
  OBVIOUS
<1>3. \A i, j \in 1 .. n : i < j => a + i < a + j
  BY <1>1
<1>4. \A j \in 1 .. n : o[a + j] \in Samples
  <2>1. \A j \in 1 .. Len(o) : o[j] \in Items
    OBVIOUS
  <2> HIDE DEF n
  <2>2. QED
    BY <1>1, <2>1, ItemsAre
<1> HIDE DEF n
<1>5. q = [j \in 1 .. n |-> o[a + j]]
  BY DEF n, Shifted
<1>6. q \in Seq(Samples) /\ Len(q) = n /\ DOMAIN q = 1 .. n /\ \A j \in 1 .. n : q[j] = o[a + j]
  <2>1. DOMAIN q = 1 .. n /\ \A j \in 1 .. n : q[j] = o[a + j]
    BY <1>5
  <2>2. q \in [1 .. n -> Samples]
    BY <1>4, <1>5
  <2>3. q \in Seq(Samples)
    BY <1>1, <2>2
  <2>4. Len(q) = n
    BY <1>1, <2>1, <2>3
  <2>5. QED
    BY <2>1, <2>3, <2>4
<1>7. Rising(q)
  BY <1>1, <1>3, <1>6 DEF Rising, Sorted
<1>8. Ids(q) = {q[j].id : j \in 1 .. n}
  BY <1>6 DEF Ids
<1>9. {q[j].id : j \in 1 .. n} = {o[j].id : j \in (a + 1) .. b}
  <2>1. ASSUME NEW j \in 1 .. n PROVE q[j].id \in {o[i].id : i \in (a + 1) .. b}
    <3>1. a + j \in (a + 1) .. b /\ q[j].id = o[a + j].id
      BY <1>1, <1>6
    <3>2. QED
      BY <3>1
  <2>2. ASSUME NEW j \in (a + 1) .. b PROVE o[j].id \in {q[i].id : i \in 1 .. n}
    <3>1. j - a \in 1 .. n /\ q[j - a].id = o[j].id
      BY <1>2, <1>6
    <3>2. QED
      BY <3>1
  <2>3. QED
    BY <2>1, <2>2
<1>10. QED
  BY <1>6, <1>7, <1>8, <1>9

LEMMA GreatestIs ==
  ASSUME NEW S \in SUBSET Nat, NEW m \in S, \A x \in S : x <= m
  PROVE  Max(S) = m
<1>1. m \in S /\ \A y \in S : m >= y
  OBVIOUS
<1>2. \A x \in S : (\A y \in S : x >= y) => x = m
  OBVIOUS
<1>3. QED
  BY <1>1, <1>2 DEF Max

\* What is read from one ring about one onset.
Split(r, c, k) ==
  LET older == OlderThan(r, c)
      pre == Before(r, c, k)
      onset == Since(r, c, k)
      post == TailOf(r, k)
  IN /\ Ids(pre) = Newest(older, k) /\ Ids(onset) = Oldest(HeldIds(r) \ older, k)
     /\ Ids(post) = Newest(HeldIds(r), k) /\ LastSample(r).id = Max(HeldIds(r))
     /\ \A q \in {pre, onset, post} : \A i, j \in DOMAIN q : i < j => q[i].id < q[j].id

LEMMA RisingDom ==
  ASSUME NEW q \in Seq(Samples), Rising(q)
  PROVE  \A i, j \in DOMAIN q : i < j => q[i].id < q[j].id
BY DEF Rising

LEMMA RingSplits ==
  ASSUME NEW r, Orderly(r), r.n >= 1, NEW c \in Nat, NEW k \in Nat
  PROVE  Split(r, c, k)
<1> DEFINE o == Ordered(r)
           n == r.n
<1>1. /\ o \in Seq(Items) /\ Len(o) = n /\ n \in Nat
      /\ HeldIds(r) = {o[j].id : j \in 1 .. n}
      /\ OlderThan(r, c) = {o[j].id : j \in {h \in 1 .. n : o[h].mono < c}}
      /\ LastSample(r) = o[n]
  BY Contents
<1>2. Sorted(o) /\ DOMAIN o = 1 .. n
  BY <1>1 DEF Orderly
<1>3. /\ Before(r, c, k) = LastOf(Picked(o, {j \in DOMAIN o : o[j].mono < c}), k)
      /\ Since(r, c, k) = FirstOf(Picked(o, {j \in DOMAIN o : o[j].mono >= c}), k)
  BY DEF Before, Since
<1>4. TailOf(r, k) = LET m == Min({k, n}) IN [j \in 1 .. m |-> r.buf[(r.i - m + j - 1) % RingSize]]
  BY DEF TailOf
<1>5. \A j \in 1 .. n : o[j] = r.buf[Slot(r, j)]
  BY OrderedSeq DEF Orderly
<1>6. r.i \in Int /\ n >= 1
  BY SignalsAssumption DEF Orderly, Rings, Indices
<1> HIDE DEF o, n
<1>7. PICK m \in 0 .. n : \A j \in 1 .. n : o[j].mono < c <=> j <= m
  BY <1>1, <1>2, OnsetCuts
<1>8. \A j \in 1 .. n : o[j] \in Items /\ o[j].id \in Nat /\ o[j].mono \in Nat
  <2>1. \A j \in 1 .. n : o[j] \in Items
    BY <1>1
  <2>2. QED
    BY <2>1, ItemsAre
<1>9. /\ {j \in DOMAIN o : o[j].mono < c} = (0 + 1) .. m
      /\ {h \in 1 .. n : o[h].mono < c} = (0 + 1) .. m
      /\ {j \in DOMAIN o : o[j].mono >= c} = (m + 1) .. n
  <2>1. \A j \in 1 .. n : (o[j].mono >= c <=> ~(o[j].mono < c))
    BY <1>8
  <2>2. \A j \in 1 .. n : (o[j].mono < c <=> j \in (0 + 1) .. m) /\ (o[j].mono >= c <=> j \in (m + 1) .. n)
    BY <1>1, <1>7, <2>1
  <2>3. (0 + 1) .. m \subseteq 1 .. n /\ (m + 1) .. n \subseteq 1 .. n
    BY <1>1
  <2>4. QED
    BY <1>2, <2>2, <2>3
<1>10. OlderThan(r, c) = {o[j].id : j \in (0 + 1) .. m}
  BY <1>1, <1>9
<1> DEFINE A == Shifted(o, 0, m)
           B == Shifted(o, m, n)
           C == Shifted(o, 0, n)
<1>11. /\ Picked(o, (0 + 1) .. m) = A /\ Picked(o, (m + 1) .. n) = B
  <2>1. 0 \in Nat /\ m \in Nat /\ n \in Nat /\ 0 <= m /\ m <= n
    BY <1>1
  <2>2. \A P : P = (0 + 1) .. m => Picked(o, P) = Shifted(o, 0, m)
    BY <2>1, PickedRange
  <2>3. \A P : P = (m + 1) .. n => Picked(o, P) = Shifted(o, m, n)
    BY <2>1, PickedRange
  <2>4. QED
    BY <2>2, <2>3
<1>12. A \in Seq(Samples) /\ Rising(A) /\ Ids(A) = {o[j].id : j \in (0 + 1) .. m}
  <2>1. A = Shifted(o, 0, m) /\ m \in 0 .. Len(o) /\ 0 \in 0 .. m
    BY <1>1
  <2> HIDE DEF A
  <2>2. QED
    BY <1>1, <1>2, <2>1, Stretch
<1>13. B \in Seq(Samples) /\ Rising(B) /\ Ids(B) = {o[j].id : j \in (m + 1) .. n}
  <2>1. B = Shifted(o, m, n) /\ n \in 0 .. Len(o) /\ m \in 0 .. n
    BY <1>1
  <2> HIDE DEF B
  <2>2. QED
    BY <1>1, <1>2, <2>1, Stretch
<1>14. C \in Seq(Samples) /\ Rising(C) /\ Ids(C) = {o[j].id : j \in (0 + 1) .. n}
  <2>1. C = Shifted(o, 0, n) /\ n \in 0 .. Len(o) /\ 0 \in 0 .. n
    BY <1>1
  <2> HIDE DEF C
  <2>2. QED
    BY <1>1, <1>2, <2>1, Stretch
<1>15. Ids(C) = HeldIds(r)
  BY <1>1, <1>14
<1>16. Ids(B) = HeldIds(r) \ OlderThan(r, c)
  <2>1. \A i, j \in 1 .. n : i < j => o[i].id # o[j].id
    <3>1. \A i, j \in 1 .. n : i < j => o[i].id < o[j].id
      BY <1>1, <1>2 DEF Sorted
    <3>2. QED
      BY <1>8, <3>1
  <2>2. \A i \in (0 + 1) .. m, j \in (m + 1) .. n : i \in 1 .. n /\ j \in 1 .. n /\ i < j
    BY <1>1
  <2>3. \A i \in (0 + 1) .. m, j \in (m + 1) .. n : o[i].id # o[j].id
    BY <2>1, <2>2
  <2>4. \A j \in 1 .. n : j \in (0 + 1) .. m \/ j \in (m + 1) .. n
    BY <1>1
  <2>5. (m + 1) .. n \subseteq 1 .. n
    BY <1>1
  <2> HIDE DEF B
  <2>6. QED
    BY <1>1, <1>10, <1>13, <2>3, <2>4, <2>5
<1>17. TailOf(r, k) = LastOf(C, k)
  <2> DEFINE h == Min({k, n})
  <2>1. h \in 0 .. n
    <3>1. h = IF k < n THEN k ELSE n
      BY <1>1, LeastOfTwo
    <3> HIDE DEF h
    <3>2. QED
      BY <1>1, <3>1
  <2>2. TailOf(r, k) = [j \in 1 .. h |-> r.buf[(r.i - h + j - 1) % RingSize]]
    BY <1>4
  <2>3. Len(C) = n /\ \A j \in 1 .. n : C[j] = o[j]
    <3>1. C = [j \in 1 .. n |-> o[j]]
      BY <1>1 DEF Shifted
    <3> HIDE DEF C
    <3>2. Len(C) = n
      BY <1>1, <1>14, <3>1
    <3>3. QED
      BY <3>1, <3>2
  <2>4. LastOf(C, k) = SubSeq(C, n - h + 1, n)
    BY <2>3 DEF LastOf
  <2> HIDE DEF h, C
  <2>5. /\ SubSeq(C, n - h + 1, n) \in Seq(Samples)
        /\ Len(SubSeq(C, n - h + 1, n)) = h
        /\ \A j \in 1 .. h : SubSeq(C, n - h + 1, n)[j] = C[n - h + j]
    <3> DEFINE a == n - h + 1
    <3>1. a \in 1 .. (n + 1) /\ n \in 0 .. Len(C) /\ n - a + 1 = h
          /\ \A j \in 1 .. h : a + j - 1 = n - h + j
      BY <1>1, <2>1, <2>3
    <3> HIDE DEF a
    <3>2. /\ SubSeq(C, a, n) \in Seq(Samples) /\ Len(SubSeq(C, a, n)) = n - a + 1
          /\ \A j \in 1 .. (n - a + 1) : SubSeq(C, a, n)[j] = C[a + j - 1]
      BY <1>14, <3>1, Segment
    <3>3. QED
      BY <3>1, <3>2 DEF a
  <2>6. ASSUME NEW j \in 1 .. h
        PROVE  C[n - h + j] = r.buf[(r.i - h + j - 1) % RingSize]
    <3>1. n - h + j \in 1 .. n
      BY <1>1, <2>1
    <3>2. r.i - n + (n - h + j) - 1 = r.i - h + j - 1
      BY <1>1, <1>6, <2>1
    <3>3. Slot(r, n - h + j) = (r.i - h + j - 1) % RingSize
      BY <3>2 DEF Slot, n
    <3>4. QED
      BY <1>5, <2>3, <3>1, <3>3
  <2> DEFINE t == SubSeq(C, n - h + 1, n)
  <2>7. t \in Seq(Samples) /\ Len(t) = h /\ \A j \in 1 .. h : t[j] = r.buf[(r.i - h + j - 1) % RingSize]
    BY <2>5, <2>6
  <2> HIDE DEF t
  <2>8. t = [j \in 1 .. h |-> r.buf[(r.i - h + j - 1) % RingSize]]
    BY <2>7
  <2>9. QED
    BY <2>2, <2>4, <2>8 DEF t
<1>18. LastSample(r).id = Max(HeldIds(r))
  <2> DEFINE S == HeldIds(r)
  <2>1. S = {o[j].id : j \in 1 .. n}
    BY <1>1
  <2> HIDE DEF S
  <2>2. n \in 1 .. n
    BY <1>1, <1>6
  <2>3. o[n].id \in S /\ S \in SUBSET Nat
    BY <1>8, <2>1, <2>2
  <2>4. \A j \in 1 .. n : o[j].id <= o[n].id
    <3>1. ASSUME NEW j \in 1 .. n PROVE o[j].id <= o[n].id
      <4>1. j = n \/ j < n
        BY <1>1
      <4>2. o[j].id \in Nat /\ o[n].id \in Nat
        BY <1>8, <2>2
      <4>3. CASE j = n
        BY <4>2, <4>3
      <4>4. CASE j < n
        <5>1. o[j].id < o[n].id
          BY <1>1, <1>2, <2>2, <4>4 DEF Sorted
        <5>2. QED
          BY <4>2, <5>1
      <4>5. QED
        BY <4>1, <4>3, <4>4
    <3>2. QED
      BY <3>1
  <2>5. \A y \in S : y <= o[n].id
    BY <2>1, <2>4
  <2>6. Max(S) = o[n].id
    BY <2>3, <2>5, GreatestIs
  <2>7. QED
    BY <1>1, <2>6 DEF S
<1> HIDE DEF A, B, C
<1> DEFINE pre == Before(r, c, k)
           onset == Since(r, c, k)
           post == TailOf(r, k)
<1>19. pre = LastOf(A, k) /\ onset = FirstOf(B, k) /\ post = LastOf(C, k)
  BY <1>3, <1>9, <1>11, <1>17
<1> HIDE DEF pre, onset, post
<1>20. pre \in Seq(Samples) /\ Rising(pre) /\ Ids(pre) = Newest(Ids(A), k)
  BY <1>12, <1>19, CutEnds
<1>21. onset \in Seq(Samples) /\ Rising(onset) /\ Ids(onset) = Oldest(Ids(B), k)
  BY <1>13, <1>19, CutEnds
<1>22. post \in Seq(Samples) /\ Rising(post) /\ Ids(post) = Newest(Ids(C), k)
  BY <1>14, <1>19, CutEnds
<1>23. \A q \in {pre, onset, post} : \A i, j \in DOMAIN q : i < j => q[i].id < q[j].id
  BY <1>20, <1>21, <1>22, RisingDom
<1>24. Ids(A) = OlderThan(r, c)
  BY <1>10, <1>12
<1>25. QED
  BY <1>15, <1>16, <1>18, <1>20, <1>21, <1>22, <1>23, <1>24 DEF Split, pre, onset, post

(* An incident's evidence is split where the breach began, for every ring    *)
(* size, cap, onset and number of samples asked for: the baseline is the     *)
(* newest samples before the onset, the onset the oldest from it on, the     *)
(* close the newest of all, each in the order they were taken (signals.py,   *)
(* before, since, tail and last).                                            *)
THEOREM EvidenceIsSplit == SigSpec => []EvidenceSplitsAtOnset
<1>1. SigInit => RegInv /\ Counted /\ InOrder
  BY SignalsAssumption, FS_EmptySet DEF SigInit, RegInv, Counted, InOrder
<1>2. RegInv /\ Counted /\ InOrder /\ [SigNext]_svars => RegInv' /\ Counted' /\ InOrder'
  BY StepCounts, StepOrders
<1>3. RegInv /\ Counted /\ InOrder => EvidenceSplitsAtOnset
  <2> SUFFICES ASSUME RegInv, Counted, InOrder,
                      NEW s \in DOMAIN rings, NEW c \in Now0 .. MaxNow, NEW k \in 0 .. RingSize + 1
               PROVE  Split(rings[s], c, k)
    BY DEF EvidenceSplitsAtOnset, Split
  <2>1. Orderly(rings[s]) /\ rings[s].n >= 1
    BY DEF InOrder, Counted
  <2>2. c \in Nat /\ k \in Nat
    BY SignalsAssumption
  <2>3. QED
    BY <2>1, <2>2, RingSplits
<1>4. QED
  BY <1>1, <1>2, <1>3, PTL DEF SigSpec

===============================================================================
