---------------------------- MODULE ReplicaProofs ----------------------------
(***************************************************************************)
(* What a replica in the sense of module Replica gives, for any tables and *)
(* places: complete copies up to their marks, no gaps, and nothing         *)
(* forgotten that no place has.                                            *)
(***************************************************************************)
EXTENDS Replica, TLAPS

\* Ids and marks are numbers.
Numbers ==
  /\ \A t \in Tables : \A r \in kept[t] : r.id \in Nat
  /\ mark \in [Hubs -> [Tables -> Nat]] /\ dests \subseteq Hubs

\* A copy is complete up to its mark.
Whole == \A h \in Hubs, t \in Tables : \A r \in kept[t] : r.id <= mark[h][t] => r \in copy[h][t]

\* A copy lacks nothing before a row it has.
Gapless ==
  \A h \in Hubs, t \in Tables : \A r, q \in kept[t] :
    q.id < r.id /\ r \in copy[h][t] => q \in copy[h][t]

PInv == ~spoiled => Numbers /\ Whole /\ Gapless

LEMMA WriteKeeps ==
  ASSUME Numbers, Whole, Gapless, NEW t \in Tables, Write(t)
  PROVE  Numbers' /\ Whole' /\ Gapless'
<1>1. PICK r \in kept'[t] :
        /\ r.id \in Nat /\ kept'[t] = kept[t] \cup {r}
        /\ \A q \in kept[t] : q.id < r.id
        /\ \A h \in Hubs : mark[h][t] < r.id /\ \A q \in copy[h][t] : q.id < r.id
  BY DEF Write
<1>2. /\ \A u \in Tables \ {t} : kept'[u] = kept[u]
      /\ UNCHANGED <<copy, mark, dests>>
  BY DEF Write
<1>3. Numbers'
  BY <1>1, <1>2 DEF Numbers
<1>4. ASSUME NEW h \in Hubs, NEW u \in Tables, NEW x \in kept'[u]
      PROVE  x \in kept[u] \/ (x = r /\ u = t)
  BY <1>1, <1>2
<1>5. \A h \in Hubs : r \notin copy[h][t] /\ mark[h][t] \in Nat /\ ~ (r.id <= mark[h][t])
  BY <1>1 DEF Numbers
<1>6. Whole'
  BY <1>2, <1>4, <1>5 DEF Whole
<1>7. Gapless'
  <2> SUFFICES ASSUME NEW h \in Hubs, NEW u \in Tables, NEW x \in kept'[u], NEW q \in kept'[u],
                      q.id < x.id, x \in copy[h][u]
               PROVE  q \in copy[h][u]
    BY <1>2 DEF Gapless
  <2>1. x \in kept[u]
    BY <1>4, <1>5
  <2>2. CASE q \in kept[u]
    BY <2>1, <2>2 DEF Gapless
  <2>3. CASE q = r /\ u = t
    <3>1. x.id < r.id /\ x.id \in Nat
      BY <1>1, <2>1, <2>3 DEF Numbers
    <3>2. QED
      BY <1>1, <2>3, <3>1
  <2>4. QED
    BY <1>4, <2>2, <2>3
<1>8. QED
  BY <1>3, <1>6, <1>7

LEMMA ArriveKeeps ==
  ASSUME Numbers, Whole, Gapless, NEW h \in Hubs, Arrive(h)
  PROVE  Numbers' /\ Whole' /\ Gapless'
<1>1. /\ \A g \in Hubs \ {h} : copy'[g] = copy[g]
      /\ \A t \in Tables :
           /\ copy[h][t] \subseteq copy'[h][t]
           /\ \A r \in copy'[h][t] \ copy[h][t], q \in kept[t] :
                q.id < r.id => q \in copy'[h][t]
      /\ UNCHANGED <<kept, mark, dests>>
  BY DEF Arrive
<1>2. \A g \in Hubs, t \in Tables : copy[g][t] \subseteq copy'[g][t]
  BY <1>1
<1>3. Numbers' /\ Whole'
  BY <1>1, <1>2 DEF Numbers, Whole
<1>4. Gapless'
  <2> SUFFICES ASSUME NEW g \in Hubs, NEW t \in Tables, NEW r \in kept[t], NEW q \in kept[t],
                      q.id < r.id, r \in copy'[g][t]
               PROVE  q \in copy'[g][t]
    BY <1>1 DEF Gapless
  <2>1. CASE r \in copy[g][t]
    BY <1>2, <2>1 DEF Gapless
  <2>2. CASE r \notin copy[g][t]
    BY <1>1, <2>2
  <2>3. QED
    BY <2>1, <2>2
<1>5. QED
  BY <1>3, <1>4

LEMMA OtherKeeps ==
  ASSUME Numbers, Whole, Gapless, Carry \/ Confirm \/ Redirect \/ Forget
  PROVE  Numbers' /\ Whole' /\ Gapless'
<1>1. CASE Carry
  BY <1>1 DEF Carry, Numbers, Whole, Gapless
<1>2. CASE Confirm
  <2>1. Numbers' /\ Gapless'
    BY <1>2 DEF Confirm, Numbers, Gapless
  <2>2. Whole'
    <3> SUFFICES ASSUME NEW h \in Hubs, NEW t \in Tables, NEW r \in kept[t],
                        r.id <= mark'[h][t]
                 PROVE  r \in copy[h][t]
      BY <1>2 DEF Confirm, Whole
    <3>1. CASE mark'[h][t] = 0
      <4>1. r.id \in Nat /\ mark[h][t] \in Nat
        BY DEF Numbers
      <4>2. r.id <= mark[h][t]
        BY <3>1, <4>1
      <4>3. QED
        BY <4>2 DEF Whole
    <3>2. CASE mark'[h][t] # 0
      BY <1>2, <3>2 DEF Confirm, Whole
    <3>3. QED
      BY <3>1, <3>2
  <2>3. QED
    BY <2>1, <2>2
<1>3. CASE Redirect
  BY <1>3 DEF Redirect, Numbers, Whole, Gapless
<1>4. CASE Forget
  BY <1>4 DEF Forget, Numbers, Whole, Gapless
<1>5. QED
  BY <1>1, <1>2, <1>3, <1>4

LEMMA PInvStep == ASSUME PInv, [Next]_vars PROVE PInv'
<1>1. CASE UNCHANGED vars
  BY <1>1 DEF vars, PInv, Numbers, Whole, Gapless
<1>2. CASE Next
  <2> SUFFICES ASSUME ~spoiled' PROVE Numbers' /\ Whole' /\ Gapless'
    BY DEF PInv
  <2>1. Promised /\ ~spoiled
    BY <1>2 DEF Next
  <2>2. Numbers /\ Whole /\ Gapless
    BY <2>1 DEF PInv
  <2>3. QED
    BY <2>1, <2>2, WriteKeeps, ArriveKeeps, OtherKeeps DEF Promised
<1>3. QED
  BY <1>1, <1>2

LEMMA PInvInit == Init => PInv
BY DEF Init, PInv, Numbers, Whole, Gapless

(* In every replica a copy is complete up to its mark and has no gap, until *)
(* an id is given out twice: what module Shipper states as                  *)
(* ConfirmedIsStored and NoHole follows from the abstract steps alone       *)
(* (ship.py, ship; hub.py, ingest).                                         *)
THEOREM CopiesAreComplete == Spec => [](~spoiled => Whole /\ Gapless)
<1>1. PInv => (~spoiled => Whole /\ Gapless)
  BY DEF PInv
<1>2. QED
  BY <1>1, PInvInit, PInvStep, PTL DEF Spec

(* What is forgotten is on a place that was meant to have it.               *)
ForgottenIsCopied ==
  [][~spoiled' /\ dests # {} =>
       \A t \in Tables : \A r \in kept[t] \ kept'[t] :
         \E h \in dests : r \in copy[h][t]]_vars

(* In every replica nothing is forgotten that no place has: the rule of     *)
(* prune.py follows from the abstract steps alone.                          *)
THEOREM NothingIsLost == Spec => ForgottenIsCopied
<1> DEFINE Safe == ~spoiled' /\ dests # {} =>
                     \A t \in Tables : \A r \in kept[t] \ kept'[t] :
                       \E h \in dests : r \in copy[h][t]
<1>1. ASSUME PInv, [Next]_vars PROVE [Safe]_vars
  <2> SUFFICES ASSUME ~spoiled', dests # {}, Next, NEW t \in Tables, NEW r \in kept[t] \ kept'[t]
               PROVE  \E h \in dests : r \in copy[h][t]
    BY <1>1
  <2>1. Promised /\ Numbers /\ Whole
    BY <1>1 DEF Next, PInv
  <2>2. Forget
    <3>1. ASSUME NEW u \in Tables, Write(u) PROVE kept[t] \subseteq kept'[t]
      <4>1. CASE u = t
        BY <3>1, <4>1 DEF Write
      <4>2. CASE u # t
        BY <3>1, <4>2 DEF Write
      <4>3. QED
        BY <4>1, <4>2
    <3>2. (Carry \/ Confirm \/ Redirect \/ \E h \in Hubs : Arrive(h)) => kept' = kept
      BY DEF Carry, Confirm, Redirect, Arrive
    <3>3. QED
      BY <2>1, <3>1, <3>2 DEF Promised
  <2>3. PICK h \in dests : r.id <= mark[h][t]
    BY <2>2 DEF Forget
  <2>4. h \in Hubs
    BY <2>1 DEF Numbers
  <2>5. r \in copy[h][t]
    BY <2>1, <2>3, <2>4 DEF Whole
  <2>6. QED
    BY <2>5
<1>2. QED
  BY <1>1, PInvInit, PInvStep, PTL DEF Spec, ForgottenIsCopied
=============================================================================
