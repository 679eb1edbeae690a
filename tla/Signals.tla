------------------------------- MODULE Signals -------------------------------
(***************************************************************************)
(* signals.py: the registry of rings a sample lives in while things are    *)
(* normal, and what a detector reads back from one when a breach is        *)
(* confirmed or an incident closes.  A ring is three parallel arrays with  *)
(* a write position and a saturating count; a sample here is one record of *)
(* its number (which stands for its wall time and value) and its monotonic *)
(* time.                                                                   *)
(***************************************************************************)
EXTENDS Integers, Sequences, FiniteSets, FiniteSetsExt

CONSTANTS
  Signals,    (* the keys (name, entity) probes feed                        *)
  MaxSignals, (* SIGNAL_MAX                                                 *)
  RingSize,   (* SIGNAL_RING                                                *)
  MaxFeeds,   (* bound: samples fed                                         *)
  WarnEvery,  (* interval of should_warn_drops                              *)
  Now0,       (* the clock at the start                                     *)
  MaxNow      (* bound: clock                                               *)

ASSUME SignalsAssumption ==
  /\ MaxSignals \in Nat /\ RingSize \in Nat \ {0} /\ MaxFeeds \in Nat
  /\ WarnEvery \in Nat /\ Now0 \in Nat /\ MaxNow \in Nat /\ Now0 <= MaxNow

VARIABLES
  rings,   (* _rings                                                        *)
  drops,   (* _drops                                                        *)
  warned,  (* _last_drop_warn; Never is None                                *)
  clock, fed

svars == <<rings, drops, warned, clock, fed>>

Indices == 0 .. RingSize - 1
Never == -1
Blank == [id |-> 0, mono |-> 0]

----------------------------------------------------------------------------
(* Ring.                                                                   *)

NewRing == [buf |-> [i \in Indices |-> Blank], i |-> 0, n |-> 0]

Push(r, x) ==
  [buf |-> [r.buf EXCEPT ![r.i] = x],
   i |-> (r.i + 1) % RingSize,
   n |-> IF r.n < RingSize THEN r.n + 1 ELSE r.n]

\* Bug: reading starts at slot 0, which is right until the ring wraps.
OrderedFromZero(r) == [j \in 1 .. r.n |-> r.buf[j - 1]]

\* The samples held, oldest first.
Ordered(r) == [j \in 1 .. r.n |-> r.buf[(r.i - r.n + j - 1) % RingSize]]

LastSample(r) == r.buf[(r.i - 1) % RingSize]

TailOf(r, k) ==
  LET m == Min({k, r.n})
  IN [j \in 1 .. m |-> r.buf[(r.i - m + j - 1) % RingSize]]

FirstOf(s, k) == SubSeq(s, 1, Min({k, Len(s)}))
LastOf(s, k) == SubSeq(s, Len(s) - Min({k, Len(s)}) + 1, Len(s))

\* The samples of s at the positions P, in order.
Nth(P, j) == CHOOSE i \in P : Cardinality({h \in P : h < i}) = j - 1
Picked(s, P) == [j \in 1 .. Cardinality(P) |-> s[Nth(P, j)]]

\* Bug: the sample the breach began with counts as baseline.
BeforeInclusive(r, cutoff, k) ==
  LET s == Ordered(r) IN LastOf(Picked(s, {j \in DOMAIN s : s[j].mono <= cutoff}), k)

Before(r, cutoff, k) ==
  LET s == Ordered(r) IN LastOf(Picked(s, {j \in DOMAIN s : s[j].mono < cutoff}), k)
Since(r, cutoff, k) ==
  LET s == Ordered(r) IN FirstOf(Picked(s, {j \in DOMAIN s : s[j].mono >= cutoff}), k)

----------------------------------------------------------------------------
(* The registry.                                                           *)

Full == Cardinality(DOMAIN rings) >= MaxSignals

RingOf(s) == IF s \in DOMAIN rings THEN rings[s] ELSE NewRing

Feed(s) ==
  /\ fed < MaxFeeds /\ fed' = fed + 1
  /\ IF s \notin DOMAIN rings /\ Full
     THEN drops' = drops + 1 /\ UNCHANGED rings
     ELSE /\ rings' = [q \in DOMAIN rings \cup {s} |->
                        IF q = s THEN Push(RingOf(s), [id |-> fed', mono |-> clock])
                        ELSE rings[q]]
          /\ UNCHANGED drops
  /\ UNCHANGED <<warned, clock>>

WarnDue == warned = Never \/ clock - warned >= WarnEvery

\* The end of heartbeat.collect.
Warn ==
  /\ drops > 0 /\ WarnDue /\ warned' = clock
  /\ UNCHANGED <<rings, drops, clock, fed>>

ClockMoves == clock < MaxNow /\ clock' = clock + 1 /\ UNCHANGED <<rings, drops, warned, fed>>

\* The registry lives as long as the process.
Reborn ==
  /\ rings' = <<>> /\ drops' = 0 /\ warned' = Never
  /\ UNCHANGED <<clock, fed>>

SigInit == rings = <<>> /\ drops = 0 /\ warned = Never /\ clock = Now0 /\ fed = 0
SigNext == (\E s \in Signals : Feed(s)) \/ Warn \/ ClockMoves \/ Reborn

SigSpec == SigInit /\ [][SigNext]_svars

----------------------------------------------------------------------------
\* The rings are windows: the array arithmetic keeps the newest samples of every
\* registered signal, in order, and refuses exactly the signals beyond the cap.
W == INSTANCE Window WITH
       Samples <- [id : 1 .. MaxFeeds, mono : Now0 .. MaxNow],
       Size <- RingSize,
       held <- [s \in DOMAIN rings |-> Ordered(rings[s])],
       refused <- drops

RingIsWindow == W!WSpec

\* Types.  A registered ring has at least one sample and never more than it has slots.
SigTypeOK ==
  /\ DOMAIN rings \subseteq Signals
  /\ \A s \in DOMAIN rings : rings[s].i \in Indices /\ rings[s].n \in 1 .. RingSize
  /\ drops \in 0 .. MaxFeeds /\ warned \in {Never} \cup Now0 .. MaxNow

Ids(s) == {s[j].id : j \in DOMAIN s}
HeldIds(r) == {r.buf[i].id : i \in Indices} \ {0}
OlderThan(r, c) == {x.id : x \in {r.buf[i] : i \in {j \in Indices : r.buf[j].id # 0 /\ r.buf[j].mono < c}}}

Newest(S, k) == {x \in S : Cardinality({y \in S : y > x}) < k}
Oldest(S, k) == {x \in S : Cardinality({y \in S : y < x}) < k}

\* An incident's evidence is split where the breach began: for every onset and every
\* number of samples asked for, what is read as baseline is the newest samples before
\* it, what is read as onset the oldest from it on, and what a close keeps the newest of
\* all, in the order they were taken (signals.py, before, since, tail and last).
EvidenceSplitsAtOnset ==
  \A s \in DOMAIN rings : \A c \in Now0 .. MaxNow, k \in 0 .. RingSize + 1 :
    LET r == rings[s]
        older == OlderThan(r, c)
        pre == Before(r, c, k)
        onset == Since(r, c, k)
        post == TailOf(r, k)
    IN /\ Ids(pre) = Newest(older, k) /\ Ids(onset) = Oldest(HeldIds(r) \ older, k)
       /\ Ids(post) = Newest(HeldIds(r), k) /\ LastSample(r).id = Max(HeldIds(r))
       /\ \A q \in {pre, onset, post} :
            \A i, j \in DOMAIN q : i < j => q[i].id < q[j].id
=============================================================================
