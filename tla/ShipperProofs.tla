---------------------------- MODULE ShipperProofs ----------------------------
(***************************************************************************)
(* That a cursor never runs ahead of its hub, that a hub has no hole, and  *)
(* that nothing unshipped is pruned, proved for any tables, hubs, batch    *)
(* and bounds -- as long as drains do not race over hubs that share a      *)
(* frontier: one shipper, or one hub.  From the same invariant: that        *)
(* shipping and retention implement the replica of module Replica.         *)
(***************************************************************************)
EXTENDS Shipper, FiniteSetTheorems, WellFoundedInduction, TLAPS

(* The race of two drains is the counterexample of run two_shippers.        *)
NoRace ==
  (\A s, z \in Shippers : s = z) \/ (\A g, h \in Hubs : g = h)

(* Every row of a table that is anywhere: on the node, on a hub, or in a    *)
(* body that is being posted.                                               *)
Known(t) ==
  rows[t] \cup (UNION {store[h][t] : h \in Hubs})
          \cup (UNION {ship[s].body[t] : s \in Shippers})
          \cup (UNION {q.body[t] : q \in wire})

(* Rowids were given out up to top, and cursors confirm no others.          *)
Bounded ==
  /\ \A t \in Tables : \A r \in Known(t) : r.id >= 1 /\ r.id <= top[t]
  /\ \A h \in Hubs, t \in Tables : cursor[h][t] <= top[t]
  /\ \A t \in Tables : IsFiniteSet(Known(t))

(* A body posted to a hub leaves nothing out that the hub lacks.            *)
Covered(h, body) ==
  \A t \in Tables : \A r \in body[t], q \in rows[t] :
    q.id <= r.id => q \in body[t] \/ q \in store[h][t]

(* The locals of a drain: groups are disjoint and at one frontier, and what *)
(* is posted for a group covers every hub of it.                            *)
DrainInv(s) ==
  LET d == ship[s]
  IN /\ d.pc \in {"idle", "init"} => d.groups = {}
     /\ d.pc \in {"idle", "init", "drain"} => d.members = {}
     /\ d.pc \in {"idle", "init", "drain", "post"} => d.dest = {}
     /\ \A G \in d.groups : \A g, h \in G : cursor[g] = cursor[h]
     /\ \A G, F \in d.groups : G = F \/ G \cap F = {}
     /\ \A G \in d.groups : G \cap (d.members \cup d.dest) = {}
     /\ \A h \in d.members \cup d.dest : Covered(h, d.body)
     /\ d.pc = "answered" =>
          \A h \in d.dest, t \in Tables : d.body[t] \subseteq store[h][t]

(* A request in flight, and the shipper that waits for its answer.          *)
WireInv(q) ==
  /\ Covered(q.hub, q.body)
  /\ q.by # Nobody => /\ ship[q.by].pc = "wait" /\ ship[q.by].dest = {q.hub}
                      /\ ship[q.by].body = q.body

(* tick's lock is held while its thread drains.                             *)
Flight == ~tick.inflight => ship["thread"].pc = "idle"

(* While no rowid was given out twice.                                      *)
Core ==
  /\ \A t \in Tables : \A r, q \in Known(t) : r.id = q.id => r = q
  /\ \A s \in Shippers : DrainInv(s)
  /\ \A q \in wire : WireInv(q)
  /\ Flight
  /\ ConfirmedIsStored /\ NoHole

SInv == ShipTypeOK /\ Bounded /\ (~reused => Core)

----------------------------------------------------------------------------
(* A bounded set of natural numbers has a greatest element.                 *)
LEMMA BoundedHasMax ==
  ASSUME NEW S \in SUBSET Nat, S # {}, NEW b \in Nat, \A x \in S : x <= b
  PROVE  \E m \in S : \A x \in S : x <= m
<1> DEFINE T == {u \in Nat : \A x \in S : x <= u}
<1>1. b \in T
  OBVIOUS
<1>2. PICK u \in T : \A v \in T : ~ (<<v, u>> \in OpToRel(<, Nat))
  BY <1>1, NatLessThanWellFounded, WFMin, T \subseteq Nat
<1>3. \A v \in T : ~ (v < u)
  BY <1>2 DEF OpToRel
<1>4. u \in S
  <2>1. CASE u = 0
    <3>1. PICK x \in S : TRUE
      OBVIOUS
    <3>2. x \in Nat /\ x <= 0
      BY <2>1, <3>1
    <3>3. QED
      BY <2>1, <3>1, <3>2
  <2>2. CASE u # 0
    <3>1. u - 1 \in Nat /\ u - 1 < u
      BY <2>2
    <3>2. u - 1 \notin T
      BY <1>3, <3>1
    <3>3. PICK x \in S : ~ (x <= u - 1)
      BY <3>1, <3>2
    <3>4. x = u
      BY <3>1, <3>3
    <3>5. QED
      BY <3>4
  <2>3. QED
    BY <2>1, <2>2
<1>5. QED
  BY <1>4

(* TopId is the greatest rowid of a bounded set of rows, 0 if there is none.*)
LEMMA TopIdIsMax ==
  ASSUME NEW R \in SUBSET Row, NEW b \in Nat, \A r \in R : r.id <= b
  PROVE  /\ TopId(R) \in Nat /\ TopId(R) <= b
         /\ \A r \in R : r.id <= TopId(R)
         /\ R # {} => \E r \in R : r.id = TopId(R)
<1>1. CASE R = {}
  BY <1>1 DEF TopId
<1>2. CASE R # {}
  <2> DEFINE S == {r.id : r \in R}
  <2>1. S \in SUBSET Nat /\ S # {} /\ \A x \in S : x <= b
    BY <1>2 DEF Row
  <2> HIDE DEF S
  <2>2. PICK m \in S : \A x \in S : x <= m
    BY <2>1, BoundedHasMax
  <2>3. \A r \in R : r.id <= m
    BY <2>2 DEF S
  <2>4. TopId(R) \in S /\ \A r \in R : r.id <= TopId(R)
    BY <1>2, <2>2, <2>3 DEF TopId, S
  <2>5. QED
    BY <2>1, <2>4 DEF S
<1>3. QED
  BY <1>1, <1>2

(* What a query selects past a frontier: of a later row selected, every     *)
(* earlier one past the frontier too.                                       *)
LEMMA SelectedPrefix ==
  ASSUME NEW t \in Tables, NEW last \in Nat, rows[t] \in SUBSET Row, IsFiniteSet(rows[t]),
         NEW r \in Selected(t, last), NEW q \in rows[t], q.id > last, q.id <= r.id
  PROVE  q \in Selected(t, last)
<1> DEFINE Upto(x) == {y \in Fresh(t, last) : y.id <= x.id}
<1>1. Fresh(t, last) \subseteq rows[t] /\ IsFiniteSet(Fresh(t, last))
  BY FS_Subset DEF Fresh
<1>2. q \in Fresh(t, last) /\ r \in Fresh(t, last)
  BY DEF Fresh, Selected
<1>3. Upto(q) \subseteq Upto(r) /\ Upto(r) \subseteq Fresh(t, last)
  <2>1. \A y \in Fresh(t, last) : y.id \in Nat
    BY <1>1 DEF Row
  <2>2. QED
    BY <1>2, <2>1
<1>4. IsFiniteSet(Upto(r)) /\ IsFiniteSet(Upto(q))
  BY <1>1, <1>3, FS_Subset
<1>5. /\ Cardinality(Upto(q)) <= Cardinality(Upto(r))
      /\ Cardinality(Upto(q)) \in Nat /\ Cardinality(Upto(r)) \in Nat
  BY <1>3, <1>4, FS_Subset, FS_CardinalityType
<1>6. Cardinality(Upto(r)) <= Batch
  BY DEF Selected
<1>7. Cardinality(Upto(q)) <= Batch
  BY <1>5, <1>6, ShipAssumption
<1>8. QED
  BY <1>2, <1>7 DEF Selected

----------------------------------------------------------------------------
(* Types.                                                                   *)

(* A drain that has not begun, and one that has.                            *)
LEMMA IdleOK ==
  /\ NoBody \in Bodies /\ Idle \in Drains
  /\ \A H \in SUBSET Hubs : [Idle EXCEPT !.pc = "init", !.active = H] \in Drains
<1>1. NoBody \in Bodies
  BY DEF NoBody, Bodies
<1>2. Idle \in Drains
  BY <1>1 DEF Idle, Drains
<1>3. QED
  BY <1>1, <1>2 DEF Idle, Drains

(* Requests a shipper left behind are requests nobody waits for.            *)
LEMMA OrphanedOK ==
  ASSUME wire \in SUBSET Requests, NEW s \in Shippers
  PROVE  /\ Orphaned(s) \in SUBSET Requests
         /\ \A q \in Orphaned(s) : \E w \in wire :
              /\ q.hub = w.hub /\ q.body = w.body
              /\ q.by = Nobody \/ (q = w /\ q.by # s)
<1> SUFFICES ASSUME NEW w \in wire,
                    NEW q, q = IF w.by = s THEN [w EXCEPT !.by = Nobody] ELSE w
             PROVE  /\ q \in Requests /\ q.hub = w.hub /\ q.body = w.body
                    /\ q.by = Nobody \/ (q = w /\ q.by # s)
  BY DEF Orphaned
<1>1. CASE w.by = s
  BY <1>1 DEF Requests
<1>2. CASE w.by # s
  BY <1>2 DEF Requests
<1>3. QED
  BY <1>1, <1>2

LEMMA InitType == ASSUME Init PROVE ShipTypeOK
<1> USE ShipAssumption, IdleOK
<1>1. rows \in Bodies /\ cursor \in [Hubs -> [Tables -> Nat]] /\ top \in [Tables -> Nat]
  BY DEF Init, Bodies
<1>2. conf \in SUBSET Hubs /\ counts \in [rows: Nat, failures: Nat, restarts: Nat, reloads: Nat, byhand: Nat]
  <2>1. PICK a \in Starts :
          /\ conf = a.conf
          /\ counts = [rows |-> 0, failures |-> 0, restarts |-> 0, reloads |-> a.reloads,
                       byhand |-> a.byhand]
    BY DEF Init
  <2>2. a.conf \in SUBSET Hubs /\ a.reloads \in Nat /\ a.byhand \in Nat
    <3>1. a \in [conf : SUBSET Hubs, reloads : Nat, byhand : Nat]
      OBVIOUS
    <3>2. QED
      BY <3>1
  <2>3. QED
    BY <2>1, <2>2
<1>3. ship \in [Shippers -> Drains] /\ wire \in SUBSET Requests /\ reused \in BOOLEAN
  BY DEF Init
<1>4. store \in [Hubs -> Bodies] /\ logged \in [Hubs -> Nat]
  BY DEF Init, Bodies
<1>5. tick \in [pending: BOOLEAN, seen: Nat \cup {NoMark}, due: BOOLEAN, inflight: BOOLEAN]
  BY DEF Init, Started, NoMark
<1>6. QED
  BY <1>1, <1>2, <1>3, <1>4, <1>5 DEF ShipTypeOK

(* What a table of the node or a body in it holds, bounded by top.          *)
LEMMA RowsBounded ==
  ASSUME ShipTypeOK, Bounded, NEW t \in Tables
  PROVE  /\ rows[t] \in SUBSET Row /\ top[t] \in Nat
         /\ \A r \in rows[t] : r.id >= 1 /\ r.id <= top[t]
         /\ TopId(rows[t]) \in Nat
         /\ \A r \in rows[t] : r.id <= TopId(rows[t])
<1>1. rows[t] \in SUBSET Row /\ top[t] \in Nat
  BY DEF ShipTypeOK, Bodies
<1>2. \A r \in rows[t] : r.id >= 1 /\ r.id <= top[t]
  BY DEF Bounded, Known
<1>3. QED
  BY <1>1, <1>2, TopIdIsMax

----------------------------------------------------------------------------
(* Types after every action.                                                *)

LEMMA InsertType ==
  ASSUME ShipTypeOK, Bounded, NEW t \in Tables, NEW loud \in BOOLEAN, Insert(t, loud)
  PROVE  ShipTypeOK'
<1> DEFINE id == NextId(t)
           row == [id |-> id, n |-> counts.rows + 1, loud |-> loud]
<1>1. id \in Nat /\ row \in Row
  BY RowsBounded DEF NextId, Row, ShipTypeOK
<1>2. /\ rows' = [rows EXCEPT ![t] = @ \cup {row}]
      /\ top' = [top EXCEPT ![t] = IF id > @ THEN id ELSE @]
      /\ reused' = (reused \/ id <= top[t])
      /\ counts' = [counts EXCEPT !.rows = @ + 1]
  BY DEF Insert
<1> HIDE DEF id, row
<1>3. rows' \in Bodies
  BY <1>1, <1>2 DEF ShipTypeOK, Bodies
<1>4. top' \in [Tables -> Nat]
  BY <1>1, <1>2 DEF ShipTypeOK
<1>5. counts' \in [rows: Nat, failures: Nat, restarts: Nat, reloads: Nat, byhand: Nat]
  BY <1>2 DEF ShipTypeOK
<1>6. reused' \in BOOLEAN
  BY <1>2 DEF ShipTypeOK
<1>7. UNCHANGED <<cursor, conf, ship, tick, wire, store, logged>>
  BY DEF Insert
<1>8. QED
  BY <1>3, <1>4, <1>5, <1>6, <1>7 DEF ShipTypeOK

LEMMA PruneType == ASSUME ShipTypeOK, NEW c, Prune(c) PROVE ShipTypeOK'
<1>1. rows' \in Bodies
  BY DEF Prune, ShipTypeOK, Bodies
<1>2. QED
  BY <1>1 DEF Prune, ShipTypeOK

LEMMA CleanedType == ASSUME ShipTypeOK PROVE Cleaned \in [Hubs -> [Tables -> Nat]]
BY DEF ShipTypeOK, Cleaned

LEMMA OutsideType ==
  ASSUME ShipTypeOK, (\E H \in SUBSET Hubs : Reload(H)) \/ Deadline \/ Restart
  PROVE  ShipTypeOK'
<1>1. ASSUME NEW H \in SUBSET Hubs, Reload(H) PROVE ShipTypeOK'
  <2>1. counts' \in [rows: Nat, failures: Nat, restarts: Nat, reloads: Nat, byhand: Nat]
    BY <1>1 DEF Reload, ShipTypeOK
  <2>2. QED
    BY <1>1, <2>1 DEF Reload, ShipTypeOK
<1>2. ASSUME Deadline PROVE ShipTypeOK'
  <2>1. tick' \in [pending: BOOLEAN, seen: Nat \cup {NoMark}, due: BOOLEAN, inflight: BOOLEAN]
    BY <1>2 DEF Deadline, ShipTypeOK
  <2>2. QED
    BY <1>2, <2>1 DEF Deadline, ShipTypeOK
<1>3. ASSUME Restart PROVE ShipTypeOK'
  <2>1. counts' \in [rows: Nat, failures: Nat, restarts: Nat, reloads: Nat, byhand: Nat]
    BY <1>3 DEF Restart, ShipTypeOK
  <2>2. ship' \in [Shippers -> Drains]
    BY <1>3, IdleOK DEF Restart, ShipTypeOK
  <2>3. tick' \in [pending: BOOLEAN, seen: Nat \cup {NoMark}, due: BOOLEAN, inflight: BOOLEAN]
    BY <1>3 DEF Restart, Started, NoMark
  <2>4. wire' \in SUBSET Requests
    BY <1>3, OrphanedOK, ShipAssumption DEF Restart, ShipTypeOK
  <2>5. cursor' \in [Hubs -> [Tables -> Nat]]
    BY <1>3, CleanedType DEF Restart
  <2>6. QED
    BY <1>3, <2>1, <2>2, <2>3, <2>4, <2>5 DEF Restart, ShipTypeOK
<1>4. QED
  BY <1>1, <1>2, <1>3

(* Launching a drain and ending one.                                        *)
LEMMA LaunchType ==
  ASSUME ShipTypeOK, Bounded, Tick \/ ShipByHand PROVE ShipTypeOK'
<1>1. ASSUME NEW s \in Shippers, Launch(s) PROVE ship' \in [Shippers -> Drains]
  BY <1>1, IdleOK DEF Launch, ShipTypeOK
<1>2. ASSUME Tick PROVE ShipTypeOK'
  <2>1. TopId(rows[Events]) \in Nat
    BY RowsBounded, ShipAssumption
  <2>2. CASE UNCHANGED svars
    BY <2>2 DEF svars, ShipTypeOK, Drains, Requests
  <2>3. CASE conf # {} /\ (ElevatedPending \/ tick.due) /\ ~tick.inflight
    <3>1. Launch("thread") /\ tick' = [pending |-> FALSE, seen |-> TopId(rows[Events]),
                                       due |-> FALSE, inflight |-> TRUE]
      BY <1>2, <2>3 DEF Tick
    <3>2. tick' \in [pending: BOOLEAN, seen: Nat \cup {NoMark}, due: BOOLEAN, inflight: BOOLEAN]
      BY <2>1, <3>1
    <3>3. ship' \in [Shippers -> Drains]
      BY <1>1, <3>1, ShipAssumption
    <3>4. UNCHANGED <<rows, cursor, conf, wire, store, logged, counts, top, reused>>
      BY <1>2, <2>3 DEF Tick
    <3>5. QED
      BY <3>2, <3>3, <3>4 DEF ShipTypeOK
  <2>4. CASE conf # {} /\ ~ ((ElevatedPending \/ tick.due) /\ ~tick.inflight)
    <3>1. tick' = [tick EXCEPT !.pending = ElevatedPending, !.seen = TopId(rows[Events])]
      BY <1>2, <2>4 DEF Tick
    <3>2. ElevatedPending \in BOOLEAN
      BY DEF ElevatedPending, ShipTypeOK
    <3> HIDE DEF ElevatedPending
    <3>3. tick' \in [pending: BOOLEAN, seen: Nat \cup {NoMark}, due: BOOLEAN, inflight: BOOLEAN]
      BY <2>1, <3>1, <3>2 DEF ShipTypeOK
    <3>4. UNCHANGED <<rows, cursor, conf, ship, wire, store, logged, counts, top, reused>>
      BY <1>2, <2>4 DEF Tick
    <3>5. QED
      BY <3>3, <3>4 DEF ShipTypeOK
  <2>5. QED
    BY <1>2, <2>2, <2>3, <2>4 DEF Tick
<1>3. ASSUME ShipByHand PROVE ShipTypeOK'
  <2>1. ship' \in [Shippers -> Drains]
    BY <1>1, <1>3 DEF ShipByHand
  <2>2. counts' \in [rows: Nat, failures: Nat, restarts: Nat, reloads: Nat, byhand: Nat]
    BY <1>3 DEF ShipByHand, ShipTypeOK
  <2>3. QED
    BY <1>3, <2>1, <2>2 DEF ShipByHand, ShipTypeOK
<1>4. QED
  BY <1>2, <1>3

(* The fields of a drain.                                                   *)
LEMMA DrainFields ==
  ASSUME ShipTypeOK, NEW s \in Shippers
  PROVE  /\ ship[s] \in Drains
         /\ ship[s].active \in SUBSET Hubs /\ ship[s].groups \in SUBSET SUBSET Hubs
         /\ ship[s].members \in SUBSET Hubs /\ ship[s].dest \in SUBSET Hubs
         /\ ship[s].body \in Bodies
BY DEF ShipTypeOK, Drains

LEMMA EndedType ==
  ASSUME ShipTypeOK, NEW s \in Shippers, Ended(s)
  PROVE  /\ ship' \in [Shippers -> Drains]
         /\ tick' \in [pending: BOOLEAN, seen: Nat \cup {NoMark}, due: BOOLEAN, inflight: BOOLEAN]
BY IdleOK DEF Ended, ShipTypeOK

LEMMA FailsType ==
  ASSUME ShipTypeOK, Fails
  PROVE  counts' \in [rows: Nat, failures: Nat, restarts: Nat, reloads: Nat, byhand: Nat]
BY DEF Fails, ShipTypeOK

LEMMA OnwardType ==
  ASSUME NEW d \in Drains PROVE Onward(d) \in Drains
<1>1. CASE d.members # {}
  BY <1>1 DEF Onward, Drains
<1>2. CASE d.members = {}
  BY <1>2, IdleOK DEF Onward, Drains
<1>3. QED
  BY <1>1, <1>2

(* A body gathered from any frontier is a body.                             *)
LEMMA GatherType ==
  ASSUME ShipTypeOK, NEW s \in Shippers, NEW G \in ship[s].groups, NEW h \in G,
         Gather(s, G, h) \/ \E u \in Tables : GatherWithout(s, G, h, u)
  PROVE  /\ ShipTypeOK'
         /\ \E body \in Bodies : Gathered(s, G, body)
<1>1. \A t \in Tables : \A last : Selected(t, last) \in SUBSET Row
  BY DEF Selected, Fresh, ShipTypeOK, Bodies
<1>2. PICK body \in Bodies : Gathered(s, G, body)
  <2>1. CASE Gather(s, G, h)
    <3>1. [t \in Tables |-> Selected(t, cursor[h][t])] \in Bodies
      BY <1>1 DEF Bodies
    <3>2. QED
      BY <2>1, <3>1 DEF Gather
  <2>2. ASSUME NEW u \in Tables, GatherWithout(s, G, h, u)
        PROVE  \E body \in Bodies : Gathered(s, G, body)
    <3>1. [t \in Tables |-> IF t = u THEN {} ELSE Selected(t, cursor[h][t])] \in Bodies
      BY <1>1 DEF Bodies
    <3>2. QED
      BY <2>2, <3>1 DEF GatherWithout
  <2>3. QED
    BY <2>1, <2>2
<1>3. ship' \in [Shippers -> Drains]
  <2>1. G \in SUBSET Hubs
    BY DrainFields
  <2> DEFINE d == [ship[s] EXCEPT !.groups = @ \ {G},
                     !.pc = IF body = NoBody THEN "drain" ELSE "post",
                     !.members = IF body = NoBody THEN {} ELSE G,
                     !.body = body]
  <2>2. /\ ship[s] \in Drains /\ ship[s].groups \ {G} \in SUBSET SUBSET Hubs
        /\ (IF body = NoBody THEN {} ELSE G) \in SUBSET Hubs
    BY <2>1, DrainFields
  <2>3. d \in Drains
    BY <2>2 DEF Drains
  <2>4. ship' = [ship EXCEPT ![s] = d]
    BY <1>2 DEF Gathered
  <2>5. QED
    BY <2>3, <2>4 DEF ShipTypeOK
<1>4. counts' \in [rows: Nat, failures: Nat, restarts: Nat, reloads: Nat, byhand: Nat]
  BY FailsType DEF Gather, GatherWithout, ShipTypeOK
<1>5. UNCHANGED <<rows, cursor, conf, tick, wire, store, logged, top, reused>>
  BY DEF Gather, GatherWithout
<1>6. ShipTypeOK'
  BY <1>3, <1>4, <1>5 DEF ShipTypeOK
<1>7. QED
  BY <1>2, <1>6

LEMMA PostType ==
  ASSUME ShipTypeOK, NEW s \in Shippers, NEW h \in ship[s].members, Post(s, h)
  PROVE  ShipTypeOK'
<1>1. h \in Hubs
  BY DrainFields
<1>2. ship' \in [Shippers -> Drains]
  <2>1. [ship[s] EXCEPT !.pc = "wait", !.dest = {h}, !.members = @ \ {h}] \in Drains
    BY <1>1, DrainFields DEF Drains
  <2>2. QED
    BY <2>1 DEF Post, ShipTypeOK
<1>3. wire' \in SUBSET Requests
  BY <1>1, DrainFields DEF Post, Requests, ShipTypeOK
<1>4. QED
  BY <1>2, <1>3 DEF Post, ShipTypeOK

LEMMA ConfirmType ==
  ASSUME ShipTypeOK, Bounded, NEW s \in Shippers, Confirm(s)
  PROVE  ShipTypeOK'
<1>1. \A t \in Tables : TopId(ship[s].body[t]) \in Nat
  <2> TAKE t \in Tables
  <2>1. ship[s].body[t] \in SUBSET Row /\ top[t] \in Nat
    BY DrainFields DEF Bodies, ShipTypeOK
  <2>2. \A r \in ship[s].body[t] : r.id <= top[t]
    <3>1. ship[s].body[t] \subseteq Known(t)
      BY DEF Known
    <3>2. \A r \in Known(t) : r.id <= top[t]
      BY DEF Bounded
    <3>3. QED
      BY <3>1, <3>2
  <2>3. QED
    BY <2>1, <2>2, TopIdIsMax
<1>2. cursor' \in [Hubs -> [Tables -> Nat]]
  BY <1>1 DEF Confirm, ShipTypeOK
<1>3. ship' \in [Shippers -> Drains]
  <2>1. ship[s] \in Drains /\ [ship[s] EXCEPT !.active = @ \cup ship[s].dest] \in Drains
    BY DrainFields DEF Drains
  <2>2. QED
    BY <2>1, OnwardType DEF Confirm, ShipTypeOK
<1>4. QED
  BY <1>2, <1>3 DEF Confirm, ShipTypeOK

LEMMA RestType ==
  ASSUME ShipTypeOK, NEW s \in Shippers,
         InitState(s) \/ NextRound(s) \/ Finish(s) \/ Abort(s) \/ GiveUp(s)
  PROVE  ShipTypeOK'
<1>1. CASE InitState(s)
  <2>1. [ship[s] EXCEPT !.pc = "drain"] \in Drains
    <3>1. ship[s] \in Drains
      BY DrainFields
    <3>2. QED
      BY <3>1 DEF Drains
  <2>a. ship' \in [Shippers -> Drains]
    BY <1>1, <2>1 DEF InitState, ShipTypeOK
  <2>2. QED
    BY <1>1, <2>a, CleanedType DEF InitState, ShipTypeOK
<1>2. CASE NextRound(s)
  <2>1. Groups(ship[s].active) \in SUBSET SUBSET Hubs
    BY DrainFields DEF Groups
  <2>2. [ship[s] EXCEPT !.groups = Groups(ship[s].active), !.active = {}] \in Drains
    <3>1. ship[s] \in Drains
      BY DrainFields
    <3>2. QED
      BY <2>1, <3>1 DEF Drains
  <2>3. ship' \in [Shippers -> Drains]
    BY <1>2, <2>2 DEF NextRound, ShipTypeOK
  <2>4. QED
    BY <1>2, <2>3 DEF NextRound, ShipTypeOK
<1>3. CASE Finish(s)
  BY <1>3, EndedType DEF Finish, ShipTypeOK
<1>4. CASE Abort(s)
  BY <1>4, EndedType, FailsType DEF Abort, ShipTypeOK
<1>5. CASE GiveUp(s)
  <2>1. ship' \in [Shippers -> Drains]
    BY <1>5, DrainFields, OnwardType DEF GiveUp, ShipTypeOK
  <2>2. wire' \in SUBSET Requests
    BY <1>5, OrphanedOK DEF GiveUp, ShipTypeOK
  <2>3. QED
    BY <1>5, <2>1, <2>2, FailsType DEF GiveUp, ShipTypeOK
<1>6. QED
  BY <1>1, <1>2, <1>3, <1>4, <1>5

(* A union over finitely many tables of finite sets is finite.              *)
LEMMA FiniteOverTables ==
  ASSUME IsFiniteSet(Tables), NEW f, f = [t \in Tables |-> f[t]],
         \A t \in Tables : IsFiniteSet(f[t])
  PROVE  IsFiniteSet(UNION {f[t] : t \in Tables})
<1> DEFINE parts == {f[t] : t \in Tables}
<1>1. f \in Surjection(Tables, parts)
  BY DEF Surjection
<1>2. IsFiniteSet(parts)
  BY <1>1, FS_Surjection, FS_NatSurjection DEF ExistsSurjection
<1>3. QED
  BY <1>2, FS_UNION

LEMMA HubType ==
  ASSUME ShipTypeOK, Bounded, NEW q \in wire, HubIngest(q) \/ HubRefuses(q)
  PROVE  ShipTypeOK'
<1>1. q \in Requests /\ q.hub \in Hubs /\ q.body \in Bodies /\ q.by \in Shippers \cup {Nobody}
  BY DEF ShipTypeOK, Requests
<1>2. wire' \in SUBSET Requests
  BY DEF HubIngest, HubRefuses, ShipTypeOK
<1>3. CASE HubIngest(q)
  <2>1. store' \in [Hubs -> Bodies]
    BY <1>1, <1>3 DEF HubIngest, ShipTypeOK, Bodies
  <2>2. ship' \in [Shippers -> Drains]
    <3>1. CASE q.by = Nobody
      BY <1>3, <3>1 DEF HubIngest, ShipTypeOK
    <3>2. CASE q.by # Nobody
      <4>1. q.by \in Shippers /\ ship[q.by] \in Drains
        BY <1>1, <3>2, DrainFields
      <4>2. [ship[q.by] EXCEPT !.pc = "answered"] \in Drains
        BY <4>1 DEF Drains
      <4>3. QED
        BY <1>3, <3>2, <4>1, <4>2 DEF HubIngest, ShipTypeOK
    <3>3. QED
      BY <3>1, <3>2
  <2>3. logged' \in [Hubs -> Nat]
    <3> DEFINE f == [t \in Tables |-> Inserted(q.hub, t, q.body)]
               new == UNION {Inserted(q.hub, t, q.body) : t \in Tables}
    <3>1. \A t \in Tables : IsFiniteSet(f[t])
      <4> TAKE t \in Tables
      <4>1. f[t] \subseteq q.body[t] /\ q.body[t] \subseteq Known(t)
        BY DEF Inserted, Known
      <4>2. IsFiniteSet(Known(t))
        BY DEF Bounded
      <4>3. QED
        BY <4>1, <4>2, FS_Subset
    <3>2. new = UNION {f[t] : t \in Tables} /\ f = [t \in Tables |-> f[t]]
      OBVIOUS
    <3> HIDE DEF f
    <3>3. IsFiniteSet(new)
      BY <3>1, <3>2, FiniteOverTables, ShipAssumption
    <3>4. Cardinality(new) \in Nat
      BY <3>3, FS_CardinalityType
    <3>5. logged' = [logged EXCEPT ![q.hub] = @ + Cardinality(new)]
      BY <1>3 DEF HubIngest
    <3>6. QED
      BY <1>1, <3>4, <3>5 DEF ShipTypeOK
  <2>4. QED
    BY <1>2, <1>3, <2>1, <2>2, <2>3 DEF HubIngest, ShipTypeOK
<1>4. CASE HubRefuses(q)
  <2>1. ship' \in [Shippers -> Drains]
    <3>1. CASE q.by = Nobody
      BY <1>4, <3>1 DEF HubRefuses, ShipTypeOK
    <3>2. CASE q.by # Nobody
      <4>1. q.by \in Shippers /\ Onward(ship[q.by]) \in Drains
        BY <1>1, <3>2, DrainFields, OnwardType
      <4>2. QED
        BY <1>4, <3>2, <4>1 DEF HubRefuses, ShipTypeOK
    <3>3. QED
      BY <3>1, <3>2
  <2>2. counts' \in [rows: Nat, failures: Nat, restarts: Nat, reloads: Nat, byhand: Nat]
    BY <1>4, FailsType DEF HubRefuses
  <2>3. QED
    BY <1>2, <1>4, <2>1, <2>2 DEF HubRefuses, ShipTypeOK
<1>5. QED
  BY <1>3, <1>4

----------------------------------------------------------------------------
(* Where rows come from: every step but an insert only moves or drops them. *)

Calm ==
  /\ \A t \in Tables : rows'[t] \subseteq rows[t] /\ Known(t)' \subseteq Known(t)
  /\ \A h \in Hubs, t \in Tables : store[h][t] \subseteq store'[h][t]
  /\ UNCHANGED <<top, reused>>

(* No new body sets out.                                                    *)
Shrinks ==
  /\ \A z \in Shippers : ship'[z].body = ship[z].body \/ ship'[z].body = NoBody
  /\ \A q \in wire' : \E w \in wire : q.body = w.body

LEMMA KnownParts ==
  ASSUME NEW t \in Tables
  PROVE  /\ rows[t] \subseteq Known(t)
         /\ \A h \in Hubs : store[h][t] \subseteq Known(t)
         /\ \A s \in Shippers : ship[s].body[t] \subseteq Known(t)
         /\ \A q \in wire : q.body[t] \subseteq Known(t)
BY DEF Known

LEMMA KnownNext ==
  ASSUME NEW t \in Tables, NEW K,
         rows'[t] \subseteq K, \A h \in Hubs : store'[h][t] \subseteq K,
         \A s \in Shippers : ship'[s].body[t] \subseteq K,
         \A q \in wire' : q.body[t] \subseteq K
  PROVE  Known(t)' \subseteq K
<1> SUFFICES ASSUME NEW r \in Known(t)' PROVE r \in K
  OBVIOUS
<1>1. \/ r \in rows'[t] \/ \E h \in Hubs : r \in store'[h][t]
      \/ \E s \in Shippers : r \in ship'[s].body[t]
      \/ \E q \in wire' : r \in q.body[t]
  BY DEF Known
<1>2. QED
  BY <1>1

(* Most steps write to no hub and carry no new body.                        *)
LEMMA CalmIf ==
  ASSUME \A t \in Tables : rows'[t] \subseteq rows[t], UNCHANGED <<store, top, reused>>,
         \A z \in Shippers : ship'[z].body = ship[z].body \/ ship'[z].body = NoBody,
         \A q \in wire' : \E w \in wire : q.body = w.body
  PROVE  Calm
<1>1. ASSUME NEW t \in Tables PROVE Known(t)' \subseteq Known(t)
  <2> DEFINE K == Known(t)
  <2>1. rows[t] \subseteq K /\ (\A h \in Hubs : store[h][t] \subseteq K)
        /\ (\A s \in Shippers : ship[s].body[t] \subseteq K)
        /\ (\A q \in wire : q.body[t] \subseteq K)
    BY KnownParts
  <2> HIDE DEF K
  <2>2. \A s \in Shippers : ship'[s].body[t] \subseteq K
    BY <2>1 DEF NoBody
  <2>3. \A q \in wire' : q.body[t] \subseteq K
    BY <2>1
  <2>4. rows'[t] \subseteq K /\ \A h \in Hubs : store'[h][t] \subseteq K
    BY <2>1
  <2>5. Known(t)' \subseteq K
    BY <2>2, <2>3, <2>4, KnownNext
  <2>6. QED
    BY <2>5 DEF K
<1>2. QED
  BY <1>1 DEF Calm

(* Gather takes its body from the rows the node holds.                        *)
LEMMA GatherBody ==
  ASSUME ShipTypeOK, NEW s \in Shippers, NEW G \in ship[s].groups, NEW h \in G,
         Gather(s, G, h) \/ \E u \in Tables : GatherWithout(s, G, h, u)
  PROVE  /\ \A z \in Shippers \ {s} : ship'[z] = ship[z]
         /\ \A t \in Tables : ship'[s].body[t] \subseteq rows[t]
<1>1. \A t \in Tables : \A last : Selected(t, last) \subseteq rows[t]
  BY DEF Selected, Fresh
<1>2. ASSUME NEW body, Gathered(s, G, body)
      PROVE  (\A z \in Shippers \ {s} : ship'[z] = ship[z]) /\ ship'[s].body = body
  BY <1>2 DEF Gathered, ShipTypeOK, Drains
<1>3. CASE Gather(s, G, h)
  BY <1>1, <1>2, <1>3 DEF Gather
<1>4. ASSUME NEW u \in Tables, GatherWithout(s, G, h, u)
      PROVE  /\ \A z \in Shippers \ {s} : ship'[z] = ship[z]
             /\ \A t \in Tables : ship'[s].body[t] \subseteq rows[t]
  BY <1>1, <1>2, <1>4 DEF GatherWithout
<1>5. QED
  BY <1>3, <1>4

LEMMA GatherCalm ==
  ASSUME ShipTypeOK, NEW s \in Shippers, NEW G \in ship[s].groups, NEW h \in G,
         Gather(s, G, h) \/ \E u \in Tables : GatherWithout(s, G, h, u)
  PROVE  Calm
<1>1. UNCHANGED <<rows, store, wire, top, reused>>
  BY DEF Gather, GatherWithout
<1>2. /\ \A z \in Shippers \ {s} : ship'[z] = ship[z]
      /\ \A t \in Tables : ship'[s].body[t] \subseteq rows[t]
  BY GatherBody
<1>3. ASSUME NEW t \in Tables PROVE Known(t)' \subseteq Known(t)
  <2> DEFINE K == Known(t)
  <2>1. rows[t] \subseteq K /\ (\A g \in Hubs : store[g][t] \subseteq K)
        /\ (\A z \in Shippers : ship[z].body[t] \subseteq K)
        /\ (\A q \in wire : q.body[t] \subseteq K)
    BY KnownParts
  <2> HIDE DEF K
  <2>2. \A z \in Shippers : ship'[z].body[t] \subseteq K
    BY <1>2, <2>1
  <2>3. Known(t)' \subseteq K
    BY <1>1, <2>1, <2>2, KnownNext
  <2>4. QED
    BY <2>3 DEF K
<1>4. QED
  BY <1>1, <1>3 DEF Calm

LEMMA PostCalm ==
  ASSUME ShipTypeOK, NEW s \in Shippers, NEW h \in ship[s].members, Post(s, h)
  PROVE  Calm
<1>1. UNCHANGED <<rows, store, top, reused>>
  BY DEF Post
<1>2. \A z \in Shippers : ship'[z].body = ship[z].body
  BY DEF Post, ShipTypeOK, Drains
<1>3. \A q \in wire' : q \in wire \/ q.body = ship[s].body
  BY DEF Post
<1>4. ASSUME NEW t \in Tables PROVE Known(t)' \subseteq Known(t)
  <2> DEFINE K == Known(t)
  <2>1. rows[t] \subseteq K /\ (\A g \in Hubs : store[g][t] \subseteq K)
        /\ (\A z \in Shippers : ship[z].body[t] \subseteq K)
        /\ (\A q \in wire : q.body[t] \subseteq K)
    BY KnownParts
  <2> HIDE DEF K
  <2>2. \A q \in wire' : q.body[t] \subseteq K
    BY <1>3, <2>1
  <2>3. Known(t)' \subseteq K
    BY <1>1, <1>2, <2>1, <2>2, KnownNext
  <2>4. QED
    BY <2>3 DEF K
<1>5. QED
  BY <1>1, <1>4 DEF Calm

LEMMA IngestCalm ==
  ASSUME ShipTypeOK, NEW q \in wire, HubIngest(q)
  PROVE  Calm
<1>1. UNCHANGED <<rows, top, reused>> /\ wire' \subseteq wire
  BY DEF HubIngest
<1>2. \A z \in Shippers : ship'[z].body = ship[z].body
  BY DEF HubIngest, ShipTypeOK, Drains
<1>3. \A h \in Hubs, t \in Tables :
        store[h][t] \subseteq store'[h][t] /\ store'[h][t] \subseteq store[h][t] \cup q.body[t]
  BY DEF HubIngest, ShipTypeOK, Requests
<1>4. ASSUME NEW t \in Tables PROVE Known(t)' \subseteq Known(t)
  <2> DEFINE K == Known(t)
  <2>1. rows[t] \subseteq K /\ (\A g \in Hubs : store[g][t] \subseteq K)
        /\ (\A z \in Shippers : ship[z].body[t] \subseteq K)
        /\ (\A w \in wire : w.body[t] \subseteq K)
    BY KnownParts
  <2> HIDE DEF K
  <2>2. \A g \in Hubs : store'[g][t] \subseteq K
    BY <1>3, <2>1
  <2>3. Known(t)' \subseteq K
    BY <1>1, <1>2, <2>1, <2>2, KnownNext
  <2>4. QED
    BY <2>3 DEF K
<1>5. QED
  BY <1>1, <1>3, <1>4 DEF Calm

----------------------------------------------------------------------------
(* What a calm step keeps.                                                  *)

LEMMA BoundedCalm ==
  ASSUME Bounded, Calm, \A h \in Hubs, t \in Tables : cursor'[h][t] <= top[t]
  PROVE  Bounded'
<1>1. \A t \in Tables : Known(t)' \subseteq Known(t) /\ top'[t] = top[t]
  BY DEF Calm
<1>2. \A t \in Tables : IsFiniteSet(Known(t)')
  BY <1>1, FS_Subset DEF Bounded
<1>3. \A t \in Tables : \A r \in Known(t)' : r.id >= 1 /\ r.id <= top'[t]
  BY <1>1 DEF Bounded
<1>4. \A h \in Hubs, t \in Tables : cursor'[h][t] <= top'[t]
  BY <1>1
<1>5. QED
  BY <1>2, <1>3, <1>4 DEF Bounded

LEMMA UniqueCalm ==
  ASSUME Core, Calm
  PROVE  \A t \in Tables : \A r, q \in Known(t)' : r.id = q.id => r = q
<1> TAKE t \in Tables
<1>1. Known(t)' \subseteq Known(t)
  BY DEF Calm
<1>2. \A r, q \in Known(t) : r.id = q.id => r = q
  BY DEF Core
<1>3. QED
  BY <1>1, <1>2

(* Cursors other than those a hub confirmed stay or are dropped.            *)
CursorsDrop ==
  \A h \in Hubs, t \in Tables : cursor'[h][t] = cursor[h][t] \/ cursor'[h][t] = 0

LEMMA DropBounded ==
  ASSUME ShipTypeOK, Bounded, CursorsDrop
  PROVE  \A h \in Hubs, t \in Tables : cursor'[h][t] <= top[t]
<1> TAKE h \in Hubs, t \in Tables
<1>1. cursor[h][t] <= top[t] /\ top[t] \in Nat
  BY DEF Bounded, ShipTypeOK
<1>2. QED
  BY <1>1 DEF CursorsDrop

LEMMA ConfirmedCalm ==
  ASSUME ShipTypeOK, Bounded, ~reused, ConfirmedIsStored, Calm, CursorsDrop
  PROVE  ConfirmedIsStored'
<1> SUFFICES ASSUME NEW h \in Hubs, NEW t \in Tables, NEW r \in rows'[t],
                    r.id <= cursor'[h][t]
             PROVE  r \in store'[h][t]
  BY DEF ConfirmedIsStored
<1>1. r \in rows[t] /\ store[h][t] \subseteq store'[h][t]
  BY DEF Calm
<1>2. r.id >= 1 /\ r.id \in Nat
  BY <1>1, RowsBounded DEF Row
<1>3. cursor'[h][t] = cursor[h][t]
  BY <1>2 DEF CursorsDrop
<1>4. QED
  BY <1>1, <1>3 DEF ConfirmedIsStored

LEMMA NoHoleCalm ==
  ASSUME NoHole, ~reused, Calm, UNCHANGED store
  PROVE  NoHole'
<1> SUFFICES ASSUME NEW h \in Hubs, NEW t \in Tables, NEW r \in rows'[t], NEW q \in rows'[t],
                    q.id < r.id, r \in store'[h][t]
             PROVE  q \in store'[h][t]
  BY DEF NoHole
<1>1. r \in rows[t] /\ q \in rows[t]
  BY DEF Calm
<1>2. QED
  BY <1>1 DEF NoHole

LEMMA CoveredCalm ==
  ASSUME Calm, NEW h \in Hubs, NEW body, Covered(h, body)
  PROVE  \A t \in Tables : \A r \in body[t], q \in rows'[t] :
           q.id <= r.id => q \in body[t] \/ q \in store'[h][t]
BY DEF Calm, Covered

LEMMA DrainCalm ==
  ASSUME ShipTypeOK, Calm, NEW z \in Shippers, DrainInv(z), ship'[z] = ship[z],
         \A G \in ship[z].groups : \A g, h \in G : cursor'[g] = cursor'[h]
  PROVE  DrainInv(z)'
<1> DEFINE d == ship[z]
<1>1. \A h \in d.members \cup d.dest : Covered(h, d.body)'
  <2> TAKE h \in d.members \cup d.dest
  <2>1. h \in Hubs /\ Covered(h, d.body)
    BY DrainFields DEF DrainInv
  <2>2. \A t \in Tables : \A r \in d.body[t], q \in rows'[t] :
           q.id <= r.id => q \in d.body[t] \/ q \in store'[h][t]
    BY <2>1, CoveredCalm
  <2>3. QED
    BY <2>2 DEF Covered
<1>2. d.pc = "answered" => \A h \in d.dest, t \in Tables : d.body[t] \subseteq store'[h][t]
  BY DrainFields DEF DrainInv, Calm
<1>3. QED
  BY <1>1, <1>2 DEF DrainInv

LEMMA WireCalm ==
  ASSUME ShipTypeOK, Calm, NEW q \in wire, WireInv(q),
         q.by # Nobody => ship'[q.by] = ship[q.by]
  PROVE  WireInv(q)'
<1>1. q.hub \in Hubs /\ Covered(q.hub, q.body)
  BY DEF WireInv, ShipTypeOK, Requests
<1>2. \A t \in Tables : \A r \in q.body[t], x \in rows'[t] :
        x.id <= r.id => x \in q.body[t] \/ x \in store'[q.hub][t]
  BY <1>1, CoveredCalm
<1>3. QED
  BY <1>2 DEF WireInv, Covered

----------------------------------------------------------------------------
(* A step of one shipper.                                                   *)

LEMMA StepCore ==
  ASSUME ShipTypeOK, NoRace, Core, Calm, NEW s \in Shippers,
         \A z \in Shippers \ {s} : ship'[z] = ship[z],
         DrainInv(s)', \A q \in wire' : WireInv(q)',
         Flight', ConfirmedIsStored', NoHole'
  PROVE  Core'
<1>1. ASSUME NEW z \in Shippers, z # s PROVE DrainInv(z)'
  <2>1. DrainInv(z) /\ ship'[z] = ship[z]
    BY <1>1 DEF Core
  <2>2. \A g, h \in Hubs : g = h
    BY <1>1 DEF NoRace
  <2>3. \A G \in ship[z].groups : \A g, h \in G : cursor'[g] = cursor'[h]
    BY <2>2, DrainFields
  <2>4. QED
    BY <2>1, <2>3, DrainCalm
<1>2. \A z \in Shippers : DrainInv(z)'
  BY <1>1
<1>3. QED
  BY <1>2, UniqueCalm DEF Core

(* A drain that holds nothing.                                              *)
Blank(d) == d.groups = {} /\ d.members = {} /\ d.dest = {} /\ d.pc # "answered"

LEMMA BlankDrain ==
  ASSUME NEW s \in Shippers, Blank(ship[s])'
  PROVE  DrainInv(s)'
BY DEF Blank, DrainInv

(* Requests that stay, of other shippers or left behind.                    *)
LEMMA WireStays ==
  ASSUME ShipTypeOK, Core, Calm, NEW s \in Shippers,
         \A z \in Shippers \ {s} : ship'[z] = ship[z],
         \A q \in wire' : \E w \in wire :
           /\ q.hub = w.hub /\ q.body = w.body
           /\ q.by = Nobody \/ (q = w /\ q.by # s)
  PROVE  \A q \in wire' : WireInv(q)'
<1> TAKE q \in wire'
<1>1. PICK w \in wire : /\ q.hub = w.hub /\ q.body = w.body
                        /\ q.by = Nobody \/ (q = w /\ q.by # s)
  OBVIOUS
<1>2. WireInv(w) /\ w.hub \in Hubs /\ w.by \in Shippers \cup {Nobody}
  BY DEF Core, ShipTypeOK, Requests
<1>3. \A t \in Tables : \A r \in w.body[t], x \in rows'[t] :
        x.id <= r.id => x \in w.body[t] \/ x \in store'[w.hub][t]
  BY <1>2, CoveredCalm DEF WireInv
<1>4. \A t \in Tables : \A r \in q.body[t], x \in rows'[t] :
        x.id <= r.id => x \in q.body[t] \/ x \in store'[q.hub][t]
  BY <1>1, <1>3
<1>5. q.by # Nobody => /\ ship'[q.by].pc = "wait" /\ ship'[q.by].dest = {q.hub}
                       /\ ship'[q.by].body = q.body
  BY <1>1, <1>2 DEF WireInv
<1>6. QED
  BY <1>4, <1>5 DEF WireInv, Covered

(* Of a shipper that does not wait, no request waits for an answer.         *)
LEMMA NotWaiting ==
  ASSUME Core, NEW s \in Shippers, ship[s].pc # "wait"
  PROVE  \A q \in wire : q.by # s
BY ShipAssumption DEF Core, WireInv, Nobody

(* Starting a drain and ending one, with the cursors as they are or cleaned.*)
LEMMA BlankCore ==
  ASSUME ShipTypeOK, Bounded, NoRace, Core, ~reused, Calm, CursorsDrop, UNCHANGED store,
         NEW s \in Shippers, \A z \in Shippers \ {s} : ship'[z] = ship[z],
         Blank(ship[s])', Flight',
         \A q \in wire' : \E w \in wire :
           /\ q.hub = w.hub /\ q.body = w.body
           /\ q.by = Nobody \/ (q = w /\ q.by # s)
  PROVE  Core'
<1>1. DrainInv(s)'
  BY BlankDrain
<1>2. \A q \in wire' : WireInv(q)'
  BY WireStays
<1>3. ConfirmedIsStored' /\ NoHole'
  BY ConfirmedCalm, NoHoleCalm DEF Core
<1>4. QED
  BY <1>1, <1>2, <1>3, StepCore

(* The steps that write to no hub and gather nothing.                       *)
Quiet(s) == InitState(s) \/ NextRound(s) \/ Finish(s) \/ Abort(s) \/ GiveUp(s)
Around ==
  \/ \E c \in 1 .. MaxRows : Prune(c)
  \/ \E H \in SUBSET Hubs : Reload(H)
  \/ Restart \/ Deadline \/ Tick \/ ShipByHand

LEMMA AroundCalm ==
  ASSUME ShipTypeOK, Around
  PROVE  Calm /\ CursorsDrop /\ Shrinks /\ UNCHANGED store
<1>1. /\ \A t \in Tables : rows'[t] \subseteq rows[t]
      /\ UNCHANGED <<store, top, reused>>
  <2>1. ASSUME NEW c, Prune(c)
        PROVE  (\A t \in Tables : rows'[t] \subseteq rows[t]) /\ UNCHANGED <<store, top, reused>>
    BY <2>1 DEF Prune, ShipTypeOK, Bodies
  <2>2. QED
    BY <2>1 DEF Around, Reload, Restart, Deadline, Tick, ShipByHand, svars
<1>2. CursorsDrop
  <2>1. CASE Restart
    BY <2>1 DEF Restart, Cleaned, CursorsDrop, ShipTypeOK
  <2>2. CASE ~Restart
    <3>1. cursor' = cursor
      BY <2>2 DEF Around, Prune, Reload, Deadline, Tick, ShipByHand, svars
    <3>2. QED
      BY <3>1 DEF CursorsDrop
  <2>3. QED
    BY <2>1, <2>2
<1>3. \A z \in Shippers : ship'[z].body = ship[z].body \/ ship'[z].body = NoBody
  <2>1. \/ UNCHANGED ship
        \/ \E s \in Shippers : Launch(s)
        \/ ship' = [ship EXCEPT !["thread"] = Idle]
    BY ShipAssumption DEF Around, Prune, Reload, Restart, Deadline, Tick, ShipByHand, svars
  <2>2. ASSUME NEW s \in Shippers, Launch(s)
        PROVE  \A z \in Shippers : ship'[z].body = ship[z].body \/ ship'[z].body = NoBody
    BY <2>2 DEF Launch, Idle, ShipTypeOK
  <2>3. CASE ship' = [ship EXCEPT !["thread"] = Idle]
    BY <2>3 DEF Idle, ShipTypeOK
  <2>4. QED
    BY <2>1, <2>2, <2>3
<1>4. \A q \in wire' : \E w \in wire : q.body = w.body
  <2>1. CASE Restart
    BY <2>1, OrphanedOK, ShipAssumption DEF Restart, ShipTypeOK
  <2>2. CASE ~Restart
    <3>1. wire' = wire
      BY <2>2 DEF Around, Prune, Reload, Deadline, Tick, ShipByHand, svars
    <3>2. QED
      BY <3>1
  <2>3. QED
    BY <2>1, <2>2
<1>5. QED
  BY <1>1, <1>2, <1>3, <1>4, CalmIf DEF Shrinks

LEMMA QuietCalm ==
  ASSUME ShipTypeOK, NEW s \in Shippers, Quiet(s)
  PROVE  Calm /\ CursorsDrop /\ Shrinks /\ UNCHANGED store
<1>1. UNCHANGED <<rows, store, top, reused>>
  BY DEF Quiet, InitState, NextRound, Finish, Abort, GiveUp
<1>2. CursorsDrop
  <2>1. CASE InitState(s)
    BY <2>1 DEF InitState, Cleaned, CursorsDrop, ShipTypeOK
  <2>2. CASE ~InitState(s)
    <3>1. cursor' = cursor
      BY <2>2 DEF Quiet, NextRound, Finish, Abort, GiveUp
    <3>2. QED
      BY <3>1 DEF CursorsDrop
  <2>3. QED
    BY <2>1, <2>2
<1>3. \A z \in Shippers : ship'[z].body = ship[z].body \/ ship'[z].body = NoBody
  <2>1. CASE InitState(s)
    BY <2>1 DEF InitState, ShipTypeOK, Drains
  <2>2. CASE NextRound(s)
    BY <2>2 DEF NextRound, ShipTypeOK, Drains
  <2>3. CASE Finish(s) \/ Abort(s)
    BY <2>3 DEF Finish, Abort, Ended, Idle, ShipTypeOK
  <2>4. CASE GiveUp(s)
    <3>1. Onward(ship[s]).body \in {ship[s].body, NoBody}
      <4>1. CASE ship[s].members # {}
        BY <4>1, DrainFields DEF Onward, Drains
      <4>2. CASE ship[s].members = {}
        BY <4>2, DrainFields DEF Onward, Drains
      <4>3. QED
        BY <4>1, <4>2
    <3>2. ship' = [ship EXCEPT ![s] = Onward(ship[s])]
      BY <2>4 DEF GiveUp
    <3>3. QED
      BY <3>1, <3>2 DEF ShipTypeOK
  <2>5. QED
    BY <2>1, <2>2, <2>3, <2>4 DEF Quiet
<1>4. \A q \in wire' : \E w \in wire : q.body = w.body
  <2>1. CASE GiveUp(s)
    BY <2>1, OrphanedOK DEF GiveUp, ShipTypeOK
  <2>2. CASE ~GiveUp(s)
    <3>1. wire' = wire
      BY <2>2 DEF Quiet, InitState, NextRound, Finish, Abort
    <3>2. QED
      BY <3>1
  <2>3. QED
    BY <2>1, <2>2
<1>5. QED
  BY <1>1, <1>2, <1>3, <1>4, CalmIf DEF Shrinks

(* While no shipper moves.                                                  *)
LEMMA StillCore ==
  ASSUME ShipTypeOK, Bounded, NoRace, Core, ~reused, Calm, CursorsDrop,
         UNCHANGED <<store, ship, cursor, wire>>, Flight'
  PROVE  Core'
<1>1. "thread" \in Shippers
  BY ShipAssumption
<1>2. DrainInv("thread")'
  BY <1>1, DrainCalm DEF Core, DrainInv
<1>3. \A q \in wire' : WireInv(q)'
  BY WireCalm DEF Core
<1>4. ConfirmedIsStored' /\ NoHole'
  BY ConfirmedCalm, NoHoleCalm DEF Core
<1>5. QED
  BY <1>1, <1>2, <1>3, <1>4, StepCore

(* The steps of the collector's own thread.                                 *)
LEMMA AroundCore ==
  ASSUME ShipTypeOK, Bounded, NoRace, Core, ~reused, Around
  PROVE  Core'
<1>1. Calm /\ CursorsDrop /\ UNCHANGED store
  BY AroundCalm
<1>2. ASSUME (\E c \in 1 .. MaxRows : Prune(c)) \/ (\E H \in SUBSET Hubs : Reload(H)) \/ Deadline
      PROVE  Core'
  <2>1. UNCHANGED <<ship, cursor, wire>> /\ tick'.inflight = tick.inflight
    BY <1>2 DEF Prune, Reload, Deadline, ShipTypeOK
  <2>2. Flight'
    BY <2>1 DEF Core, Flight
  <2>3. QED
    BY <1>1, <2>1, <2>2, StillCore
<1>3. ASSUME NEW s \in Shippers, Launch(s), ship[s].pc = "idle", UNCHANGED <<cursor, wire>>, Flight'
      PROVE  Core'
  <2>1. /\ \A z \in Shippers \ {s} : ship'[z] = ship[z]
        /\ Blank(ship[s])'
    BY <1>3 DEF Launch, Blank, Idle, ShipTypeOK
  <2>2. \A q \in wire' : \E w \in wire :
           /\ q.hub = w.hub /\ q.body = w.body
           /\ q.by = Nobody \/ (q = w /\ q.by # s)
    BY <1>3, NotWaiting
  <2>3. QED
    BY <1>1, <1>3, <2>1, <2>2, BlankCore
<1>4. ASSUME Tick PROVE Core'
  <2>1. CASE conf # {} /\ (ElevatedPending \/ tick.due) /\ ~tick.inflight
    <3>1. /\ Launch("thread") /\ tick'.inflight
          /\ UNCHANGED <<cursor, wire>>
      BY <1>4, <2>1 DEF Tick
    <3>2. ship["thread"].pc = "idle" /\ Flight'
      BY <2>1, <3>1 DEF Core, Flight
    <3>3. QED
      BY <1>3, <3>1, <3>2, ShipAssumption
  <2>2. CASE ~ (conf # {} /\ (ElevatedPending \/ tick.due) /\ ~tick.inflight)
    <3>1. UNCHANGED <<ship, cursor, wire>> /\ tick'.inflight = tick.inflight
      BY <1>4, <2>2 DEF Tick, svars, ShipTypeOK
    <3>2. Flight'
      BY <3>1 DEF Core, Flight
    <3>3. QED
      BY <1>1, <3>1, <3>2, StillCore
  <2>3. QED
    BY <2>1, <2>2
<1>5. ASSUME ShipByHand PROVE Core'
  <2>1. /\ Launch("manual") /\ ship["manual"].pc = "idle" /\ "manual" \in Shippers
        /\ UNCHANGED <<cursor, wire, tick>>
    BY <1>5 DEF ShipByHand
  <2>2. Flight'
    BY <2>1, ShipAssumption DEF Core, Flight, Launch, ShipTypeOK
  <2>3. QED
    BY <1>3, <2>1, <2>2
<1>6. ASSUME Restart PROVE Core'
  <2>1. /\ \A z \in Shippers \ {"thread"} : ship'[z] = ship[z]
        /\ Blank(ship["thread"])' /\ ship'["thread"].pc = "idle"
    BY <1>6, ShipAssumption DEF Restart, Blank, Idle, ShipTypeOK
  <2>2. \A q \in wire' : \E w \in wire :
           /\ q.hub = w.hub /\ q.body = w.body
           /\ q.by = Nobody \/ (q = w /\ q.by # "thread")
    BY <1>6, OrphanedOK, ShipAssumption DEF Restart, ShipTypeOK
  <2>3. Flight'
    BY <2>1 DEF Flight
  <2>4. QED
    BY <1>1, <2>1, <2>2, <2>3, BlankCore, ShipAssumption
<1>7. QED
  BY <1>2, <1>4, <1>5, <1>6 DEF Around

----------------------------------------------------------------------------
(* The steps of a drain.                                                    *)

LEMMA FlightStep ==
  ASSUME Flight, NEW s \in Shippers, ship[s].pc # "idle",
         \A z \in Shippers \ {s} : ship'[z] = ship[z], tick'.inflight = tick.inflight
  PROVE  Flight'
BY ShipAssumption DEF Flight

(* After an answer, or none, the drain has its other members left.          *)
LEMMA OnwardInv ==
  ASSUME ShipTypeOK, Calm, NEW s \in Shippers, DrainInv(s),
         NEW d \in Drains, ship'[s] = Onward(d),
         d.groups = ship[s].groups, d.members = ship[s].members, d.body = ship[s].body,
         \A G \in ship[s].groups : \A g, h \in G : cursor'[g] = cursor'[h]
  PROVE  DrainInv(s)'
<1> DEFINE e == ship'[s]
<1>1. CASE d.members # {}
  <2>1. /\ e.pc = "post" /\ e.dest = {} /\ e.groups = ship[s].groups
        /\ e.members = ship[s].members /\ e.body = ship[s].body
    BY <1>1 DEF Onward, Drains
  <2>2. \A h \in e.members : Covered(h, ship[s].body)
    BY <2>1 DEF DrainInv
  <2>3. \A h \in e.members \cup e.dest : \A t \in Tables : \A r \in e.body[t], q \in rows'[t] :
           q.id <= r.id => q \in e.body[t] \/ q \in store'[h][t]
    <3> TAKE h \in e.members \cup e.dest
    <3>1. h \in Hubs /\ Covered(h, ship[s].body)
      BY <2>1, <2>2, DrainFields
    <3>2. QED
      BY <2>1, <3>1, CoveredCalm
  <2>4. /\ \A G, F \in e.groups : G = F \/ G \cap F = {}
        /\ \A G \in e.groups : G \cap (e.members \cup e.dest) = {}
        /\ \A G \in e.groups : \A g, h \in G : cursor'[g] = cursor'[h]
    BY <2>1 DEF DrainInv
  <2>5. QED
    BY <2>1, <2>3, <2>4 DEF DrainInv, Covered
<1>2. CASE d.members = {}
  <2>1. /\ e.pc = "drain" /\ e.dest = {} /\ e.groups = ship[s].groups
        /\ e.members = {}
    BY <1>2 DEF Onward, Drains
  <2>2. /\ \A G, F \in e.groups : G = F \/ G \cap F = {}
        /\ \A G \in e.groups : \A g, h \in G : cursor'[g] = cursor'[h]
    BY <2>1 DEF DrainInv
  <2>3. QED
    BY <2>1, <2>2 DEF DrainInv
<1>3. QED
  BY <1>1, <1>2

LEMMA QuietCore ==
  ASSUME ShipTypeOK, Bounded, NoRace, Core, ~reused, NEW s \in Shippers, Quiet(s)
  PROVE  Core'
<1>1. Calm /\ CursorsDrop /\ UNCHANGED store
  BY QuietCalm
<1>2. CASE InitState(s)
  <2>1. /\ \A z \in Shippers \ {s} : ship'[z] = ship[z] /\ ship[s].pc # "idle"
        /\ ship'[s].pc = "drain" /\ ship'[s].groups = {} /\ ship'[s].members = {}
        /\ ship'[s].dest = {} /\ UNCHANGED <<wire, tick>> /\ ship[s].pc # "wait"
    BY <1>2 DEF InitState, ShipTypeOK, Drains, Core, DrainInv
  <2>2. Blank(ship[s])'
    BY <2>1 DEF Blank
  <2>3. \A q \in wire' : \E w \in wire :
           /\ q.hub = w.hub /\ q.body = w.body
           /\ q.by = Nobody \/ (q = w /\ q.by # s)
    BY <2>1, NotWaiting
  <2>4. Flight'
    BY <1>2, <2>1, FlightStep DEF Core, InitState
  <2>5. QED
    BY <1>1, <2>1, <2>2, <2>3, <2>4, BlankCore
<1>3. CASE NextRound(s)
  <2> DEFINE H == ship[s].active
  <2>1. /\ \A z \in Shippers \ {s} : ship'[z] = ship[z]
        /\ ship'[s].pc = "drain" /\ ship'[s].groups = Groups(H)
        /\ ship'[s].members = ship[s].members /\ ship'[s].dest = ship[s].dest
        /\ UNCHANGED <<wire, tick, cursor>> /\ ship[s].pc = "drain"
    BY <1>3 DEF NextRound, ShipTypeOK, Drains
  <2>2. ship[s].members = {} /\ ship[s].dest = {}
    BY <2>1 DEF Core, DrainInv
  <2>3. /\ \A G \in Groups(H) : \A g, h \in G : cursor[g] = cursor[h]
        /\ \A G, F \in Groups(H) : G = F \/ G \cap F = {}
    BY DEF Groups
  <2>4. DrainInv(s)'
    BY <2>1, <2>2, <2>3 DEF DrainInv
  <2>5. \A q \in wire' : WireInv(q)'
    <3>1. \A q \in wire' : \E w \in wire :
           /\ q.hub = w.hub /\ q.body = w.body
           /\ q.by = Nobody \/ (q = w /\ q.by # s)
      BY <2>1, NotWaiting
    <3>2. QED
      BY <1>1, <2>1, <3>1, WireStays
  <2>6. Flight'
    BY <2>1, FlightStep DEF Core
  <2>7. ConfirmedIsStored' /\ NoHole'
    BY <1>1, ConfirmedCalm, NoHoleCalm DEF Core
  <2>8. QED
    BY <1>1, <2>1, <2>4, <2>5, <2>6, <2>7, StepCore
<1>4. CASE Finish(s) \/ Abort(s)
  <2>1. /\ \A z \in Shippers \ {s} : ship'[z] = ship[z]
        /\ Blank(ship[s])' /\ ship'[s].pc = "idle"
        /\ UNCHANGED wire /\ ship[s].pc # "wait"
    BY <1>4 DEF Finish, Abort, Ended, Blank, Idle, ShipTypeOK
  <2>2. \A q \in wire' : \E w \in wire :
           /\ q.hub = w.hub /\ q.body = w.body
           /\ q.by = Nobody \/ (q = w /\ q.by # s)
    BY <2>1, NotWaiting
  <2>3. Flight'
    <3>1. CASE s = "thread"
      BY <2>1, <3>1 DEF Flight
    <3>2. CASE s # "thread"
      BY <1>4, <2>1, <3>2, ShipAssumption DEF Finish, Abort, Ended, Core, Flight
    <3>3. QED
      BY <3>1, <3>2
  <2>4. QED
    BY <1>1, <2>1, <2>2, <2>3, BlankCore
<1>5. CASE GiveUp(s)
  <2>1. /\ \A z \in Shippers \ {s} : ship'[z] = ship[z]
        /\ ship'[s] = Onward(ship[s]) /\ ship[s].pc # "idle"
        /\ UNCHANGED <<cursor, tick>>
    BY <1>5 DEF GiveUp, ShipTypeOK
  <2>2. DrainInv(s)'
    BY <1>1, <2>1, OnwardInv, DrainFields DEF Core, DrainInv
  <2>3. \A q \in wire' : \E w \in wire :
           /\ q.hub = w.hub /\ q.body = w.body
           /\ q.by = Nobody \/ (q = w /\ q.by # s)
    BY <1>5, OrphanedOK DEF GiveUp, ShipTypeOK
  <2>4. \A q \in wire' : WireInv(q)'
    BY <1>1, <2>1, <2>3, WireStays
  <2>5. Flight'
    BY <2>1, FlightStep DEF Core
  <2>6. ConfirmedIsStored' /\ NoHole'
    BY <1>1, ConfirmedCalm, NoHoleCalm DEF Core
  <2>7. QED
    BY <1>1, <2>1, <2>2, <2>4, <2>5, <2>6, StepCore
<1>6. QED
  BY <1>2, <1>3, <1>4, <1>5 DEF Quiet

(* A body gathered from one hub of a group covers every hub of it.          *)
LEMMA GatherCore ==
  ASSUME ShipTypeOK, Bounded, NoRace, Core, ~reused,
         NEW s \in Shippers, NEW G \in ship[s].groups, NEW h \in G,
         Gather(s, G, h) \/ \E u \in Tables : GatherWithout(s, G, h, u)
  PROVE  Core'
<1>1. Calm
  BY GatherCalm
<1>2. UNCHANGED <<rows, cursor, tick, wire, store>> /\ ship[s].pc = "drain"
  BY DEF Gather, GatherWithout
<1>3. PICK body : /\ Gathered(s, G, body)
                  /\ \A t \in Tables : body[t] = {} \/ body[t] = Selected(t, cursor[h][t])
  <2>1. CASE Gather(s, G, h)
    BY <2>1 DEF Gather
  <2>2. ASSUME NEW u \in Tables, GatherWithout(s, G, h, u)
        PROVE  \E body : /\ Gathered(s, G, body)
                  /\ \A t \in Tables : body[t] = {} \/ body[t] = Selected(t, cursor[h][t])
    BY <2>2 DEF GatherWithout
  <2>3. QED
    BY <2>1, <2>2
<1>4. /\ \A z \in Shippers \ {s} : ship'[z] = ship[z]
      /\ ship'[s].pc \in {"drain", "post"}
      /\ ship'[s].groups = ship[s].groups \ {G} /\ ship'[s].dest = ship[s].dest
      /\ ship'[s].members = {} \/ (ship'[s].pc = "post" /\ ship'[s].members = G)
      /\ ship'[s].body = body
  BY <1>3 DEF Gathered, ShipTypeOK, Drains
<1>5. DrainInv(s) /\ ship[s].dest = {} /\ ship[s].members = {}
  BY <1>2 DEF Core, DrainInv
<1>6. G \in SUBSET Hubs /\ \A g \in G : cursor[g] = cursor[h]
  BY <1>5, DrainFields DEF DrainInv
<1>7. ASSUME NEW g \in G, NEW t \in Tables, NEW r \in body[t], NEW q \in rows[t], q.id <= r.id
      PROVE  q \in body[t] \/ q \in store[g][t]
  <2>1. body[t] = Selected(t, cursor[h][t]) /\ cursor[h][t] = cursor[g][t]
    BY <1>3, <1>6, <1>7
  <2>2. g \in Hubs /\ h \in Hubs /\ cursor[h][t] \in Nat
    BY <1>6 DEF ShipTypeOK
  <2>3. CASE q.id <= cursor[g][t]
    BY <2>2, <2>3 DEF Core, ConfirmedIsStored
  <2>4. CASE ~ (q.id <= cursor[g][t])
    <3>1. rows[t] \in SUBSET Row /\ IsFiniteSet(rows[t])
      <4>1. IsFiniteSet(Known(t)) /\ rows[t] \subseteq Known(t)
        BY KnownParts DEF Bounded
      <4>2. QED
        BY <4>1, FS_Subset, RowsBounded
    <3>2. q.id > cursor[h][t]
      <4>1. q.id \in Nat
        BY <3>1 DEF Row
      <4>2. QED
        BY <2>1, <2>2, <2>4, <4>1
    <3>3. q \in Selected(t, cursor[h][t])
      BY <1>7, <2>1, <2>2, <3>1, <3>2, SelectedPrefix
    <3>4. QED
      BY <2>1, <3>3
  <2>5. QED
    BY <2>3, <2>4
<1>8. DrainInv(s)'
  <2>1. /\ \A F, E \in ship'[s].groups : F = E \/ F \cap E = {}
        /\ \A F \in ship'[s].groups : F \cap G = {}
        /\ \A F \in ship'[s].groups : \A g, k \in F : cursor'[g] = cursor'[k]
    BY <1>2, <1>4, <1>5 DEF DrainInv
  <2>2. \A g \in ship'[s].members \cup ship'[s].dest :
          \A t \in Tables : \A r \in ship'[s].body[t], q \in rows'[t] :
            q.id <= r.id => q \in ship'[s].body[t] \/ q \in store'[g][t]
    BY <1>2, <1>4, <1>5, <1>7
  <2>3. QED
    BY <1>4, <1>5, <2>1, <2>2 DEF DrainInv, Covered
<1>9. \A q \in wire' : WireInv(q)'
  <2>1. \A q \in wire' : \E w \in wire :
           /\ q.hub = w.hub /\ q.body = w.body
           /\ q.by = Nobody \/ (q = w /\ q.by # s)
    BY <1>2, NotWaiting
  <2>2. QED
    BY <1>1, <1>4, <2>1, WireStays
<1>10. Flight'
  BY <1>2, <1>4, FlightStep DEF Core
<1>11. ConfirmedIsStored' /\ NoHole'
  BY <1>1, <1>2, ConfirmedCalm, NoHoleCalm DEF Core, CursorsDrop
<1>12. QED
  BY <1>1, <1>4, <1>8, <1>9, <1>10, <1>11, StepCore

LEMMA PostCore ==
  ASSUME ShipTypeOK, Bounded, NoRace, Core, ~reused,
         NEW s \in Shippers, NEW h \in ship[s].members, Post(s, h)
  PROVE  Core'
<1>1. Calm /\ UNCHANGED <<rows, cursor, tick, store>> /\ ship[s].pc = "post"
  BY PostCalm DEF Post
<1>2. /\ \A z \in Shippers \ {s} : ship'[z] = ship[z]
      /\ ship'[s].pc = "wait" /\ ship'[s].groups = ship[s].groups
      /\ ship'[s].dest = {h} /\ ship'[s].members = ship[s].members \ {h}
      /\ ship'[s].body = ship[s].body
  BY DEF Post, ShipTypeOK, Drains
<1>3. /\ DrainInv(s) /\ h \in Hubs
      /\ \A g \in ship[s].members : Covered(g, ship[s].body)
  BY DrainFields DEF Core, DrainInv
<1>4. DrainInv(s)'
  <2>1. /\ \A F, E \in ship'[s].groups : F = E \/ F \cap E = {}
        /\ \A F \in ship'[s].groups : F \cap (ship'[s].members \cup ship'[s].dest) = {}
        /\ \A F \in ship'[s].groups : \A g, k \in F : cursor'[g] = cursor'[k]
    BY <1>1, <1>2, <1>3 DEF DrainInv
  <2>2. \A g \in ship'[s].members \cup ship'[s].dest :
          \A t \in Tables : \A r \in ship'[s].body[t], q \in rows'[t] :
            q.id <= r.id => q \in ship'[s].body[t] \/ q \in store'[g][t]
    BY <1>1, <1>2, <1>3 DEF Covered
  <2>3. QED
    BY <1>2, <2>1, <2>2 DEF DrainInv, Covered
<1>5. ASSUME NEW q \in wire' PROVE WireInv(q)'
  <2>1. CASE q \in wire
    <3>1. q.by # s /\ WireInv(q) /\ q.by \in Shippers \cup {Nobody}
      BY <1>1, <2>1, NotWaiting DEF Core, ShipTypeOK, Requests
    <3>2. q.by # Nobody => ship'[q.by] = ship[q.by]
      BY <1>2, <3>1
    <3>3. QED
      BY <1>1, <2>1, <3>1, <3>2, WireCalm
  <2>2. CASE q \notin wire
    <3>1. q = [hub |-> h, body |-> ship[s].body, by |-> s]
      BY <2>2 DEF Post
    <3>2. \A t \in Tables : \A r \in q.body[t], x \in rows'[t] :
            x.id <= r.id => x \in q.body[t] \/ x \in store'[q.hub][t]
      BY <1>1, <1>3, <3>1 DEF Covered
    <3>3. /\ ship'[q.by].pc = "wait" /\ ship'[q.by].dest = {q.hub}
          /\ ship'[q.by].body = q.body
      BY <1>2, <3>1
    <3>4. QED
      BY <3>2, <3>3 DEF WireInv, Covered
  <2>3. QED
    BY <2>1, <2>2
<1>6. Flight'
  BY <1>1, <1>2, FlightStep DEF Core
<1>7. ConfirmedIsStored' /\ NoHole'
  BY <1>1, ConfirmedCalm, NoHoleCalm DEF Core, CursorsDrop
<1>8. QED
  BY <1>1, <1>2, <1>4, <1>5, <1>6, <1>7, StepCore

(* An acknowledgement: where the cursors of the hub that answered go.       *)
LEMMA ConfirmStep ==
  ASSUME ShipTypeOK, Bounded, NEW s \in Shippers, Confirm(s)
  PROVE  /\ Calm /\ Shrinks /\ UNCHANGED <<rows, store, wire, tick>> /\ ship[s].pc = "answered"
         /\ \A z \in Shippers \ {s} : ship'[z] = ship[z]
         /\ \E d \in Drains : /\ ship'[s] = Onward(d)
                              /\ d.groups = ship[s].groups /\ d.members = ship[s].members
                              /\ d.body = ship[s].body
         /\ \A h \in Hubs, t \in Tables :
              cursor'[h][t] = IF h \in ship[s].dest /\ ship[s].body[t] # {}
                              THEN TopId(ship[s].body[t]) ELSE cursor[h][t]
         /\ \A h \in Hubs, t \in Tables : cursor'[h][t] <= top[t]
<1>1. UNCHANGED <<rows, store, wire, tick, top, reused>> /\ ship[s].pc = "answered"
  BY DEF Confirm
<1>2. PICK d \in Drains : /\ ship'[s] = Onward(d)
                          /\ d.groups = ship[s].groups /\ d.members = ship[s].members
                          /\ d.body = ship[s].body
  <2> DEFINE d == IF More(ship[s].body)
                  THEN [ship[s] EXCEPT !.active = @ \cup ship[s].dest] ELSE ship[s]
  <2>1. ship[s] \in Drains
    BY DrainFields
  <2>2. /\ d \in Drains /\ d.groups = ship[s].groups /\ d.members = ship[s].members
        /\ d.body = ship[s].body
    BY <2>1 DEF Drains
  <2>3. ship'[s] = Onward(d)
    BY DEF Confirm, ShipTypeOK
  <2>4. QED
    BY <2>2, <2>3
<1>3. \A z \in Shippers \ {s} : ship'[z] = ship[z]
  BY DEF Confirm, ShipTypeOK
<1>4. \A z \in Shippers : ship'[z].body = ship[z].body \/ ship'[z].body = NoBody
  <2>1. Onward(d).body \in {d.body, NoBody}
    BY DEF Onward, Drains
  <2>2. QED
    BY <1>2, <1>3, <2>1
<1>5. Calm
  BY <1>1, <1>4, CalmIf
<1>6. \A h \in Hubs, t \in Tables :
        cursor'[h][t] = IF h \in ship[s].dest /\ ship[s].body[t] # {}
                        THEN TopId(ship[s].body[t]) ELSE cursor[h][t]
  BY DEF Confirm
<1>7. \A h \in Hubs, t \in Tables : cursor'[h][t] <= top[t]
  <2> TAKE h \in Hubs, t \in Tables
  <2>1. ship[s].body[t] \in SUBSET Row /\ top[t] \in Nat
    BY DrainFields DEF Bodies, ShipTypeOK
  <2>2. \A r \in ship[s].body[t] : r.id <= top[t]
    BY KnownParts DEF Bounded
  <2>3. TopId(ship[s].body[t]) <= top[t]
    BY <2>1, <2>2, TopIdIsMax
  <2>4. QED
    BY <1>6, <2>3 DEF Bounded
<1>8. Shrinks
  BY <1>1, <1>4 DEF Shrinks
<1>9. QED
  BY <1>1, <1>2, <1>3, <1>5, <1>6, <1>7, <1>8

LEMMA ConfirmCore ==
  ASSUME ShipTypeOK, Bounded, NoRace, Core, ~reused, NEW s \in Shippers, Confirm(s)
  PROVE  Core'
<1>1. /\ Calm /\ UNCHANGED <<rows, store, wire, tick>> /\ ship[s].pc = "answered"
      /\ \A z \in Shippers \ {s} : ship'[z] = ship[z]
      /\ \A h \in Hubs, t \in Tables :
           cursor'[h][t] = IF h \in ship[s].dest /\ ship[s].body[t] # {}
                           THEN TopId(ship[s].body[t]) ELSE cursor[h][t]
  BY ConfirmStep
<1>2. PICK d \in Drains : /\ ship'[s] = Onward(d)
                          /\ d.groups = ship[s].groups /\ d.members = ship[s].members
                          /\ d.body = ship[s].body
  BY ConfirmStep
<1>3. DrainInv(s)
  BY DEF Core
<1>4. \A G \in ship[s].groups : \A g, h \in G : cursor'[g] = cursor'[h]
  <2> TAKE G \in ship[s].groups
  <2>1. \A g \in G : g \in Hubs /\ g \notin ship[s].dest
    BY <1>3, DrainFields DEF DrainInv
  <2>2. \A g \in G : cursor'[g] = cursor[g]
    BY <2>1 DEF Confirm, ShipTypeOK
  <2>3. QED
    BY <1>3, <2>2 DEF DrainInv
<1>5. DrainInv(s)'
  BY <1>1, <1>2, <1>3, <1>4, OnwardInv
<1>6. \A q \in wire' : WireInv(q)'
  <2>1. \A q \in wire' : \E w \in wire :
           /\ q.hub = w.hub /\ q.body = w.body
           /\ q.by = Nobody \/ (q = w /\ q.by # s)
    BY <1>1, NotWaiting
  <2>2. QED
    BY <1>1, <2>1, WireStays
<1>7. Flight'
  BY <1>1, FlightStep DEF Core
<1>8. NoHole'
  BY <1>1, NoHoleCalm DEF Core
<1>9. ConfirmedIsStored'
  <2> SUFFICES ASSUME NEW h \in Hubs, NEW t \in Tables, NEW r \in rows'[t],
                      r.id <= cursor'[h][t]
               PROVE  r \in store'[h][t]
    BY DEF ConfirmedIsStored
  <2> DEFINE body == ship[s].body
  <2>1. CASE h \in ship[s].dest /\ body[t] # {}
    <3>1. cursor'[h][t] = TopId(body[t]) /\ r \in rows[t]
      BY <1>1, <2>1
    <3>2. body[t] \in SUBSET Row /\ top[t] \in Nat /\ \A x \in body[t] : x.id <= top[t]
      BY KnownParts, DrainFields DEF Bodies, ShipTypeOK, Bounded
    <3>3. PICK x \in body[t] : x.id = TopId(body[t])
      BY <2>1, <3>2, TopIdIsMax
    <3>4. Covered(h, body) /\ body[t] \subseteq store[h][t]
      BY <1>1, <1>3, <2>1 DEF DrainInv
    <3>5. r \in body[t] \/ r \in store[h][t]
      BY <3>1, <3>3, <3>4 DEF Covered
    <3>6. QED
      BY <1>1, <3>4, <3>5
  <2>2. CASE ~ (h \in ship[s].dest /\ body[t] # {})
    BY <1>1, <2>2 DEF Core, ConfirmedIsStored
  <2>3. QED
    BY <2>1, <2>2
<1>10. QED
  BY <1>1, <1>5, <1>6, <1>7, <1>8, <1>9, StepCore

----------------------------------------------------------------------------
(* The hub's answers.                                                       *)

(* Each waiting shipper waits for one request.                              *)
LEMMA OneRequest ==
  ASSUME ShipTypeOK, Core, NEW q \in wire, q.by # Nobody, NEW w \in wire, w.by = q.by
  PROVE  w = q
<1>1. w.hub = q.hub /\ w.body = q.body
  BY DEF Core, WireInv
<1>2. w \in Requests /\ q \in Requests
  BY DEF ShipTypeOK
<1>3. QED
  BY <1>1, <1>2 DEF Requests

LEMMA RefuseCalm ==
  ASSUME ShipTypeOK, NEW q \in wire, HubRefuses(q)
  PROVE  Calm /\ CursorsDrop /\ Shrinks /\ UNCHANGED store
<1>1. UNCHANGED <<rows, store, top, reused, cursor>> /\ wire' \subseteq wire
  BY DEF HubRefuses
<1>2. \A z \in Shippers : ship'[z].body = ship[z].body \/ ship'[z].body = NoBody
  <2>1. CASE q.by = Nobody
    BY <2>1 DEF HubRefuses
  <2>2. CASE q.by # Nobody
    <3>1. q.by \in Shippers
      BY <2>2 DEF ShipTypeOK, Requests
    <3>2. ship[q.by] \in Drains
      BY <3>1, DrainFields
    <3>3. Onward(ship[q.by]).body \in {ship[q.by].body, NoBody}
      BY <3>2 DEF Onward, Drains
    <3>4. ship' = [ship EXCEPT ![q.by] = Onward(ship[q.by])]
      BY <2>2 DEF HubRefuses
    <3>5. QED
      BY <3>1, <3>3, <3>4 DEF ShipTypeOK
  <2>3. QED
    BY <2>1, <2>2
<1>3. QED
  BY <1>1, <1>2, CalmIf DEF CursorsDrop, Shrinks

LEMMA RefuseCore ==
  ASSUME ShipTypeOK, Bounded, NoRace, Core, ~reused, NEW q \in wire, HubRefuses(q)
  PROVE  Core'
<1>1. Calm /\ CursorsDrop /\ UNCHANGED <<store, rows, cursor, tick>> /\ wire' = wire \ {q}
  BY RefuseCalm DEF HubRefuses
<1>2. ConfirmedIsStored' /\ NoHole'
  BY <1>1, ConfirmedCalm, NoHoleCalm DEF Core
<1>3. CASE q.by = Nobody
  <2>1. UNCHANGED ship
    BY <1>3 DEF HubRefuses
  <2>2. "thread" \in Shippers
    BY ShipAssumption
  <2>3. DrainInv("thread")'
    BY <1>1, <2>1, <2>2, DrainCalm DEF Core, DrainInv
  <2>4. \A w \in wire' : WireInv(w)'
    BY <1>1, <2>1, WireCalm DEF Core
  <2>5. Flight'
    BY <1>1, <2>1 DEF Core, Flight
  <2>6. QED
    BY <1>1, <1>2, <2>1, <2>2, <2>3, <2>4, <2>5, StepCore
<1>4. CASE q.by # Nobody
  <2> DEFINE s == q.by
  <2>1. s \in Shippers /\ ship[s].pc = "wait" /\ DrainInv(s)
    BY <1>4 DEF ShipTypeOK, Requests, Core, WireInv
  <2>2. ship' = [ship EXCEPT ![s] = Onward(ship[s])]
    BY <1>4 DEF HubRefuses
  <2>3. (\A z \in Shippers \ {s} : ship'[z] = ship[z]) /\ ship'[s] = Onward(ship[s])
    BY <2>1, <2>2 DEF ShipTypeOK
  <2>4. \A w \in wire' : w \in wire /\ w.by # s
    BY <1>1, <1>4, OneRequest
  <2> HIDE DEF s
  <2>5. DrainInv(s)'
    BY <1>1, <2>1, <2>3, OnwardInv, DrainFields DEF DrainInv
  <2>6. \A w \in wire' : WireInv(w)'
    BY <1>1, <2>1, <2>3, <2>4, WireStays
  <2>7. Flight'
    BY <1>1, <2>1, <2>3, FlightStep DEF Core
  <2>8. QED
    BY <1>1, <1>2, <2>1, <2>3, <2>5, <2>6, <2>7, StepCore
<1>5. QED
  BY <1>3, <1>4

(* After an ingest the hub has the whole body.                              *)
LEMMA IngestStores ==
  ASSUME ShipTypeOK, Core, NEW q \in wire, HubIngest(q), NEW t \in Tables
  PROVE  q.body[t] \subseteq store'[q.hub][t]
<1> SUFFICES ASSUME NEW r \in q.body[t] PROVE r \in store'[q.hub][t]
  OBVIOUS
<1>1. q.hub \in Hubs
  BY DEF ShipTypeOK, Requests
<1>2. store'[q.hub][t] = store[q.hub][t] \cup {x \in q.body[t] : x.id \notin Ids(store[q.hub][t])}
  BY <1>1 DEF HubIngest, ShipTypeOK
<1>3. CASE r.id \in Ids(store[q.hub][t])
  <2>1. PICK x \in store[q.hub][t] : x.id = r.id
    BY <1>3 DEF Ids
  <2>2. x \in Known(t) /\ r \in Known(t)
    BY <1>1, KnownParts
  <2>3. x = r
    BY <2>1, <2>2 DEF Core
  <2>4. QED
    BY <1>2, <2>1, <2>3
<1>4. CASE r.id \notin Ids(store[q.hub][t])
  BY <1>2, <1>4
<1>5. QED
  BY <1>3, <1>4

LEMMA IngestCore ==
  ASSUME ShipTypeOK, Bounded, NoRace, Core, ~reused, NEW q \in wire, HubIngest(q)
  PROVE  Core'
<1>1. Calm /\ UNCHANGED <<rows, cursor, tick>> /\ wire' = wire \ {q}
  BY IngestCalm DEF HubIngest
<1>2. q.hub \in Hubs /\ Covered(q.hub, q.body)
  BY DEF ShipTypeOK, Requests, Core, WireInv
<1>3. ConfirmedIsStored'
  BY <1>1, ConfirmedCalm DEF Core, CursorsDrop
<1>4. NoHole'
  <2> SUFFICES ASSUME NEW h \in Hubs, NEW t \in Tables, NEW r \in rows'[t], NEW x \in rows'[t],
                      x.id < r.id, r \in store'[h][t]
               PROVE  x \in store'[h][t]
    BY DEF NoHole
  <2>1. r \in rows[t] /\ x \in rows[t] /\ store[h][t] \subseteq store'[h][t]
    BY <1>1 DEF Calm
  <2>2. CASE r \in store[h][t]
    BY <2>1, <2>2 DEF Core, NoHole
  <2>3. CASE r \notin store[h][t]
    <3>1. h = q.hub /\ r \in q.body[t]
      BY <2>3 DEF HubIngest, ShipTypeOK
    <3>2. x.id \in Nat /\ r.id \in Nat
      BY <2>1, RowsBounded DEF Row
    <3>3. x \in q.body[t] \/ x \in store[h][t]
      BY <1>2, <2>1, <3>1, <3>2 DEF Covered
    <3>4. QED
      BY <2>1, <3>1, <3>3, IngestStores
  <2>4. QED
    BY <2>2, <2>3
<1>5. CASE q.by = Nobody
  <2>1. UNCHANGED ship
    BY <1>5 DEF HubIngest
  <2>2. "thread" \in Shippers
    BY ShipAssumption
  <2>3. DrainInv("thread")'
    BY <1>1, <2>1, <2>2, DrainCalm DEF Core, DrainInv
  <2>4. \A w \in wire' : WireInv(w)'
    BY <1>1, <2>1, WireCalm DEF Core
  <2>5. Flight'
    BY <1>1, <2>1 DEF Core, Flight
  <2>6. QED
    BY <1>1, <1>3, <1>4, <2>1, <2>2, <2>3, <2>4, <2>5, StepCore
<1>6. CASE q.by # Nobody
  <2> DEFINE s == q.by
  <2>1. s \in Shippers /\ ship[s].pc = "wait" /\ DrainInv(s)
        /\ ship[s].dest = {q.hub} /\ ship[s].body = q.body
    BY <1>6 DEF ShipTypeOK, Requests, Core, WireInv
  <2>2. ship' = [ship EXCEPT ![s].pc = "answered"]
    BY <1>6 DEF HubIngest
  <2>3. /\ \A z \in Shippers \ {s} : ship'[z] = ship[z]
        /\ ship'[s].pc = "answered" /\ ship'[s].groups = ship[s].groups
        /\ ship'[s].members = ship[s].members /\ ship'[s].dest = {q.hub}
        /\ ship'[s].body = q.body
    BY <2>1, <2>2 DEF ShipTypeOK, Drains
  <2>4. \A w \in wire' : w \in wire /\ w.by # s
    BY <1>1, <1>6, OneRequest
  <2> HIDE DEF s
  <2>5. DrainInv(s)'
    <3>1. /\ \A F, E \in ship'[s].groups : F = E \/ F \cap E = {}
          /\ \A F \in ship'[s].groups : F \cap (ship'[s].members \cup ship'[s].dest) = {}
          /\ \A F \in ship'[s].groups : \A g, k \in F : cursor'[g] = cursor'[k]
      BY <1>1, <2>1, <2>3 DEF DrainInv
    <3>2. \A g \in ship'[s].members \cup ship'[s].dest :
            \A t \in Tables : \A r \in ship'[s].body[t], x \in rows'[t] :
              x.id <= r.id => x \in ship'[s].body[t] \/ x \in store'[g][t]
      <4> TAKE g \in ship'[s].members \cup ship'[s].dest
      <4>1. g \in Hubs /\ Covered(g, q.body)
        BY <1>2, <2>1, <2>3, DrainFields DEF DrainInv
      <4>2. QED
        BY <1>1, <2>3, <4>1, CoveredCalm
    <3>3. \A g \in ship'[s].dest, t \in Tables : ship'[s].body[t] \subseteq store'[g][t]
      BY <2>3, IngestStores
    <3>4. QED
      BY <2>3, <3>1, <3>2, <3>3 DEF DrainInv, Covered
  <2>6. \A w \in wire' : WireInv(w)'
    BY <1>1, <2>1, <2>3, <2>4, WireStays
  <2>7. Flight'
    BY <1>1, <2>1, <2>3, FlightStep DEF Core
  <2>8. QED
    BY <1>1, <1>3, <1>4, <2>1, <2>3, <2>5, <2>6, <2>7, StepCore
<1>7. QED
  BY <1>5, <1>6

----------------------------------------------------------------------------
(* A new row is past everything, unless its rowid was given out before.     *)

LEMMA InsertStep ==
  ASSUME ShipTypeOK, Bounded, NEW t \in Tables, NEW loud \in BOOLEAN, Insert(t, loud)
  PROVE  /\ UNCHANGED <<cursor, ship, tick, wire, store>>
         /\ \E row \in Row :
              /\ row.id >= 1 /\ (~reused' => ~reused /\ row.id > top[t])
              /\ row.id <= top'[t] /\ top[t] <= top'[t] /\ top'[t] \in Nat
              /\ rows'[t] = rows[t] \cup {row}
              /\ Known(t)' \subseteq Known(t) \cup {row}
              /\ \A u \in Tables \ {t} :
                   /\ rows'[u] = rows[u] /\ top'[u] = top[u]
                   /\ Known(u)' \subseteq Known(u)
<1> DEFINE id == NextId(t)
           row == [id |-> id, n |-> counts.rows + 1, loud |-> loud]
<1>1. id \in Nat /\ id >= 1 /\ row \in Row /\ row.id = id /\ top[t] \in Nat
  BY RowsBounded DEF NextId, Row, ShipTypeOK
<1>2. /\ rows' = [rows EXCEPT ![t] = @ \cup {row}]
      /\ top' = [top EXCEPT ![t] = IF id > @ THEN id ELSE @]
      /\ reused' = (reused \/ id <= top[t])
      /\ UNCHANGED <<cursor, ship, tick, wire, store>>
  BY DEF Insert
<1> HIDE DEF row, id
<1>3. /\ rows'[t] = rows[t] \cup {row}
      /\ top'[t] = IF id > top[t] THEN id ELSE top[t]
      /\ \A u \in Tables \ {t} : rows'[u] = rows[u] /\ top'[u] = top[u]
  BY <1>2 DEF ShipTypeOK, Bodies
<1>4. ASSUME NEW u \in Tables, NEW K, Known(u) \subseteq K, rows'[u] \subseteq K
      PROVE  Known(u)' \subseteq K
  <2>1. /\ \A h \in Hubs : store[h][u] \subseteq K
        /\ \A s \in Shippers : ship[s].body[u] \subseteq K
        /\ \A q \in wire : q.body[u] \subseteq K
    BY <1>4, KnownParts
  <2>2. /\ \A h \in Hubs : store'[h][u] \subseteq K
        /\ \A s \in Shippers : ship'[s].body[u] \subseteq K
        /\ \A q \in wire' : q.body[u] \subseteq K
    BY <1>2, <2>1
  <2>3. QED
    BY <1>4, <2>2, KnownNext
<1>5. Known(t)' \subseteq Known(t) \cup {row}
  <2> DEFINE K == Known(t) \cup {row}
  <2>1. Known(t) \subseteq K /\ rows'[t] \subseteq K
    BY <1>3, KnownParts
  <2> HIDE DEF K
  <2>2. Known(t)' \subseteq K
    BY <1>4, <2>1
  <2>3. QED
    BY <2>2 DEF K
<1>6. \A u \in Tables \ {t} : Known(u)' \subseteq Known(u)
  <2> TAKE u \in Tables \ {t}
  <2> DEFINE K == Known(u)
  <2>1. Known(u) \subseteq K /\ rows'[u] \subseteq K
    BY <1>3, KnownParts
  <2> HIDE DEF K
  <2>2. Known(u)' \subseteq K
    BY <1>4, <2>1
  <2>3. QED
    BY <2>2 DEF K
<1>7. ~reused' => ~reused /\ row.id > top[t]
  <2>1. ~reused' => ~reused /\ ~ (id <= top[t])
    BY <1>2, Zenon
  <2>2. ~ (id <= top[t]) => row.id > top[t]
    BY <1>1
  <2>3. QED
    BY <2>1, <2>2
<1>8. row.id <= top'[t] /\ top[t] <= top'[t] /\ top'[t] \in Nat
  BY <1>1, <1>3
<1>9. QED
  BY <1>1, <1>2, <1>3, <1>5, <1>6, <1>7, <1>8

LEMMA InsertBounded ==
  ASSUME ShipTypeOK, Bounded, NEW t \in Tables, NEW loud \in BOOLEAN, Insert(t, loud)
  PROVE  Bounded'
<1>1. PICK row \in Row :
        /\ row.id >= 1
        /\ row.id <= top'[t] /\ top[t] <= top'[t] /\ top'[t] \in Nat
        /\ Known(t)' \subseteq Known(t) \cup {row}
        /\ \A u \in Tables \ {t} : top'[u] = top[u] /\ Known(u)' \subseteq Known(u)
  BY InsertStep
<1>2. \A u \in Tables : IsFiniteSet(Known(u)')
  <2>1. IsFiniteSet(Known(t) \cup {row})
    BY FS_AddElement DEF Bounded
  <2>2. IsFiniteSet(Known(t)')
    BY <1>1, <2>1, FS_Subset
  <2>3. \A u \in Tables \ {t} : IsFiniteSet(Known(u)')
    BY <1>1, FS_Subset DEF Bounded
  <2>4. QED
    BY <2>2, <2>3
<1>3. \A u \in Tables : \A r \in Known(u)' : r.id >= 1 /\ r.id <= top'[u]
  <2> TAKE u \in Tables
  <2> TAKE r \in Known(u)'
  <2>1. CASE u # t
    <3>1. r \in Known(u) /\ top'[u] = top[u]
      BY <1>1, <2>1
    <3>2. QED
      BY <3>1 DEF Bounded
  <2>2. CASE u = t /\ r = row
    BY <1>1, <2>2
  <2>3. CASE u = t /\ r # row
    <3>1. r \in Known(t) /\ top[t] \in Nat
      BY <1>1, <2>3 DEF ShipTypeOK
    <3>2. r.id >= 1 /\ r.id <= top[t] /\ r.id \in Nat
      <4>1. Known(t) \in SUBSET Row
        <5>1. /\ rows[t] \subseteq Row /\ \A h \in Hubs : store[h][t] \subseteq Row
              /\ \A s \in Shippers : ship[s].body[t] \subseteq Row
              /\ \A q \in wire : q.body[t] \subseteq Row
          BY DrainFields DEF ShipTypeOK, Bodies, Requests
        <5>2. QED
          BY <5>1 DEF Known
      <4>2. QED
        BY <3>1, <4>1 DEF Bounded, Row
    <3>3. QED
      BY <1>1, <2>3, <3>1, <3>2
  <2>4. QED
    BY <2>1, <2>2, <2>3
<1>4. \A h \in Hubs, u \in Tables : cursor'[h][u] <= top'[u]
  <2> TAKE h \in Hubs, u \in Tables
  <2>1. cursor'[h][u] <= top[u] /\ cursor'[h][u] \in Nat /\ top[u] \in Nat
    BY InsertStep DEF Bounded, ShipTypeOK
  <2>2. CASE u = t
    BY <1>1, <2>1, <2>2
  <2>3. CASE u # t
    BY <1>1, <2>1, <2>3
  <2>4. QED
    BY <2>2, <2>3
<1>5. QED
  BY <1>2, <1>3, <1>4 DEF Bounded

LEMMA InsertCore ==
  ASSUME ShipTypeOK, Bounded, Core, ~reused',
         NEW t \in Tables, NEW loud \in BOOLEAN, Insert(t, loud)
  PROVE  Core'
<1>1. UNCHANGED <<cursor, ship, tick, wire, store>>
  BY InsertStep
<1>2. PICK row \in Row :
        /\ row.id > top[t] /\ ~reused
        /\ rows'[t] = rows[t] \cup {row}
        /\ Known(t)' \subseteq Known(t) \cup {row}
        /\ \A u \in Tables \ {t} : rows'[u] = rows[u] /\ Known(u)' \subseteq Known(u)
  BY InsertStep
<1>3. ASSUME NEW r \in Known(t) PROVE r.id < row.id /\ r.id \in Nat
  <2>1. Known(t) \subseteq Row
    <3>1. /\ rows[t] \subseteq Row /\ \A h \in Hubs : store[h][t] \subseteq Row
          /\ \A s \in Shippers : ship[s].body[t] \subseteq Row
          /\ \A q \in wire : q.body[t] \subseteq Row
      BY DrainFields DEF ShipTypeOK, Bodies, Requests
    <3>2. QED
      BY <3>1 DEF Known
  <2>2. r.id \in Nat /\ r.id <= top[t] /\ row.id \in Nat /\ top[t] \in Nat
    BY <2>1 DEF Bounded, Row, ShipTypeOK
  <2>3. QED
    BY <1>2, <2>2
<1>4. \A u \in Tables : \A r, q \in Known(u)' : r.id = q.id => r = q
  <2>1. \A r, q \in Known(t) \cup {row} : r.id = q.id => r = q
    BY <1>3 DEF Core
  <2>2. \A r, q \in Known(t)' : r.id = q.id => r = q
    BY <1>2, <2>1
  <2>3. \A u \in Tables \ {t} : \A r, q \in Known(u)' : r.id = q.id => r = q
    BY <1>2 DEF Core
  <2>4. QED
    BY <2>2, <2>3
<1>5. ASSUME NEW h \in Hubs, NEW body, Covered(h, body),
             \A u \in Tables : body[u] \subseteq Known(u)
      PROVE  \A u \in Tables : \A r \in body[u], q \in rows'[u] :
               q.id <= r.id => q \in body[u] \/ q \in store[h][u]
  <2> SUFFICES ASSUME NEW u \in Tables, NEW r \in body[u], NEW q \in rows'[u], q.id <= r.id
               PROVE  q \in body[u] \/ q \in store[h][u]
    OBVIOUS
  <2>1. CASE u = t /\ q = row
    <3>1. r.id < row.id /\ r.id \in Nat /\ row.id \in Nat
      BY <1>3, <1>5, <2>1 DEF Row
    <3>2. QED
      BY <2>1, <3>1
  <2>2. CASE ~ (u = t /\ q = row)
    <3>1. q \in rows[u]
      BY <1>2, <2>2
    <3>2. QED
      BY <1>5, <3>1 DEF Covered
  <2>3. QED
    BY <2>1, <2>2
<1>6. ASSUME NEW s \in Shippers PROVE DrainInv(s)'
  <2>1. DrainInv(s)
    BY DEF Core
  <2>2. \A h \in ship[s].members \cup ship[s].dest :
          \A u \in Tables : \A r \in ship[s].body[u], q \in rows'[u] :
            q.id <= r.id => q \in ship[s].body[u] \/ q \in store[h][u]
    <3> TAKE h \in ship[s].members \cup ship[s].dest
    <3>1. h \in Hubs /\ Covered(h, ship[s].body)
      BY <2>1, DrainFields DEF DrainInv
    <3>2. QED
      BY <1>5, <3>1, KnownParts
  <2>3. \A h \in ship[s].members \cup ship[s].dest : Covered(h, ship[s].body)'
    BY <1>1, <2>2 DEF Covered
  <2>4. QED
    BY <1>1, <2>1, <2>3 DEF DrainInv
<1>7. ASSUME NEW q \in wire' PROVE WireInv(q)'
  <2>1. q \in wire /\ WireInv(q) /\ q.hub \in Hubs
    BY <1>1 DEF Core, ShipTypeOK, Requests
  <2>2. \A u \in Tables : \A r \in q.body[u], x \in rows'[u] :
          x.id <= r.id => x \in q.body[u] \/ x \in store[q.hub][u]
    BY <1>5, <2>1, KnownParts DEF WireInv
  <2>3. Covered(q.hub, q.body)'
    BY <1>1, <2>2 DEF Covered
  <2>4. QED
    BY <1>1, <2>1, <2>3 DEF WireInv
<1>8. ConfirmedIsStored'
  <2> SUFFICES ASSUME NEW h \in Hubs, NEW u \in Tables, NEW r \in rows'[u],
                      r.id <= cursor'[h][u]
               PROVE  r \in store'[h][u]
    BY DEF ConfirmedIsStored
  <2>1. CASE u = t /\ r = row
    <3>1. cursor[h][t] <= top[t] /\ cursor[h][t] \in Nat /\ top[t] \in Nat /\ row.id \in Nat
      BY DEF Bounded, ShipTypeOK, Row
    <3>2. QED
      BY <1>1, <1>2, <2>1, <3>1
  <2>2. CASE ~ (u = t /\ r = row)
    <3>1. r \in rows[u]
      BY <1>2, <2>2
    <3>2. QED
      BY <1>1, <1>2, <3>1 DEF Core, ConfirmedIsStored
  <2>3. QED
    BY <2>1, <2>2
<1>9. NoHole'
  <2> SUFFICES ASSUME NEW h \in Hubs, NEW u \in Tables, NEW r \in rows'[u], NEW q \in rows'[u],
                      q.id < r.id, r \in store'[h][u]
               PROVE  q \in store'[h][u]
    BY DEF NoHole
  <2>1. r \in store[h][u] /\ r \in Known(u)
    BY <1>1, KnownParts
  <2>2. CASE u = t /\ r = row
    <3>1. row.id < row.id /\ row.id \in Nat
      BY <1>3, <2>1, <2>2
    <3>2. QED
      BY <3>1
  <2>3. CASE u = t /\ q = row
    <3>1. r.id < row.id /\ r.id \in Nat /\ row.id \in Nat
      BY <1>3, <2>1, <2>3 DEF Row
    <3>2. QED
      BY <2>3, <3>1
  <2>4. CASE r \in rows[u] /\ q \in rows[u]
    BY <1>1, <1>2, <2>1, <2>4 DEF Core, NoHole
  <2>5. QED
    BY <1>2, <2>2, <2>3, <2>4
<1>10. Flight'
  BY <1>1 DEF Core, Flight
<1>11. QED
  BY <1>4, <1>6, <1>7, <1>8, <1>9, <1>10 DEF Core

----------------------------------------------------------------------------
(* The invariant.                                                           *)

LEMMA InitKnown == ASSUME Init PROVE \A t \in Tables : Known(t) = {}
<1> SUFFICES ASSUME NEW t \in Tables, NEW r \in Known(t) PROVE FALSE
  OBVIOUS
<1>1. /\ rows[t] = {} /\ wire = {} /\ \A h \in Hubs : store[h][t] = {}
  BY DEF Init
<1>2. \A s \in Shippers : ship[s].body[t] = {}
  BY DEF Init, Idle, NoBody
<1>3. \/ r \in rows[t] \/ \E h \in Hubs : r \in store[h][t]
      \/ \E s \in Shippers : r \in ship[s].body[t]
      \/ \E q \in wire : r \in q.body[t]
  BY DEF Known
<1>4. QED
  BY <1>1, <1>2, <1>3

LEMMA InitSInv == ASSUME Init PROVE SInv
<1>1. ShipTypeOK
  BY InitType
<1>2. \A t \in Tables : Known(t) = {}
  BY InitKnown
<1>3. Bounded
  <2>1. \A h \in Hubs, t \in Tables : cursor[h][t] = 0 /\ top[t] = 0
    BY DEF Init
  <2>2. QED
    BY <1>2, <2>1, FS_EmptySet DEF Bounded
<1>4. Core
  <2>1. \A s \in Shippers : DrainInv(s)
    BY DEF Init, Idle, DrainInv
  <2>2. (\A q \in wire : WireInv(q)) /\ Flight
    BY ShipAssumption DEF Init, Idle, Flight
  <2>3. ConfirmedIsStored /\ NoHole
    BY DEF Init, ConfirmedIsStored, NoHole
  <2>4. QED
    BY <1>2, <2>1, <2>2, <2>3 DEF Core
<1>5. QED
  BY <1>1, <1>3, <1>4 DEF SInv

(* Every step keeps the types, and inserts a row or is calm.                *)
LEMMA NextKinds ==
  ASSUME ShipTypeOK, Bounded, [Next]_svars
  PROVE  /\ ShipTypeOK'
         /\ \/ \E t \in Tables, loud \in BOOLEAN : Insert(t, loud)
            \/ Calm /\ \A h \in Hubs, t \in Tables : cursor'[h][t] <= top[t]
<1> DEFINE Kind == Calm /\ \A h \in Hubs, t \in Tables : cursor'[h][t] <= top[t]
<1>1. ASSUME NEW t \in Tables, NEW loud \in BOOLEAN, Insert(t, loud) PROVE ShipTypeOK'
  BY <1>1, InsertType
<1>2. ASSUME Around PROVE ShipTypeOK' /\ Kind
  BY <1>2, AroundCalm, DropBounded, PruneType, OutsideType, LaunchType DEF Around
<1>3. ASSUME NEW s \in Shippers, Quiet(s) PROVE ShipTypeOK' /\ Kind
  BY <1>3, QuietCalm, DropBounded, RestType DEF Quiet
<1>4. ASSUME NEW s \in Shippers, NEW G \in ship[s].groups, NEW h \in G,
             Gather(s, G, h) \/ \E u \in Tables : GatherWithout(s, G, h, u)
      PROVE  ShipTypeOK' /\ Kind
  <2>1. Calm /\ CursorsDrop
    BY <1>4, GatherCalm DEF Gather, GatherWithout, CursorsDrop
  <2>2. QED
    BY <1>4, <2>1, GatherType, DropBounded
<1>5. ASSUME NEW s \in Shippers, NEW h \in ship[s].members, Post(s, h)
      PROVE  ShipTypeOK' /\ Kind
  <2>1. Calm /\ CursorsDrop
    BY <1>5, PostCalm DEF Post, CursorsDrop
  <2>2. QED
    BY <1>5, <2>1, PostType, DropBounded
<1>6. ASSUME NEW s \in Shippers, Confirm(s) PROVE ShipTypeOK' /\ Kind
  BY <1>6, ConfirmStep, ConfirmType
<1>7. ASSUME NEW q \in wire, HubIngest(q) PROVE ShipTypeOK' /\ Kind
  <2>1. Calm /\ CursorsDrop
    BY <1>7, IngestCalm DEF HubIngest, CursorsDrop
  <2>2. QED
    BY <1>7, <2>1, HubType, DropBounded
<1>8. ASSUME NEW q \in wire, HubRefuses(q) PROVE ShipTypeOK' /\ Kind
  BY <1>8, RefuseCalm, HubType, DropBounded
<1>9. ASSUME UNCHANGED svars PROVE ShipTypeOK' /\ Kind
  <2>1. UNCHANGED <<rows, cursor, conf, ship, tick, wire, store, logged, counts, top, reused>>
    BY <1>9 DEF svars
  <2>2. \A t \in Tables : Known(t)' = Known(t)
    BY <2>1 DEF Known
  <2>3. Calm /\ CursorsDrop
    BY <2>1, <2>2 DEF Calm, CursorsDrop
  <2>4. QED
    BY <2>1, <2>3, DropBounded DEF ShipTypeOK
<1>10. QED
  BY <1>1, <1>2, <1>3, <1>4, <1>5, <1>6, <1>7, <1>8, <1>9
     DEF Next, Drain, Around, Quiet

(* The types, whatever drains race.                                         *)
LEMMA NextTyped ==
  ASSUME ShipTypeOK, Bounded, [Next]_svars PROVE ShipTypeOK' /\ Bounded'
<1>1. ASSUME NEW t \in Tables, NEW loud \in BOOLEAN, Insert(t, loud) PROVE Bounded'
  BY <1>1, InsertBounded
<1>2. ASSUME Calm, \A h \in Hubs, t \in Tables : cursor'[h][t] <= top[t] PROVE Bounded'
  BY <1>2, BoundedCalm
<1>3. QED
  BY <1>1, <1>2, NextKinds

LEMMA NextCore ==
  ASSUME ShipTypeOK, Bounded, Core, NoRace, ~reused', [Next]_svars PROVE Core'
<1>1. ASSUME NEW t \in Tables, NEW loud \in BOOLEAN, Insert(t, loud) PROVE Core'
  BY <1>1, InsertCore
<1>2. ASSUME ~reused, Around PROVE Core'
  BY <1>2, AroundCore
<1>3. ASSUME ~reused, NEW s \in Shippers, Quiet(s) PROVE Core'
  BY <1>3, QuietCore
<1>4. ASSUME ~reused, NEW s \in Shippers, NEW G \in ship[s].groups, NEW h \in G,
             Gather(s, G, h) \/ \E u \in Tables : GatherWithout(s, G, h, u)
      PROVE  Core'
  BY <1>4, GatherCore
<1>5. ASSUME ~reused, NEW s \in Shippers, NEW h \in ship[s].members, Post(s, h) PROVE Core'
  BY <1>5, PostCore
<1>6. ASSUME ~reused, NEW s \in Shippers, Confirm(s) PROVE Core'
  BY <1>6, ConfirmCore
<1>7. ASSUME ~reused, NEW q \in wire, HubIngest(q) PROVE Core'
  BY <1>7, IngestCore
<1>8. ASSUME ~reused, NEW q \in wire, HubRefuses(q) PROVE Core'
  BY <1>8, RefuseCore
<1>9. ASSUME ~reused, UNCHANGED svars PROVE Core'
  <2>1. UNCHANGED <<rows, cursor, conf, ship, tick, wire, store, logged, counts, top, reused>>
    BY <1>9 DEF svars
  <2>2. \A t \in Tables : Known(t)' = Known(t)
    BY <2>1 DEF Known
  <2>3. Calm /\ CursorsDrop
    BY <2>1, <2>2 DEF Calm, CursorsDrop
  <2>4. QED
    BY <1>9, <2>1, <2>3, StillCore DEF Core, Flight
<1>10. (\E t \in Tables, loud \in BOOLEAN : Insert(t, loud)) \/ ~reused
  BY NextKinds DEF Calm
<1>11. QED
  BY <1>1, <1>2, <1>3, <1>4, <1>5, <1>6, <1>7, <1>8, <1>9, <1>10
     DEF Next, Drain, Around, Quiet

LEMMA NextSInv == ASSUME SInv, NoRace, [Next]_svars PROVE SInv'
<1>1. ShipTypeOK' /\ Bounded'
  BY NextTyped DEF SInv
<1>2. ~reused' => ~reused
  <2>1. ASSUME NEW t \in Tables, NEW loud \in BOOLEAN, Insert(t, loud), ~reused' PROVE ~reused
    BY <2>1, InsertStep DEF SInv
  <2>2. QED
    BY <2>1, NextKinds DEF SInv, Calm
<1>3. ~reused' => Core'
  BY <1>2, NextCore DEF SInv
<1>4. QED
  BY <1>1, <1>3 DEF SInv

(* SInv is invariant, as long as drains do not race.                        *)
THEOREM ShipInvariant == ASSUME NoRace PROVE Spec => []SInv
<1>1. Init => SInv
  BY InitSInv
<1>2. SInv /\ [Next]_svars => SInv'
  BY NextSInv
<1>3. QED
  BY <1>1, <1>2, PTL DEF Spec

(* Every variable keeps its type (ship.py, prune.py, hub.py).               *)
THEOREM ShipTypeCorrect == Spec => []ShipTypeOK
<1>1. Init => ShipTypeOK /\ Bounded
  BY InitSInv DEF SInv
<1>2. ShipTypeOK /\ Bounded /\ [Next]_svars => ShipTypeOK' /\ Bounded'
  BY NextTyped
<1>3. QED
  BY <1>1, <1>2, PTL DEF Spec

(* The cursor advances only to rows its hub has, whatever is lost, retried, *)
(* pruned or reconfigured (ship.py, ship; hub.py, ingest).                  *)
THEOREM CursorsAreConfirmed == ASSUME NoRace PROVE Spec => []ConfirmedIsStored
<1>1. SInv => ConfirmedIsStored
  BY DEF SInv, Core, ConfirmedIsStored
<1>2. QED
  BY <1>1, ShipInvariant, PTL

(* No hub has a hole (ship.py, gather and ship; hub.py, ingest).            *)
THEOREM HubsHaveNoHole == ASSUME NoRace PROVE Spec => []NoHole
<1>1. SInv => NoHole
  BY DEF SInv, Core, NoHole
<1>2. QED
  BY <1>1, ShipInvariant, PTL

(* What pruning takes for shipped is what the farthest configured hub       *)
(* confirmed.                                                               *)
LEMMA ShippedLastIsConfirmed ==
  ASSUME ShipTypeOK, Bounded, conf # {}, NEW t \in Tables
  PROVE  \E h \in conf : ShippedLast(t) = cursor[h][t]
<1> DEFINE S == {cursor[h][t] : h \in conf}
<1>1. S \in SUBSET Nat /\ S # {} /\ top[t] \in Nat /\ \A c \in S : c <= top[t]
  BY DEF ShipTypeOK, Bounded
<1>2. PICK m \in S : \A c \in S : c <= m
  BY <1>1, BoundedHasMax
<1>3. \A h \in conf : cursor[h][t] <= m
  BY <1>2
<1>4. ShippedLast(t) \in S
  BY <1>2, <1>3 DEF ShippedLast
<1>5. QED
  BY <1>4

(* Nothing is deleted that no configured hub has (prune.py, prune).         *)
THEOREM PruneIsSafe == ASSUME NoRace PROVE Spec => DeletedIsStored
<1> DEFINE Kept == conf # {} /\ ~reused =>
                     \A t \in Tables : \A r \in rows[t] \ rows'[t] :
                       \E h \in conf : r \in store[h][t]
<1>1. ASSUME SInv, [Next]_svars PROVE Kept
  <2> SUFFICES ASSUME conf # {}, ~reused, NEW t \in Tables, NEW r \in rows[t], r \notin rows'[t]
               PROVE  \E h \in conf : r \in store[h][t]
    OBVIOUS
  <2>1. ShipTypeOK /\ Bounded /\ Core
    BY <1>1 DEF SInv
  <2>2. CASE \E c \in 1 .. MaxRows : Prune(c)
    <3>1. PICK c \in 1 .. MaxRows : Prune(c)
      BY <2>2
    <3>2. rows'[t] = rows[t] \ Prunable(t, c)
      BY <3>1 DEF Prune
    <3>3. r.id <= ShippedLast(t)
      BY <3>2 DEF Prunable
    <3>4. PICK h \in conf : ShippedLast(t) = cursor[h][t]
      BY <2>1, ShippedLastIsConfirmed
    <3>5. h \in Hubs
      BY <2>1 DEF ShipTypeOK
    <3>6. r \in store[h][t]
      BY <2>1, <3>3, <3>4, <3>5 DEF Core, ConfirmedIsStored
    <3>7. QED
      BY <3>6
  <2>3. ASSUME NEW u \in Tables, NEW loud \in BOOLEAN, Insert(u, loud)
        PROVE  FALSE
    BY <2>1, <2>3, InsertStep
  <2>4. CASE UNCHANGED rows
    BY <2>4
  <2>5. QED
    BY <1>1, <2>2, <2>3, <2>4
       DEF Next, Drain, Reload, Restart, Deadline, Tick, ShipByHand, InitState, NextRound,
           Finish, Gather, GatherWithout, Post, Confirm, GiveUp, Abort, HubIngest,
           HubRefuses, svars
<1>2. QED
  BY <1>1, ShipInvariant, PTL DEF Spec, DeletedIsStored

----------------------------------------------------------------------------
(* What the ingest log counts.                                              *)

(* The serial number of a row belongs to one table.                         *)
Numbered ==
  /\ \A t \in Tables : \A r \in Known(t) : r.n <= counts.rows
  /\ \A t, u \in Tables : t # u => \A r \in Known(t), q \in Known(u) : r.n # q.n

CInv == ShipTypeOK /\ Bounded /\ Numbered /\ ReplayCountsNothing

LEMMA KnownAreRows ==
  ASSUME ShipTypeOK, NEW t \in Tables PROVE Known(t) \subseteq Row
<1>1. /\ rows[t] \subseteq Row /\ \A h \in Hubs : store[h][t] \subseteq Row
      /\ \A s \in Shippers : ship[s].body[t] \subseteq Row
      /\ \A q \in wire : q.body[t] \subseteq Row
  BY DrainFields DEF ShipTypeOK, Bodies, Requests
<1>2. QED
  BY <1>1 DEF Known

LEMMA InsertNumbered ==
  ASSUME ShipTypeOK, Numbered, NEW t \in Tables, NEW loud \in BOOLEAN, Insert(t, loud)
  PROVE  Numbered'
<1> DEFINE row == [id |-> NextId(t), n |-> counts.rows + 1, loud |-> loud]
<1>1. /\ rows' = [rows EXCEPT ![t] = @ \cup {row}] /\ counts'.rows = counts.rows + 1
      /\ UNCHANGED <<ship, wire, store>> /\ counts.rows \in Nat /\ row.n = counts.rows + 1
  BY DEF Insert, ShipTypeOK
<1> HIDE DEF row
<1>2. ASSUME NEW u \in Tables
      PROVE  Known(u)' \subseteq Known(u) \cup (IF u = t THEN {row} ELSE {})
  <2> DEFINE K == Known(u) \cup (IF u = t THEN {row} ELSE {})
  <2>1. /\ rows'[u] \subseteq rows[u] \cup (IF u = t THEN {row} ELSE {})
        /\ rows[u] \subseteq Known(u)
    BY <1>1, KnownParts DEF ShipTypeOK, Bodies
  <2>2. /\ rows'[u] \subseteq K
        /\ \A h \in Hubs : store'[h][u] \subseteq K
        /\ \A s \in Shippers : ship'[s].body[u] \subseteq K
        /\ \A q \in wire' : q.body[u] \subseteq K
    BY <1>1, <2>1, KnownParts
  <2> HIDE DEF K
  <2>3. Known(u)' \subseteq K
    BY <2>2, KnownNext
  <2>4. QED
    BY <2>3 DEF K
<1>3. ASSUME NEW u \in Tables, NEW r \in Known(u)
      PROVE  r.n \in Nat /\ r.n < row.n /\ r.n <= counts'.rows
  <2>1. r.n \in Nat /\ r.n <= counts.rows
    BY KnownAreRows DEF Row, Numbered
  <2>2. QED
    BY <1>1, <2>1
<1>4. \A u \in Tables : \A r \in Known(u)' : r.n <= counts'.rows
  <2> TAKE u \in Tables
  <2> TAKE r \in Known(u)'
  <2>1. r \in Known(u) \/ r = row
    BY <1>2
  <2>2. QED
    BY <1>1, <1>3, <2>1
<1>5. ASSUME NEW u \in Tables, NEW v \in Tables, u # v, NEW r \in Known(u)', NEW q \in Known(v)'
      PROVE  r.n # q.n
  <2>1. /\ r \in Known(u) \/ (r = row /\ u = t)
        /\ q \in Known(v) \/ (q = row /\ v = t)
    BY <1>2
  <2>2. CASE r \in Known(u) /\ q \in Known(v)
    BY <1>5, <2>2 DEF Numbered
  <2>3. CASE r = row /\ q \in Known(v)
    <3>1. q.n < row.n /\ q.n \in Nat /\ row.n \in Nat
      BY <1>1, <1>3, <2>3
    <3>2. QED
      BY <2>3, <3>1
  <2>4. CASE q = row /\ r \in Known(u)
    <3>1. r.n < row.n /\ r.n \in Nat /\ row.n \in Nat
      BY <1>1, <1>3, <2>4
    <3>2. QED
      BY <2>4, <3>1
  <2>5. QED
    BY <1>5, <2>1, <2>2, <2>3, <2>4
<1>6. QED
  BY <1>4, <1>5 DEF Numbered

LEMMA CalmNumbered ==
  ASSUME Numbered, Calm, counts'.rows = counts.rows PROVE Numbered'
<1>1. \A t \in Tables : Known(t)' \subseteq Known(t)
  BY DEF Calm
<1>2. QED
  BY <1>1 DEF Numbered

(* What an ingest adds to a hub was on it in no table, and is counted.      *)
LEMMA IngestCounts ==
  ASSUME ShipTypeOK, Bounded, Numbered, ReplayCountsNothing, NEW q \in wire, HubIngest(q)
  PROVE  ReplayCountsNothing'
<1> DEFINE h == q.hub
           f == [t \in Tables |-> Inserted(h, t, q.body)]
           g == [t \in Tables |-> store[h][t]]
           new == UNION {f[t] : t \in Tables}
           old == UNION {g[t] : t \in Tables}
<1>1. h \in Hubs
  BY DEF ShipTypeOK, Requests
<1>2. \A t \in Tables : /\ f[t] \subseteq q.body[t] /\ f[t] \subseteq Known(t)
                        /\ g[t] \subseteq Known(t) /\ IsFiniteSet(f[t]) /\ IsFiniteSet(g[t])
  <2> TAKE t \in Tables
  <2>1. f[t] \subseteq q.body[t] /\ q.body[t] \subseteq Known(t) /\ g[t] \subseteq Known(t)
    BY <1>1, KnownParts DEF Inserted
  <2>2. IsFiniteSet(Known(t))
    BY DEF Bounded
  <2>3. QED
    BY <2>1, <2>2, FS_Subset
<1>3. IsFiniteSet(new) /\ IsFiniteSet(old)
  <2>1. f = [t \in Tables |-> f[t]] /\ g = [t \in Tables |-> g[t]]
    OBVIOUS
  <2> HIDE DEF f, g
  <2>2. QED
    BY <1>2, <2>1, FiniteOverTables, ShipAssumption
<1>4. ASSUME NEW t \in Tables, NEW u \in Tables, NEW r \in f[t], r \in g[u] PROVE FALSE
  <2>1. CASE t = u
    BY <1>4, <2>1 DEF Inserted, Ids
  <2>2. CASE t # u
    BY <1>2, <1>4, <2>2 DEF Numbered
  <2>3. QED
    BY <2>1, <2>2
<1>5. new \cap old = {}
  <2> HIDE DEF f, g
  <2>1. QED
    BY <1>4
<1>6. \A t \in Tables : store'[h][t] = g[t] \cup f[t]
  BY <1>1 DEF HubIngest, Inserted, ShipTypeOK
<1>7. UNION {store'[h][t] : t \in Tables} = old \cup new
  <2> HIDE DEF f, g
  <2>1. QED
    BY <1>6
<1>8. Cardinality(old \cup new) = Cardinality(old) + Cardinality(new)
  <2> HIDE DEF old, new
  <2>1. /\ Cardinality(old \cup new) =
             Cardinality(old) + Cardinality(new) - Cardinality(old \cap new)
        /\ Cardinality(old \cap new) = 0
    <3>1. old \cap new = {}
      BY <1>5
    <3>2. QED
      BY <1>3, <3>1, FS_Union, FS_EmptySet
  <2>2. Cardinality(old) \in Nat /\ Cardinality(new) \in Nat
    BY <1>3, FS_CardinalityType
  <2>3. QED
    BY <2>1, <2>2
<1>9. logged[h] = Cardinality(old)
  <2>1. old = UNION {store[h][t] : t \in Tables}
    OBVIOUS
  <2>2. QED
    BY <1>1, <2>1 DEF ReplayCountsNothing
<1>10. logged' = [logged EXCEPT ![h] = @ + Cardinality(new)]
  <2>1. new = UNION {Inserted(h, t, q.body) : t \in Tables}
    OBVIOUS
  <2>2. QED
    BY <2>1 DEF HubIngest
<1>11. logged'[h] = Cardinality(UNION {store'[h][t] : t \in Tables})
  <2> HIDE DEF old, new
  <2>1. QED
    BY <1>1, <1>7, <1>8, <1>9, <1>10 DEF ShipTypeOK
<1>12. ASSUME NEW k \in Hubs, k # h
       PROVE  logged'[k] = Cardinality(UNION {store'[k][t] : t \in Tables})
  <2>1. logged'[k] = logged[k] /\ store'[k] = store[k]
    BY <1>12 DEF HubIngest, ShipTypeOK
  <2>2. QED
    BY <2>1 DEF ReplayCountsNothing
<1>13. QED
  <2> HIDE DEF h
  <2> SUFFICES ASSUME NEW k \in Hubs
               PROVE  logged'[k] = Cardinality(UNION {store'[k][t] : t \in Tables})
    BY DEF ReplayCountsNothing
  <2>1. CASE k = h
    BY <1>11, <2>1
  <2>2. CASE k # h
    BY <1>12, <2>2
  <2>3. QED
    BY <2>1, <2>2

(* However often a row is delivered, it is counted once (hub.py, ingest).   *)
THEOREM CountedOnce == Spec => []ReplayCountsNothing
<1>1. Init => CInv
  <2> SUFFICES ASSUME Init PROVE CInv
    OBVIOUS
  <2>1. ShipTypeOK /\ Bounded
    BY InitSInv DEF SInv
  <2>2. \A t \in Tables : Known(t) = {}
    BY InitKnown
  <2>3. Numbered
    BY <2>2 DEF Numbered
  <2>4. ReplayCountsNothing
    <3> SUFFICES ASSUME NEW h \in Hubs
                 PROVE  logged[h] = Cardinality(UNION {store[h][t] : t \in Tables})
      BY DEF ReplayCountsNothing
    <3>1. UNION {store[h][t] : t \in Tables} = {}
      BY DEF Init
    <3>2. QED
      BY <3>1, FS_EmptySet DEF Init
  <2>5. QED
    BY <2>1, <2>3, <2>4 DEF CInv
<1>2. CInv /\ [Next]_svars => CInv'
  <2> SUFFICES ASSUME CInv, [Next]_svars PROVE CInv'
    OBVIOUS
  <2>1. ShipTypeOK' /\ Bounded'
    BY NextTyped DEF CInv
  <2>2. Numbered'
    <3>1. ASSUME NEW t \in Tables, NEW loud \in BOOLEAN, Insert(t, loud) PROVE Numbered'
      BY <3>1, InsertNumbered DEF CInv
    <3>2. CASE ~ \E t \in Tables, loud \in BOOLEAN : Insert(t, loud)
      <4>1. Calm
        BY <3>2, NextKinds DEF CInv
      <4>2. counts'.rows = counts.rows
        BY <3>2 DEF Next, Drain, Prune, Reload, Restart, Deadline, Tick, ShipByHand, InitState,
             NextRound, Finish, Gather, GatherWithout, Fails, Post, Confirm, GiveUp, Abort,
             HubIngest, HubRefuses, svars, CInv, ShipTypeOK
      <4>3. QED
        BY <4>1, <4>2, CalmNumbered DEF CInv
    <3>3. QED
      BY <3>1, <3>2
  <2>3. ReplayCountsNothing'
    <3>1. ASSUME NEW q \in wire, HubIngest(q) PROVE ReplayCountsNothing'
      BY <3>1, IngestCounts DEF CInv
    <3>2. CASE ~ \E q \in wire : HubIngest(q)
      <4>1. UNCHANGED <<store, logged>>
        BY <3>2 DEF Next, Drain, Insert, Prune, Reload, Restart, Deadline, Tick, ShipByHand,
             InitState, NextRound, Finish, Gather, GatherWithout, Post, Confirm, GiveUp,
             Abort, HubRefuses, svars
      <4>2. QED
        BY <4>1 DEF CInv, ReplayCountsNothing
    <3>3. QED
      BY <3>1, <3>2
  <2>4. QED
    BY <2>1, <2>2, <2>3 DEF CInv
<1>3. CInv => ReplayCountsNothing
  BY DEF CInv
<1>4. QED
  BY <1>1, <1>2, <1>3, PTL DEF Spec

----------------------------------------------------------------------------
(* The replica of module Replica.                                           *)

LEMMA TransitShrinks ==
  ASSUME Shrinks, NEW t \in Tables PROVE InTransit'[t] \subseteq InTransit[t]
<1> SUFFICES ASSUME NEW r \in InTransit'[t] PROVE r \in InTransit[t]
  OBVIOUS
<1>1. (\E s \in Shippers : r \in ship'[s].body[t]) \/ (\E q \in wire' : r \in q.body[t])
  BY DEF InTransit
<1>2. (\E s \in Shippers : r \in ship[s].body[t]) \/ (\E q \in wire : r \in q.body[t])
  BY <1>1 DEF Shrinks, NoBody
<1>3. QED
  BY <1>2 DEF InTransit

(* A step that leaves the rows and the hubs alone: at most the cursors move, *)
(* and they are as right as before it.                                      *)
LEMMA MapsToConfirm ==
  ASSUME SInv', ~reused', reused' = reused, UNCHANGED <<rows, store, conf>>,
         \A t \in Tables : InTransit'[t] \subseteq InTransit[t]
  PROVE  Abstract!Next
<1>1. cursor' \in [Hubs -> [Tables -> Nat]] /\ ConfirmedIsStored'
  BY DEF SInv, ShipTypeOK, Core
<1>2. \A h \in Hubs, t \in Tables : \A r \in rows[t] :
        r.id <= cursor'[h][t] => r \in store[h][t]
  BY <1>1 DEF ConfirmedIsStored
<1>3. Abstract!Confirm
  BY <1>1, <1>2 DEF Abstract!Confirm
<1>4. QED
  BY <1>3 DEF Abstract!Next, Abstract!Promised

LEMMA InsertMaps ==
  ASSUME SInv, ~reused', NEW t \in Tables, NEW loud \in BOOLEAN, Insert(t, loud)
  PROVE  Abstract!Next
<1>1. ShipTypeOK /\ Bounded
  BY DEF SInv
<1>2. PICK row \in Row :
        /\ ~reused /\ row.id > top[t] /\ rows'[t] = rows[t] \cup {row}
        /\ \A u \in Tables \ {t} : rows'[u] = rows[u]
  BY <1>1, InsertStep
<1>3. UNCHANGED <<cursor, conf, ship, wire, store>>
  BY DEF Insert
<1>4. row.id \in Nat /\ top[t] \in Nat
  BY <1>1 DEF Row, ShipTypeOK
<1>5. \A r \in Known(t) : r.id \in Nat /\ r.id <= top[t]
  BY <1>1, KnownAreRows DEF Bounded, Row
<1>6. \A r \in Known(t) : r.id < row.id
  BY <1>2, <1>4, <1>5
<1>7. InTransit[t] \subseteq Known(t) /\ InTransit' = InTransit
  BY <1>3 DEF InTransit, Known
<1>8. \A h \in Hubs : cursor[h][t] < row.id
  BY <1>1, <1>2, <1>4 DEF Bounded, ShipTypeOK
<1>9. Abstract!Write(t)
  <2>1. row \in rows'[t]
    BY <1>2
  <2>2. \A q \in rows[t] \cup InTransit[t] : q.id < row.id
    BY <1>6, <1>7, KnownParts
  <2>3. \A h \in Hubs : \A q \in store[h][t] : q.id < row.id
    BY <1>6, KnownParts
  <2>4. QED
    BY <1>2, <1>3, <1>4, <1>7, <1>8, <2>1, <2>2, <2>3 DEF Abstract!Write
<1>10. reused' = reused
  BY <1>1, <1>2 DEF ShipTypeOK, Insert
<1>11. QED
  BY <1>9, <1>10 DEF Abstract!Next, Abstract!Promised

LEMMA PruneMaps ==
  ASSUME SInv, NEW c, Prune(c) PROVE Abstract!Next
<1>1. ShipTypeOK /\ Bounded
  BY DEF SInv
<1>2. /\ \A t \in Tables : rows'[t] = rows[t] \ Prunable(t, c)
      /\ UNCHANGED <<cursor, conf, ship, wire, store, reused>>
  BY DEF Prune
<1>3. ASSUME NEW t \in Tables, NEW r \in rows[t] \ rows'[t], conf # {}
      PROVE  \E h \in conf : r.id <= cursor[h][t]
  <2>1. r.id <= ShippedLast(t)
    BY <1>2, <1>3 DEF Prunable
  <2>2. PICK h \in conf : ShippedLast(t) = cursor[h][t]
    BY <1>1, <1>3, ShippedLastIsConfirmed
  <2>3. QED
    BY <2>1, <2>2
<1>4. \A t \in Tables : rows'[t] \subseteq rows[t]
  BY <1>2
<1>5. InTransit' = InTransit
  BY <1>2 DEF InTransit
<1>6. Abstract!Forget
  BY <1>2, <1>3, <1>4, <1>5 DEF Abstract!Forget
<1>7. QED
  BY <1>2, <1>6 DEF Abstract!Next, Abstract!Promised

LEMMA ReloadMaps ==
  ASSUME NEW H \in SUBSET Hubs, Reload(H) PROVE Abstract!Next
<1>1. conf' \subseteq Hubs /\ UNCHANGED <<rows, cursor, ship, wire, store, reused>>
  BY DEF Reload
<1>2. InTransit' = InTransit
  BY <1>1 DEF InTransit
<1>3. Abstract!Redirect
  BY <1>1, <1>2 DEF Abstract!Redirect
<1>4. QED
  BY <1>1, <1>3 DEF Abstract!Next, Abstract!Promised

LEMMA GatherMaps ==
  ASSUME SInv, NEW s \in Shippers, NEW G \in ship[s].groups, NEW h \in G,
         Gather(s, G, h) \/ \E u \in Tables : GatherWithout(s, G, h, u)
  PROVE  Abstract!Next
<1>1. UNCHANGED <<rows, cursor, conf, store, wire, reused>>
  BY DEF Gather, GatherWithout
<1>2. /\ \A z \in Shippers \ {s} : ship'[z] = ship[z]
      /\ \A t \in Tables : ship'[s].body[t] \subseteq rows[t]
  BY GatherBody DEF SInv
<1>3. ASSUME NEW t \in Tables, NEW r \in InTransit'[t] PROVE r \in InTransit[t] \cup rows[t]
  <2>1. (\E z \in Shippers : r \in ship'[z].body[t]) \/ (\E q \in wire' : r \in q.body[t])
    BY <1>3 DEF InTransit
  <2>2. \/ r \in rows[t] \/ \E z \in Shippers : r \in ship[z].body[t]
        \/ \E q \in wire : r \in q.body[t]
    BY <1>1, <1>2, <2>1
  <2>3. QED
    BY <2>2 DEF InTransit
<1>4. Abstract!Carry
  BY <1>1, <1>3 DEF Abstract!Carry
<1>5. QED
  BY <1>1, <1>4 DEF Abstract!Next, Abstract!Promised

LEMMA PostMaps ==
  ASSUME SInv, SInv', ~reused', NEW s \in Shippers, NEW h \in ship[s].members, Post(s, h)
  PROVE  Abstract!Next
<1>1. UNCHANGED <<rows, conf, store, reused>>
  BY DEF Post
<1>2. \A z \in Shippers : ship'[z].body = ship[z].body
  BY DEF Post, SInv, ShipTypeOK, Drains
<1>3. \A q \in wire' : q \in wire \/ q.body = ship[s].body
  BY DEF Post
<1>4. \A t \in Tables : InTransit'[t] \subseteq InTransit[t]
  <2> SUFFICES ASSUME NEW t \in Tables, NEW r \in InTransit'[t] PROVE r \in InTransit[t]
    OBVIOUS
  <2>1. (\E z \in Shippers : r \in ship'[z].body[t]) \/ (\E q \in wire' : r \in q.body[t])
    BY DEF InTransit
  <2>2. (\E z \in Shippers : r \in ship[z].body[t]) \/ (\E q \in wire : r \in q.body[t])
    BY <1>2, <1>3, <2>1
  <2>3. QED
    BY <2>2 DEF InTransit
<1>5. QED
  BY <1>1, <1>4, MapsToConfirm

LEMMA IngestMaps ==
  ASSUME SInv, ~reused, NEW q \in wire, HubIngest(q) PROVE Abstract!Next
<1> DEFINE h == q.hub
<1>1. ShipTypeOK /\ Core
  BY DEF SInv
<1>2. h \in Hubs /\ Covered(h, q.body) /\ q.body \in Bodies
  BY <1>1 DEF ShipTypeOK, Requests, Core, WireInv
<1>3. UNCHANGED <<rows, cursor, conf, reused>> /\ wire' \subseteq wire
  BY DEF HubIngest
<1>4. \A z \in Shippers : ship'[z].body = ship[z].body
  BY <1>1 DEF HubIngest, ShipTypeOK, Drains
<1>5. \A t \in Tables : InTransit'[t] \subseteq InTransit[t]
  BY <1>3, <1>4, TransitShrinks DEF Shrinks
<1>6. /\ \A g \in Hubs \ {h} : store'[g] = store[g]
      /\ \A t \in Tables : /\ store[h][t] \subseteq store'[h][t]
                           /\ store'[h][t] \subseteq store[h][t] \cup q.body[t]
  BY <1>1, <1>2 DEF HubIngest, ShipTypeOK
<1>7. \A t \in Tables : q.body[t] \subseteq store'[h][t] /\ q.body[t] \subseteq InTransit[t]
  BY <1>1, IngestStores DEF InTransit
<1>8. ASSUME NEW t \in Tables, NEW r \in store'[h][t] \ store[h][t], NEW x \in rows[t],
             x.id < r.id
      PROVE  x \in store'[h][t]
  <2>1. r \in q.body[t]
    BY <1>6, <1>8
  <2>2. x.id \in Nat /\ r.id \in Nat
    BY <1>1, <1>2, <2>1 DEF ShipTypeOK, Bodies, Row
  <2>3. x \in q.body[t] \/ x \in store[h][t]
    BY <1>2, <1>8, <2>1, <2>2 DEF Covered
  <2>4. QED
    BY <1>6, <1>7, <2>3
<1> HIDE DEF h
<1>9. \A t \in Tables : store'[h][t] \subseteq store[h][t] \cup InTransit[t]
  BY <1>6, <1>7
<1>10. Abstract!Arrive(h)
  BY <1>3, <1>5, <1>6, <1>8, <1>9 DEF Abstract!Arrive
<1>11. QED
  BY <1>2, <1>3, <1>10 DEF Abstract!Next, Abstract!Promised

LEMMA StepMaps ==
  ASSUME SInv, SInv', ~reused', [Next]_svars PROVE [Abstract!Next]_(Abstract!vars)
<1> USE DEF SInv
<1>1. ASSUME NEW t \in Tables, NEW loud \in BOOLEAN, Insert(t, loud) PROVE Abstract!Next
  BY <1>1, InsertMaps
<1>2. CASE ~ \E t \in Tables, loud \in BOOLEAN : Insert(t, loud)
  <2>1. reused' = reused /\ ~reused
    BY <1>2, NextKinds DEF Calm
  <2>2. ASSUME UNCHANGED <<rows, store, conf>>, Shrinks PROVE Abstract!Next
    BY <2>1, <2>2, TransitShrinks, MapsToConfirm
  <2>3. CASE Around
    <3>1. ASSUME NEW c \in 1 .. MaxRows, Prune(c) PROVE Abstract!Next
      BY <3>1, PruneMaps
    <3>2. ASSUME NEW H \in SUBSET Hubs, Reload(H) PROVE Abstract!Next
      BY <3>2, ReloadMaps
    <3>3. CASE Restart \/ Deadline \/ Tick \/ ShipByHand
      <4>1. UNCHANGED <<rows, conf>>
        BY <3>3 DEF Restart, Deadline, Tick, ShipByHand, svars
      <4>2. QED
        BY <2>2, <2>3, <4>1, AroundCalm
    <3>4. QED
      BY <2>3, <3>1, <3>2, <3>3 DEF Around
  <2>4. ASSUME NEW s \in Shippers, Quiet(s) PROVE Abstract!Next
    <3>1. UNCHANGED <<rows, conf>>
      BY <2>4 DEF Quiet, InitState, NextRound, Finish, Abort, GiveUp
    <3>2. QED
      BY <2>2, <2>4, <3>1, QuietCalm
  <2>5. ASSUME NEW s \in Shippers, NEW G \in ship[s].groups, NEW h \in G,
               Gather(s, G, h) \/ \E u \in Tables : GatherWithout(s, G, h, u)
        PROVE  Abstract!Next
    BY <2>5, GatherMaps
  <2>6. ASSUME NEW s \in Shippers, NEW h \in ship[s].members, Post(s, h) PROVE Abstract!Next
    BY <2>6, PostMaps
  <2>7. ASSUME NEW s \in Shippers, Confirm(s) PROVE Abstract!Next
    <3>1. UNCHANGED <<rows, store, conf>>
      BY <2>7 DEF Confirm
    <3>2. QED
      BY <2>2, <2>7, <3>1, ConfirmStep
  <2>8. ASSUME NEW q \in wire, HubIngest(q) PROVE Abstract!Next
    BY <2>1, <2>8, IngestMaps
  <2>9. ASSUME NEW q \in wire, HubRefuses(q) PROVE Abstract!Next
    <3>1. UNCHANGED <<rows, store, conf>>
      BY <2>9 DEF HubRefuses
    <3>2. QED
      BY <2>2, <2>9, <3>1, RefuseCalm
  <2>10. CASE UNCHANGED svars
    <3>1. UNCHANGED <<rows, cursor, conf, ship, wire, store, reused>>
      BY <2>10 DEF svars
    <3>2. QED
      BY <3>1 DEF Abstract!vars, InTransit
  <2>11. QED
    BY <1>2, <2>3, <2>4, <2>5, <2>6, <2>7, <2>8, <2>9, <2>10
       DEF Next, Drain, Around, Quiet
<1>3. QED
  BY <1>1, <1>2

(* The program's shipping implements the replica: every step of the          *)
(* collector, of a drain, of the wire or of a hub is one of its steps or     *)
(* none, for any tables, hubs, batch and bounds, as long as drains do not    *)
(* race (ship.py, prune.py; hub.py, ingest).                                 *)
THEOREM ShippingReplicates == ASSUME NoRace PROVE Spec => Replicates
<1>1. Init => Abstract!Init
  <2> SUFFICES ASSUME Init PROVE Abstract!Init
    OBVIOUS
  <2>1. conf \subseteq Hubs
    BY InitType DEF ShipTypeOK
  <2>2. InTransit = [t \in Tables |-> {}]
    BY DEF Init, InTransit, Idle, NoBody
  <2>3. QED
    BY <2>1, <2>2 DEF Init, Abstract!Init
<1>2. SInv /\ SInv' /\ [Next]_svars => [Abstract!Next]_(Abstract!vars)
  <2>1. CASE reused'
    BY <2>1 DEF Abstract!Next
  <2>2. CASE ~reused'
    BY <2>2, StepMaps
  <2>3. QED
    BY <2>1, <2>2
<1>3. QED
  BY <1>1, <1>2, ShipInvariant, PTL DEF Spec, Replicates, Abstract!Spec

=============================================================================
