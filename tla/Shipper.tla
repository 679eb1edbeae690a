------------------------------- MODULE Shipper -------------------------------
(***************************************************************************)
(* Shipping and retention: ship.py, prune.py and the hub's ingest.  The    *)
(* collector thread appends rows, decides when to ship (tick) and prunes;  *)
(* a drain, on a thread of its own, copies every row past each hub's       *)
(* cursor to that hub; a request or its reply can be lost, and a request   *)
(* its sender gave up on may still reach the hub later.                    *)
(*                                                                         *)
(* A row is its rowid, a serial number n that stands for its content and   *)
(* its age, and whether it is an event that must not wait (elevated and    *)
(* not the collector's own).  A hub keeps a row under (node, src_id); one  *)
(* node is modelled.  Transport validation, compression and HTTP framing   *)
(* are left out.                                                           *)
(***************************************************************************)
EXTENDS Integers, FiniteSets

CONSTANTS
  Tables,       (* STD_TABLES, less those of SHIP_EXCLUDE                  *)
  Events,       (* the table tick() looks at, ext_events                   *)
  Hubs,         (* every hub the node may be pointed at                    *)
  Starts,       (* the hubs it is pointed at first, with the reloads and   *)
                (* the drains by hand that are spent already               *)
  Shippers,     (* "thread", and "manual": python -m smokemon.ship         *)
  Batch,        (* SHIP_BATCH                                              *)
  Retention,    (* RETENTION_DAYS > 0                                      *)
  MaxRows,      (* bound: rows ever written                                *)
  MaxFailures,  (* bound: requests or replies lost, drains aborted         *)
  MaxRestarts,  (* bound: restarts of the collector                        *)
  MaxReloads,   (* bound: SIGHUPs                                          *)
  MaxByHand     (* bound: drains by hand                                   *)

ASSUME ShipAssumption ==
  /\ IsFiniteSet(Tables) /\ Events \in Tables
  /\ "thread" \in Shippers /\ Shippers \subseteq {"thread", "manual"}
  /\ IsFiniteSet(Hubs) /\ Hubs # {}
  /\ Batch \in Nat \ {0} /\ Retention \in BOOLEAN
  /\ MaxRows \in Nat /\ MaxFailures \in Nat /\ MaxRestarts \in Nat /\ MaxReloads \in Nat
  /\ MaxByHand \in Nat
  /\ Starts \subseteq [conf : SUBSET Hubs, reloads : Nat, byhand : Nat]

VARIABLES
  rows,     (* the node's rows, by table                                   *)
  cursor,   (* ship_state: last_id by hub and table, 0 where there is none *)
  conf,     (* config.HUBS                                                 *)
  ship,     (* each shipper's drain                                        *)
  tick,     (* _pending, _seen_id, whether _next_due has passed, _inflight *)
  wire,     (* requests on their way to a hub                              *)
  store,    (* the hubs' rows, by hub and table                            *)
  logged,   (* the sum of ingest_log.rows on each hub                      *)
  counts,   (* rows written, failures, restarts and reloads so far         *)
  top,      (* the highest rowid ever given out (for the properties only)  *)
  reused    (* whether a rowid was given out twice (ditto)                 *)

svars == <<rows, cursor, conf, ship, tick, wire, store, logged, counts, top, reused>>

----------------------------------------------------------------------------
Row == [id: Nat, n: Nat, loud: BOOLEAN]
Bodies == [Tables -> SUBSET Row]
NoBody == [t \in Tables |-> {}]
NoMark == -1
Nobody == "nobody"

\* dest is the hub being posted to; active collects the hubs of the next round.
Idle == [pc |-> "idle", active |-> {}, groups |-> {}, members |-> {},
         body |-> NoBody, dest |-> {}]

\* The module's state when the collector starts.
Started == [pending |-> FALSE, seen |-> NoMark, due |-> TRUE, inflight |-> FALSE]

\* The greatest rowid of a set of rows, 0 when it is empty.
TopId(R) == IF R = {} THEN 0 ELSE CHOOSE i \in {r.id : r \in R} : \A r \in R : r.id <= i

\* SQLite's rowid for a table declared INTEGER PRIMARY KEY without AUTOINCREMENT.
NextId(t) == TopId(rows[t]) + 1

----------------------------------------------------------------------------
(* The collector thread: writing, pruning, SIGHUP, restart.                *)

Insert(t, loud) ==
  /\ counts.rows < MaxRows /\ (loud => t = Events)
  /\ LET id == NextId(t)
     IN /\ rows' = [rows EXCEPT ![t] = @ \cup
                      {[id |-> id, n |-> counts.rows + 1, loud |-> loud]}]
        /\ top' = [top EXCEPT ![t] = IF id > @ THEN id ELSE @]
        /\ reused' = (reused \/ id <= top[t])
  /\ counts' = [counts EXCEPT !.rows = @ + 1]
  /\ UNCHANGED <<cursor, conf, ship, tick, wire, store, logged>>

\* Bug: the cursors of hubs the node no longer ships to count as well.
ShippedLastAnywhere(t) ==
  CHOOSE c \in {cursor[h][t] : h \in Hubs} : \A h \in Hubs : cursor[h][t] <= c

\* _shipped_last: the highest cursor of the configured hubs.
ShippedLast(t) ==
  CHOOSE c \in {cursor[h][t] : h \in conf} : \A h \in conf : cursor[h][t] <= c

\* prune.prune: rows older than the cutoff c, and shipped where there is a hub.
Prunable(t, c) ==
  {r \in rows[t] : r.n <= c /\ (conf # {} => r.id <= ShippedLast(t))}

Prune(c) ==
  /\ Retention
  /\ \E t \in Tables : Prunable(t, c) # {}
  /\ rows' = [t \in Tables |-> rows[t] \ Prunable(t, c)]
  /\ UNCHANGED <<cursor, conf, ship, tick, wire, store, logged, counts, top, reused>>

\* SIGHUP: config.reload_hubs.
Reload(H) ==
  /\ counts.reloads < MaxReloads /\ H # conf
  /\ conf' = H /\ counts' = [counts EXCEPT !.reloads = @ + 1]
  /\ UNCHANGED <<rows, cursor, ship, tick, wire, store, logged, top, reused>>

\* init_state: the cursors of hubs that are no longer configured are dropped.
Cleaned ==
  [h \in Hubs |-> IF conf = {} \/ h \in conf THEN cursor[h] ELSE [t \in Tables |-> 0]]

\* What is left of the requests when s stops waiting for them.
Orphaned(s) == {IF q.by = s THEN [q EXCEPT !.by = Nobody] ELSE q : q \in wire}

Restart ==
  /\ counts.restarts < MaxRestarts
  /\ counts' = [counts EXCEPT !.restarts = @ + 1]
  /\ ship' = [ship EXCEPT !["thread"] = Idle]
  /\ tick' = Started /\ cursor' = Cleaned /\ wire' = Orphaned("thread")
  /\ UNCHANGED <<rows, conf, store, logged, top, reused>>

----------------------------------------------------------------------------
(* When to ship.                                                           *)

Deadline ==
  /\ ~tick.due /\ tick' = [tick EXCEPT !.due = TRUE]
  /\ UNCHANGED <<rows, cursor, conf, ship, wire, store, logged, counts, top, reused>>

\* _elevated_pending: a level, raised by an event past the mark.  The first look
\* only sets the mark.
ElevatedPending ==
  \/ tick.pending
  \/ /\ tick.seen # NoMark
     /\ \E r \in rows[Events] : r.id > tick.seen /\ r.loud

Launch(s) == ship' = [ship EXCEPT ![s] = [Idle EXCEPT !.pc = "init", !.active = conf]]

\* Bug: the level is lowered though the ship in flight may have passed the event.
TickLosesEdge ==
  /\ conf # {}
  /\ IF (ElevatedPending \/ tick.due) /\ ~tick.inflight
     THEN /\ Launch("thread")
          /\ tick' = [pending |-> FALSE, seen |-> TopId(rows[Events]),
                      due |-> FALSE, inflight |-> TRUE]
     ELSE /\ tick' = [tick EXCEPT !.pending = FALSE, !.seen = TopId(rows[Events])]
          /\ UNCHANGED ship
  /\ UNCHANGED <<rows, cursor, conf, wire, store, logged, counts, top, reused>>

\* ship.tick; with no hub it returns at once.
Tick ==
  \/ conf = {} /\ UNCHANGED svars
  \/ /\ conf # {}
     /\ IF (ElevatedPending \/ tick.due) /\ ~tick.inflight
        THEN /\ Launch("thread")
             /\ tick' = [pending |-> FALSE, seen |-> TopId(rows[Events]),
                         due |-> FALSE, inflight |-> TRUE]
        ELSE /\ tick' = [tick EXCEPT !.pending = ElevatedPending,
                                     !.seen = TopId(rows[Events])]
             /\ UNCHANGED ship
     /\ UNCHANGED <<rows, cursor, conf, wire, store, logged, counts, top, reused>>

\* python -m smokemon.ship, by hand.
ShipByHand ==
  /\ "manual" \in Shippers /\ conf # {} /\ ship["manual"].pc = "idle"
  /\ counts.byhand < MaxByHand /\ counts' = [counts EXCEPT !.byhand = @ + 1]
  /\ Launch("manual")
  /\ UNCHANGED <<rows, cursor, conf, tick, wire, store, logged, top, reused>>

----------------------------------------------------------------------------
(* The drain of one shipper.                                               *)

InitState(s) ==
  /\ ship[s].pc = "init"
  /\ cursor' = Cleaned
  /\ ship' = [ship EXCEPT ![s].pc = "drain"]
  /\ UNCHANGED <<rows, conf, tick, wire, store, logged, counts, top, reused>>

\* Bug: hubs that lag are grouped with those that do not.
OneGroup(H) == {H}

\* Hubs at the same frontier share one gather.
Groups(H) == {{g \in H : cursor[g] = cursor[h]} : h \in H}

NextRound(s) ==
  /\ ship[s].pc = "drain" /\ ship[s].groups = {} /\ ship[s].active # {}
  /\ ship' = [ship EXCEPT ![s].groups = Groups(ship[s].active), ![s].active = {}]
  /\ UNCHANGED <<rows, cursor, conf, tick, wire, store, logged, counts, top, reused>>

\* Bug: the lock stays taken.
EndedLocked(s) == ship' = [ship EXCEPT ![s] = Idle] /\ UNCHANGED tick

\* Bug: a place in the program nobody leads out of.
EndedNowhere(s) ==
  /\ ship' = [ship EXCEPT ![s] = [Idle EXCEPT !.pc = "ended"]]
  /\ tick' = IF s = "thread" THEN [tick EXCEPT !.inflight = FALSE] ELSE tick

\* The end of a drain; _run releases the lock tick() took for its thread.
Ended(s) ==
  /\ ship' = [ship EXCEPT ![s] = Idle]
  /\ tick' = IF s = "thread" THEN [tick EXCEPT !.inflight = FALSE] ELSE tick

Finish(s) ==
  /\ ship[s].pc = "drain" /\ ship[s].groups = {} /\ ship[s].active = {}
  /\ Ended(s)
  /\ UNCHANGED <<rows, cursor, conf, wire, store, logged, counts, top, reused>>

Fresh(t, last) == {r \in rows[t] : r.id > last}

\* Bug: the limit keeps the newest rows.
SelectedNewest(t, last) ==
  {r \in Fresh(t, last) : Cardinality({q \in Fresh(t, last) : q.id >= r.id}) <= Batch}

\* The first Batch rows past the cursor, in rowid order.
Selected(t, last) ==
  {r \in Fresh(t, last) : Cardinality({q \in Fresh(t, last) : q.id <= r.id}) <= Batch}

Gathered(s, G, body) ==
  ship' = [ship EXCEPT ![s].groups = @ \ {G},
                       ![s].pc = IF body = NoBody THEN "drain" ELSE "post",
                       ![s].members = IF body = NoBody THEN {} ELSE G,
                       ![s].body = body]

\* gather: for the first hub of a group, on behalf of all of them.
Gather(s, G, h) ==
  /\ ship[s].pc = "drain" /\ G \in ship[s].groups /\ h \in G
  /\ Gathered(s, G, [t \in Tables |-> Selected(t, cursor[h][t])])
  /\ UNCHANGED <<rows, cursor, conf, tick, wire, store, logged, counts, top, reused>>

Fails == /\ counts.failures < MaxFailures
         /\ counts' = [counts EXCEPT !.failures = @ + 1]

\* A table gather could not read is left out of the body.
GatherWithout(s, G, h, u) ==
  /\ ship[s].pc = "drain" /\ G \in ship[s].groups /\ h \in G /\ Fails
  /\ Gathered(s, G, [t \in Tables |-> IF t = u THEN {} ELSE Selected(t, cursor[h][t])])
  /\ UNCHANGED <<rows, cursor, conf, tick, wire, store, logged, top, reused>>

\* Bug: the cursor moves when the body is sent.
PostMarks(s, h) ==
  /\ ship[s].pc = "post" /\ h \in ship[s].members
  /\ ship' = [ship EXCEPT ![s].pc = "wait", ![s].dest = {h},
                          ![s].members = @ \ {h}]
  /\ wire' = wire \cup {[hub |-> h, body |-> ship[s].body, by |-> s]}
  /\ cursor' = [cursor EXCEPT ![h] = [t \in Tables |->
                  IF ship[s].body[t] = {} THEN @[t] ELSE TopId(ship[s].body[t])]]
  /\ UNCHANGED <<rows, conf, tick, store, logged, counts, top, reused>>

Post(s, h) ==
  /\ ship[s].pc = "post" /\ h \in ship[s].members
  /\ ship' = [ship EXCEPT ![s].pc = "wait", ![s].dest = {h},
                          ![s].members = @ \ {h}]
  /\ wire' = wire \cup {[hub |-> h, body |-> ship[s].body, by |-> s]}
  /\ UNCHANGED <<rows, cursor, conf, tick, store, logged, counts, top, reused>>

\* On to the group's next member, or the next group.
Onward(d) ==
  IF d.members # {} THEN [d EXCEPT !.pc = "post", !.dest = {}]
  ELSE [d EXCEPT !.pc = "drain", !.dest = {}, !.body = NoBody]

\* Some table filled its batch, so this hub has more to come.
More(body) == \E t \in Tables : Cardinality(body[t]) >= Batch

\* HTTP 200: the cursor of every table in the body moves to the body's last id.
Confirm(s) ==
  /\ ship[s].pc = "answered"
  /\ LET d == ship[s]
     IN /\ cursor' = [h \in Hubs |-> [t \in Tables |->
                        IF h \in d.dest /\ d.body[t] # {} THEN TopId(d.body[t])
                        ELSE cursor[h][t]]]
        /\ ship' = [ship EXCEPT ![s] =
             Onward(IF More(d.body) THEN [d EXCEPT !.active = @ \cup d.dest] ELSE d)]
  /\ UNCHANGED <<rows, conf, tick, wire, store, logged, counts, top, reused>>

\* No answer came: the hub is dropped for the rest of the drain.  The request may be
\* gone, may have been served, or may still be on its way.
GiveUp(s) ==
  /\ ship[s].pc \in {"wait", "answered"} /\ Fails
  /\ ship' = [ship EXCEPT ![s] = Onward(@)]
  /\ wire' \in {{q \in wire : q.by # s}, Orphaned(s)}
  /\ UNCHANGED <<rows, cursor, conf, tick, store, logged, top, reused>>

\* A cursor could not be read or written: the exception ends the whole drain.
Abort(s) ==
  /\ ship[s].pc \in {"init", "drain", "answered"} /\ Fails
  /\ Ended(s)
  /\ UNCHANGED <<rows, cursor, conf, wire, store, logged, top, reused>>

----------------------------------------------------------------------------
(* The hub: ingest, one transaction.  INSERT OR IGNORE on (node, src_id).  *)

Ids(R) == {r.id : r \in R}

\* Bug: the count of rows sent, not of rows inserted.
InsertedSent(h, t, body) == body[t]

Inserted(h, t, body) == {r \in body[t] : r.id \notin Ids(store[h][t])}

HubIngest(q) ==
  /\ q \in wire
  /\ store' = [store EXCEPT ![q.hub] =
                 [t \in Tables |-> @[t] \cup
                    {r \in q.body[t] : r.id \notin Ids(store[q.hub][t])}]]
  /\ logged' = [logged EXCEPT ![q.hub] =
                  @ + Cardinality(UNION {Inserted(q.hub, t, q.body) : t \in Tables})]
  /\ wire' = wire \ {q}
  /\ ship' = IF q.by = Nobody THEN ship ELSE [ship EXCEPT ![q.by].pc = "answered"]
  /\ UNCHANGED <<rows, cursor, conf, tick, counts, top, reused>>

\* Any other answer: no slot free (503), the wrong key (401), a body that is too long
\* (413), or a transaction that failed and was rolled back (500).
HubRefuses(q) ==
  /\ q \in wire /\ Fails
  /\ wire' = wire \ {q}
  /\ ship' = IF q.by = Nobody THEN ship ELSE [ship EXCEPT ![q.by] = Onward(@)]
  /\ UNCHANGED <<rows, cursor, conf, tick, store, logged, top, reused>>

----------------------------------------------------------------------------
Init ==
  /\ rows = [t \in Tables |-> {}]
  /\ cursor = [h \in Hubs |-> [t \in Tables |-> 0]]
  /\ \E a \in Starts :
       /\ conf = a.conf
       /\ counts = [rows |-> 0, failures |-> 0, restarts |-> 0, reloads |-> a.reloads,
                    byhand |-> a.byhand]
  /\ ship = [s \in Shippers |-> Idle]
  /\ tick = Started
  /\ wire = {}
  /\ store = [h \in Hubs |-> [t \in Tables |-> {}]]
  /\ logged = [h \in Hubs |-> 0]
  /\ top = [t \in Tables |-> 0]
  /\ reused = FALSE

Drain(s) ==
  \/ InitState(s) \/ NextRound(s) \/ Finish(s)
  \/ \E G \in ship[s].groups : \E h \in G : Gather(s, G, h)
  \/ \E h \in ship[s].members : Post(s, h)
  \/ Confirm(s)

Next ==
  \/ \E t \in Tables, loud \in BOOLEAN : Insert(t, loud)
  \/ \E c \in 1 .. MaxRows : Prune(c)
  \/ \E H \in SUBSET Hubs : Reload(H)
  \/ Restart
  \/ Deadline
  \/ Tick
  \/ ShipByHand
  \/ \E s \in Shippers : Drain(s) \/ GiveUp(s) \/ Abort(s)
  \/ \E s \in Shippers, u \in Tables : \E G \in ship[s].groups : \E h \in G :
       GatherWithout(s, G, h, u)
  \/ \E q \in wire : HubIngest(q) \/ HubRefuses(q)

Spec == Init /\ [][Next]_svars

\* The scheduler calls tick again and again, a thread that can run does, and a hub
\* answers what reaches it: only MaxFailures requests ever fail.
Running ==
  /\ WF_svars(Tick)
  /\ \A s \in Shippers : WF_svars(Drain(s))
  /\ WF_svars(\E q \in wire : HubIngest(q))

\* Nothing but an elevated event is certain to make a ship due: the deadline may
\* pass or not.
EventDriven == Spec /\ Running

----------------------------------------------------------------------------
(* Properties.                                                             *)

Drains == [pc: {"idle", "init", "drain", "post", "wait", "answered"},
           active: SUBSET Hubs, groups: SUBSET SUBSET Hubs, members: SUBSET Hubs,
           body: Bodies, dest: SUBSET Hubs]
Requests == [hub: Hubs, body: Bodies, by: Shippers \cup {Nobody}]

\* Types of the node's, the shippers' and the hubs' state.
ShipTypeOK ==
  /\ rows \in Bodies
  /\ cursor \in [Hubs -> [Tables -> Nat]]
  /\ conf \in SUBSET Hubs
  /\ ship \in [Shippers -> Drains]
  /\ tick \in [pending: BOOLEAN, seen: Nat \cup {NoMark},
               due: BOOLEAN, inflight: BOOLEAN]
  /\ wire \in SUBSET Requests
  /\ store \in [Hubs -> Bodies]
  /\ logged \in [Hubs -> Nat]
  /\ counts \in [rows: Nat, failures: Nat, restarts: Nat, reloads: Nat, byhand: Nat]
  /\ top \in [Tables -> Nat]
  /\ reused \in BOOLEAN

\* ship.py: the cursor "advances only on HTTP 200", to rows the hub then has.  A row
\* the node still holds at or below a hub's cursor is stored on that hub, whatever
\* was lost, retried, pruned or reconfigured (until a rowid is given out twice).
ConfirmedIsStored ==
  reused \/ \A h \in Hubs, t \in Tables : \A r \in rows[t] :
              r.id <= cursor[h][t] => r \in store[h][t]

\* prune.py's safety rule: while a hub is configured, a row is deleted only when a
\* configured hub has it (until a rowid is given out twice).
DeletedIsStored ==
  [][conf # {} /\ ~reused =>
       \A t \in Tables : \A r \in rows[t] \ rows'[t] :
         \E h \in conf : r \in store[h][t]]_svars

\* The same rule as prune.py words it: an outage "backs up on disk rather than
\* silently dropping un-shipped data".
UnshippedIsKept ==
  [][conf # {} =>
       \A t \in Tables : \A r \in rows[t] \ rows'[t] :
         \E h \in conf : r \in store[h][t]]_svars

\* A hub has no hole: of two rows the node still holds, the later one is on a hub
\* only if the earlier one is -- with replies lost, requests arriving after their
\* retry, and hubs that lag (until a rowid is given out twice).
NoHole ==
  reused \/ \A h \in Hubs, t \in Tables : \A r, q \in rows[t] :
              q.id < r.id /\ r \in store[h][t] => q \in store[h][t]

\* Invariant 14 of the ADR, the same shipment may be delivered more than once: what
\* the ingest log has counted on a hub is the number of rows the hub holds, however
\* often they were delivered.
ReplayCountsNothing ==
  \A h \in Hubs : logged[h] = Cardinality(UNION {store[h][t] : t \in Tables})

Held(t, n) == \E r \in rows[t] : r.n = n
Arrived(h, t, n) == \E r \in store[h][t] : r.n = n

\* As long as the periodic deadline keeps passing, every row the node holds reaches
\* every hub it is configured for.
Delivered ==
  WF_svars(Deadline) => \A h \in Hubs, t \in Tables, n \in 1 .. MaxRows :
    Held(t, n) /\ h \in conf ~> Arrived(h, t, n) \/ h \notin conf

Undisturbed == counts.failures = 0 /\ counts.restarts = 0

\* ship.tick: "a detection arriving mid-flight is not lost".  An elevated event
\* reaches the hubs although no periodic ship ever comes due again, unless a ship
\* fails or the collector restarts.
ExpeditedArrives ==
  \A h \in Hubs, n \in 1 .. MaxRows :
    (\E r \in rows[Events] : r.n = n /\ r.loud)
      ~> (Undisturbed => Arrived(h, Events, n))

\* What is on its way to a hub, by table.
InTransit ==
  [t \in Tables |->
     UNION ({ship[s].body[t] : s \in Shippers} \cup {q.body[t] : q \in wire})]

Abstract == INSTANCE Replica WITH
  kept <- rows, copy <- store, mark <- cursor, dests <- conf,
  transit <- InTransit, spoiled <- reused

\* Shipping, retention and ingest together implement the replica of module Replica:
\* whatever is lost, retried, restarted or reconfigured, rows only reach a hub without
\* a gap, a cursor moves only over what its hub has, and the node forgets only what a
\* cursor of a configured hub covers (until a rowid is given out twice).
Replicates == Abstract!Spec
=============================================================================
