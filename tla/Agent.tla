-------------------------------- MODULE Agent --------------------------------
(***************************************************************************)
(* The collector's probes around its one SQLite connection: what a probe   *)
(* writes, how _guarded reports the ones that fail, the edge-triggered     *)
(* events, the footprint governor, delta-coded inventory and log excerpts. *)
(* Another connection (the shipper's thread, a tool run by hand) takes the *)
(* write lock at any moment, and the process may be killed at any moment.  *)
(*                                                                         *)
(* A statement that waits for the lock longer than busy_timeout raises     *)
(* OperationalError: here it finds the lock held.  Python opened a         *)
(* transaction before the statement and leaves it open; a SELECT inside it *)
(* then pins a snapshot, and once somebody else has committed no write of  *)
(* that transaction can succeed any more.                                  *)
(*                                                                         *)
(* The detector's own batches are module Node's; here they are the two     *)
(* things they do to the connection.  One fact, one edge, one counter and  *)
(* one log file stand for all of them.                                     *)
(***************************************************************************)
EXTENDS Integers, FiniteSets

CONSTANTS
  Configs,     (* the sets of probes _probes() may schedule                *)
  Facts,       (* values of the device fact                                *)
  NoFact,      (* no value of it: not loaded yet, or no row                *)
  MaxOom,      (* bound: kills the kernel counts                           *)
  ExcerptCap,  (* LOGEXCERPT_MAX_BYTES, in lines                           *)
  Always,      (* LOGEXCERPT_ALWAYS                                        *)
  MaxLines,    (* bound: lines ever written to the log file                *)
  MaxFaults    (* bound: disks found full, probes that raise               *)

Samplers == {"ping", "net", "wifi", "sweep"}
Known == Samplers \cup
  {"heartbeat", "host", "inventory", "logexcerpt", "baseline-flush", "prune", "ship"}

ASSUME AgentAssumption ==
  /\ Configs \subseteq SUBSET Known /\ NoFact \notin Facts
  /\ MaxOom \in Nat /\ ExcerptCap \in Nat \ {0} /\ Always \in BOOLEAN
  /\ MaxLines \in Nat \ {0} /\ MaxFaults \in Nat

VARIABLES
  probes,    (* the probes this configuration schedules                    *)
  held,      (* another connection holds the write lock                    *)
  tx,        (* the connection's transaction                               *)
  owed,      (* history: a write failed since it was last ended            *)
  pc, probe, (* where the collector thread is, and in which probe          *)
  active,    (* events._active                                             *)
  said,      (* history: keys whose last event of this process is a bad one*)
  seen, oom, (* events._counters (-1: none) and the kernel's own counter   *)
  bad,       (* the under-voltage bit                                      *)
  over,      (* the process exceeds a footprint budget                     *)
  ready,     (* the governor's note interval has passed                    *)
  value, last, fact, (* the device fact now, in _last, in its newest row   *)
  slipped,   (* history: the change _last holds was not written            *)
  repeated,  (* history: a row repeated its predecessor for no such reason *)
  mark, fresh, (* _last_event_id is set; an elevated event lies past it    *)
  file,      (* the log file holds lines base+1 .. end                     *)
  cursor,    (* its log_cursors row: none, or one [off, size]              *)
  turned,    (* history: the file was rotated since the cursor was stored  *)
  captured, cut, forgone, (* history: lines excerpted, dropped by the cap, *)
             (* and those older than the watch or taken by a rotation      *)
  faults

edges == <<active, said>>
counter == <<seen, oom>>
governor == <<over, ready>>
inventory == <<value, last, fact, slipped, repeated>>
trigger == <<mark, fresh>>
excerpts == <<file, cursor, turned, captured, cut, forgone>>
gvars == <<probes, held, tx, owed, pc, probe, edges, counter, bad, governor,
           inventory, trigger, excerpts, faults>>

----------------------------------------------------------------------------
(* The connection.                                                         *)

\* A SELECT inside an open transaction takes a snapshot and keeps it.
AfterRead(t) == IF t = "begun" THEN "reading" ELSE t

\* Nothing is rolled back when a statement raises: the implicit BEGIN stays.
AfterFailure(t) == IF t = "none" THEN "begun" ELSE t

Writable(t) == ~held /\ t # "stale"

Fault == faults < MaxFaults /\ faults' = faults + 1

\* A batch of writes and its commit, in transaction t: done, refused because of
\* the lock or the snapshot, or rolled back by SQLite because the disk is full.
Write(t, outcome) ==
  \/ /\ outcome = "done" /\ Writable(t)
     /\ tx' = "none" /\ owed' = FALSE /\ UNCHANGED faults
  \/ /\ outcome = "locked" /\ ~Writable(t)
     /\ tx' = AfterFailure(t) /\ owed' = TRUE /\ UNCHANGED faults
  \/ /\ outcome = "full" /\ Writable(t)
     /\ tx' = "none" /\ owed' = FALSE /\ Fault

Outcomes == {"done", "locked", "full"}

\* A commit with nothing to write always succeeds.
Commit == tx' = "none" /\ owed' = FALSE /\ UNCHANGED faults

\* What an event committed now does to the excerpt trigger.
Heard(loud) == fresh' = (fresh \/ (loud /\ mark)) /\ UNCHANGED mark

----------------------------------------------------------------------------
(* events: trip, clear and counter, all of which write through _emit.      *)

\* Bug: the key is marked whether or not the event was written.
TripMarksFirst(t, key) ==
  IF key \in active THEN tx' = t /\ UNCHANGED <<owed, edges, trigger, faults>>
  ELSE /\ active' = active \cup {key}
       /\ \E o \in Outcomes :
            /\ Write(t, o)
            /\ IF o = "done" THEN said' = said \cup {key} /\ Heard(TRUE)
               ELSE UNCHANGED <<said, trigger>>

Trip(t, key) ==
  IF key \in active THEN tx' = t /\ UNCHANGED <<owed, edges, trigger, faults>>
  ELSE \E o \in Outcomes :
         /\ Write(t, o)
         /\ IF o = "done"
            THEN active' = active \cup {key} /\ said' = said \cup {key} /\ Heard(TRUE)
            ELSE UNCHANGED <<edges, trigger>>

\* A recovery is not elevated.
Clear(t, key) ==
  IF key \notin active THEN tx' = t /\ UNCHANGED <<owed, edges, trigger, faults>>
  ELSE \E o \in Outcomes :
         /\ Write(t, o)
         /\ IF o = "done" THEN active' = active \ {key} /\ said' = said \ {key}
            ELSE UNCHANGED edges
         /\ UNCHANGED trigger

\* counter: the value seen is kept before the event about it is written.
Count(t) ==
  /\ seen' = oom
  /\ IF seen >= 0 /\ oom > seen
     THEN \E o \in Outcomes :
            Write(t, o) /\ IF o = "done" THEN Heard(TRUE) ELSE UNCHANGED trigger
     ELSE tx' = t /\ UNCHANGED <<owed, trigger, faults>>

----------------------------------------------------------------------------
(* _guarded: shed, run, report.                                            *)

At(place) == pc' = place /\ UNCHANGED probe

Begins(p) == pc = "idle" /\ p \in probes /\ probe' = p

Expensive == {"logexcerpt", "inventory"}

\* governor.note runs outside the try: a failure is only logged by run_scheduler.
Shed(p) ==
  /\ Begins(p) /\ p \in Expensive /\ over /\ pc' = "idle"
  /\ ready' = FALSE
  /\ IF ready
     THEN \E o \in Outcomes :
            Write(tx, o) /\ IF o = "done" THEN Heard(TRUE) ELSE UNCHANGED trigger
     ELSE UNCHANGED <<tx, owed, trigger, faults>>
  /\ UNCHANGED <<probes, held, edges, counter, bad, over, inventory, excerpts>>

Starts(p) == Begins(p) /\ ~(p \in Expensive /\ over)

\* How _guarded goes on after the probe's fn.
After(outcome) == pc' = IF outcome = "done" THEN "fine" ELSE "contended"

Crash(p) ==
  /\ Starts(p) /\ Fault /\ pc' = "crashed"
  /\ UNCHANGED <<probes, held, tx, owed, edges, counter, bad, governor, inventory,
                 trigger, excerpts>>

\* Both reports look up incidents.active_uid first, a SELECT.
Report ==
  /\ \/ pc = "contended" /\ Trip(AfterRead(tx), <<"db", probe>>)
     \/ pc = "crashed" /\ Trip(AfterRead(tx), <<"probe", probe>>)
  /\ At("idle")
  /\ UNCHANGED <<probes, held, counter, bad, governor, inventory, excerpts>>

Recovered ==
  /\ \/ pc = "fine" /\ Clear(tx, <<"probe", probe>>) /\ At("fine2")
     \/ pc = "fine2" /\ Clear(tx, <<"db", probe>>) /\ At("idle")
  /\ UNCHANGED <<probes, held, counter, bad, governor, inventory, excerpts>>

----------------------------------------------------------------------------
(* heartbeat.collect, host.collect and the tasks beside the probes.        *)

\* open_count is a SELECT; then one insert and its commit.
Heartbeat ==
  /\ Starts("heartbeat")
  /\ \E o \in Outcomes : Write(AfterRead(tx), o) /\ After(o)
  /\ UNCHANGED <<probes, held, edges, counter, bad, governor, inventory, trigger, excerpts>>

\* The detector's batch.  ensure_table's executescript commits what is open before
\* the batch begins, and a batch that fails is rolled back.
Batch ==
  \/ UNCHANGED <<tx, owed, trigger, faults>>
  \/ Commit /\ UNCHANGED trigger
  \/ Commit /\ ~held /\ Heard(TRUE)

Host ==
  /\ Starts("host") /\ pc' = "count" /\ Batch
  /\ UNCHANGED <<probes, held, edges, counter, bad, governor, inventory, excerpts>>

\* The probes that only feed the detector, and the stale sweep.
Sampler(p) ==
  /\ p \in Samplers /\ Starts(p) /\ pc' = "fine" /\ Batch
  /\ UNCHANGED <<probes, held, edges, counter, bad, governor, inventory, excerpts>>

\* baseline.maybe_flush defers what it could not write; often there is nothing to.
Flush ==
  /\ Starts("baseline-flush") /\ pc' = "fine"
  /\ \/ UNCHANGED <<tx, owed, faults>>
     \/ \E o \in Outcomes : Write(tx, o)
  /\ UNCHANGED <<probes, held, edges, counter, bad, governor, inventory, trigger, excerpts>>

\* One DELETE for each table, which takes the write lock whether it finds rows or not;
\* the cursors are read before.
Prune ==
  /\ Starts("prune")
  /\ \E o \in Outcomes : Write(AfterRead(tx), o) /\ After(o)
  /\ UNCHANGED <<probes, held, edges, counter, bad, governor, inventory, trigger, excerpts>>

\* ship.tick only reads on this connection, and not even that without a hub; a ship has
\* a connection and a thread of its own.
ShipTick ==
  /\ Starts("ship") /\ pc' = "fine" /\ tx' \in {tx, AfterRead(tx)}
  /\ UNCHANGED <<probes, held, owed, edges, counter, bad, governor, inventory, trigger,
                 excerpts, faults>>

\* active_uid, then the kernel's counter.
HostCounter ==
  /\ pc = "count" /\ At("edge") /\ Count(AfterRead(tx))
  /\ UNCHANGED <<probes, held, oom, edges, bad, governor, inventory, excerpts>>

\* The firmware's bits are read on the slow tier only.
HostEdge ==
  /\ pc = "edge" /\ At("fine")
  /\ \/ UNCHANGED <<tx, owed, edges, trigger, faults>>
     \/ bad /\ Trip(tx, <<"host", "undervolt">>)
     \/ ~bad /\ Clear(tx, <<"host", "undervolt">>)
  /\ UNCHANGED <<probes, held, counter, bad, governor, inventory, excerpts>>

----------------------------------------------------------------------------
(* inventory.collect.                                                      *)

\* Bug: a restart does not load what was recorded.
KnownFactNone == last

\* _last, seeded from the newest row on the first call.
KnownFact == IF last = NoFact THEN fact ELSE last

\* _last moves before the row is written.
Inventory ==
  /\ Starts("inventory")
  /\ last' = value
  /\ IF KnownFact = value
     THEN /\ tx' = IF last = NoFact THEN AfterRead(tx) ELSE tx
          /\ pc' = "fine" /\ UNCHANGED <<owed, fact, slipped, repeated, faults>>
     ELSE \E o \in Outcomes :
            /\ Write(tx, o) /\ After(o)
            /\ fact' = IF o = "done" THEN value ELSE fact
            /\ slipped' = (o # "done")
            /\ repeated' = (repeated \/ (o = "done" /\ fact = value /\ ~slipped))
  /\ UNCHANGED <<probes, held, edges, counter, bad, governor, value, trigger, excerpts>>

----------------------------------------------------------------------------
(* logexcerpt.collect.                                                     *)

Size == file.end - file.base

At0(c) == [off |-> c, size |-> c]

\* Bug: a file that became shorter is not noticed.
RotatedNever(c) == FALSE

\* _read_tail: shorter than where the cursor was.
Rotated(c) == Size < c.off \/ Size < c.size

\* The byte reading starts from, and the lines from there to the end.
Start(c) == IF Rotated(c) THEN 0 ELSE c.off
Unread(c) == (file.base + Start(c) + 1) .. file.end

\* Lines of a new file that a cursor of the old one passes over: the file grew past
\* it before the next look, so its length does not show that it was replaced.
Overtaken(c) ==
  IF turned /\ Size >= c.off /\ Size >= c.size
  THEN (file.base + 1) .. (file.base + c.off) ELSE {}

Freshest(lines) == {i \in lines : i > file.end - ExcerptCap}

\* The cursor a complete read leaves.
Moved(c) == At0(Size)

\* The cursors _read_tail may return: all was read; the file could not be opened, or
\* not even measured.
Read(c) ==
  /\ cursor' = {Moved(c)} /\ turned' = FALSE
  /\ captured' = captured \cup Freshest(Unread(c))
  /\ cut' = cut \cup (Unread(c) \ Freshest(Unread(c)))
  /\ forgone' = forgone \cup Overtaken(c)

Unopened(c) ==
  /\ cursor' = {[off |-> Start(c), size |-> Size]} /\ turned' = FALSE
  /\ forgone' = forgone \cup Overtaken(c) /\ UNCHANGED <<captured, cut>>

Unmeasured == UNCHANGED <<cursor, turned, captured, cut, forgone>>

\* First sight: the cursor goes to the end of the file, in the transaction of the
\* run; the run's own reading then finds nothing new.
Seeded ==
  /\ cursor' = {At0(Size)} /\ turned' = FALSE
  /\ forgone' = forgone \cup (1 .. file.end) /\ UNCHANGED <<captured, cut>>

\* _trigger: the first call only sets the mark.
Fires == Always \/ (mark /\ fresh)
Marked == mark' = TRUE /\ fresh' = FALSE

Look ==
  /\ cursor = {} /\ Starts("logexcerpt")
  /\ \E o \in Outcomes :
       /\ Write(AfterRead(tx), o) /\ After(o)
       /\ IF o = "done" THEN Seeded ELSE UNCHANGED <<cursor, turned, captured, cut, forgone>>
       /\ \/ o # "locked" /\ Marked
          \/ o # "done" /\ UNCHANGED trigger
  /\ UNCHANGED <<probes, held, edges, counter, bad, governor, inventory, file>>

\* Bug: the transaction is left open when there is nothing to capture.
QuietNoCommit ==
  /\ cursor # {} /\ ~Fires /\ Starts("logexcerpt") /\ pc' = "fine"
  /\ tx' = "reading" /\ Marked
  /\ UNCHANGED <<probes, held, owed, edges, counter, bad, governor, inventory, excerpts, faults>>

Quiet ==
  /\ cursor # {} /\ ~Fires /\ Starts("logexcerpt") /\ pc' = "fine"
  /\ Commit /\ Marked
  /\ UNCHANGED <<probes, held, edges, counter, bad, governor, inventory, excerpts>>

\* The mark has moved whether or not the excerpt can be written.
Capture ==
  /\ ~(cursor = {}) /\ Fires /\ Starts("logexcerpt") /\ Marked
  /\ \E o \in Outcomes, c \in cursor :
       /\ Write(AfterRead(tx), o) /\ After(o)
       /\ IF o = "done" THEN Read(c) \/ Unopened(c) \/ Unmeasured
          ELSE UNCHANGED <<cursor, turned, captured, cut, forgone>>
  /\ UNCHANGED <<probes, held, edges, counter, bad, governor, inventory, file>>

----------------------------------------------------------------------------
(* Around the collector.                                                   *)

world == <<value, over, bad, oom, ready>>
process == <<probes, pc, probe, owed, edges, seen, last, fact, slipped, repeated,
             trigger, cursor, captured, cut, faults>>

OtherBegins ==
  /\ ~held /\ held' = TRUE
  /\ UNCHANGED <<process, tx, world, file, turned, forgone>>

\* The other connection commits, or gives the lock back having changed nothing.
OtherEnds ==
  /\ held /\ held' = FALSE
  /\ tx' \in {tx, IF tx = "reading" THEN "stale" ELSE tx}
  /\ UNCHANGED <<process, world, file, turned, forgone>>

WorldMoves ==
  /\ \/ value' \in Facts \ {value} /\ "inventory" \in probes /\ UNCHANGED <<over, bad, oom, ready>>
     \/ over' = ~over /\ probes \cap Expensive # {} /\ UNCHANGED <<value, bad, oom, ready>>
     \/ bad' = ~bad /\ "host" \in probes /\ UNCHANGED <<value, over, oom, ready>>
     \/ oom' \in (0 .. MaxOom) \ {oom} /\ "host" \in probes /\ UNCHANGED <<value, over, bad, ready>>
     \/ ~ready /\ ready' = TRUE /\ UNCHANGED <<value, over, bad, oom>>
  /\ UNCHANGED <<process, held, tx, file, turned, forgone>>

LogWrites ==
  /\ "logexcerpt" \in probes /\ file.end < MaxLines
  /\ file' = [file EXCEPT !.end = @ + 1]
  /\ UNCHANGED <<process, held, tx, world, turned, forgone>>

\* logrotate: what was not read of the old file is gone.
LogRotates ==
  /\ "logexcerpt" \in probes /\ file.base < file.end
  /\ file' = [file EXCEPT !.base = file.end] /\ turned' = TRUE
  /\ forgone' = forgone \cup UNION {Unread(c) \cup Overtaken(c) : c \in cursor}
  /\ UNCHANGED <<process, held, tx, world>>

\* The process ends at any point and starts again; an open transaction has written
\* nothing, so it makes no difference whether it is committed or dropped.
Restart ==
  /\ tx' = "none" /\ owed' = FALSE /\ pc' = "idle" /\ UNCHANGED probe
  /\ active' = {} /\ said' = {} /\ seen' = -1 /\ ready' = TRUE
  /\ last' = NoFact /\ slipped' = FALSE /\ mark' = FALSE /\ fresh' = FALSE
  /\ UNCHANGED <<probes, held, oom, bad, over, value, fact, repeated, excerpts, faults>>

----------------------------------------------------------------------------
Init ==
  /\ probes \in Configs /\ held = FALSE /\ tx = "none" /\ owed = FALSE
  /\ pc = "idle" /\ probe = "none"
  /\ active = {} /\ said = {} /\ seen = -1 /\ oom = 0 /\ bad = FALSE
  /\ over = FALSE /\ ready = TRUE
  /\ value \in Facts /\ last = NoFact /\ fact = NoFact /\ slipped = FALSE
  /\ repeated = FALSE /\ mark = FALSE /\ fresh = FALSE
  /\ file = [base |-> 0, end |-> 1] /\ cursor = {} /\ turned = FALSE
  /\ captured = {} /\ cut = {} /\ forgone = {} /\ faults = 0

LogExcerpt == Look \/ Quiet \/ Capture

\* One probe from its start to the end of _guarded.
Collector ==
  \/ \E p \in probes : Shed(p) \/ Crash(p)
  \/ \E p \in Samplers : Sampler(p)
  \/ Flush \/ Prune \/ ShipTick \/ Heartbeat \/ Host \/ HostCounter \/ HostEdge \/ Inventory \/ LogExcerpt
  \/ Report \/ Recovered

Uptime ==
  \/ Collector \/ OtherBegins \/ OtherEnds \/ WorldMoves \/ LogWrites \/ LogRotates

Next == Uptime \/ Restart

Spec == Init /\ [][Next]_gvars

\* A process that is not restarted.  The scheduler runs every probe again and again
\* whatever the others do, and _guarded returns; nothing is assumed of the rest.
LongSpec ==
  Init /\ [][Uptime]_gvars /\ SF_gvars(Heartbeat) /\ SF_gvars(Host) /\ SF_gvars(Inventory)
       /\ SF_gvars(Flush) /\ SF_gvars(Prune) /\ SF_gvars(ShipTick)
       /\ \A p \in Samplers : SF_gvars(Sampler(p))
       /\ WF_gvars(HostCounter \/ HostEdge \/ Report \/ Recovered)

----------------------------------------------------------------------------
Keys == {<<kind, p>> : kind \in {"db", "probe"}, p \in Known} \cup {<<"host", "undervolt">>}

\* Every variable keeps its type.
AgentTypeOK ==
  /\ probes \in Configs /\ held \in BOOLEAN /\ owed \in BOOLEAN
  /\ tx \in {"none", "begun", "reading", "stale"}
  /\ pc \in {"idle", "count", "edge", "fine", "fine2", "contended", "crashed"}
  /\ probe \in Known \cup {"none"} /\ (pc # "idle" => probe \in probes)
  /\ active \subseteq Keys /\ said \subseteq Keys
  /\ seen \in -1 .. MaxOom /\ oom \in 0 .. MaxOom /\ bad \in BOOLEAN
  /\ over \in BOOLEAN /\ ready \in BOOLEAN
  /\ value \in Facts /\ {last, fact} \subseteq Facts \cup {NoFact}
  /\ slipped \in BOOLEAN /\ repeated \in BOOLEAN /\ mark \in BOOLEAN /\ fresh \in BOOLEAN
  /\ file.base \in 0 .. file.end /\ file.end \in 1 .. MaxLines
  /\ Cardinality(cursor) <= 1
  /\ \A c \in cursor : {c.off, c.size} \subseteq 0 .. MaxLines
  /\ turned \in BOOLEAN /\ faults \in 0 .. MaxFaults

\* What events._active says of a key is what the newest event of this process about
\* it says on disk, through every refused, rolled back and retried write: no bad
\* condition goes unreported, none is reported twice and no recovery is reported of
\* what was never reported (events.py, trip and clear).
EdgesMatchDisk == active = said

\* A transaction is left open only by a write that failed and that nothing has ended
\* since: no probe returns with one of its own (the commits of the probes, and the
\* commit of a logexcerpt run that captures nothing).
OpenOnlyAfterFailure == tx # "none" => owed

\* Delta coding: what inventory remembers is the newest row, unless a write of it was
\* lost, and unless one was lost no row repeats the one before, restarts included
\* (inventory.py, _seed_from_db and collect).
FactsMatchDisk == (last # NoFact /\ ~slipped => last = fact) /\ ~repeated

\* Every line of a watched file is accounted for, and once: it was excerpted or dropped
\* by the cap and is behind the cursor, or it is yet to be read, or it is older than the
\* watch, was lost with a rotated file, or lies in a new file that outgrew the old one.
\* A cursor that is moved, reset or left where it was neither skips a line nor goes back
\* over one (logexcerpt.py:10, the same bytes never ship twice).
ExcerptsAreExact ==
  \A c \in cursor :
    /\ Unread(c) \cap (captured \cup cut) = {} /\ captured \cap cut = {}
    /\ 1 .. file.end \subseteq captured \cup cut \cup forgone \cup Unread(c) \cup Overtaken(c)

\* Contention is transient (collect.py:97): once nobody else holds the write lock,
\* heartbeats are written again.
HeartbeatResumes == <>[](~held) => []<>(pc = "fine" /\ probe = "heartbeat")
=============================================================================
