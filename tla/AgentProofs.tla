------------------------------ MODULE AgentProofs ------------------------------
(***************************************************************************)
(* What holds of the collector's probes for every configuration of them,   *)
(* every device, kernel and log file, every other connection and every     *)
(* crash: edges, the connection, delta coding and log excerpts.            *)
(***************************************************************************)
EXTENDS Agent, FiniteSetTheorems, TLAPS

----------------------------------------------------------------------------
(* Edge events.  Only trip and clear touch either set, and both together.   *)

LEMMA TripKeepsEdges ==
  ASSUME EdgesMatchDisk, NEW t, NEW key, Trip(t, key) PROVE EdgesMatchDisk'
<1>1. CASE key \in active
  BY <1>1 DEF Trip, EdgesMatchDisk, edges
<1>2. CASE key \notin active
  <2>1. PICK o \in Outcomes :
          IF o = "done"
          THEN active' = active \cup {key} /\ said' = said \cup {key} /\ Heard(TRUE)
          ELSE UNCHANGED <<edges, trigger>>
    BY <1>2 DEF Trip
  <2>2. QED
    BY <2>1 DEF EdgesMatchDisk, edges
<1>3. QED
  BY <1>1, <1>2

LEMMA ClearKeepsEdges ==
  ASSUME EdgesMatchDisk, NEW t, NEW key, Clear(t, key) PROVE EdgesMatchDisk'
<1>1. CASE key \notin active
  BY <1>1 DEF Clear, EdgesMatchDisk, edges
<1>2. CASE key \in active
  <2>1. PICK o \in Outcomes :
          IF o = "done" THEN active' = active \ {key} /\ said' = said \ {key}
          ELSE UNCHANGED edges
    BY <1>2 DEF Clear
  <2>2. QED
    BY <2>1 DEF EdgesMatchDisk, edges
<1>3. QED
  BY <1>1, <1>2

LEMMA EdgeSteps ==
  ASSUME [Next]_gvars PROVE Report \/ Recovered \/ HostEdge \/ Restart \/ UNCHANGED edges
BY DEF Next, Uptime, Collector, LogExcerpt, Shed, Crash, Sampler, Flush, Prune, ShipTick,
       Heartbeat, Host, HostCounter, Inventory, Look, Quiet, Capture, OtherBegins,
       OtherEnds, WorldMoves, LogWrites, LogRotates, gvars, process, edges

(* What events._active says of a key is what its newest event of this       *)
(* process says on disk (events.py, trip and clear).                        *)
THEOREM EdgesAreTrue == Spec => []EdgesMatchDisk
<1>1. Init => EdgesMatchDisk
  BY DEF Init, EdgesMatchDisk
<1>2. EdgesMatchDisk /\ [Next]_gvars => EdgesMatchDisk'
  <2> SUFFICES ASSUME EdgesMatchDisk, [Next]_gvars PROVE EdgesMatchDisk'
    OBVIOUS
  <2>1. CASE Report
    BY <2>1, TripKeepsEdges DEF Report
  <2>2. CASE Recovered
    BY <2>2, ClearKeepsEdges DEF Recovered
  <2>3. CASE HostEdge
    <3>1. CASE UNCHANGED edges
      BY <3>1 DEF EdgesMatchDisk, edges
    <3>2. CASE Trip(tx, <<"host", "undervolt">>)
      BY <3>2, TripKeepsEdges
    <3>3. CASE Clear(tx, <<"host", "undervolt">>)
      BY <3>3, ClearKeepsEdges
    <3>4. QED
      BY <2>3, <3>1, <3>2, <3>3 DEF HostEdge
  <2>4. CASE Restart
    BY <2>4 DEF Restart, EdgesMatchDisk
  <2>5. CASE UNCHANGED edges
    BY <2>5 DEF EdgesMatchDisk, edges
  <2>6. QED
    BY <2>1, <2>2, <2>3, <2>4, <2>5, EdgeSteps
<1>3. QED
  BY <1>1, <1>2, PTL DEF Spec

----------------------------------------------------------------------------
(* The connection.                                                         *)

LEMMA WriteIsClean ==
  ASSUME NEW t, t # "none" => owed, NEW o \in Outcomes, Write(t, o) PROVE OpenOnlyAfterFailure'
BY DEF Write, OpenOnlyAfterFailure, Fault

LEMMA EdgeIsClean ==
  ASSUME NEW t, t # "none" => owed, NEW key, Trip(t, key) \/ Clear(t, key)
  PROVE  OpenOnlyAfterFailure'
<1>1. CASE tx' = t /\ UNCHANGED owed
  BY <1>1 DEF OpenOnlyAfterFailure
<1>2. CASE \E o \in Outcomes : Write(t, o)
  BY <1>2, WriteIsClean
<1>3. QED
  BY <1>1, <1>2 DEF Trip, Clear

\* What a step may do to the connection: the kinds of step there are.
Kinds ==
  \/ \E o \in Outcomes : Write(tx, o) \/ Write(AfterRead(tx), o)
  \/ \E key : Trip(tx, key) \/ Trip(AfterRead(tx), key) \/ Clear(tx, key)
  \/ tx' \in {tx, AfterRead(tx)} /\ UNCHANGED <<owed, faults>>
  \/ UNCHANGED <<tx, owed>> /\ Fault
  \/ tx' = "none" /\ owed' = FALSE /\ UNCHANGED faults
  \/ OtherEnds

LEMMA StepKinds == ASSUME [Next]_gvars PROVE Kinds
<1>1. ASSUME NEW p, Shed(p) \/ Crash(p) \/ Sampler(p) PROVE Kinds
  BY <1>1 DEF Kinds, Shed, Crash, Sampler, Batch, Commit
<1>2. Flush \/ Prune \/ ShipTick \/ Heartbeat \/ Host => Kinds
  BY DEF Kinds, Flush, Prune, ShipTick, Heartbeat, Host, Batch, Commit
<1>3. HostCounter \/ HostEdge \/ Report \/ Recovered => Kinds
  BY DEF Kinds, HostCounter, Count, HostEdge, Report, Recovered
<1>4. Inventory => Kinds
  BY DEF Kinds, Inventory
<1>5. LogExcerpt => Kinds
  BY DEF Kinds, LogExcerpt, Look, Quiet, Capture, Commit
<1>6. OtherBegins \/ WorldMoves \/ LogWrites \/ LogRotates \/ Restart => Kinds
  BY DEF Kinds, OtherBegins, WorldMoves, LogWrites, LogRotates, Restart, process
<1>7. QED
  BY <1>1, <1>2, <1>3, <1>4, <1>5, <1>6 DEF Kinds, Next, Uptime, Collector, gvars

LEMMA ReadIsClean == ASSUME OpenOnlyAfterFailure PROVE AfterRead(tx) # "none" => owed
BY DEF OpenOnlyAfterFailure, AfterRead

(* A transaction is open only while a write that failed is unanswered       *)
(* (every probe commits before it returns).                                 *)
THEOREM NothingHeldOpen == Spec => []OpenOnlyAfterFailure
<1>1. Init => OpenOnlyAfterFailure
  BY DEF Init, OpenOnlyAfterFailure
<1>2. OpenOnlyAfterFailure /\ [Next]_gvars => OpenOnlyAfterFailure'
  <2> SUFFICES ASSUME OpenOnlyAfterFailure, [Next]_gvars PROVE OpenOnlyAfterFailure'
    OBVIOUS
  <2> DEFINE Bare == tx # "none" => owed
             Read0 == AfterRead(tx) # "none" => owed
  <2>1. Bare /\ Read0
    BY ReadIsClean DEF OpenOnlyAfterFailure
  <2>2. CASE \E o \in Outcomes : Write(tx, o) \/ Write(AfterRead(tx), o)
    BY <2>1, <2>2, WriteIsClean
  <2>3. CASE \E key : \/ Trip(tx, key) \/ Trip(AfterRead(tx), key)
                      \/ Clear(tx, key)
    BY <2>1, <2>3, EdgeIsClean
  <2>4. CASE tx' \in {tx, AfterRead(tx)} /\ UNCHANGED owed
    BY <2>1, <2>4 DEF OpenOnlyAfterFailure
  <2>5. CASE tx' = "none"
    BY <2>5 DEF OpenOnlyAfterFailure
  <2>6. CASE OtherEnds
    BY <2>6 DEF OtherEnds, OpenOnlyAfterFailure, process
  <2>7. QED
    BY <2>2, <2>3, <2>4, <2>5, <2>6, StepKinds DEF Kinds
<1>3. QED
  BY <1>1, <1>2, PTL DEF Spec

----------------------------------------------------------------------------
(* Delta coding.                                                           *)

(* What inventory remembers is the newest row unless a write was lost, and  *)
(* no row repeats its predecessor otherwise (inventory.py, collect).        *)
THEOREM FactsAreTrue == Spec => []FactsMatchDisk
<1>1. Init => FactsMatchDisk
  BY DEF Init, FactsMatchDisk
<1>2. FactsMatchDisk /\ [Next]_gvars => FactsMatchDisk'
  <2> SUFFICES ASSUME FactsMatchDisk, [Next]_gvars PROVE FactsMatchDisk'
    OBVIOUS
  <2>1. CASE Inventory
    <3>1. CASE KnownFact = value
      BY <2>1, <3>1 DEF Inventory, FactsMatchDisk, KnownFact
    <3>2. CASE KnownFact # value
      <4>1. PICK o \in Outcomes :
              /\ last' = value
              /\ fact' = IF o = "done" THEN value ELSE fact
              /\ slipped' = (o # "done")
              /\ repeated' = (repeated \/ (o = "done" /\ fact = value /\ ~slipped))
        BY <2>1, <3>2 DEF Inventory
      <4>2. QED
        BY <3>2, <4>1 DEF FactsMatchDisk, KnownFact
    <3>3. QED
      BY <3>1, <3>2
  <2>2. CASE Restart
    BY <2>2 DEF Restart, FactsMatchDisk
  <2>3. CASE UNCHANGED <<last, fact, slipped, repeated>>
    BY <2>3 DEF FactsMatchDisk
  <2>4. QED
    <3>1. [Next]_gvars =>
            Inventory \/ Restart \/ UNCHANGED <<last, fact, slipped, repeated>>
      BY DEF Next, Uptime, Collector, LogExcerpt, Shed, Crash, Sampler, Flush, Prune, ShipTick,
           Heartbeat, Host, HostCounter, HostEdge, Report, Recovered, Look, Quiet, Capture,
           OtherBegins, OtherEnds, WorldMoves, LogWrites, LogRotates, gvars, process,
           inventory
    <3>2. QED
      BY <2>1, <2>2, <2>3, <3>1
<1>3. QED
  BY <1>1, <1>2, PTL DEF Spec

----------------------------------------------------------------------------
(* Log excerpts.                                                           *)

Offset == {c \in [off : Nat, size : Nat] : c.off <= c.size}

\* Lines the watch has answered for, and those of a file up to a place.
Answered == captured \cup cut \cup forgone
UpTo(n) == 1 .. n

\* What a cursor knows: until a rotation all of its file up to the offset was dealt
\* with and nothing after it; after one, all of the files before.
Place(c) == IF turned THEN file.base ELSE file.base + c.off

ExcerptInv ==
  /\ file \in [base : Nat, end : Nat] /\ file.base <= file.end
  /\ cursor = {} \/ \E c \in Offset : cursor = {c}
  /\ cursor = {} => captured = {} /\ cut = {}
  /\ captured \cap cut = {}
  /\ \A c \in cursor :
       /\ turned \/ c.size <= Size
       /\ captured \cup cut \subseteq UpTo(Place(c))
       /\ UpTo(Place(c)) \subseteq Answered

LEMMA ExcerptsFollow == ASSUME ExcerptInv PROVE ExcerptsAreExact
<1> SUFFICES ASSUME NEW c \in cursor
             PROVE  /\ Unread(c) \cap (captured \cup cut) = {} /\ captured \cap cut = {}
                    /\ UpTo(file.end) \subseteq
                         captured \cup cut \cup forgone \cup Unread(c) \cup Overtaken(c)
  BY DEF ExcerptsAreExact, UpTo
<1>1. /\ c.off \in Nat /\ c.size \in Nat /\ c.off <= c.size
      /\ file.base \in Nat /\ file.end \in Nat /\ file.base <= file.end
  BY DEF ExcerptInv, Offset
<1>2. turned \/ ~Rotated(c)
  BY <1>1 DEF ExcerptInv, Rotated, Size
<1>3. Place(c) <= file.base + Start(c) /\ Start(c) \in Nat /\ Place(c) \in Nat
  BY <1>1, <1>2 DEF Place, Start
<1>4. Unread(c) \cap (captured \cup cut) = {}
  BY <1>1, <1>3 DEF ExcerptInv, Unread, UpTo
<1>5. \A i \in UpTo(file.end) : i \in UpTo(Place(c)) \cup Unread(c) \cup Overtaken(c)
  BY <1>1, <1>2 DEF UpTo, Place, Unread, Start, Overtaken, Rotated, Size
<1>6. QED
  BY <1>4, <1>5 DEF ExcerptInv, Answered

\* Every way a run may read leaves a cursor that answers for all before it.
LEMMA ReadingFollows ==
  ASSUME ExcerptInv, NEW c \in cursor, Read(c) \/ Unopened(c), UNCHANGED file
  PROVE  ExcerptInv'
<1>1. /\ c \in Offset /\ cursor = {c}
      /\ c.off \in Nat /\ c.size \in Nat /\ c.off <= c.size
      /\ file.base \in Nat /\ file.end \in Nat /\ file.base <= file.end
  BY DEF ExcerptInv, Offset
<1>2. turned \/ ~Rotated(c)
  BY <1>1 DEF ExcerptInv, Rotated, Size
<1>3. /\ Place(c) <= file.base + Start(c) /\ Start(c) \in Nat /\ Place(c) \in Nat
      /\ Start(c) <= Size /\ Size \in Nat /\ file.base + Size = file.end
  BY <1>1, <1>2 DEF Place, Start, Rotated, Size
<1>4. UpTo(file.base + Start(c)) \subseteq Answered \cup Overtaken(c)
  <2>1. \A i \in UpTo(file.base + Start(c)) : i \in UpTo(Place(c)) \cup Overtaken(c)
    BY <1>1, <1>2 DEF UpTo, Place, Start, Overtaken, Rotated, Size
  <2>2. QED
    BY <2>1 DEF ExcerptInv
<1>5. CASE Read(c)
  <2>1. cursor' = {At0(Size)} /\ turned' = FALSE /\ At0(Size) \in Offset
    BY <1>3, <1>5 DEF Read, Moved, At0, Offset
  <2>2. Freshest(Unread(c)) \subseteq Unread(c)
    BY DEF Freshest
  <2>3. Unread(c) \cap (captured \cup cut) = {}
    BY <1>1, <1>3 DEF ExcerptInv, Unread, UpTo
  <2>4. captured' \cap cut' = {}
    BY <1>5, <2>2, <2>3 DEF Read, ExcerptInv
  <2>5. Unread(c) \subseteq UpTo(file.end) /\ UpTo(Place(c)) \subseteq UpTo(file.end)
    BY <1>1, <1>3 DEF Unread, UpTo
  <2>6. captured' \cup cut' \subseteq UpTo(file.end)
    BY <1>1, <1>5, <2>2, <2>5 DEF Read, ExcerptInv
  <2>7. UpTo(file.end) \subseteq UpTo(file.base + Start(c)) \cup Unread(c)
    BY <1>1, <1>3 DEF Unread, UpTo
  <2>8. UpTo(file.end) \subseteq Answered'
    BY <1>4, <1>5, <2>7 DEF Read, Answered
  <2>9. \A d \in cursor' : Place(d)' = file.end /\ d.size = Size'
    BY <1>3, <2>1 DEF Place, At0, Size
  <2>10. cursor' # {} /\ \E d \in Offset : cursor' = {d}
    BY <2>1
  <2>11. Size' = Size
    BY DEF Size
  <2>12. QED
    BY <1>3, <2>4, <2>6, <2>8, <2>9, <2>10, <2>11 DEF ExcerptInv, UpTo
<1>6. CASE Unopened(c)
  <2>1. cursor' = {[off |-> Start(c), size |-> Size]} /\ turned' = FALSE
    BY <1>6 DEF Unopened
  <2>2. [off |-> Start(c), size |-> Size] \in Offset
    BY <1>3 DEF Offset
  <2>3. \A d \in cursor' : Place(d)' = file.base + Start(c) /\ d.size = Size'
    BY <1>3, <2>1 DEF Place, Size
  <2>4. captured' \cup cut' \subseteq UpTo(file.base + Start(c))
    BY <1>1, <1>3, <1>6 DEF Unopened, ExcerptInv, UpTo
  <2>5. UpTo(file.base + Start(c)) \subseteq Answered'
    BY <1>4, <1>6 DEF Unopened, Answered
  <2>6. captured' \cap cut' = {} /\ Size' = Size
    BY <1>6 DEF Unopened, ExcerptInv, Size
  <2>7. QED
    BY <1>3, <2>1, <2>2, <2>3, <2>4, <2>5, <2>6 DEF ExcerptInv, UpTo
<1>7. QED
  BY <1>5, <1>6

\* Nothing the invariant speaks of changes.
same == <<file, cursor, turned, captured, cut, forgone>>

LEMMA SameExcerpts == ASSUME ExcerptInv, UNCHANGED same PROVE ExcerptInv'
BY DEF ExcerptInv, same, Place, Answered, UpTo, Size

LEMMA ExcerptsStart == ASSUME Init PROVE ExcerptInv
BY DEF Init, ExcerptInv

LEMMA ExcerptsStep == ASSUME ExcerptInv, [Next]_gvars PROVE ExcerptInv'
<1>1. /\ file.base \in Nat /\ file.end \in Nat /\ file.base <= file.end
      /\ file = [base |-> file.base, end |-> file.end]
  BY DEF ExcerptInv
<1>2. CASE Look
  <2>1. CASE Seeded /\ UNCHANGED file
    <3>1. At0(Size) \in Offset /\ cursor' = {At0(Size)}
      BY <1>1, <2>1 DEF Seeded, Offset, At0, Size
    <3>2. \A d \in cursor' : Place(d)' = file.end /\ d.size = Size'
      BY <1>1, <2>1, <3>1 DEF Place, Seeded, At0, Size
    <3>3. captured' = {} /\ cut' = {}
      BY <1>2, <2>1 DEF Look, Seeded, ExcerptInv
    <3>4. QED
      BY <1>1, <2>1, <3>1, <3>2, <3>3 DEF ExcerptInv, Seeded, Answered, UpTo, Size
  <2>2. CASE UNCHANGED same
    BY <2>2, SameExcerpts
  <2>3. QED
    BY <1>2, <2>1, <2>2 DEF Look, same
<1>3. CASE Capture
  <2>1. PICK c \in cursor : \/ Read(c) \/ Unopened(c)
                            \/ UNCHANGED <<cursor, turned, captured, cut, forgone>>
    BY <1>3 DEF Capture, Unmeasured
  <2>2. UNCHANGED file
    BY <1>3 DEF Capture
  <2>3. QED
    BY <2>1, <2>2, ReadingFollows, SameExcerpts DEF same
<1>4. CASE LogWrites
  <2>1. /\ file' = [base |-> file.base, end |-> file.end + 1]
        /\ UNCHANGED <<cursor, turned, captured, cut, forgone>>
    BY <1>1, <1>4 DEF LogWrites, process
  <2>2. file'.base = file.base /\ file'.end = file.end + 1
    BY <2>1
  <2>3. \A c \in cursor : Place(c)' = Place(c) /\ (c.size \in Nat /\ c.size <= Size => c.size <= Size')
    BY <1>1, <2>1, <2>2 DEF Place, Size
  <2>4. file' \in [base : Nat, end : Nat] /\ file'.base <= file'.end
    BY <1>1, <2>1, <2>2
  <2>5. QED
    BY <2>1, <2>3, <2>4 DEF ExcerptInv, Answered, UpTo, Offset
<1>5. CASE LogRotates
  <2>1. /\ file' = [base |-> file.end, end |-> file.end] /\ turned' = TRUE
        /\ forgone' = forgone \cup UNION {Unread(c) \cup Overtaken(c) : c \in cursor}
        /\ UNCHANGED <<cursor, captured, cut>>
    BY <1>1, <1>5 DEF LogRotates, process
  <2>2. file'.base = file.end /\ file'.end = file.end
    BY <2>1
  <2>3. file' \in [base : Nat, end : Nat] /\ file'.base <= file'.end
    BY <1>1, <2>1, <2>2
  <2>4. ASSUME NEW c \in cursor
        PROVE  /\ captured' \cup cut' \subseteq UpTo(file.end)
               /\ UpTo(file.end) \subseteq Answered'
    <3>1. UpTo(file.end) \subseteq captured \cup cut \cup forgone \cup Unread(c) \cup Overtaken(c)
      BY ExcerptsFollow DEF ExcerptsAreExact, UpTo
    <3>2. Unread(c) \cup Overtaken(c) \subseteq forgone' /\ forgone \subseteq forgone'
      BY <2>1
    <3>3. /\ c.off \in Nat /\ c.size \in Nat /\ c.off <= c.size
          /\ turned \/ c.size <= Size
          /\ captured \cup cut \subseteq UpTo(Place(c))
      BY DEF ExcerptInv, Offset
    <3>4. UpTo(Place(c)) \subseteq UpTo(file.end)
      BY <1>1, <3>3 DEF Place, UpTo, Size
    <3>5. QED
      BY <2>1, <3>1, <3>2, <3>3, <3>4 DEF Answered
  <2>5. QED
    BY <2>1, <2>2, <2>3, <2>4 DEF ExcerptInv, Place
<1>6. CASE UNCHANGED same
  BY <1>6, SameExcerpts
<1>7. QED
  <2>1. [Next]_gvars => Look \/ Capture \/ LogWrites \/ LogRotates \/ UNCHANGED same
    BY DEF Next, Uptime, Collector, LogExcerpt, Shed, Crash, Sampler, Flush, Prune, ShipTick,
         Heartbeat, Host, HostCounter, HostEdge, Report, Recovered, Inventory, Quiet,
         OtherBegins, OtherEnds, WorldMoves, Restart, gvars, process, excerpts, same
  <2>2. QED
    BY <1>2, <1>3, <1>4, <1>5, <1>6, <2>1

(* Every line of a watched log is accounted for exactly once, through       *)
(* rotations, truncations, unreadable files, refused writes and restarts    *)
(* (logexcerpt.py, _read_tail and collect).                                 *)
THEOREM LinesAreExact == Spec => []ExcerptsAreExact
<1>1. Init => ExcerptInv
  BY ExcerptsStart
<1>2. ExcerptInv /\ [Next]_gvars => ExcerptInv'
  BY ExcerptsStep
<1>3. ExcerptInv => ExcerptsAreExact
  BY ExcerptsFollow
<1>4. QED
  BY <1>1, <1>2, <1>3, PTL DEF Spec

----------------------------------------------------------------------------
(* Types.                                                                  *)

ConnType ==
  /\ probes \in Configs /\ held \in BOOLEAN /\ owed \in BOOLEAN
  /\ tx \in {"none", "begun", "reading", "stale"} /\ faults \in 0 .. MaxFaults

PlaceType ==
  /\ pc \in {"idle", "count", "edge", "fine", "fine2", "contended", "crashed"}
  /\ probe \in Known \cup {"none"} /\ (pc # "idle" => probe \in probes)

EdgeType == active \subseteq Keys /\ said \subseteq Keys

ProbeType ==
  /\ seen \in -1 .. MaxOom /\ oom \in 0 .. MaxOom /\ bad \in BOOLEAN
  /\ over \in BOOLEAN /\ ready \in BOOLEAN
  /\ value \in Facts /\ {last, fact} \subseteq Facts \cup {NoFact}
  /\ slipped \in BOOLEAN /\ repeated \in BOOLEAN /\ mark \in BOOLEAN /\ fresh \in BOOLEAN

FileType ==
  /\ file.base \in 0 .. file.end /\ file.end \in 1 .. MaxLines /\ turned \in BOOLEAN
  /\ \A c \in cursor : {c.off, c.size} \subseteq 0 .. MaxLines

AInv == ConnType /\ PlaceType /\ EdgeType /\ ProbeType /\ FileType /\ ExcerptInv

Txs == {"none", "begun", "reading", "stale"}
TypedAfter == tx' \in Txs /\ owed' \in BOOLEAN /\ faults' \in 0 .. MaxFaults

LEMMA FaultTyped ==
  ASSUME ConnType, UNCHANGED faults \/ Fault PROVE faults' \in 0 .. MaxFaults
<1>1. MaxFaults \in Nat
  BY AgentAssumption
<1>2. QED
  BY <1>1 DEF ConnType, Fault

LEMMA WriteTyped ==
  ASSUME ConnType, NEW t \in Txs, NEW o \in Outcomes, Write(t, o) PROVE TypedAfter
<1>1. tx' \in {"none", AfterFailure(t)} /\ owed' \in {TRUE, FALSE}
  BY DEF Write
<1>2. AfterFailure(t) \in Txs
  BY DEF AfterFailure, Txs
<1>3. UNCHANGED faults \/ Fault
  BY DEF Write
<1>4. QED
  BY <1>1, <1>2, <1>3, FaultTyped DEF TypedAfter, Txs

LEMMA ConnTyped == ASSUME ConnType, [Next]_gvars PROVE ConnType'
<1>1. probes' \in Configs
  BY DEF ConnType, Next, Uptime, Collector, LogExcerpt, Shed, Crash, Sampler, Flush, Prune, ShipTick,
         Heartbeat, Host, HostCounter, HostEdge, Report, Recovered, Inventory, Look, Quiet, Capture,
         OtherBegins, OtherEnds, WorldMoves, LogWrites, LogRotates, Restart, gvars, process
<1>2. held' \in BOOLEAN
  BY DEF ConnType, Next, Uptime, Collector, LogExcerpt, Shed, Crash, Sampler, Flush, Prune, ShipTick,
         Heartbeat, Host, HostCounter, HostEdge, Report, Recovered, Inventory, Look, Quiet, Capture,
         OtherBegins, OtherEnds, WorldMoves, LogWrites, LogRotates, Restart, gvars, process
<1>3. TypedAfter
  <2>1. tx \in Txs /\ AfterRead(tx) \in Txs /\ "none" \in Txs
    BY DEF ConnType, AfterRead, Txs
  <2>2. CASE \E o \in Outcomes : Write(tx, o) \/ Write(AfterRead(tx), o)
    BY <2>1, <2>2, WriteTyped
  <2>3. ASSUME NEW t \in Txs, NEW key, Trip(t, key) \/ Clear(t, key) PROVE TypedAfter
    <3>1. CASE tx' = t /\ UNCHANGED <<owed, faults>>
      BY <3>1 DEF ConnType, TypedAfter
    <3>2. CASE \E o \in Outcomes : Write(t, o)
      BY <3>2, WriteTyped
    <3>3. QED
      BY <2>3, <3>1, <3>2 DEF Trip, Clear
  <2>4. CASE OtherEnds
    BY <2>1, <2>4 DEF OtherEnds, process, ConnType, TypedAfter, Txs
  <2>5. CASE tx' \in {tx, AfterRead(tx)} /\ UNCHANGED <<owed, faults>>
    BY <2>1, <2>5 DEF ConnType, TypedAfter
  <2>6. CASE UNCHANGED <<tx, owed>> /\ Fault
    BY <2>1, <2>6, FaultTyped DEF ConnType, TypedAfter
  <2>7. CASE tx' = "none" /\ owed' = FALSE /\ UNCHANGED faults
    BY <2>1, <2>7, FaultTyped DEF ConnType, TypedAfter
  <2>8. CASE \E key : \/ Trip(tx, key) \/ Trip(AfterRead(tx), key)
                       \/ Clear(tx, key)
    BY <2>1, <2>3, <2>8
  <2>9. QED
    BY <2>2, <2>4, <2>5, <2>6, <2>7, <2>8, StepKinds DEF Kinds
<1>4. QED
  BY <1>1, <1>2, <1>3 DEF ConnType, TypedAfter, Txs


LEMMA PlaceTyped == ASSUME ConnType, PlaceType, [Next]_gvars PROVE PlaceType'
<1>1. probes \subseteq Known
  BY AgentAssumption DEF ConnType
<1>2. UNCHANGED probes
  BY DEF Next, Uptime, Collector, LogExcerpt, Shed, Crash, Sampler, Flush, Prune, ShipTick,
         Heartbeat, Host, HostCounter, HostEdge, Report, Recovered, Inventory, Look, Quiet, Capture,
         OtherBegins, OtherEnds, WorldMoves, LogWrites, LogRotates, Restart, gvars, process
<1>3. CASE UNCHANGED <<pc, probe>>
  BY <1>2, <1>3 DEF PlaceType
<1>4. CASE pc' = "idle" /\ UNCHANGED probe
  BY <1>4 DEF PlaceType
<1>5. CASE /\ pc' \in {"idle", "count", "fine", "contended", "crashed"}
           /\ probe' \in probes
  BY <1>1, <1>2, <1>5 DEF PlaceType
<1>6. CASE pc # "idle" /\ pc' \in {"edge", "fine", "fine2", "idle"} /\ UNCHANGED probe
  BY <1>2, <1>6 DEF PlaceType
<1>7. QED
  <2> DEFINE Moves ==
        \/ UNCHANGED <<pc, probe>>
        \/ pc' = "idle" /\ UNCHANGED probe
        \/ pc' \in {"idle", "count", "fine", "contended", "crashed"} /\ probe' \in probes
        \/ pc # "idle" /\ pc' \in {"edge", "fine", "fine2", "idle"} /\ UNCHANGED probe
  <2>1. ASSUME NEW p, Shed(p) \/ Crash(p) \/ Sampler(p) PROVE Moves
    BY <2>1 DEF Shed, Crash, Sampler, Begins, Starts
  <2>2. Flush \/ Prune \/ ShipTick \/ Heartbeat \/ Host \/ Inventory => Moves
    BY DEF Flush, Prune, ShipTick, Heartbeat, Host, Inventory, Begins, Starts, After
  <2>3. HostCounter \/ HostEdge \/ Report \/ Recovered => Moves
    BY DEF HostCounter, HostEdge, Report, Recovered, At
  <2>4. LogExcerpt => Moves
    BY DEF LogExcerpt, Look, Quiet, Capture, Begins, Starts, After
  <2>5. OtherBegins \/ OtherEnds \/ WorldMoves \/ LogWrites \/ LogRotates \/ Restart => Moves
    BY DEF OtherBegins, OtherEnds, WorldMoves, LogWrites, LogRotates, Restart, process
  <2>6. Moves
    BY <2>1, <2>2, <2>3, <2>4, <2>5 DEF Next, Uptime, Collector, gvars
  <2>7. QED
    BY <1>3, <1>4, <1>5, <1>6, <2>6

LEMMA EdgeTyped == ASSUME ConnType, PlaceType, EdgeType, [Next]_gvars PROVE EdgeType'
<1>1. ASSUME NEW t, NEW key \in Keys, Trip(t, key) \/ Clear(t, key) PROVE EdgeType'
  <2>1. active' \in {active, active \cup {key}, active \ {key}}
    BY <1>1 DEF Trip, Clear, edges
  <2>2. said' \in {said, said \cup {key}, said \ {key}}
    BY <1>1 DEF Trip, Clear, edges
  <2>3. QED
    BY <1>1, <2>1, <2>2 DEF EdgeType
<1>2. CASE Report \/ Recovered
  <2>1. probe \in Known
    BY <1>2, AgentAssumption DEF Report, Recovered, PlaceType, ConnType
  <2>2. <<"db", probe>> \in Keys /\ <<"probe", probe>> \in Keys
    BY <2>1 DEF Keys
  <2>3. QED
    BY <1>1, <1>2, <2>2 DEF Report, Recovered
<1>3. CASE HostEdge
  <2>1. <<"host", "undervolt">> \in Keys
    BY DEF Keys
  <2>2. CASE UNCHANGED edges
    BY <2>2 DEF EdgeType, edges
  <2>3. QED
    BY <1>1, <1>3, <2>1, <2>2 DEF HostEdge
<1>4. CASE Restart
  BY <1>4 DEF Restart, EdgeType
<1>5. CASE UNCHANGED edges
  BY <1>5 DEF EdgeType, edges
<1>6. QED
  BY <1>2, <1>3, <1>4, <1>5, EdgeSteps


LEMMA TriggerSteps ==
  ASSUME [Next]_gvars
  PROVE  \/ Heard(TRUE)
         \/ mark' \in {mark, TRUE, FALSE} /\ fresh' \in {fresh, FALSE}
<1> DEFINE Moves == \/ Heard(TRUE)
                    \/ mark' \in {mark, TRUE, FALSE} /\ fresh' \in {fresh, FALSE}
<1>1. ASSUME NEW t, NEW key, Trip(t, key) \/ Clear(t, key) PROVE Moves
  BY <1>1 DEF Trip, Clear, trigger
<1>2. ASSUME NEW p, Shed(p) \/ Crash(p) \/ Sampler(p) PROVE Moves
  BY <1>2 DEF Shed, Crash, Sampler, Batch, trigger
<1>3. Flush \/ Prune \/ ShipTick \/ Heartbeat \/ Host \/ Inventory => Moves
  BY DEF Flush, Prune, ShipTick, Heartbeat, Host, Batch, Inventory, trigger
<1>4. HostCounter => Moves
  BY DEF HostCounter, Count, trigger
<1>5. HostEdge \/ Report \/ Recovered => Moves
  BY <1>1 DEF HostEdge, Report, Recovered, trigger
<1>6. LogExcerpt => Moves
  BY DEF LogExcerpt, Look, Quiet, Capture, Marked, trigger
<1>7. OtherBegins \/ OtherEnds \/ WorldMoves \/ LogWrites \/ LogRotates \/ Restart => Moves
  BY DEF OtherBegins, OtherEnds, WorldMoves, LogWrites, LogRotates, Restart, process, trigger
<1>8. QED
  BY <1>2, <1>3, <1>4, <1>5, <1>6, <1>7 DEF Next, Uptime, Collector, gvars, trigger

LEMMA ProbeTyped == ASSUME ProbeType, [Next]_gvars PROVE ProbeType'
<1>1. mark' \in BOOLEAN /\ fresh' \in BOOLEAN
  <2>1. CASE Heard(TRUE)
    <3>1. mark' = mark /\ fresh' = (fresh \/ mark)
      BY <2>1 DEF Heard
    <3>2. QED
      BY <3>1 DEF ProbeType
  <2>2. CASE mark' \in {mark, TRUE, FALSE} /\ fresh' \in {fresh, FALSE}
    BY <2>2 DEF ProbeType
  <2>3. QED
    BY <2>1, <2>2, TriggerSteps
<1>2. bad' \in BOOLEAN /\ over' \in BOOLEAN /\ ready' \in BOOLEAN
  <2>1. CASE WorldMoves
    <3>1. /\ bad' = bad \/ bad' = ~bad
          /\ over' = over \/ over' = ~over
          /\ ready' = ready \/ ready' = TRUE
      BY <2>1 DEF WorldMoves
    <3>2. QED
      BY <3>1 DEF ProbeType
  <2>2. CASE UNCHANGED <<bad, over>> /\ ready' \in {ready, TRUE, FALSE}
    BY <2>2 DEF ProbeType
  <2>3. QED
    BY <2>1, <2>2 DEF Next, Uptime, Collector, LogExcerpt, Shed, Crash, Sampler, Flush, Prune,
         ShipTick, Heartbeat, Host, HostCounter, HostEdge, Report, Recovered, Inventory, Look,
         Quiet, Capture, OtherBegins, OtherEnds, LogWrites, LogRotates, Restart, gvars, world,
         governor
<1>3. seen' \in -1 .. MaxOom /\ oom' \in 0 .. MaxOom
  <2>1. oom' \in {oom} \cup 0 .. MaxOom /\ seen' \in {seen, oom, -1}
    BY DEF Next, Uptime, Collector, LogExcerpt, Shed, Crash, Sampler, Flush, Prune,
         ShipTick, Heartbeat, Host, HostCounter, Count, HostEdge, Report, Recovered, Inventory,
         Look, Quiet, Capture, OtherBegins, OtherEnds, WorldMoves, LogWrites, LogRotates, Restart,
         gvars, world, process, counter
  <2>2. QED
    BY <2>1, AgentAssumption DEF ProbeType
<1>4. value' \in Facts /\ {last', fact'} \subseteq Facts \cup {NoFact}
  <2>1. value' \in {value} \cup Facts
    BY DEF Next, Uptime, Collector, LogExcerpt, Shed, Crash, Sampler, Flush, Prune,
         ShipTick, Heartbeat, Host, HostCounter, HostEdge, Report, Recovered, Inventory,
         Look, Quiet, Capture, OtherBegins, OtherEnds, WorldMoves, LogWrites, LogRotates, Restart,
         gvars, world, inventory
  <2>2. last' \in {last, value, NoFact} /\ fact' \in {fact, value}
    BY DEF Next, Uptime, Collector, LogExcerpt, Shed, Crash, Sampler, Flush, Prune,
         ShipTick, Heartbeat, Host, HostCounter, HostEdge, Report, Recovered, Inventory,
         Look, Quiet, Capture, OtherBegins, OtherEnds, WorldMoves, LogWrites, LogRotates, Restart,
         gvars, process, inventory
  <2>3. QED
    BY <2>1, <2>2 DEF ProbeType
<1>5. slipped' \in BOOLEAN /\ repeated' \in BOOLEAN
  <2>1. CASE Inventory
    <3>1. CASE UNCHANGED <<slipped, repeated>>
      BY <3>1 DEF ProbeType
    <3>2. CASE \E o \in Outcomes :
                 /\ slipped' = (o # "done")
                 /\ repeated' = (repeated \/ (o = "done" /\ fact = value /\ ~slipped))
      BY <3>2 DEF ProbeType
    <3>3. QED
      BY <2>1, <3>1, <3>2 DEF Inventory
  <2>2. CASE slipped' \in {slipped, FALSE} /\ UNCHANGED repeated
    BY <2>2 DEF ProbeType
  <2>3. QED
    BY <2>1, <2>2 DEF Next, Uptime, Collector, LogExcerpt, Shed, Crash, Sampler, Flush, Prune,
         ShipTick, Heartbeat, Host, HostCounter, HostEdge, Report, Recovered,
         Look, Quiet, Capture, OtherBegins, OtherEnds, WorldMoves, LogWrites, LogRotates, Restart,
         gvars, process, inventory
<1>6. QED
  BY <1>1, <1>2, <1>3, <1>4, <1>5 DEF ProbeType

LEMMA FileTyped == ASSUME ExcerptInv, FileType, [Next]_gvars PROVE FileType'
<1>1. /\ file \in [base : Nat, end : Nat] /\ file.base <= file.end /\ MaxLines \in Nat
      /\ \A c \in cursor : c.off \in 0 .. MaxLines /\ c.size \in 0 .. MaxLines
      /\ Size \in 0 .. MaxLines
  BY AgentAssumption DEF ExcerptInv, FileType, Size
<1>2. CASE UNCHANGED file
  <2>1. turned' \in BOOLEAN
    BY <1>2 DEF FileType, Next, Uptime, Collector, LogExcerpt, Shed, Crash, Sampler, Flush, Prune,
         ShipTick, Heartbeat, Host, HostCounter, HostEdge, Report, Recovered, Inventory,
         Look, Seeded, Quiet, Capture, Read, Unopened, Unmeasured, OtherBegins, OtherEnds,
         WorldMoves, LogWrites, LogRotates, Restart, gvars, excerpts
  <2>2. \/ UNCHANGED cursor
        \/ cursor' = {At0(Size)}
        \/ \E c \in cursor : cursor' = {[off |-> Start(c), size |-> Size]}
    BY DEF Next, Uptime, Collector, LogExcerpt, Shed, Crash, Sampler, Flush, Prune,
         ShipTick, Heartbeat, Host, HostCounter, HostEdge, Report, Recovered, Inventory,
         Look, Seeded, Quiet, Capture, Read, Moved, Unopened, Unmeasured, OtherBegins, OtherEnds,
         WorldMoves, LogWrites, LogRotates, Restart, gvars, excerpts, process
  <2>3. \A c \in cursor' : c.off \in 0 .. MaxLines /\ c.size \in 0 .. MaxLines
    BY <1>1, <2>2 DEF At0, Start
  <2>4. QED
    BY <1>2, <2>1, <2>3 DEF FileType
<1>3. CASE LogWrites
  <2>1. /\ file' = [base |-> file.base, end |-> file.end + 1] /\ file.end < MaxLines
        /\ UNCHANGED <<cursor, turned>>
    BY <1>1, <1>3 DEF LogWrites, process
  <2>2. file'.base = file.base /\ file'.end = file.end + 1
    BY <2>1
  <2>3. QED
    BY <1>1, <2>1, <2>2 DEF FileType
<1>4. CASE LogRotates
  <2>1. /\ file' = [base |-> file.end, end |-> file.end] /\ turned' = TRUE /\ UNCHANGED cursor
    BY <1>1, <1>4 DEF LogRotates, process
  <2>2. file'.base = file.end /\ file'.end = file.end
    BY <2>1
  <2>3. QED
    BY <1>1, <2>1, <2>2 DEF FileType
<1>5. QED
  BY <1>2, <1>3, <1>4 DEF Next, Uptime, Collector, LogExcerpt, Shed, Crash, Sampler, Flush,
       Prune, ShipTick, Heartbeat, Host, HostCounter, HostEdge, Report, Recovered, Inventory, Look,
       Quiet, Capture, OtherBegins, OtherEnds, WorldMoves, Restart, gvars, excerpts, process

(* The probes keep their types, in every configuration.                     *)
THEOREM AgentTypeCorrect == Spec => []AgentTypeOK
<1>1. Init => AInv
  <2> SUFFICES ASSUME Init PROVE AInv
    OBVIOUS
  <2>1. ConnType /\ PlaceType /\ EdgeType
    <3>1. MaxFaults \in Nat
      BY AgentAssumption
    <3>2. ConnType
      <4>1. 0 \in 0 .. MaxFaults
        BY <3>1
      <4>2. QED
        BY <4>1 DEF Init, ConnType
    <3>3. PlaceType
      BY DEF Init, PlaceType
    <3>4. EdgeType
      BY DEF Init, EdgeType
    <3>5. QED
      BY <3>2, <3>3, <3>4
  <2>2. ProbeType /\ FileType
    <3>1. MaxOom \in Nat /\ MaxLines \in Nat \ {0}
      BY AgentAssumption
    <3>2. ProbeType
      <4>1. 0 \in 0 .. MaxOom /\ -1 \in -1 .. MaxOom
        BY <3>1
      <4>2. QED
        BY <4>1 DEF Init, ProbeType
    <3>3. file.base = 0 /\ file.end = 1 /\ cursor = {} /\ turned = FALSE
      BY DEF Init
    <3>4. FileType
      <4>1. 0 \in 0 .. 1 /\ 1 \in 1 .. MaxLines
        BY <3>1
      <4>2. QED
        BY <3>3, <4>1 DEF FileType
    <3>5. QED
      BY <3>2, <3>4
  <2>3. ExcerptInv
    BY ExcerptsStart
  <2>4. QED
    BY <2>1, <2>2, <2>3 DEF AInv
<1>2. AInv /\ [Next]_gvars => AInv'
  BY ConnTyped, PlaceTyped, EdgeTyped, ProbeTyped, FileTyped, ExcerptsStep DEF AInv
<1>3. AInv => AgentTypeOK
  <2> SUFFICES ASSUME AInv PROVE AgentTypeOK
    OBVIOUS
  <2>1. cursor = {} \/ \E c \in Offset : cursor = {c}
    BY DEF AInv, ExcerptInv
  <2>2. Cardinality(cursor) <= 1
    <3>1. CASE cursor = {}
      BY <3>1, FS_EmptySet
    <3>2. ASSUME NEW c \in Offset, cursor = {c} PROVE Cardinality(cursor) = 1
      BY <3>2, FS_Singleton
    <3>3. QED
      BY <2>1, <3>1, <3>2
  <2>3. QED
    BY <2>2 DEF AInv, ConnType, PlaceType, EdgeType, ProbeType, FileType, AgentTypeOK
<1>4. QED
  BY <1>1, <1>2, <1>3, PTL DEF Spec

=============================================================================
