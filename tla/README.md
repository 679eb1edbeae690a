# smokemon in TLA+

smokemon is a monitoring agent. A *node* runs one collector process that samples
the machine, detects anomalies online, stores confirmed incidents in SQLite and
ships them; a *hub* stores what the nodes ship and serves it. This directory
models the parts whose correctness depends on order, time and failure, checks
the models with TLC and proves what it can with TLAPS.

Paths below are relative to `src/smokemon/` unless they begin with `docs/`.

## The system

| Component (source) | State it keeps | Operations | Talks to |
|---|---|---|---|
| Detector (`detect.py`, `baseline.py`) | one machine per signal key: OK, ARMED, OPEN, CLOSING, COOLDOWN, with timers on the monotonic clock; a learned baseline per signal with a dirty mark | `evaluate` (one sample), `sweep` (stale and too-old incidents), `restore`, `baseline.update`, `thaw`, `maybe_flush`, `load` | called by the probes; returns actions to the incident store |
| Incident store (`incidents.py`) | `incident_state` (one mutable row per key), `incidents` (append-only transitions), `incident_samples` (decimated evidence), `ext_events` | `apply` with an open, reopen, sample and four terminal transitions; `load_open` | the shipper reads its tables; `load_open` seeds the detector after a restart |
| Collector (`collect.py`, `core.py`) | the next wall-clock slot of every task; whether to stop | `run_scheduler`, `_guarded`, `_sweep`, `_flush_baseline`, `_prune`, SIGHUP, SIGTERM, start | calls everything on the node from one thread |
| Shipper (`ship.py`, `config.py`) | `ship_state` cursors by hub and table; `_pending`, `_seen_id`, `_next_due`, the in-flight lock | `tick`, `_run`, `drain`, `gather`, `_post_body`, `init_state`, `reload_hubs` | a thread of its own; HTTP to each hub |
| Retention (`prune.py`) | none | `prune`, `_shipped_last` | reads the shipper's cursors |
| Hub ingest (`hub.py`, `schema.py`) | the hub's tables under (node, src_id); `ingest_log` | `ingest`, `_insert_std` | receives from the shippers |
| Incident reduction (`query.py`) | none | `load_incidents` | reads the hub's (or a node's) tables |
| Hub alerts (`alerts.py`, `notify.py`) | `alert_state` | the alert loop: evaluate, plan, page, persist | reads incidents, posts to a webhook |
| Hub response cache (`hub.py`) | values and locks by key, LRU | `_cached`, `_evict_locked`, request semaphore | one thread per request |
| Hub read API (`hubapi.py`, `analyze.py`) | none | fleet, incidents feed, open alerts, metrics | reads the hub's tables |
| Signal rings (`signals.py`) | a bounded ring per signal, a bounded registry | `feed`, `before`, `since`, `tail` | fed by `detect.evaluate`, read by `incidents._apply_open` |
| Events and governor (`events.py`, `governor.py`) | edge-trigger set, last counters, time of the last note | `trip`, `clear`, `counter`, `should_shed`, `note` | `_guarded`, probes |
| Probes (`probes/`, `adapters/`, `heartbeat.py`) | previous counters; inventory's last values; log cursors | `collect` of each | the operating system |
| Command line (`cli.py`, `report.py`, `footprint.py`) | none | readers and formatting | the database |

### What is hard

* **Two clocks.** Durations of the detector run on the monotonic clock; the
  scheduler, the age of an incident, the reopen window and the order in which the
  hub reads rows use the wall clock, which NTP may step.
* **Crashes.** The machines live in memory, the incident row on disk. A restart
  must resume an open incident and forget neither its worst value nor its age.
* **Lost writes.** `apply` swallows an `OperationalError`. Each opening and
  terminal action commits on its own, so a failed batch persists a part of itself.
* **At-least-once delivery.** A request can be lost, its reply can be lost, and a
  request the sender gave up on can still reach the hub after its retry.
* **Shared frontiers.** One gathered body serves every hub at the same frontier;
  a hub that failed lags behind and must not share it.
* **A second thread.** Ships run beside the collector, which goes on inserting,
  pruning and reloading the hubs while a drain is between two of its steps.
* **One connection, no rollback.** A probe whose write fails leaves its implicit
  transaction open; what the next statement does depends on whether it has read.
* **Once per edge.** Events, inventory rows, log excerpts and notes are delta-coded
  against memory that moves before or after the write it stands for.
* **Threads per request.** The hub answers from a cache whose per-key locks are
  evicted with the values, while threads wait on them.
* **Rows in any order.** Every page of the hub reduces the same rows again, with its
  own window, from whatever has arrived so far.
* **Retention against shipping.** Pruning deletes by rowid and age what the
  cursors call shipped, while cursors, hubs and rowids change.

### What makes each component correct

* Detector: no opening without the debounce, no closing without the whole hold,
  no learning from an incident, no incident for ever (silent signal, maximal age).
* Incident store: the newest transition and the state row agree; the log of a key
  alternates openings and terminals; the worst value survives decimation and
  restarts; evidence is bounded.
* Hub reduction: however far a hub is behind, a uid is ongoing on it exactly when the
  node held it open when it wrote the newest row the hub has.
* Shipper: a cursor never runs ahead of its hub, a hub never has a hole, a row
  reaches every hub in the end, an elevated event does not wait for the deadline.
* Retention: nothing is deleted that no hub has.
* Ingest: a replay adds nothing and counts nothing.
* Alerts: a firing alert is paged until a page went out, a resolved one leaves
  `alert_state`.
* Cache: one producer per key, no answer older than promised, a bounded map of locks
  in which nobody waits in vain.
* Read API: every page tells the same story of an incident; the density grid counts
  it in the hours it was open in; merged spans count every moment once.
* Rings: the newest samples, in order, split exactly at the onset.
* Events: one event per edge, also when a write fails; inventory and log excerpts:
  what changed or was appended is recorded once; a connection is usable again once
  the lock is free.

## Modules

| Module | Models | Reads like |
|---|---|---|
| `Detector` | `detect.py`, the warm-up part of `baseline.py`, the scheduler's wall-clock slots | one action per branch of `evaluate`, one for `sweep`, one for time, one for a clock step |
| `DetectorProofs` | — | the inductive invariant of `Detector` and seven theorems |
| `HubView` | `query.load_incidents`'s state of a uid | `Ongoing(rows)` |
| `Node` | `incidents.py`, the baseline flush, crash and restart, composed with `Detector` | extends `Detector`; an action is a detector step and the persistence of what it emitted |
| `NodeProofs` | — | seven theorems about `Node`, and six that carry those of `DetectorProofs` through restarts |
| `Shipper` | `ship.py`, `prune.py`, `config.reload_hubs`, `hub.ingest` | the collector's actions, a program counter per drain, a set of requests on the wire |
| `ShipperProofs` | — | the inductive invariant of `Shipper`, six theorems and the refinement of `Replica` |
| `Replica` | — | the abstract specification of shipping and retention: write, carry, arrive, confirm, redirect, forget |
| `ReplicaProofs` | — | what `Replica` promises, proved |
| `Alerts` | `hub._alert_loop`, `alerts.py`, `notify.send`, `hubapi.open_incident_alerts` and the liveness it asks for | the steps of a pass, with ingest, time and restarts between them |
| `AlertsProofs` | — | the inductive invariant of `Alerts` and five theorems |
| `Agent` | `collect._guarded`, `events.py`, `governor.py`, and what the probes, the baseline flush, the prune and the ship tick do to the node's one connection | a probe's step, then `_guarded`'s, with another connection and restarts between them |
| `AgentProofs` | — | five theorems about `Agent` |
| `Window` | — | the abstract specification of the node's memory of samples |
| `Signals` | `signals.py` | ring arithmetic, and the mapping to `Window` |
| `SignalsProofs` | — | the refinement, the types, and what is read back about an incident, proved |
| `HubCache` | `hub._cached`, `_evict_locked`, the request slots | a program counter per slot, one action per step between two locks |
| `HubReads` | `query.load_incidents`, `hubapi`'s fleet, feed, page, open alerts and density | arrivals are the actions, pages are operators |
| `HubProofs` | — | theorems about `HubCache`, `HubReads` and `Spans` |
| `Spans` | `analyze.merge_spans`, `analyze.correlate_incidents`, the digest's time in incident | one action per iteration of the loop, one per stretch of the digest's sum |
| `MCDetector`, `MCNode`, `MCShipper`, `MCAlerts`, `MCAgent` | — | rules, clock steps, symmetry, severities, mutes and sets of probes for TLC |
| `MCParts` | — | `Agent`, `Signals`, `HubCache`, `HubReads` and `Spans` side by side: they share no state, so the initial predicate picks one and the others rest |

`Detector` and `Node` are composed (a step of `Node` is a step of `Detector` and the
persistence of what it emitted); `Node` and `HubReads` use `HubView`; `Signals`
instantiates `Window`, `Shipper` instantiates `Replica`. `Agent` keeps of the detector's batch only what it does to the
connection, and `Shipper` and `Alerts` keep of the rows only that they arrive.

### Detector

`det[k]` is `_State`, `base[k]` the cached baseline reduced to its sample count
and dirty mark, `acts` what the last call returned. `mono` and `wall` are
`time.monotonic()` and `time.time()`; `due` is the sweep's slot in
`run_scheduler`, computed like the code's from the wall clock. A sample is an
integer badness: above `trip` it breaches, above `clear` it has not recovered;
what lies between is the hysteresis band. A learned rule has no thresholds until
its baseline holds `min_n` samples: then nothing breaches and everything counts
as recovered, as in `_thresholds`, `_breach` and `_clearing`. `hist` records what
the samples themselves said and `swept` when the sweep last ran; no guard reads
either. Each signal is fed at most once per unit of time, as its probe does.

### Node

`row`, `log`, `evid` and `saved` are the tables on disk, evidence reduced to
counts. A step of the detector and `Apply` of its actions are one action because
the code calls one from the other on the only thread; `Apply` either persists the
batch or, when the database is contended, any part of it (a sweep emits its
actions in the order the signals were first seen, which is any order). The
samples an opening takes from the ring are a choice between none and `PreMax`
before the breach and between one and `HeadMax` since. `Restart` drops memory,
lets time pass, loads the baselines and restores the machines by
`detect.restore`'s re-seeding of the monotonic clock; it may come with the final
flush of an orderly stop. A minted uid is a number that was never used.

### Shipper

`rows[t]` is a node table; a row's serial number `n` stands for its content and
age. `cursor` is `ship_state`. Each shipper ("thread" is the collector's,
"manual" is `python -m smokemon.ship`) has a program counter through
`init_state`, grouping by frontier, `gather`, a post per member, the answer and
the cursor's commit. `wire` holds the requests: one may be served, lost, or left
behind by its sender and served later. `conf` changes at SIGHUP between any two
steps; the drain keeps the hubs it began with, as the code's local list does.
`top` and `reused` remember whether SQLite gave out a rowid twice, for the
properties only.

`Replica` says what all of this is for, without drains, requests, groups or batches:
tables that grow at their end (`Write`), copies that receive rows late and in any
order but never past a row the source still keeps (`Arrive`), a mark per copy that
moves only to where the copy is complete (`Confirm`), and a source that forgets only
what is behind the mark of one of the places meant to have it (`Forget`). `Abstract`
maps it to the node's rows, the hubs' stores, the cursors, the configured hubs and
the bodies that are gathered or on the wire (`InTransit`).

### Alerts

`tracked`, `stamped` and `since` are the table `alert_state`: its keys, those whose
`notified_ts` is not NULL, and the age of that time. `pass` holds the locals of
`_alert_loop` and `pc` where it is; each lock region and the POST is a step, and
between two steps rows and heartbeats are ingested, time passes (while a pass waits
for the webhook or the lock) and the hub may be restarted with another mute. The
fleet and the incidents are read by two queries outside a transaction, hence two
steps; both may fail, and then return nothing because `_rows` and `_q` swallow the
error. A POST is acknowledged, or fails with its message delivered or not, or ends
the pass by an exception `notify.send` does not catch. A write that fails leaves the
connection inside a transaction, which costs the next batch of ingest its `BEGIN`.
An incident is the newest transition the hub has of it, read as `HubView` reads it;
`stale` and `expired` count as `close`, `reopen` as `open`. `told` and `gap` are
history: what the operator last heard about an incident, and how long ago.

Times are ages that stop growing once no guard tells them apart, so the model runs
for ever in finitely many states. Node and hub clocks agree, `first_ts` and the
message's wording are left out.

### Agent

`tx` is the transaction of the collector's connection: `none`; `begun` by the
`BEGIN` Python put before a statement that then failed; `reading`, once a SELECT in
it has taken a snapshot; `stale`, once another connection has committed past that
snapshot, when no write of it can succeed any more. `Write(t, outcome)` is a batch of
statements and their commit: done, `locked` (it raises and rolls nothing back) or
`full` (SQLite itself rolls back). `pc` and `probe` follow `_guarded` through the
probe, `trip` and `clear`; each probe is the reads and writes it makes, with one
fact of the inventory, one edge and one counter of the host probe, and one log file
standing for all of them. The log file holds the lines `base+1 .. end`; a line's
number is its identity for ever, so that "twice" and "never" can be said of a line
across rotations, while the cursor, like the code's, is an offset and a size.
`captured`, `cut` and `forgone` are history: excerpted, dropped by the cap, and lost
by design. `held` is the other connection; it takes the lock and commits at any
moment. `Restart` is possible at every point.

### Signals and Window

`Window` promises, for at most `MaxSignals` signals, the newest `Size` samples of
each, oldest first, and a count of refusals. `Signals` is the code: a write position
and a saturating count over an array, `(i - n + j) % size` to read it. `RingIsWindow`
maps `held` to `Ordered(ring)` and `refused` to `drops`. `Before`, `Since` and
`TailOf` are what an opening and a close read; a comprehension with a condition is
written as the positions it keeps, in order (`Picked`).

### HubCache

A slot of the request semaphore stands for the thread that took it. `cache` is the
LRU order, `lockOf` the map of locks, `owner` who holds each. A lock object is a
number; one that neither the map nor a thread refers to is free for the next
`setdefault`, so an evicted lock and its successor are told apart exactly as long as
somebody can. A query is one step (it runs behind the read lock); its answer is
stamped later, with the wall clock, which may have been stepped back. Ingest changes
`version` between any two steps; a producer may raise.

### HubReads

`life` is what a node wrote about each incident, `arrived` which of these rows the
hub has: any subset, in any order. Every page is an operator of that state and a
window, translated from its function. `Load` says in closed form what one pass of
`load_incidents` over the rows of a uid leaves: the last row decides whether it ended
and when, the last one that does not end it gives the severity, the opening's time is
on every row. Rows are named by their position in what the node wrote. The assumption
on `Lives` is that a node writes the rows of one incident at increasing times, so that
position and ORDER BY agree; a clock that is put back breaks it (see `query.py:94`
below), and which of two rows of equal `ts` SQLite returns first is not said anywhere.
The limit of 200 rows is left out.

### Spans

`merge_spans` and the grouping of `correlate_incidents` are one loop, without a gap and
with `window_s`; `gap` is chosen at the start. `Visit` is an iteration: it takes an
incident of least start among those left (`todo`; the two sorts settle ties differently,
here any may be next) and joins it to the newest of `stretches` or opens another.
`merge_spans` keeps of a stretch the start and the end; `members` is the group of
`correlate_incidents`, and tells which incidents a stretch stands for. Which member is
the `root` of a group is left out. `AddUp` adds one stretch to the digest's sum.

An incident that was closed after the clock had been put back ends before it began, so
the inputs hold any pair of times. What the property says of groups and time is about
incidents that run `Forward`; that none is lost or repeated is about all.

The property has no order and no pass in it: groups are components if every way of
cutting one in two is crossed by a near pair (`Linked`) and no near pair lies across two
of them, and time is the number of moments covered.

## Runs

On two workers each of the passing runs finishes in two minutes or less.

| Run | Shows |
|---|---|
| `detector` | one fixed rule, samples 0 (healthy), 1 (band), 2, 3 (breaching), 10 units of time, one forward clock step: `SilentSignalIsRetired`, `NothingStaysOpen`, `BaselineLearnsOnlyHealth` |
| `node` | the same rule with the store, two restarts, one failed batch, one backward clock step, 8 units of time: `MemoryMatchesDisk`, `LogAlternates`, `WorstIsPeak`, `HubAgrees`, `EvidencePerTransition`, and the detector's `DebounceBeforeOpen` and `HoldBeforeClose` across restarts |
| `node_storm` | two interchangeable keys with learned rules that expire, a storm budget of one, one failed batch: `LogMatchesState` |
| `ship_safety` | two tables, two interchangeable hubs, two rows, a batch of one, one failure, restart and SIGHUP, pruning at any age; in half of the instance one hub, and a drain by hand racing the collector's: `ConfirmedIsStored`, `NoHole`, `ReplayCountsNothing`, `DeletedIsStored`, `Replicates` (refinement) |
| `ship_live` | two hubs, two rows, one failure and one restart, under fairness: `Delivered`, `ExpeditedArrives` |
| `alerts` | two incidents (an error, and a warning that may be muted) of one node, heartbeats overdue after one unit, re-notify after three, a POST that may take one, one failure or restart, under fairness: `StampedIsTold`, `ToldMatchesState`, `QuietBetweenPages`, `FiringIsPaged`, `TrackingFollows` |
| `parts` | the agent: `EdgesMatchDisk`, `OpenOnlyAfterFailure`, `FactsMatchDisk`, `ExcerptsAreExact`; the rings: `EvidenceSplitsAtOnset`, `RingIsWindow` (refinement); the cache: `SingleFlight`, `AnswersGoForward`, `AnswersAreFresh`, `LocksBounded`; the pages: `ViewsAgree`, `DensityIsTrue`; the spans: `ClustersAreComponents` |
| `persist_never_ends`, `lost_close`, `rowid_reuse`, `two_shippers`, `stuck_transaction` | violations: see "Where the code and its documents disagree" |

Type invariants are checked by `node` (`TypeOK`, the detector's included),
`ship_safety`, `alerts` and, for `HubCache`, `parts`; those of `Agent` and `Signals`
are proved and need no run.

### Bounds, and why they are enough

* Time: 8 to 12 units with durations of 1 to 5. The longest lives (warm up, arm,
  open, recover, hold, close, retrip; or open, outlive `MaxOpenS`, be swept, cool
  down) fit, and each timer can be short of its bound, at it and past it.
* Values: one per side of each threshold, and two breaching ones where the worst
  value matters.
* Evidence limits of 1 or 2: the head, the ladder's first and doubled step and its
  last rung are all reached.
* Two rows with a batch of one give a second round, a hub that lags by one body
  and a body of the newer row without the older; a third row is needed only to
  reuse a rowid after a prune, or for the race of two drains.
* One failure per run is enough to separate two hubs' frontiers, to lose a reply
  and retry, and to leave a request behind that arrives after its retry.
* Two incidents share a message: one fires while the other resolves, one is muted or
  below the bar while the other is paged, and one failed POST costs both. A
  re-notify time of three passes with a pass that may take one puts the stamp short
  of the cooldown, at it and past it. One failure separates message from table; a
  second adds states and no new kind of difference, and was tried.
* `parts`: the agent with four sets of probes, one for each kind of memory they
  keep, four log lines with a cap of one, so that a rotation, a
  cut and a file that outgrew its predecessor meet, and one full disk or crash. Rings
  of three for three signals with a cap of two and six feeds: a ring wraps twice, and
  a signal is refused. Three request slots over two keys with room for one in the
  cache: an eviction under a holder, a waiter and a newcomer; four requests, one
  error, one change of the database, three units of time of which an answer lives two,
  one step back. Two incidents of one node with lives of up to four rows at any of
  four times, every window, hours of two units: hours shared and split by every row.
  Three spans over five moments: nested, touching, near, apart and inverted in every
  order, visited with and without a gap.

Deadlock is checked in every run but `parts`: `Horizon` stutters when the bounded
time ends, and the shipper always has its tick. In `parts` the bounded pieces stop
when their bounds are used up, and the ones not picked never move.

### Fairness

`ship_live`, `alerts` and `stuck_transaction` have some. In `Alerts`, `Running` is
weak fairness of time (`time.sleep` returns) and of the alert thread's steps: nothing kills the loop, the
POST has a timeout, and at most `MaxFaults` sends, reads and writes fail; no node is
assumed to send anything. `FiringIsPaged` and `TrackingFollows` are about an incident
that in the end stays as it is, which is what a page is for.

For `ship_live`, `Running` asks for weak fairness of `Tick` (the
scheduler calls it every `SHIP_TICK` seconds), of each drain's next step (a
runnable thread runs) and of the hub's answers; requests, replies and drains fail
at most `MaxFailures` times, which is what "in the end" means for a shipper that
retries for ever. The periodic deadline is *not* fair in this specification:
`Delivered` assumes it (`WF_svars(Deadline) => ...`), `ExpeditedArrives` must do
without it, since otherwise the deadline would deliver the event anyway.

`LongSpec`, of a collector that is not restarted, has strong fairness of every
probe's start (the scheduler comes round to each of them for ever, however often
`_guarded` is busy in between) and weak fairness of `_guarded`'s own steps. The other
connection owes nothing; the property asks for heartbeats only when it stops holding
the lock. No fairness helps a run that must be violated: the counterexample has every
probe run for ever, and every write of it fail.

## Proofs

`DetectorProofs` proves, for every set of keys, every rule, all values and all
durations:

| Theorem | States |
|---|---|
| `Invariance` | `DInv` is invariant |
| `TypeCorrect` | `DTypeOK` |
| `Debounced` | `DebounceBeforeOpen`: no opening outside a cooldown without `for_s` of unbroken breach |
| `HoldServedBeforeClose` | `HoldBeforeClose`: no closing within `clear_for_s` of a sample above the clear threshold |
| `BaselineFrozen` | `BaselineLearnsOnlyHealth` |
| `SilentSignals` | `SilentSignalIsRetired`, when the clock is never stepped back (`WallSteps \subseteq Nat`) |
| `Expiry` | `NothingStaysOpen`, until the clock is stepped |

The properties alone are not inductive: that a candidate's timer measures the
unbroken run, or that the hold's timer is younger than the last bad sample, is
known only state by state. `KeyInv` says so for one key: in OK the last sample
did not breach; in ARMED the timer is the start of the run; in CLOSING no bad
sample is newer than the timer, as far as the rule has thresholds;
and the last sweep left no silent signal active. `DInv` is that for every key,
with the types. `HoldServedBeforeClose` adds `Believed`: while an incident is believed
its thresholds exist (a baseline is forgotten only by an expiry, which also ends the
incident). That is kept apart because a restart breaks it, and nothing else of `DInv`. `MoveInv` reduces the invariance of every branch of `evaluate` to
five facts about the machine and the history it leaves; one lemma per branch
supplies them. The two time bounds need one fact more each: `Cadence` (the time
since the last sweep and the time to the next slot make one interval, as long as
the wall clock is not put back) and `AgeInv` (the last sweep left nothing older
than `MaxOpenS`).

Assumptions: the types of the constants, positive durations, and for
`SilentSignals` the direction of clock steps. The bounds `MaxMono` and
`MaxWallSteps` are arbitrary naturals.

`AlertsProofs` proves, for every set of nodes and incidents, every severity, mute,
re-notify time and length of a pass:

| Theorem | States |
|---|---|
| `AlertsInvariant` | `AInv` is invariant |
| `AlertsTypeCorrect` | `AlertsTypeOK` |
| `StampsAreTold` | `StampedIsTold`, whatever fails |
| `StateMatchesTold` | `ToldMatchesState`, until something fails |
| `Quiet` | `QuietBetweenPages`, until something fails |

`ToldMatchesState` speaks of the moments between passes; to carry it through one,
`AInv` adds what a pass owes: from the plan on, `resolved` is what the table has and
the evaluation lacks, and everything due and not muted is in the message (`PassInv`);
once the POST is acknowledged the message is ahead of the table exactly where it
speaks, and an unacknowledged one had nothing to say (`Settled`, `CleanInv`). That
nothing muted is stamped while the mute stays is needed to know that a dropped row
was reported.

`NodeProofs` proves, for every set of keys, rules, samples, clock steps, lost batches
and restarts:

| Theorem | States |
|---|---|
| `NodeTypeCorrect` | `TypeOK` |
| `LogAndStateAgree` | `LogMatchesState` |
| `MemoryFollowsDisk` | `MemoryMatchesDisk`, as long as no batch was lost |
| `WorstSurvives` | `WorstIsPeak`, when every rule has fixed thresholds |
| `LogIsALife` | `LogAlternates`, under that property's own premises |
| `HubKnows` | `HubAgrees`, for a hub however far behind, while no batch is lost and no clock is stepped |
| `EvidenceIsPaidFor` | `EvidencePerTransition`, whatever fails |
| `DetectorSurvives` | `DInv`, which `DetectorProofs` proves of an uninterrupted process |
| `DebounceSurvives` | `DebounceBeforeOpen`, whatever crashes and is lost |
| `HoldSurvives` | no close within `clear_for_s` of a bad sample, for every rule that has thresholds when it closes |
| `FixedHoldSurvives` | `HoldBeforeClose`, when every rule has fixed thresholds |
| `SilenceSurvives` | `SilentSignalIsRetired`, when the clock is never stepped back |
| `ExpirySurvives` | `NothingStaysOpen` from the first sweep of a process on, until the clock is stepped |

The last six lift the detector's guarantees from one process to a node that dies at any
moment, with what it had not written lost. Every step of `Node` is a step of `Detector`
for the detector's variables, a flush or a restart (`DetectorStep`). A restart brings a
row back as open or as a cooldown and never as a candidate or a hold: no timer survives
that a sample would have to justify, and a resumed incident counts as heard now, so
`DInv` starts over (`RestartKeeps`). What does not survive is `Believed`: a learned rule
whose baseline was not flushed comes back without thresholds. Hence `HoldSurvives` asks
for them, and `FixedHoldSurvives` is the full property for rules that always have them;
the counterexample for the others is in the list below (`detect.py:290`). For the two
bounds on time, `Paced` is the cadence with a start that owes a sweep at once, and `Aged`
adds that what the first sweep leaves is young: `opened` is read back as it was written,
so time spent down counts, and until that sweep an incident may be older.

For the other seven, a step of `Node` is then one of a few kinds: a
sample or a sweep, the batch it emits persisted key by key (`Effect` says what an
action leaves in one key's tables; a lemma per action supplies it), a flush, a
restart. `LogMatchesState` is inductive with the types, whatever part of a batch is
lost. `MemoryMatchesDisk` adds that the detector emits an opening only for what it
believes closed. The worst value needs `Agree`: memory and disk name the same worst,
both are the peak, and the peak lies above the threshold, so that a sample which is
not a new worst changes neither; a learned threshold may be missing after a restart,
hence the premise. `LogAlternates` needs what the row `Remembers` of the log: when its
last occurrence opened and ended, and that no row lies in the future.

`HubAgrees` asks what a hub makes of a log it sorts by time. `OrderInv` says that in
the log of a key neither time nor uid goes back, so that the rows of one uid are
consecutive and the row the hub's ORDER BY leaves last is the one the node wrote last;
the rest follows from the newest row of each uid: the newest of all is what the state
row says, and every earlier uid was ended or persisted before the next one opened
(`LogAlternates`). A hub that is behind has a prefix of the log (`Replica`: a copy has no
gap), which is a log of the same kind (`PrefixKeeps`); `HeldOpen` reads off its newest
row what the state row was when that row was written. `EvidencePerTransition` counts rows of a filtered log, whose
recursion a prover cannot follow; `PaidInv` therefore follows the count by what one
step adds to it. An opening pays for its samples and a new ladder, a sample climbs the
ladder by a row (`evid.during + Ladder <= opens * Ladder + row.n`), an ending pays for
its own, and nothing else touches the evidence; a reopening resets `row.n` and buys the
ladder again.

`ShipperProofs` proves, for every number of tables, hubs and rows, every batch size,
and any failures, restarts, reloads and prunings:

| Theorem | States |
|---|---|
| `ShipInvariant` | `SInv` is invariant, without a race of two drains |
| `ShipTypeCorrect` | `ShipTypeOK`, races included |
| `CursorsAreConfirmed` | `ConfirmedIsStored`, without a race |
| `HubsHaveNoHole` | `NoHole`, without a race |
| `PruneIsSafe` | `DeletedIsStored`, without a race |
| `CountedOnce` | `ReplayCountsNothing`, races included |
| `ShippingReplicates` | `Replicates`: `Shipper` implements `Replica`, without a race |

`NoRace` is one shipper, or one hub: the assumption the run `two_shippers` shows to be
necessary. Beside the types and the bounds of rowids, `SInv` says, until SQLite has
given out a rowid twice: a rowid names one row wherever it is, on the node, a hub or
the wire; the groups of a drain are disjoint and each at one frontier; a body leaves
out no earlier row that a hub it is meant for lacks (`Covered`), be it about to be
posted (`DrainInv`) or already on the wire (`WireInv`); an acknowledged body is on its
hub; and nothing drains while the in-flight lock is free (`Flight`). Then moving a
cursor to the last row of a body neither runs ahead of the hub nor leaves a hole, and
a request served after its retry makes none either. `ReplayCountsNothing` needs none
of that, only that the rows of a table are numbered apart.

The refinement has one lemma for each action. Starting, grouping, waiting and retrying
are stuttering steps; gathering and posting are `Carry`; a hub that serves a request is
`Arrive`, and that it leaves no gap is `Covered` of the request's body; a cursor's
commit, and the deletion of the cursors of forgotten hubs, are `Confirm`; a prune is
`Forget`, since the newest row shipped to a configured hub is behind that hub's cursor.
That the new state is again one where rowids are unambiguous comes from `SInv'`, which
the invariance proof supplies. `ReplicaProofs` then shows, of the abstract
specification alone and so of anything that implements it, that copies are complete up
to their marks and without gaps (`CopiesAreComplete`) and that nothing is forgotten that
no configured place has (`NothingIsLost`); its invariant `PInv` is that together with
the fact that every row anywhere has an id below the next one.

`AgentProofs` proves, for every configuration of probes, any faults, any file and any
cap, that `EdgesMatchDisk`, `OpenOnlyAfterFailure`, `FactsMatchDisk`,
`ExcerptsAreExact` and `AgentTypeOK` hold (`EdgesAreTrue`, `NothingHeldOpen`,
`FactsAreTrue`, `LinesAreExact`, `AgentTypeCorrect`). The first three are inductive as
they stand. For the excerpts, `ExcerptInv` says what a cursor knows: until a rotation, that
its file was dealt with up to the offset and not past it; after one, that all files
before the present one were dealt with, and nothing of this one, whether its length
betrays the rotation or not.

`HubProofs` proves, for any numbers of slots, routes, entries and requests, any
incidents, lives and windows:

| Theorem | States |
|---|---|
| `CacheInvariant`, `CacheKnows` | `CInv`, and `DInv` and `OwnLocks` with it, are invariant |
| `CacheTypeCorrect` | `CacheTypeOK` |
| `OneFlight` | `SingleFlight` |
| `GoesForward` | `AnswersGoForward` |
| `Fresh` | `AnswersAreFresh` |
| `LocksAreBounded` | `LocksBounded` |
| `ReadsAgree` | `ViewsAgree` |
| `DensityCounts` | `DensityIsTrue` |
| `SpansAreMerged` | `ClustersAreComponents` |

`CInv` is the discipline of the locks: a thread that waits or computes refers to the
current lock of its key, unless that key lost a lock somebody referred to; the holder
of a lock is the thread that computes under it. That a `setdefault` always finds an
object in use nowhere is a pigeonhole argument over the threads and the map
(`LockIsFree`). `DInv` adds what is known of the data: a thread that has queried holds
an answer as new as every answer that went out for its key and as every entry of it
(`Knows`), because under a lock nobody else computed meanwhile; an entry was stamped
at most a query after it was read and is as new as every answer given (`Kept`); and
each key has one entry, which is what makes the list a map (`OneEach`). `OwnLocks`
says whose a lock is: no two keys share one, who refers to it is after its key, and
that key is cached, in flight or failed. A hit moves its entry to the end of the
list, a store appends and evicts the first, so half of the lemmas are about what a
list without duplicates keeps when an entry leaves it (`TakenOut`, `OthersStay`,
`StoredFits`).

The pages have an easy invariant, that `life` is one of the `Lives` (`RInv`), and
arithmetic for a proof. For `ViewsAgree` the one fact is that a window that shows an
incident at all shows its last row (`LastInWindow`, since times increase), so every
window reduces it alike (`LoadAgrees`). For `DensityIsTrue` two ways of counting hours
must coincide: `range(first, last + 1)` of two floor divisions, clamped at both ends of
the window, and "an instant of that hour lies in the incident". `CellsBetween` says it
of floor division alone: the cells of a width that an interval meets are those from the
cell of its first instant to the cell of its last; `SpannedIsOpen` applies it to the
clamped interval. Both need the assumption on `Lives`.

For the spans, the loop's invariant `PInv` is its property for the incidents visited so
far, with what an iteration relies on: nothing visited starts after what is left, each
stretch reaches exactly from the first start to the last end of its members (`Tidy`), and
between two stretches lies more than the gap (`Swept`). A newcomer that joins is near the
member that ends last, so every cut of the larger group is crossed (`GrownIsTidy`); one
that does not is beyond the gap of every earlier member. `Totalled` counts the moments of
the stretches added up so far, which share none (`AddUpTotals`).

`SignalsProofs` proves, for every size of ring and registry and any samples:

| Theorem | States |
|---|---|
| `RingsAreWindows` | `RingIsWindow`: `Signals` implements `Window` |
| `SignalsTypeCorrect` | `SigTypeOK` |
| `EvidenceIsSplit` | `EvidenceSplitsAtOnset` |

For the refinement: the slots a push leaves alone are read at the same place
(`PushKeeps`), the ring that is full drops exactly its oldest (`Wraps`, `PushSlots`),
and the registry never exceeds its cap (`RegInv`). The types need `Counted`, that a
registered ring is never empty. For the evidence, `InOrder` says of every ring that its
samples, oldest first, have increasing numbers and monotonic times that do not go back
(`Sorted`), and that a slot not among them is blank (`Filled`). Then what is older than
an onset comes first (`OnsetCuts`), the positions a comprehension keeps are consecutive
(`PickedRange`), and the last `k` of an increasing list are the `k` greatest
(`Extremes`).

Each of these is proved from the named assumptions on the constants and nothing else.

Every invariant and every action property of the passing runs is stated by a theorem.
Only model-checked are the liveness properties `Delivered`, `ExpeditedArrives`,
`FiringIsPaged` and `TrackingFollows`: they rest on fairness, and so on ENABLED, which the
provers at hand do not treat. Statements about the value of a fold for every sequence
would be another such kind (an induction over data); none is left, since what the code
folds is said of positions, of single iterations and of single steps.

## Where the code and its documents disagree

Five disagreements have a run whose property states the document's sentence; the
text is in `PROJECT.json`, "findings".

* `persist_never_ends`: an absolute rule that persists and then recovers writes no
  further row, and the hub shows the uid as ongoing for ever.
* `lost_close`: a close whose batch failed is never written again.
* `rowid_reuse`: tables without AUTOINCREMENT reuse the rowid of a pruned newest
  row, below the cursors; the new row is pruned unshipped.
* `two_shippers`: a drain by hand next to the collector's makes a cursor confirm
  rows its hub never received, when hubs share a frontier.

* `stuck_transaction`: a failed write leaves its transaction open, the SELECT of the
  report pins its snapshot, and one commit of another connection later no write of the
  collector succeeds any more; it does not end when the contention does.

Others were met while modelling; the models follow the code, and properties that
depend on them say so in their premise.

* `detect.py:368`: COOLDOWN tests a breach before its own deadline, so the first
  sample after any gap reopens without ARMED, however long ago the incident ended
  (`docs/detector-spec.md:316` limits that to `cooldown_s`). Hence
  `DebounceBeforeOpen` excepts openings out of COOLDOWN.
* `core.py:124`: the scheduler follows `time.time()`; after a backward step
  nothing runs, the stale sweep included, until the clock is back. Hence
  `SilentSignalIsRetired` needs a clock that is not stepped back.
* `detect.py:435`: a forward step force-closes a young incident, or keeps it open
  when backward. Hence `NothingStaysOpen` holds until the clock is stepped.
* `query.py:94`: rows are ordered by wall-clock `ts`: a close written after a
  backward step sorts before its open. Hence `HubAgrees` and `LogAlternates`
  exclude clock steps.
* `incidents.py:287`: an open whose batch failed is never written; the close that
  follows finds no row, or the row of the occurrence before. Hence the properties
  that relate memory to disk exclude lost batches.
* `incidents.py:202`: a reopen starts the evidence ladder again, so the 33 rows of
  `docs/detector-spec.md:385` bound an opening, not an incident. Hence
  `EvidencePerTransition`.
* `incidents.py:217`: an incident opened beyond the storm budget has no rows of its
  onset, but its later samples are kept (`docs/detector-spec.md:393` says none).
* `incidents.py:156`: the test for the severity compares the stored transition with
  `persist`, which is stored as `persistent`: the row carries `info`.
* `baseline.py:205`: `thaw` drops the cached baseline only; a restart loads the
  flushed one again.
* `detect.py:290`: a learned rule restarted before its baseline was flushed has no
  thresholds, so every sample counts as recovered and the resumed incident closes
  while the condition is as bad as before. Hence `node` takes fixed rules, and
  `HoldSurvives` asks for thresholds.

* `alerts.py:119`: a resolved alert's row is dropped whether or not the POST that
  says so went out; only a firing page is repeated. Hence `ToldMatchesState` ends
  with the first failure.
* `notify.py:59`: an `http.client.HTTPException` is neither a `URLError` nor an
  `OSError`: it ends the pass before `persist`, and the same page goes out with every
  pass for as long as the webhook answers like that.
* `hubapi.py:45`, `query.py:43`: a read error looks like an empty table; the pass
  then reports every tracked alert as resolved, and the next one pages them again.
* `hubapi.py:212`: an alert of a node that fell silent is reported resolved, and
  paged again when the node is back, cooldown or not; the repository's `INSTALL.md:253` says
  resolved pages are for an alert that clears.
* `schema.py:182`: the comment on `alert_state` still says its key is
  node/kind/label; it is the incident's uid.

* `events.py:76`: `counter` keeps the value before it writes the event, so the kill
  it reports is lost with a contended write, although `_emit`'s comment says a
  condition trips again. Hence no property about the events of a counter.
* `probes/inventory.py`: what changed is judged against the value last *observed*, not
  last recorded: a write that failed is not repeated. Hence the exception in
  `FactsMatchDisk`.
* `probes/logexcerpt.py:128`: the mark of the last elevated event moves before the
  excerpt is written, so the excerpt a failed write owed is taken only after the next
  elevated event; and a file that was rotated and has outgrown the old offset is read
  from that offset. Hence `Overtaken`.
* `probes/host.py:454`: the firmware's throttle bits are kept as `None` by every cycle
  that does not read them, so they are known for one cycle in many.
* `probes/ping.py:28`: the output of an fping that timed out is bytes, the parser's
  pattern a string: the `TypeError` is reported as a crash of the probe, although the
  comment at line 20 says the output is parsed.
* `baseline.py:192`: a flush that fails counts as the flush of its interval, reports
  no event, and leaves the transaction open for the next probe.
* `prune.py:66`: a table that is excluded from shipping has no cursor, so with a hub
  configured none of its rows is ever pruned.
* `ship.py:298`: `tick` lowers the pending flag before the ship it starts has
  succeeded; after a failed one the elevated event waits for the deadline. Hence
  `ExpeditedArrives` ends with the first failure or restart.
* `hub.py:216`: evicting a held lock loses more than one collapse: of two producers of
  a key the slower overwrites the newer answer with its own. Hence `AnswersGoForward`
  excepts such keys.
* `hub.py:214`: a key whose producer raises leaves its lock in the map for ever, if the
  key is never asked for again. Hence the exception in `LocksBounded`.
* `hub.py:307`: the density's time to live is not clamped by `HUB_CACHE_TTL_S`.
* `hub.py:263`: GETs that wait for a key hold request slots, and ingest that finds none
  is refused with 503, although "the dashboard never competes with intake".
* `hub.py`, `_cached`: the age of an answer is a difference of wall-clock times.
  Hence `AnswersAreFresh` adds what the clock was stepped back.
* `hubapi.py`: the feed and the density grid do not show an ongoing incident without a
  row in their window; one whose opening lies before the window and that is closed
  reads as severity info, which `min_severity` then hides. Hence `ViewsAgree` compares
  severities of open incidents only, and `DensityIsTrue` those with a row in the window.
* `hubapi.py`, `fleet`: a stale node with open incidents is shown as degraded.
* `hubapi.py`, `inventory`: the hub takes the row with the greatest `ts`, the node the
  one with the greatest `id`; after a backward clock step they differ.
* `report.py:166`: the digest's time in incident counts a span from its opening, also
  when that lies before the digest's window.
* `report.py:169`: an incident closed after a backward step ends before it began, and
  its length is subtracted from the time in incident. Hence `Forward`.
* `analyze.py`: `correlate_incidents` is called by tests alone.

## Not modelled

* Numbers: centre, spread and z-score of a baseline; percentiles, counters and
  rates of the probes. Samples arrive already compared with their thresholds.
* Readers: the logs, inventory, cost, health and metrics pages of `hubapi`, and
  `report`, `footprint` and `cli` apart from the merging of spans: one-shot queries and
  formatting without state.
* What the probes read from `/proc`, `/sys`, `fping` and other tools, and the redaction of
  text in excerpts; values and lines are inputs of the models.
* The set-aside of a node database with an old schema (`core.py:63`), after which
  rowids start at 1 again under the same node name.
* Transport: URL checks, compression, authentication, body limits, HTTP framing.
* Tables excluded from shipping, `VACUUM` and checkpoints, schema migration.
* Installation scripts.

## Plan

Written: all modules of the table above; every invariant and every action property the
runs check is also a theorem. Left, most important first:

1. What a race of two drains cannot break: with several shippers and several hubs
   `NoRace` fails, but `NoHole` may survive under a weaker premise (one frontier for
   all hubs), which TLC can look for first.
2. The set-aside of an old node database and the tables excluded from shipping, as
   actions of `Shipper`, with the theorems carried over.
3. `HubAgrees` after a clock correction: which uids a hub may show wrongly, and for
   how long, as a bound instead of a premise.
4. `Node`, `Replica` and `HubReads` composed into one specification. `HubAgrees` speaks of
   every prefix of a key's log and `CopiesAreComplete` says that a hub has one; that the
   two meet is argued here and not proved.
5. A crash of the hub between two steps of an ingest, and the ageing out of
   `ingest_log`.
