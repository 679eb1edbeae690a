------------------------------- MODULE Alerts -------------------------------
(***************************************************************************)
(* The hub's alert thread: every pass reads the incidents that are open on *)
(* nodes the hub still hears from, compares them with the alert_state      *)
(* table, posts one message, and stores what it posted.  Meanwhile the     *)
(* nodes' rows are ingested, the webhook fails in its several ways, and    *)
(* the hub may be restarted between any two steps of a pass.               *)
(*                                                                         *)
(* Time is kept as ages, which stop growing once no guard can tell them    *)
(* apart: that leaves a finite system that runs for ever.                  *)
(***************************************************************************)
EXTENDS Integers, FiniteSets, HubView

CONSTANTS
  Uids,          (* incidents, by their uid                                *)
  Nodes,
  NodeOf,        (* the node an incident belongs to                        *)
  Severity,      (* rank of the severity its rule opens it with            *)
  MinSeverity,   (* NOTIFY_MIN_SEVERITY                                    *)
  StaleS,        (* interval_s * STALE_AFTER, for a node's heartbeats      *)
  RenotifyS,     (* ALERT_RENOTIFY_S                                       *)
  NotifyResolved,(* ALERT_NOTIFY_RESOLVED                                  *)
  Mutes,         (* the sets of uids ALERT_MUTE may match                  *)
  SlowS,         (* bound: time a pass may take                            *)
  MaxFaults      (* bound: failures and restarts                           *)

ASSUME AlertsAssumption ==
  /\ NodeOf \in [Uids -> Nodes] /\ Severity \in [Uids -> 1..4]
  /\ MinSeverity \in 1..3 /\ NotifyResolved \in BOOLEAN
  /\ StaleS \in Nat /\ RenotifyS \in Nat \ {0} /\ SlowS \in Nat /\ MaxFaults \in Nat
  /\ Mutes \subseteq SUBSET Uids

VARIABLES
  last,      (* the transition of an incident's newest row, or "none"      *)
  silent,    (* age of a node's newest heartbeat                           *)
  tracked,   (* keys of alert_state                                        *)
  stamped,   (* those whose notified_ts is not NULL                        *)
  since,     (* age of notified_ts                                         *)
  intx,      (* the writer connection has a transaction left open          *)
  pc, pass,  (* the alert thread and its locals                            *)
  muted,     (* what ALERT_MUTE matches, read at the start                 *)
  faults,
  told, gap  (* history: last message delivered about a uid, and the age of
                the last pass that delivered that it fires                 *)

hubdata == <<last, silent>>
alertstate == <<tracked, stamped, since>>
history == <<told, gap>>
avars == <<hubdata, alertstate, intx, pc, pass, muted, faults, history>>

----------------------------------------------------------------------------
(* What the pass reads.                                                    *)

Older(age, bound) == IF age > bound THEN age ELSE age + 1

LiveNodes == {n \in Nodes : silent[n] <= StaleS}

\* A persistent row is not terminal but carries severity info, rank 1.
Rank(u) == IF last[u] = "persistent" THEN 1 ELSE Severity[u]

OpenIncidents == {u \in Uids : last[u] \notin HubTerminal \cup {"none"}}

\* evaluate: open_incident_alerts behind the severity gate.
Evaluated(live) ==
  {u \in OpenIncidents : NodeOf[u] \in live /\ Rank(u) >= MinSeverity}

----------------------------------------------------------------------------
(* plan, to_page and render.                                               *)

\* Bug: only new alerts and those whose cooldown is over are paged.
DueOnce(u) == u \notin tracked \/ (u \in stamped /\ since[u] >= RenotifyS)

DueForPage(u) ==
  \/ u \notin tracked
  \/ u \notin stamped
  \/ since[u] >= RenotifyS

\* Bug: a muted alert is not dropped when it is over.
ResolvedUnmuted(current) == tracked \ (current \cup muted)

Resolved(current) == tracked \ current

ToPage(alerts) == alerts \ muted

\* Bug: a pass with nothing firing renders nothing.
TitleWhenFiring(firing, resolved) == firing # {}

HasTitle(firing, resolved) == firing # {} \/ (NotifyResolved /\ resolved # {})

NoPass == [live |-> {}, current |-> {}, firing |-> {}, resolved |-> {},
           sent |-> FALSE, elapsed |-> 0]

Fault == faults < MaxFaults /\ faults' = faults + 1

Asleep == pc' = "asleep" /\ pass' = NoPass

----------------------------------------------------------------------------
(* The steps of _alert_loop.  A reader that meets an error returns nothing  *)
(* (_rows, _q): a node or every incident is then missing from the pass.     *)

ReadFleet ==
  /\ pc = "due" /\ pc' = "reading"
  /\ \/ pass' = [NoPass EXCEPT !.live = LiveNodes] /\ UNCHANGED faults
     \/ Fault /\ \E seen \in SUBSET LiveNodes \ {LiveNodes} :
                   pass' = [NoPass EXCEPT !.live = seen]
  /\ UNCHANGED <<hubdata, alertstate, intx, muted, history>>

Plan(current) ==
  LET firing == ToPage({u \in current : DueForPage(u)})
      resolved == Resolved(current)
  IN /\ pass' = [pass EXCEPT !.current = current, !.firing = firing,
                             !.resolved = resolved]
     /\ pc' = IF HasTitle(firing, ToPage(resolved)) THEN "send" ELSE "persist"

ReadIncidents ==
  /\ pc = "reading"
  /\ \/ Plan(Evaluated(pass.live)) /\ UNCHANGED faults
     \/ Plan({}) /\ Fault
  /\ UNCHANGED <<hubdata, alertstate, intx, muted, history>>

Deliver ==
  LET over == IF NotifyResolved THEN ToPage(pass.resolved) ELSE {}
  IN /\ told' = [u \in Uids |-> CASE u \in pass.firing -> "firing"
                                  [] u \in over -> "resolved"
                                  [] OTHER -> told[u]]
     /\ gap' = [u \in Uids |-> IF u \in pass.firing THEN pass.elapsed ELSE gap[u]]

\* notify.send: a 2xx; a refusal or time-out, the message having arrived or not;
\* or an exception send does not catch, which ends the pass.
SendOK ==
  /\ pc = "send" /\ Deliver
  /\ pc' = "persist" /\ pass' = [pass EXCEPT !.sent = TRUE]
  /\ UNCHANGED <<hubdata, alertstate, intx, muted, faults>>

SendFails ==
  /\ pc = "send" /\ Fault
  /\ Deliver \/ UNCHANGED history
  /\ \/ pc' = "persist" /\ UNCHANGED pass
     \/ Asleep
  /\ UNCHANGED <<hubdata, alertstate, intx, muted>>

\* Bug: a page that was not confirmed counts as sent.
NotifiedUnsent == pass.firing

Notified == IF pass.sent THEN pass.firing ELSE {}

\* Bug: what was not paged in this pass loses its stamp.
StampedNow == Notified

\* Bug: the stamp of a dropped alert survives it.
StampedEver == stamped \cup Notified

Stamped == (stamped \cup Notified) \ pass.resolved

\* persist's statements and commit; they take along whatever the connection's
\* open transaction holds, which is nothing of another thread's.
Persist ==
  /\ pc = "persist" /\ Asleep
  /\ tracked' = (tracked \cup pass.current) \ pass.resolved
  /\ stamped' = Stamped
  /\ since' = [u \in Uids |-> IF u \in Notified THEN pass.elapsed
                              ELSE IF u \in stamped' THEN since[u] ELSE 0]
  /\ intx' = FALSE
  /\ UNCHANGED <<hubdata, muted, faults, history>>

\* The first statement fails (the database is locked): nothing is rolled back, so
\* the implicit BEGIN stays.
PersistFails ==
  /\ pc = "persist" /\ pass.current \cup pass.resolved # {}
  /\ Fault /\ Asleep /\ intx' = TRUE
  /\ UNCHANGED <<hubdata, alertstate, muted, history>>

----------------------------------------------------------------------------
(* Around the alert thread.                                                *)

\* The rows a node can send next about an incident: a reopen is to the hub what an
\* open is, and stale and expired are what a close is.
Follows(u) == IF last[u] = "open" THEN {"close", "persistent"} ELSE {"open"}

\* ingest of one batch: its BEGIN fails inside a transaction left open, which it
\* rolls back; the node sends the batch again.
IngestFails ==
  /\ intx /\ intx' = FALSE
  /\ UNCHANGED <<hubdata, alertstate, pc, pass, muted, faults, history>>

IngestTransition(u, t) ==
  /\ ~intx /\ t \in Follows(u)
  /\ last' = [last EXCEPT ![u] = t]
  /\ UNCHANGED <<silent, alertstate, intx, pc, pass, muted, faults, history>>

IngestHeartbeat(n) ==
  /\ ~intx /\ silent' = [silent EXCEPT ![n] = 0]
  /\ UNCHANGED <<last, alertstate, intx, pc, pass, muted, faults, history>>

\* Time passes between passes, and while a pass waits for the webhook or the lock.
Tick ==
  /\ \/ pc = "asleep" /\ pc' = "due" /\ UNCHANGED pass
     \/ /\ pc \in {"send", "persist"} /\ pass.elapsed < SlowS
        /\ pass' = [pass EXCEPT !.elapsed = @ + 1] /\ UNCHANGED pc
  /\ silent' = [n \in Nodes |-> Older(silent[n], StaleS)]
  /\ since' = [u \in Uids |-> IF u \in stamped THEN Older(since[u], RenotifyS + SlowS - 1)
                              ELSE 0]
  /\ gap' = [u \in Uids |-> Older(gap[u], RenotifyS + SlowS - 1)]
  /\ UNCHANGED <<last, tracked, stamped, intx, muted, faults, told>>

Restart(m) ==
  /\ Fault /\ Asleep /\ muted' = m /\ intx' = FALSE
  /\ UNCHANGED <<hubdata, alertstate, history>>

----------------------------------------------------------------------------
Init ==
  /\ last = [u \in Uids |-> "none"]
  /\ silent = [n \in Nodes |-> StaleS + 1]
  /\ tracked = {} /\ stamped = {} /\ since = [u \in Uids |-> 0]
  /\ intx = FALSE /\ pc = "asleep" /\ pass = NoPass
  /\ muted \in Mutes /\ faults = 0
  /\ told = [u \in Uids |-> "nothing"] /\ gap = [u \in Uids |-> RenotifyS + SlowS]

AlertLoop ==
  ReadFleet \/ ReadIncidents \/ SendOK \/ SendFails \/ Persist \/ PersistFails

Ingest ==
  \/ IngestFails
  \/ \E u \in Uids : \E t \in Follows(u) : IngestTransition(u, t)
  \/ \E n \in Nodes : IngestHeartbeat(n)

Next == AlertLoop \/ Ingest \/ Tick \/ \E m \in Mutes : Restart(m)

\* time.sleep returns, and a pass whose calls return goes on to its end.
Running == WF_avars(Tick) /\ WF_avars(AlertLoop)

Spec == Init /\ [][Next]_avars /\ Running

----------------------------------------------------------------------------
(* Properties.                                                             *)

Passes == [live: SUBSET Nodes, current: SUBSET Uids, firing: SUBSET Uids,
           resolved: SUBSET Uids, sent: BOOLEAN, elapsed: 0..SlowS]

\* Types; only a tracked alert has a notified_ts.
AlertsTypeOK ==
  /\ last \in [Uids -> {"none", "open", "close", "persistent"}]
  /\ silent \in [Nodes -> 0..(StaleS + 1)]
  /\ tracked \subseteq Uids /\ stamped \subseteq tracked
  /\ since \in [Uids -> Nat] /\ gap \in [Uids -> Nat]
  /\ intx \in BOOLEAN /\ faults \in 0..MaxFaults /\ muted \subseteq Uids
  /\ pc \in {"asleep", "due", "reading", "send", "persist"} /\ pass \in Passes
  /\ told \in [Uids -> {"nothing", "firing", "resolved"}]

\* A notified_ts is never a claim about a page that nobody got: it is set for an
\* alert whose firing was delivered, never for a muted one or after a failed send,
\* whatever fails and whenever the hub is restarted.
StampedIsTold == \A u \in stamped : told[u] # "nothing"

\* Between two passes that met no failure, what alert_state says is what the
\* operator was last told: an alert tracked and paged was last reported firing, at
\* the time notified_ts says, and one not tracked was never paged or was reported
\* resolved -- also when the row, the heartbeat or the clock moved during a pass.
ToldMatchesState ==
  faults = 0 /\ pc = "asleep" => \A u \in Uids :
    IF u \in stamped THEN told[u] = "firing" /\ gap[u] = since[u]
    ELSE told[u] # "firing" \/ ~NotifyResolved

\* ALERT_RENOTIFY_S: while no pass fails, an alert that was paged is not paged again
\* before the cooldown has passed since the pass that paged it, unless it was
\* dropped in between.
QuietBetweenPages ==
  [][\A u \in Uids :
       SendOK /\ faults = 0 /\ u \in pass.firing /\ u \in tracked
         => gap[u] - pass.elapsed >= RenotifyS]_avars

Pageable(u) == u \in Evaluated(LiveNodes) /\ u \notin muted

\* An alert that stays open on a live node, above the bar and not muted, is paged
\* again and again: a failed send, a restart or a mute that has been lifted delays a
\* page and never loses it.
FiringIsPaged ==
  \A u \in Uids : <>[]Pageable(u) => []<>(pc = "persist" /\ u \in Notified)

\* alert_state follows the incidents: one that stays over, silent or below the bar
\* leaves the table for good, and one that stays open stays in it, muted or not.
TrackingFollows ==
  \A u \in Uids :
    /\ <>[](u \notin Evaluated(LiveNodes)) => <>[](u \notin tracked)
    /\ <>[](u \in Evaluated(LiveNodes)) => <>[](u \in tracked)
=============================================================================
