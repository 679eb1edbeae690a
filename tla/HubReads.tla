------------------------------- MODULE HubReads -------------------------------
(***************************************************************************)
(* The hub's read API: incidents are reduced, on every read, from the      *)
(* transition rows that have arrived, and the same incident is shown by    *)
(* the fleet, the feed, its own page, the density grid and the alerts.     *)
(* Rows arrive in any order, possibly long after they were written.        *)
(*                                                                         *)
(* A read is an operator of the state; only arrivals change the state.     *)
(* The length limits of the feed are left out: no instance reaches them.   *)
(***************************************************************************)
EXTENDS Integers, Sequences, FiniteSets, FiniteSetsExt, HubView

CONSTANTS
  Incidents, (* incidents, by their uid                                     *)
  Hosts,     (* nodes                                                       *)
  HostOf,    (* the node an incident belongs to                             *)
  SevOf,     (* rank of the severity its rule opens it with                 *)
  Lives,     (* what a node may have written about one: its rows in order,  *)
             (* each with its wall time                                     *)
  Ages,      (* ages of a node's newest heartbeat; NoBeat: it never sent one *)
  Until,     (* the wall clock                                              *)
  HourS,     (* seconds in an hour of the density grid                      *)
  BeatS,     (* interval_s of a heartbeat                                   *)
  StaleAfter, DeadAfter

ASSUME HubReadsAssumption ==
  /\ HostOf \in [Incidents -> Hosts] /\ SevOf \in [Incidents -> 1 .. 4]
  /\ Until \in Nat /\ HourS \in Nat \ {0} /\ BeatS \in Nat
  /\ StaleAfter \in Nat /\ DeadAfter \in Nat /\ StaleAfter <= DeadAfter
  /\ \A l \in Lives :
       /\ l \in Seq([ts : 0 .. Until, op : STRING]) /\ l # <<>>
       /\ \A i, j \in DOMAIN l : i < j => l[i].ts < l[j].ts

VARIABLES
  life,      (* what the node has written about each incident               *)
  arrived,   (* the rows <<u, n>> the hub has                               *)
  beat       (* for each node the age of its newest heartbeat               *)

rvars == <<life, arrived, beat>>

NoBeat == -1

----------------------------------------------------------------------------
(* query.load_incidents: the rows of an incident in a window, by time, and *)
(* what they reduce to.                                                    *)

\* By position: a node writes them at increasing times.
Rows(u, from) ==
  {i \in DOMAIN life[u] : <<u, i>> \in arrived /\ life[u][i].ts \in from .. Until}

Ends(row) == row.op \in HubTerminal
Loaded(from) == {u \in Incidents : Rows(u, from) # {}}

Info == 1

\* The last row decides; the opening's time is on every row, the severity is that of
\* the last row that does not end the incident.
Load(u, from) ==
  LET rows == Rows(u, from)
      last == life[u][Max(rows)]
      running == {i \in rows : ~Ends(life[u][i])}
  IN [opened |-> life[u][1].ts,
      ended |-> IF Ends(last) THEN last.ts ELSE 0,
      state |-> IF Ends(last) THEN "closed" ELSE "ongoing",
      sev |-> IF running = {} \/ life[u][Max(running)].op = "persistent" THEN Info
              ELSE SevOf[u]]

----------------------------------------------------------------------------
(* hubapi.                                                                 *)

Liveness(h) ==
  CASE beat[h] = NoBeat -> "unknown"
    [] beat[h] > BeatS * DeadAfter -> "dead"
    [] beat[h] \in (BeatS * StaleAfter + 1) .. (BeatS * DeadAfter) -> "stale"
    [] OTHER -> "live"

OpenOn(h) == {u \in Loaded(0) : HostOf[u] = h /\ Load(u, 0).state = "ongoing"}

FleetWorst(h) == IF OpenOn(h) = {} THEN 0 ELSE Max({Load(u, 0).sev : u \in OpenOn(h)})

FleetState(h) ==
  CASE Liveness(h) \in {"dead", "unknown"} -> Liveness(h)
    [] Liveness(h) \in {"stale", "live"} /\ OpenOn(h) # {} ->
         IF FleetWorst(h) >= 4 THEN "critical" ELSE "degraded"
    [] Liveness(h) = "stale" /\ OpenOn(h) = {} -> "stale"
    [] OTHER -> "ok"

\* The rule that an incident open on a silent node is not known to go on.
Trusted(u, inc) ==
  IF inc.state = "ongoing" /\ Liveness(HostOf[u]) # "live"
  THEN [inc EXCEPT !.state = "unknown"] ELSE inc

FeedOf(from, minSeverity) == {u \in Loaded(from) : Load(u, from).sev >= minSeverity}
FeedRow(u, from) == Trusted(u, Load(u, from))

\* Bug: the page of one incident does not know that its node is silent.
DetailGuessed(u) == Load(u, 0)

Detail(u) == Trusted(u, Load(u, 0))

OpenAlerts == {u \in Loaded(0) : Load(u, 0).state = "ongoing" /\ Liveness(HostOf[u]) = "live"}

\* The hours of the grid an incident is counted in: all it spanned.
Hour0(from) == (from \div HourS) * HourS
Hours(from) == 0 .. ((Until - Hour0(from)) \div HourS)

\* Bug: only the hour it opened in.
SpannedOpening(u, from) ==
  {(Max({Load(u, from).opened, from}) - Hour0(from)) \div HourS} \cap Hours(from)

Spanned(u, from) ==
  LET inc == Load(u, from)
      start == Max({inc.opened, from})
      end == IF inc.state = "ongoing" THEN Until ELSE inc.ended
  IN ((start - Hour0(from)) \div HourS .. (end - Hour0(from)) \div HourS) \cap Hours(from)

Density(h, b, from) ==
  Cardinality({u \in Loaded(from) : HostOf[u] = h /\ b \in Spanned(u, from)})

----------------------------------------------------------------------------
(* Rows are ingested in any order.                                         *)

Arrives(u, n) ==
  /\ n \in DOMAIN life[u] /\ <<u, n>> \notin arrived
  /\ arrived' = arrived \cup {<<u, n>>} /\ UNCHANGED <<life, beat>>

ReadsInit ==
  /\ life \in [Incidents -> Lives] /\ arrived = {} /\ beat \in [Hosts -> Ages]

ReadsNext == \E u \in Incidents : \E n \in 1 .. Len(life[u]) : Arrives(u, n)

ReadsSpec == ReadsInit /\ [][ReadsNext]_rvars

----------------------------------------------------------------------------
Windows == 0 .. Until

\* Every view tells the same story of an incident, whatever has arrived: where the feed
\* shows it, it shows the state, the times and -- while it is open -- the severity of
\* its own page, however little of it the window holds; it pages exactly if its page
\* says ongoing, which no view says of a silent node; and the fleet counts what is
\* not over (hubapi.py, incidents_feed, incident_detail, open_incident_alerts, fleet).
ViewsAgree ==
  /\ \A u \in Loaded(0) :
       /\ u \in OpenAlerts <=> Detail(u).state = "ongoing"
       /\ Liveness(HostOf[u]) # "live" => Detail(u).state # "ongoing"
       /\ \A from \in Windows : u \in FeedOf(from, 1) =>
            LET f == FeedRow(u, from)
            IN /\ f.state = Detail(u).state /\ f.opened = Detail(u).opened
               /\ f.ended = Detail(u).ended
               /\ f.state # "closed" => f.sev = Detail(u).sev
  /\ \A h \in Hosts :
       /\ OpenOn(h) = {u \in Loaded(0) : HostOf[u] = h /\ Detail(u).state # "closed"}
       /\ FleetState(h) = "ok" => Liveness(h) = "live" /\ OpenOn(h) = {}

LastRow(u) == life[u][Len(life[u])]
Complete(u) == \A n \in DOMAIN life[u] : <<u, n>> \in arrived

\* Open at some moment of the hour, from its first opening on and as its node wrote it.
WasOpen(u, b, from) ==
  \E p \in Windows :
    /\ p >= from /\ (p - Hour0(from)) \div HourS = b
    /\ life[u][1].ts <= p /\ (LastRow(u).op \in HubTerminal => p <= LastRow(u).ts)

\* The density grid counts an incident, once its rows are there, in every hour it was
\* open in -- "it occupies every hour it spanned" -- if a row of it falls in the window
\* (hubapi.py, incident_density).
DensityIsTrue ==
  (\A u \in Incidents : Complete(u)) =>
    \A from \in Windows, h \in Hosts : \A b \in Hours(from) :
      Density(h, b, from) =
        Cardinality({u \in Loaded(from) : HostOf[u] = h /\ WasOpen(u, b, from)})
=============================================================================
