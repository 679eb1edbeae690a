---------------------------- MODULE AlertsProofs ----------------------------
(***************************************************************************)
(* What alert_state says about the pages that were sent, proved for every   *)
(* number of nodes and incidents, every mute, bound and threshold.          *)
(***************************************************************************)
EXTENDS Alerts, TLAPS

Over == IF NotifyResolved THEN pass.resolved \ muted ELSE {}

\* The message of this pass has been acknowledged and is not yet recorded.
Delivered == pc = "persist" /\ pass.sent

(* The locals of a pass: empty between passes, a plan from then on.         *)
PassInv ==
  /\ pc \notin {"send", "persist"} =>
       /\ pass.current = {} /\ pass.firing = {} /\ pass.resolved = {}
       /\ pass.elapsed = 0
  /\ pc # "persist" => ~pass.sent
  /\ pc \in {"send", "persist"} =>
       /\ pass.resolved = tracked \ pass.current
       /\ pass.firing \subseteq pass.current \ muted
       /\ pass.current \ muted \subseteq pass.firing \cup stamped
       /\ \A u \in pass.firing \cap stamped : since[u] - pass.elapsed >= RenotifyS
  /\ pass.sent => \A u \in pass.firing : told[u] = "firing" /\ gap[u] = pass.elapsed

(* What a uid's row and the operator's last message have to do with each    *)
(* other; an acknowledged message is ahead of the row until persist.        *)
Settled(u) ==
  IF Delivered /\ u \in pass.firing THEN TRUE
  ELSE IF Delivered /\ u \in Over THEN told[u] = "resolved"
  ELSE IF u \in stamped THEN told[u] = "firing" /\ gap[u] = since[u]
  ELSE told[u] # "firing" \/ ~NotifyResolved

(* While nothing has failed.                                                *)
CleanInv ==
  /\ stamped \cap muted = {}
  /\ tracked \ muted \subseteq stamped
  /\ pc = "persist" /\ ~pass.sent => pass.firing = {} /\ Over = {}
  /\ \A u \in Uids : Settled(u)

AInv ==
  /\ AlertsTypeOK
  /\ StampedIsTold
  /\ PassInv
  /\ faults = 0 => CleanInv

----------------------------------------------------------------------------
(* The locals between two passes.                                           *)
LEMMA NoPassOK == NoPass \in Passes
BY AlertsAssumption DEF NoPass, Passes

(* The hub starts with an empty alert_state.                                *)
LEMMA InitAInv == ASSUME Init PROVE AInv
<1> USE AlertsAssumption
<1>1. AlertsTypeOK
  <2>1. tracked \subseteq Uids /\ stamped \subseteq tracked /\ faults \in 0..MaxFaults
    BY DEF Init
  <2>2. \A u \in Uids : RenotifyS + SlowS \in Nat
    OBVIOUS
  <2>3. muted \subseteq Uids
    BY DEF Init
  <2>4. /\ last \in [Uids -> {"none", "open", "close", "persistent"}]
        /\ told \in [Uids -> {"nothing", "firing", "resolved"}]
    BY DEF Init
  <2>5. /\ silent \in [Nodes -> 0..(StaleS + 1)]
        /\ since \in [Uids -> Nat] /\ gap \in [Uids -> Nat]
    BY <2>2 DEF Init
  <2>6. pc \in {"asleep", "due", "reading", "send", "persist"} /\ pass \in Passes
    BY NoPassOK DEF Init
  <2>7. intx \in BOOLEAN
    BY DEF Init
  <2> QED BY <2>1, <2>3, <2>4, <2>5, <2>6, <2>7 DEF AlertsTypeOK
<1>2. StampedIsTold /\ PassInv
  BY DEF Init, StampedIsTold, PassInv, NoPass
<1>3. CleanInv
  BY DEF Init, CleanInv, Settled, Delivered, Over, NoPass
<1> QED BY <1>1, <1>2, <1>3 DEF AInv

(* The fleet is read: only the pass changes, and it stays without a plan.   *)
LEMMA ReadFleetStep == ASSUME AInv, ReadFleet PROVE AInv'
<1> USE AlertsAssumption DEF ReadFleet, Fault, hubdata, alertstate, history
<1>1. PICK seen \in SUBSET Nodes : pass' = [NoPass EXCEPT !.live = seen]
  BY DEF LiveNodes
<1>2. faults' \in 0..MaxFaults /\ (faults' = 0 => faults = 0)
  BY DEF AInv, AlertsTypeOK
<1>3. pass' \in Passes
  BY <1>1, NoPassOK DEF Passes
<1>4. AlertsTypeOK'
  BY <1>2, <1>3 DEF AInv, AlertsTypeOK
<1>5. StampedIsTold'
  BY DEF AInv, AlertsTypeOK, StampedIsTold
<1>6. PassInv'
  BY <1>1 DEF AInv, PassInv, NoPass
<1>7. faults' = 0 => CleanInv'
  BY <1>1, <1>2 DEF AInv, AlertsTypeOK, CleanInv, Settled, Delivered, Over
<1> QED BY <1>4, <1>5, <1>6, <1>7 DEF AInv

(* A plan is made from the evaluated alerts and the stored state.           *)
LEMMA ReadIncidentsStep == ASSUME AInv, ReadIncidents PROVE AInv'
<1> USE AlertsAssumption DEF ReadIncidents, Fault, hubdata, alertstate, history
<1>1. PICK current \in SUBSET Uids : Plan(current)
  BY DEF Evaluated, OpenIncidents
<1> DEFINE firing == {u \in current : DueForPage(u)} \ muted
<1>2. /\ pass' = [pass EXCEPT !.current = current, !.firing = firing,
                              !.resolved = tracked \ current]
      /\ pc' \in {"send", "persist"}
      /\ pc' = "persist" =>
           firing = {} /\ (NotifyResolved => (tracked \ current) \ muted = {})
  BY <1>1 DEF Plan, ToPage, Resolved, HasTitle
<1>3. /\ pass'.current = current /\ pass'.firing = firing
      /\ pass'.resolved = tracked \ current
      /\ pass'.elapsed = 0 /\ ~pass'.sent /\ pass' \in Passes
  BY <1>2 DEF AInv, AlertsTypeOK, Passes, PassInv
<1>4. AlertsTypeOK'
  BY <1>2, <1>3 DEF AInv, AlertsTypeOK
<1>5. StampedIsTold'
  BY DEF AInv, AlertsTypeOK, StampedIsTold
<1>6. PassInv'
  <2>1. firing \subseteq current \ muted /\ current \ muted \subseteq firing \cup stamped
    BY DEF DueForPage
  <2>2. \A u \in firing \cap stamped : since[u] - 0 >= RenotifyS
    BY DEF DueForPage, AInv, AlertsTypeOK
  <2> QED BY <1>2, <1>3, <2>1, <2>2 DEF PassInv, AInv, AlertsTypeOK
<1>7. faults' = 0 => CleanInv'
  BY <1>2, <1>3 DEF AInv, AlertsTypeOK, CleanInv, Settled, Delivered, Over
<1> QED BY <1>4, <1>5, <1>6, <1>7 DEF AInv

(* An acknowledged message is ahead of the table, and only where it speaks. *)
LEMMA SendOKStep == ASSUME AInv, SendOK PROVE AInv'
<1> USE AlertsAssumption
<1>1. pass' = [pass EXCEPT !.sent = TRUE] /\ pass \in Passes /\ pc = "send" /\ pc' = "persist"
  BY DEF AInv, AlertsTypeOK, SendOK
<1>2. /\ pass'.sent /\ pass'.current = pass.current
      /\ pass'.firing = pass.firing /\ pass'.resolved = pass.resolved
      /\ pass'.elapsed = pass.elapsed /\ pass.elapsed \in Nat
      /\ pass.firing \subseteq Uids
  BY <1>1 DEF Passes
<1>4. pass' \in Passes
  BY <1>1 DEF Passes
<1>3. /\ told' \in [Uids -> {"nothing", "firing", "resolved"}]
      /\ gap' \in [Uids -> Nat]
      /\ \A u \in Uids : told[u] # "nothing" => told'[u] # "nothing"
      /\ \A u \in pass.firing : told'[u] = "firing" /\ gap'[u] = pass.elapsed
      /\ \A u \in Over \cap Uids : u \notin pass.firing => told'[u] = "resolved"
      /\ \A u \in Uids : u \notin pass.firing /\ u \notin Over =>
            told'[u] = told[u] /\ gap'[u] = gap[u]
  <2>1. pass.firing \cap Over = {}
    BY <1>1 DEF AInv, PassInv, Over
  <2>2. told \in [Uids -> {"nothing", "firing", "resolved"}] /\ gap \in [Uids -> Nat]
    BY DEF AInv, AlertsTypeOK
  <2>3. told' = [u \in Uids |-> CASE u \in pass.firing -> "firing"
                                 [] u \in Over -> "resolved"
                                 [] OTHER -> told[u]]
    BY DEF SendOK, Deliver, Over, ToPage
  <2>4. gap' = [u \in Uids |-> IF u \in pass.firing THEN pass.elapsed ELSE gap[u]]
    BY DEF SendOK, Deliver
  <2> QED BY <1>2, <2>1, <2>2, <2>3, <2>4
<1> USE DEF SendOK, hubdata, alertstate
<1>5. AlertsTypeOK'
  BY <1>1, <1>4, <1>3 DEF AInv, AlertsTypeOK
<1>6. StampedIsTold'
  BY <1>3 DEF AInv, AlertsTypeOK, StampedIsTold
<1>7. PassInv'
  BY <1>1, <1>2, <1>3 DEF AInv, PassInv
<1>8. faults' = 0 => CleanInv'
  <2> SUFFICES ASSUME CleanInv PROVE CleanInv'
    BY DEF AInv
  <2>1. Over' = Over
    BY <1>2 DEF Over
  <2>2. \A u \in Uids : Settled(u)'
    BY <1>1, <1>2, <1>3, <2>1 DEF CleanInv, Settled, Delivered
  <2> QED BY <1>1, <1>2, <2>2 DEF CleanInv
<1> QED BY <1>5, <1>6, <1>7, <1>8 DEF AInv

(* A message that failed may have been delivered all the same.             *)
LEMMA SendFailsStep == ASSUME AInv, SendFails PROVE AInv'
<1> USE AlertsAssumption DEF SendFails, Fault, hubdata, alertstate
<1>1. pass' \in Passes /\ pc' \in {"persist", "asleep"} /\ faults' \in 1..MaxFaults
  BY NoPassOK DEF AInv, AlertsTypeOK, Asleep
<1>2. /\ told' \in [Uids -> {"nothing", "firing", "resolved"}] /\ gap' \in [Uids -> Nat]
      /\ \A u \in Uids : told[u] # "nothing" => told'[u] # "nothing"
  BY DEF AInv, AlertsTypeOK, Passes, Deliver, history, ToPage
<1>3. AlertsTypeOK'
  BY <1>1, <1>2 DEF AInv, AlertsTypeOK
<1>4. StampedIsTold'
  BY <1>2 DEF AInv, AlertsTypeOK, StampedIsTold
<1>5. PassInv'
  BY DEF AInv, PassInv, Asleep, NoPass
<1> QED BY <1>1, <1>3, <1>4, <1>5 DEF AInv

(* The table catches up with the message, or with its failure.             *)
LEMMA PersistStep == ASSUME AInv, Persist PROVE AInv'
<1> USE AlertsAssumption DEF Persist, hubdata, history
<1>1. /\ pass.current \subseteq Uids /\ pass.firing \subseteq Uids
      /\ pass.resolved \subseteq Uids /\ pass.elapsed \in Nat
      /\ pass.resolved = tracked \ pass.current
      /\ pass.firing \subseteq pass.current \ muted
      /\ pass.current \ muted \subseteq pass.firing \cup stamped
  BY DEF AInv, AlertsTypeOK, Passes, PassInv
<1>2. tracked' = pass.current /\ stamped' = (stamped \cup Notified) \ pass.resolved
      /\ stamped' \subseteq tracked' /\ Notified \subseteq pass.firing
  BY <1>1 DEF Notified, Stamped, AInv, AlertsTypeOK
<1>3. since' \in [Uids -> Nat] /\ \A u \in stamped' :
        since'[u] = IF u \in Notified THEN pass.elapsed ELSE since[u]
  BY <1>1, <1>2 DEF AInv, AlertsTypeOK
<1>4. AlertsTypeOK'
  BY <1>1, <1>2, <1>3, NoPassOK DEF AInv, AlertsTypeOK, Asleep
<1>5. StampedIsTold'
  BY <1>1, <1>2 DEF AInv, PassInv, StampedIsTold, Notified
<1>6. PassInv'
  BY DEF PassInv, Asleep, NoPass
<1>7. faults' = 0 => CleanInv'
  <2> SUFFICES ASSUME CleanInv PROVE CleanInv'
    BY DEF AInv
  <2>1. stamped' \cap muted = {}
    BY <1>1, <1>2 DEF CleanInv
  <2>2. tracked' \ muted \subseteq stamped'
    BY <1>1, <1>2 DEF CleanInv, Notified
  <2>3. ASSUME NEW u \in Uids PROVE Settled(u)'
    <3>1. ~Delivered'
      BY DEF Delivered, Asleep, NoPass
    <3>2. CASE u \in stamped'
      <4>1. told[u] = "firing" /\ gap[u] = since'[u]
        BY <1>1, <1>2, <1>3, <3>2 DEF AInv, PassInv, CleanInv, Settled, Delivered,
           Over, Notified
      <4> QED BY <4>1, <3>1, <3>2 DEF Settled
    <3>3. CASE u \notin stamped'
      <4>1. told[u] # "firing" \/ ~NotifyResolved
        BY <1>1, <1>2, <3>3 DEF CleanInv, Settled, Delivered, Over, Notified
      <4> QED BY <4>1, <3>1, <3>3 DEF Settled
    <3> QED BY <3>2, <3>3
  <2> QED BY <2>1, <2>2, <2>3 DEF CleanInv, Asleep
<1> QED BY <1>4, <1>5, <1>6, <1>7 DEF AInv

(* A write that failed, a restart: no table row and no message changes.     *)
LEMMA PassLostStep ==
  ASSUME AInv, PersistFails \/ \E m \in Mutes : Restart(m)
  PROVE AInv'
<1> USE AlertsAssumption DEF Fault, hubdata, alertstate, history
<1>1. /\ UNCHANGED <<last, silent, tracked, stamped, since, told, gap>>
      /\ faults' \in 1..MaxFaults /\ Asleep
      /\ muted' \subseteq Uids /\ intx' \in BOOLEAN
  <2>1. CASE PersistFails
    BY <2>1 DEF PersistFails, AInv, AlertsTypeOK
  <2>2. ASSUME NEW m \in Mutes, Restart(m) PROVE <1>1!:
    <3>1. m \subseteq Uids
      OBVIOUS
    <3>2. faults' \in 1..MaxFaults /\ Asleep
      BY <2>2 DEF Restart, AInv, AlertsTypeOK
    <3>3. muted' \subseteq Uids /\ intx' \in BOOLEAN
      BY <2>2, <3>1 DEF Restart
    <3> QED BY <2>2, <3>2, <3>3 DEF Restart
  <2> QED BY <2>1, <2>2
<1>2. AlertsTypeOK'
  BY <1>1, NoPassOK DEF AInv, AlertsTypeOK, Asleep
<1>3. StampedIsTold'
  BY <1>1 DEF AInv, StampedIsTold
<1>4. PassInv'
  BY <1>1 DEF PassInv, Asleep, NoPass
<1> QED BY <1>1, <1>2, <1>3, <1>4 DEF AInv

(* Ingest touches nothing the alert thread owns.                            *)
LEMMA IngestStep == ASSUME AInv, Ingest PROVE AInv'
<1> USE AlertsAssumption DEF hubdata, alertstate, history
<1>1. /\ UNCHANGED <<tracked, stamped, since, pc, pass, muted, faults, told, gap>>
      /\ last' \in [Uids -> {"none", "open", "close", "persistent"}]
      /\ silent' \in [Nodes -> 0..(StaleS + 1)] /\ intx' \in BOOLEAN
  <2>1. CASE IngestFails
    BY <2>1 DEF IngestFails, AInv, AlertsTypeOK
  <2>2. ASSUME NEW u \in Uids, NEW t \in Follows(u), IngestTransition(u, t) PROVE <1>1!:
    BY <2>2 DEF IngestTransition, Follows, AInv, AlertsTypeOK
  <2>3. ASSUME NEW n \in Nodes, IngestHeartbeat(n) PROVE <1>1!:
    <3>1. 0 \in 0..(StaleS + 1)
      OBVIOUS
    <3> QED BY <2>3, <3>1 DEF IngestHeartbeat, AInv, AlertsTypeOK
  <2> QED BY <2>1, <2>2, <2>3 DEF Ingest
<1>2. AlertsTypeOK'
  BY <1>1 DEF AInv, AlertsTypeOK
<1>3. StampedIsTold' /\ PassInv'
  BY <1>1 DEF AInv, StampedIsTold, PassInv
<1>4. faults' = 0 => CleanInv'
  BY <1>1 DEF AInv, CleanInv, Settled, Delivered, Over
<1> QED BY <1>2, <1>3, <1>4 DEF AInv

(* Time ages the stamp and the message alike.                               *)
LEMMA TickStep == ASSUME AInv, Tick PROVE AInv'
<1> USE AlertsAssumption DEF Tick
<1>1. /\ \A n \in Nodes : silent[n] \in 0..(StaleS + 1)
      /\ \A u \in Uids : since[u] \in Nat /\ gap[u] \in Nat
      /\ stamped \subseteq Uids /\ pass \in Passes /\ pass.elapsed \in 0..SlowS
      /\ pass.firing \subseteq Uids
  BY DEF AInv, AlertsTypeOK, Passes
<1>2. /\ \A u \in stamped : since'[u] = Older(since[u], RenotifyS + SlowS - 1)
      /\ \A u \in Uids : gap'[u] = Older(gap[u], RenotifyS + SlowS - 1)
      /\ since' \in [Uids -> Nat] /\ gap' \in [Uids -> Nat]
  BY <1>1 DEF Older
<1>3. silent' \in [Nodes -> 0..(StaleS + 1)]
  BY <1>1 DEF Older
<1>4. /\ pass' \in Passes
      /\ pass'.current = pass.current /\ pass'.firing = pass.firing
      /\ pass'.resolved = pass.resolved /\ pass'.sent = pass.sent
      /\ \/ pc = "asleep" /\ pc' = "due" /\ pass'.elapsed = pass.elapsed
         \/ /\ pc \in {"send", "persist"} /\ pc' = pc /\ pass.elapsed < SlowS
            /\ pass'.elapsed = pass.elapsed + 1
  BY <1>1 DEF Passes
<1>5. AlertsTypeOK'
  BY <1>2, <1>3, <1>4 DEF AInv, AlertsTypeOK
<1>6. StampedIsTold'
  BY DEF AInv, StampedIsTold
<1>7. PassInv'
  <2>1. CASE pc = "asleep"
    BY <1>4, <2>1 DEF AInv, PassInv
  <2>2. CASE pc \in {"send", "persist"}
    <3>1. \A u \in pass.firing \cap stamped : since'[u] - pass'.elapsed >= RenotifyS
      BY <1>1, <1>2, <1>4, <2>2 DEF AInv, PassInv, Older
    <3>2. pass.sent => \A u \in pass.firing : told[u] = "firing" /\ gap'[u] = pass'.elapsed
      BY <1>1, <1>2, <1>4, <2>2 DEF AInv, PassInv, Older
    <3> QED BY <1>4, <2>2, <3>1, <3>2 DEF AInv, PassInv
  <2> QED BY <1>4, <2>1, <2>2
<1>8. faults' = 0 => CleanInv'
  <2> SUFFICES ASSUME CleanInv PROVE CleanInv'
    BY DEF AInv
  <2>1. Delivered' = Delivered /\ Over' = Over
    BY <1>4 DEF AInv, PassInv, Delivered, Over
  <2>2. \A u \in Uids : Settled(u)'
    BY <1>1, <1>2, <1>4, <2>1 DEF CleanInv, Settled
  <2> QED BY <1>4, <2>1, <2>2 DEF CleanInv, AInv, PassInv
<1> QED BY <1>5, <1>6, <1>7, <1>8 DEF AInv

----------------------------------------------------------------------------
(* Every step of the hub keeps the invariant.                               *)
LEMMA StepAInv == ASSUME AInv, [Next]_avars PROVE AInv'
<1>1. CASE ReadFleet
  BY <1>1, ReadFleetStep
<1>2. CASE ReadIncidents
  BY <1>2, ReadIncidentsStep
<1>3. CASE SendOK
  BY <1>3, SendOKStep
<1>4. CASE SendFails
  BY <1>4, SendFailsStep
<1>5. CASE Persist
  BY <1>5, PersistStep
<1>6. CASE PersistFails \/ \E m \in Mutes : Restart(m)
  BY <1>6, PassLostStep
<1>7. CASE Ingest
  BY <1>7, IngestStep
<1>8. CASE Tick
  BY <1>8, TickStep
<1>9. CASE UNCHANGED avars
  <2>1. AlertsTypeOK' /\ StampedIsTold' /\ PassInv'
    BY <1>9 DEF AInv, AlertsTypeOK, StampedIsTold, PassInv, avars, hubdata,
       alertstate, history
  <2>2. faults' = 0 => CleanInv'
    BY <1>9 DEF AInv, CleanInv, Settled, Delivered, Over, avars, hubdata,
       alertstate, history
  <2> QED BY <2>1, <2>2 DEF AInv
<1> QED BY <1>1, <1>2, <1>3, <1>4, <1>5, <1>6, <1>7, <1>8, <1>9 DEF Next, AlertLoop

(* The invariant of the alert thread: between the decision, the message and *)
(* the table nothing gets lost that is not a failure.                       *)
THEOREM AlertsInvariant == Spec => []AInv
<1>1. Init => AInv
  BY InitAInv
<1>2. AInv /\ [Next]_avars => AInv'
  BY StepAInv
<1> QED BY <1>1, <1>2, PTL DEF Spec

(* The alert thread's state keeps its types.                                *)
THEOREM AlertsTypeCorrect == Spec => []AlertsTypeOK
<1>1. AInv => AlertsTypeOK
  BY DEF AInv
<1> QED BY <1>1, AlertsInvariant, PTL

(* notified_ts is never a claim about a page nobody got, through failed and *)
(* unconfirmed sends, failed writes, mutes and restarts.                    *)
THEOREM StampsAreTold == Spec => []StampedIsTold
<1>1. AInv => StampedIsTold
  BY DEF AInv
<1> QED BY <1>1, AlertsInvariant, PTL

(* Until something fails, alert_state says what the operator was told.      *)
THEOREM StateMatchesTold == Spec => []ToldMatchesState
<1>1. AInv => ToldMatchesState
  BY DEF AInv, CleanInv, Settled, Delivered, ToldMatchesState
<1> QED BY <1>1, AlertsInvariant, PTL

(* Until something fails, pages of one alert keep the re-notify distance.   *)
THEOREM Quiet == Spec => QuietBetweenPages
<1>1. ASSUME AInv, NEW u \in Uids, SendOK, faults = 0, u \in pass.firing, u \in tracked
      PROVE gap[u] - pass.elapsed >= RenotifyS
  <2>1. u \in stamped
    BY <1>1 DEF AInv, CleanInv, PassInv, SendOK
  <2>2. gap[u] = since[u]
    BY <1>1, <2>1 DEF AInv, CleanInv, Settled, Delivered, SendOK
  <2> QED BY <1>1, <2>1, <2>2 DEF AInv, PassInv, SendOK
<1>2. AInv /\ [Next]_avars =>
        [\A u \in Uids : SendOK /\ faults = 0 /\ u \in pass.firing /\ u \in tracked
           => gap[u] - pass.elapsed >= RenotifyS]_avars
  BY <1>1
<1> QED BY <1>2, AlertsInvariant, PTL DEF Spec, QuietBetweenPages
=============================================================================
