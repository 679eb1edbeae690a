------------------------------- MODULE Replica -------------------------------
(***************************************************************************)
(* What shipping and retention promise together: tables that grow at their *)
(* end are copied, late and in any order, to several places, each with a   *)
(* mark that says up to where it is complete, and what the marks confirm   *)
(* may be forgotten at the source.                                         *)
(*                                                                         *)
(* A row is a record with an id; that ids are given out once, in order, is *)
(* assumed by every part of it, and once one was given out twice nothing   *)
(* is promised any more.                                                   *)
(***************************************************************************)
EXTENDS Naturals

CONSTANTS
  Tables,   (* what is copied                                               *)
  Hubs      (* where to                                                     *)

VARIABLES
  kept,     (* the rows of each table at the source                         *)
  copy,     (* the rows of each table at each place                         *)
  mark,     (* the id up to which each copy is complete, 0 for none         *)
  dests,    (* the places that are meant to have a copy                     *)
  transit,  (* the rows of each table that are on their way                 *)
  spoiled   (* whether an id was given out twice                            *)

vars == <<kept, copy, mark, dests, transit, spoiled>>

----------------------------------------------------------------------------
\* A row is written behind every other and beyond every mark.
Write(t) ==
  /\ \E r \in kept'[t] :
       /\ r.id \in Nat /\ kept'[t] = kept[t] \cup {r}
       /\ \A q \in kept[t] \cup transit[t] : q.id < r.id
       /\ \A h \in Hubs : mark[h][t] < r.id /\ \A q \in copy[h][t] : q.id < r.id
  /\ \A u \in Tables \ {t} : kept'[u] = kept[u]
  /\ UNCHANGED <<copy, mark, dests, transit>>

\* Rows of the source set out, or are lost on their way.
Carry ==
  /\ \A t \in Tables : transit'[t] \subseteq transit[t] \cup kept[t]
  /\ UNCHANGED <<kept, copy, mark, dests>>

\* Rows arrive, and none before a row the source still keeps.
Arrive(h) ==
  /\ \A g \in Hubs \ {h} : copy'[g] = copy[g]
  /\ \A t \in Tables :
       /\ copy[h][t] \subseteq copy'[h][t] /\ copy'[h][t] \subseteq copy[h][t] \cup transit[t]
       /\ transit'[t] \subseteq transit[t]
       /\ \A r \in copy'[h][t] \ copy[h][t], q \in kept[t] :
            q.id < r.id => q \in copy'[h][t]
  /\ UNCHANGED <<kept, mark, dests>>

\* A mark moves to where its copy is complete, or is dropped.
Confirm ==
  /\ mark' \in [Hubs -> [Tables -> Nat]]
  /\ \A h \in Hubs, t \in Tables :
       \/ mark'[h][t] \in {mark[h][t], 0}
       \/ \A r \in kept[t] : r.id <= mark'[h][t] => r \in copy[h][t]
  /\ \A t \in Tables : transit'[t] \subseteq transit[t]
  /\ UNCHANGED <<kept, copy, dests>>

\* Other places are meant to have a copy.
Redirect == dests' \subseteq Hubs /\ UNCHANGED <<kept, copy, mark, transit>>

\* The source forgets what is marked at one of the places meant to have it.
Forget ==
  /\ \A t \in Tables :
       /\ kept'[t] \subseteq kept[t]
       /\ \A r \in kept[t] \ kept'[t] : dests # {} => \E h \in dests : r.id <= mark[h][t]
  /\ UNCHANGED <<copy, mark, dests, transit>>

Promised ==
  \/ \E t \in Tables : Write(t)
  \/ Carry \/ Confirm \/ Redirect \/ Forget
  \/ \E h \in Hubs : Arrive(h)

Init ==
  /\ kept = [t \in Tables |-> {}]
  /\ copy = [h \in Hubs |-> [t \in Tables |-> {}]]
  /\ mark = [h \in Hubs |-> [t \in Tables |-> 0]]
  /\ dests \subseteq Hubs
  /\ transit = [t \in Tables |-> {}]
  /\ spoiled = FALSE

Next == spoiled' = TRUE \/ (spoiled' = spoiled /\ Promised)

Spec == Init /\ [][Next]_vars
=============================================================================
