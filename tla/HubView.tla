------------------------------ MODULE HubView ------------------------------
(***************************************************************************)
(* The reduction query.load_incidents performs over the append-only        *)
(* transition rows, uid by uid: the rows are read in the order of their    *)
(* wall-clock ts (rowid order among equals) and the last of them decides.  *)
(***************************************************************************)
EXTENDS Integers, Sequences

\* _TERMINAL: "persistent" is not in it.
HubTerminal == {"close", "stale", "expired"}

\* Where in rows those of a uid are.
RowsOf(rows, u) == {i \in DOMAIN rows : rows[i].uid = u}

\* The row of a uid that ORDER BY ts leaves last.
LastByTs(rows, u) ==
  rows[CHOOSE i \in RowsOf(rows, u) :
         \A j \in RowsOf(rows, u) : \/ rows[j].ts < rows[i].ts
                                    \/ rows[j].ts = rows[i].ts /\ j <= i]

Ongoing(rows, u) ==
  RowsOf(rows, u) # {} /\ LastByTs(rows, u).transition \notin HubTerminal
=============================================================================
