------------------------------ MODULE MCAlerts ------------------------------
(* One node with two incidents: an error, and a warning at the paging bar   *)
(* that an operator may mute.                                              *)
EXTENDS Alerts

MCNodeOf == [u \in Uids |-> "n1"]
MCSeverity == [u \in Uids |-> IF u = "u1" THEN 3 ELSE 2]
MCMutes == {{}, {"u2"}}
=============================================================================
