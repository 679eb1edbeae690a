------------------------------ MODULE MCAgent ------------------------------
(* The agent as it is scheduled by default, with one probe for those that  *)
(* only feed the detector.                                                 *)
EXTENDS Agent

MCDefault == {{"host", "heartbeat", "baseline-flush", "ship", "prune"}}
=============================================================================
