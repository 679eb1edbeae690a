------------------------------ MODULE MCParts ------------------------------
(* Parts of the program that share no state, checked side by side: the     *)
(* initial predicate picks one and the others stand still.  Of the agent:  *)
(* the probes around their connection, with one set of them per hazard,    *)
(* and the signal rings.  Of the hub: the response cache, the reads, and   *)
(* the arithmetic on spans.                                                *)
EXTENDS Agent, Signals, HubCache, HubReads, Spans

VARIABLE part

MCConfigs == {{"heartbeat", "inventory"}, {"host"}, {"logexcerpt"},
              {"ping", "baseline-flush", "prune", "ship"}}
MCTtl == [k \in Routes |-> IF k = "nodes" THEN 0 ELSE 2]
MCHostOf == [u \in Incidents |-> "n1"]
MCSevOf == [u \in Incidents |-> IF u = "u1" THEN 4 ELSE 3]
MCAges == {NoBeat, 1, 3, 5}

\* What a node writes: an incident that is open, closed, persisted, reopened or closed
\* again, at any times.
MCShapes == {<<"open">>, <<"open", "close">>, <<"open", "persistent">>,
             <<"open", "close", "reopen">>, <<"open", "close", "reopen", "close">>}
MCTimes(n) == {f \in [1 .. n -> 1 .. Until] : \A i, j \in 1 .. n : i < j => f[i] < f[j]}
MCLives == UNION {{[i \in DOMAIN o |-> [ts |-> f[i], op |-> o[i]]] : f \in MCTimes(Len(o))} :
                  o \in MCShapes}

Parts == {"agent", "signals", "cache", "reads", "spans"}
NoLife == <<[ts |-> 1, op |-> "open"]>>

\* A part that was not picked rests in one of its initial states.
PartsInit ==
  /\ part \in Parts
  /\ part = "agent" \/ (probes = {"host"} /\ value = CHOOSE f \in Facts : TRUE)
  /\ part = "reads" \/ (life = [u \in Incidents |-> NoLife] /\ beat = [h \in Hosts |-> NoBeat])
  /\ part = "spans" \/ (spans = <<>> /\ gap = 0)
  /\ Init /\ SigInit /\ CacheInit /\ ReadsInit /\ SpansInit

PartsNext ==
  \/ part = "agent" /\ Next /\ UNCHANGED <<part, svars, cvars, rvars, pvars>>
  \/ part = "signals" /\ SigNext /\ UNCHANGED <<part, gvars, cvars, rvars, pvars>>
  \/ part = "cache" /\ CacheNext /\ UNCHANGED <<part, gvars, svars, rvars, pvars>>
  \/ part = "reads" /\ ReadsNext /\ UNCHANGED <<part, gvars, svars, cvars, pvars>>
  \/ part = "spans" /\ SpansNext /\ UNCHANGED <<part, gvars, svars, cvars, rvars>>

PartsSpec == PartsInit /\ [][PartsNext]_<<part, gvars, svars, cvars, rvars, pvars>>
=============================================================================
