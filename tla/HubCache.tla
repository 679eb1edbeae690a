------------------------------- MODULE HubCache -------------------------------
(***************************************************************************)
(* The hub's answers to GET requests: the short-lived response cache with  *)
(* its per-key locks (single flight) and the bounded LRU that drops a      *)
(* key's lock with its value.  Ingest goes on beside it, and the wall      *)
(* clock may be stepped back.                                              *)
(*                                                                         *)
(* A query runs alone on the read connection, behind the read lock: it is  *)
(* one step.  So is the second look at the cache with the taking of the    *)
(* key's lock: until it has looked, a holder only keeps others waiting.    *)
(* A lock object is a number; one that neither the dict nor a thread       *)
(* refers to is free to stand for the next object created.                 *)
(***************************************************************************)
EXTENDS Integers, Sequences, FiniteSets, FiniteSetsExt, SequencesExt

CONSTANTS
  Slots,       (* the request slots, _MAX_CONCURRENT of them: a thread each  *)
               (* and the first free one taken                          *)
  Routes,      (* cache keys: a path with its parameters                    *)
  Ttl,         (* seconds an answer is kept; 0: the route is not cached      *)
  CacheMax,    (* _RESP_CACHE_MAX                                           *)
  QueryS,      (* bound: time from a query's snapshot to its answer's stamp  *)
  MaxVersion,  (* bound: changes of the database                            *)
  MaxClock,    (* bound: clock                                              *)
  MaxBack,     (* bound: how far the wall clock is stepped back             *)
  MaxRequests, (* bound: requests                                           *)
  MaxErrors    (* bound: producers that raise                               *)

ASSUME HubCacheAssumption ==
  /\ IsFiniteSet(Routes) /\ Ttl \in [Routes -> Nat] /\ CacheMax \in Nat \ {0} /\ Slots \subseteq Nat /\ IsFiniteSet(Slots)
  /\ QueryS \in Nat /\ MaxVersion \in Nat /\ MaxClock \in Nat /\ MaxBack \in Nat
  /\ MaxRequests \in Nat /\ MaxErrors \in Nat

VARIABLES
  version,   (* of the database: how often ingest has changed it            *)
  time, back,(* time, and how far the wall clock has been stepped back      *)
  cache,     (* _resp_cache, least recently used first                      *)
  lockOf,    (* _resp_cache_locks: for each key its lock, or NoLock         *)
  owner,     (* for each lock the thread that holds it, or Nobody           *)
  job,       (* what each thread is doing                                   *)
  asked, errors,
  answered,  (* history: for each key the newest version answered           *)
  behind,    (* history: keys answered with less than was answered before   *)
  late,      (* history: keys answered with something older than promised   *)
  orphaned,  (* history: keys that lost a lock some thread referred to      *)
  failed     (* history: keys whose producer has raised                     *)

history == <<answered, behind, late>>
cvars == <<version, time, back, cache, lockOf, owner, job, asked, errors,
           history, orphaned, failed>>

NoLock == 0
Nobody == -1
Locks == 1 .. (Cardinality(Slots) + Cardinality(Routes))

\* val is the version the answer shows and read when it was read; floor is what had
\* been answered for the key when the request came.
Free == [pc |-> "free", key |-> "none", lock |-> NoLock, val |-> 0, read |-> 0,
         floor |-> 0]

Wall == time - back

----------------------------------------------------------------------------
(* The cache.                                                              *)

Cached(k) == {i \in DOMAIN cache : cache[i].key = k}
Valid(e) == Wall - e.at < Ttl[e.key]
Hits(k) == {cache[i] : i \in {j \in Cached(k) : Valid(cache[j])}}

\* The cache without the entry of a key: it has at most one.
Others(k) == IF Cached(k) = {} THEN cache ELSE RemoveAt(cache, CHOOSE i \in Cached(k) : TRUE)

\* Bug: a hit renews the entry, and a popular answer is never computed again.
TouchedSliding(e) == Append(Others(e.key), [e EXCEPT !.at = Wall])

\* move_to_end.
Touched(e) == Append(Others(e.key), e)

Stored(t) ==
  Append(Others(job[t].key),
         [key |-> job[t].key, at |-> Wall, val |-> job[t].val, read |-> job[t].read])

\* Bug: one entry more than the cap stays.
DroppedLate(c) == {c[i].key : i \in 1 .. Len(c) - CacheMax - 1}

Dropped(c) == {c[i].key : i \in 1 .. Len(c) - CacheMax}

\* A lock object that is in use nowhere.
Unreferenced == Locks \ ({lockOf[k] : k \in Routes} \cup {job[t].lock : t \in Slots})

\* Bug: every miss brings a lock of its own.
LockForAlone(k) == CHOOSE l \in Unreferenced : TRUE

\* setdefault.
LockFor(k) == IF lockOf[k] = NoLock THEN CHOOSE l \in Unreferenced : TRUE ELSE lockOf[k]

Unlocked(gone) == [k \in Routes |-> IF k \in gone THEN NoLock ELSE lockOf[k]]

----------------------------------------------------------------------------
(* _cached and _ro_call, one action per step between two locks.            *)

Is(t, pc) == job[t].pc = pc
Goes(t, j) == job' = [job EXCEPT ![t] = j]

\* The thread answers what was read then, and is done.
Serves(t, val, read) ==
  LET k == job[t].key
  IN /\ Goes(t, Free)
     /\ answered' = [answered EXCEPT ![k] = Max({@, val})]
     /\ behind' = behind \cup {x \in {k} : val < job[t].floor}
     /\ late' = late \cup {x \in {k} : time - read >= Max({Ttl[k], 1}) + QueryS + back}

outside == <<version, time, back, asked, errors, failed>>

Ask(t, k) ==
  /\ Is(t, "free") /\ asked < MaxRequests /\ asked' = asked + 1
  /\ Goes(t, [Free EXCEPT !.pc = IF Ttl[k] > 0 THEN "look" ELSE "query",
                          !.key = k, !.floor = answered[k]])
  /\ \A u \in Slots : u < t => ~Is(u, "free")
  /\ UNCHANGED <<version, time, back, cache, lockOf, owner, errors, history,
                 orphaned, failed>>

Lookup(t) ==
  /\ Is(t, "look")
  /\ \/ \E e \in Hits(job[t].key) :
          Serves(t, e.val, e.read) /\ cache' = Touched(e) /\ UNCHANGED lockOf
     \/ /\ Hits(job[t].key) = {} /\ UNCHANGED <<cache, history>>
        /\ lockOf' = [lockOf EXCEPT ![job[t].key] = LockFor(job[t].key)]
        /\ Goes(t, [job[t] EXCEPT !.pc = "wait", !.lock = LockFor(job[t].key)])
  /\ UNCHANGED <<outside, owner, orphaned>>

\* Bug: a producer that raises leaves its lock taken.
ReleasedOnReturn(t) == IF Is(t, "query") THEN owner ELSE [owner EXCEPT ![job[t].lock] = Nobody]

\* Leaving the with block, if the thread is in one.
Released(t) == IF job[t].lock = NoLock THEN owner ELSE [owner EXCEPT ![job[t].lock] = Nobody]

Acquire(t) ==
  /\ Is(t, "wait") /\ owner[job[t].lock] = Nobody
  /\ \/ \E e \in Hits(job[t].key) : Serves(t, e.val, e.read) /\ UNCHANGED owner
     \/ /\ Hits(job[t].key) = {} /\ UNCHANGED history
        /\ owner' = [owner EXCEPT ![job[t].lock] = t]
        /\ Goes(t, [job[t] EXCEPT !.pc = "query"])
  /\ UNCHANGED <<outside, cache, lockOf, orphaned>>

Query(t) ==
  /\ Is(t, "query")
  /\ Goes(t, [job[t] EXCEPT !.pc = "store", !.val = version, !.read = time])
  /\ UNCHANGED <<outside, cache, lockOf, owner, history, orphaned>>

\* The reply is a 500.
Raise(t) ==
  /\ Is(t, "query") /\ errors < MaxErrors /\ errors' = errors + 1
  /\ owner' = Released(t) /\ Goes(t, Free)
  /\ failed' = failed \cup {job[t].key}
  /\ UNCHANGED <<version, time, back, cache, lockOf, asked, history, orphaned>>

Referred(k) == lockOf[k] # NoLock /\ \E t \in Slots : job[t].lock = lockOf[k]

Store(t) ==
  /\ Is(t, "store") /\ Serves(t, job[t].val, job[t].read)
  /\ IF job[t].lock = NoLock THEN UNCHANGED <<cache, lockOf, owner, orphaned>>
     ELSE LET gone == Dropped(Stored(t))
          IN /\ cache' = SubSeq(Stored(t), Cardinality(gone) + 1, Len(Stored(t)))
             /\ lockOf' = Unlocked(gone) /\ owner' = Released(t)
             /\ orphaned' = orphaned \cup {k \in gone : Referred(k)}
  /\ UNCHANGED outside

----------------------------------------------------------------------------
(* Around the requests: an ingest needs a slot too.                        *)

rest == <<cache, lockOf, owner, job, asked, errors, history, orphaned, failed>>

IngestRows ==
  /\ version < MaxVersion /\ \E t \in Slots : Is(t, "free")
  /\ version' = version + 1 /\ UNCHANGED <<rest, time, back>>

TimePasses ==
  /\ time < MaxClock /\ time' = time + 1
  /\ \A t \in Slots : Is(t, "store") => time - job[t].read < QueryS
  /\ UNCHANGED <<rest, version, back>>

StepBack == back < MaxBack /\ back' = back + 1 /\ UNCHANGED <<rest, version, time>>

CacheInit ==
  /\ version = 0 /\ time = 0 /\ back = 0 /\ cache = <<>>
  /\ lockOf = [k \in Routes |-> NoLock] /\ owner = [l \in Locks |-> Nobody]
  /\ job = [t \in Slots |-> Free] /\ asked = 0 /\ errors = 0
  /\ answered = [k \in Routes |-> 0] /\ behind = {} /\ late = {}
  /\ orphaned = {} /\ failed = {}

Step(t) ==
  \/ Lookup(t) \/ Acquire(t) \/ Query(t) \/ Raise(t) \/ Store(t)

CacheNext ==
  \/ \E t \in Slots : Step(t) \/ \E k \in Routes : Ask(t, k)
  \/ IngestRows \/ TimePasses \/ StepBack

CacheSpec == CacheInit /\ [][CacheNext]_cvars

----------------------------------------------------------------------------
\* Types; the cache never exceeds its cap and has one entry for a key.
CacheTypeOK ==
  /\ version \in 0 .. MaxVersion /\ time \in 0 .. MaxClock /\ back \in 0 .. MaxBack
  /\ Len(cache) <= CacheMax /\ \A k \in Routes : Cardinality(Cached(k)) <= 1
  /\ lockOf \in [Routes -> Locks \cup {NoLock}] /\ owner \in [Locks -> Slots \cup {Nobody}]
  /\ asked \in 0 .. MaxRequests
  /\ \A t \in Slots :
       /\ job[t].pc \in {"free", "look", "wait", "query", "store"}
       /\ job[t].val \in 0 .. version /\ job[t].lock \in Locks \cup {NoLock}

Computes(t) == job[t].pc \in {"query", "store"} /\ job[t].lock # NoLock

\* Single flight (hub.py, _cached): two threads compute the same answer only if its
\* lock was evicted under one of them.
SingleFlight ==
  \A t, u \in Slots :
    t # u /\ Computes(t) /\ Computes(u) /\ job[t].key = job[u].key => job[t].key \in orphaned

\* A client that asks after an answer went out is not shown an older state of the
\* fleet, unless an eviction let two threads compute the key at once: then the slower
\* one overwrites the newer answer with its own (hub.py:216 knows only of the lost
\* collapse).
AnswersGoForward == behind \subseteq orphaned

\* An answer is no older than its time to live, the time its query took, and what the
\* wall clock was stepped back.
AnswersAreFresh == late = {}

\* The map of locks is bounded like the cache (hub.py:214): a lock outlives its value
\* only while its key is in flight, or after a producer of it raised.  And nobody waits
\* in vain for one: a lock is taken only by a thread that computes under it, which waits
\* for nothing and gives it back, also when it raises or the lock was evicted.
LocksBounded ==
  /\ \A k \in Routes : lockOf[k] # NoLock => Cached(k) # {} \/ k \in failed \/ Referred(k)
  /\ \A l \in Locks : owner[l] # Nobody => Computes(owner[l]) /\ job[owner[l]].lock = l
=============================================================================
