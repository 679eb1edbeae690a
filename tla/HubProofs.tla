------------------------------ MODULE HubProofs ------------------------------
(***************************************************************************)
(* Theorems about the hub's answers: HubCache, which keeps them, HubReads,  *)
(* which computes them, and Spans, which adds them up for a report.         *)
(*                                                                          *)
(* What the two looks at the cache and the lock between them achieve, for   *)
(* every number of requests, keys and errors: a lock has one holder, who    *)
(* computes under it, and two threads compute one answer only if an         *)
(* eviction took the lock from under one of them; what is answered is fresh *)
(* and, as long as no lock was lost, never older than what was answered     *)
(* before; and no lock outlives its use.  What the answers say, for every   *)
(* set of incidents, lives and windows: the views of one database agree     *)
(* about what is open and how bad it is, and an hour of the density grid    *)
(* counts exactly the incidents that were open in it; one pass over spans   *)
(* of time finds what belongs together and counts no moment twice.         *)
(***************************************************************************)
EXTENDS HubCache, HubReads, Spans, FiniteSetTheorems, SequenceTheorems, WellFoundedInduction,
        NaturalsInduction, TLAPS

Pcs == {"free", "look", "wait", "query", "store"}

\* A record of job has the fields of Free.
Shaped(j) ==
  DOMAIN j = {"pc", "key", "lock", "val", "read", "floor"}

\* What a thread's record may say, whichever thread it is.
Sound(j, locks, lost) ==
  /\ Shaped(j) /\ j.pc \in Pcs /\ j.lock \in Locks \cup {NoLock}
  /\ j.pc # "free" => j.key \in Routes
  /\ j.pc \in {"free", "look"} => j.lock = NoLock
  /\ j.pc = "wait" => j.lock # NoLock
  /\ j.lock # NoLock => j.lock = locks[j.key] \/ j.key \in lost

\* A thread that waits or computes has the current lock of its key, unless that was
\* evicted; the holder of a lock is the thread that computes under it.
CInv ==
  /\ lockOf \in [Routes -> Locks \cup {NoLock}]
  /\ owner \in [Locks -> Slots \cup {Nobody}]
  /\ job = [t \in Slots |-> job[t]]
  /\ \A t \in Slots : Sound(job[t], lockOf, orphaned) /\ (Computes(t) => owner[job[t].lock] = t)
  /\ \A l \in Locks : owner[l] # Nobody => Computes(owner[l]) /\ job[owner[l]].lock = l

LEMMA Waits ==
  ASSUME NEW r, Shaped(r), NEW l
  PROVE  LET j == [r EXCEPT !.pc = "wait", !.lock = l]
         IN Shaped(j) /\ j.pc = "wait" /\ j.lock = l /\ j.key = r.key
BY DEF Shaped

LEMMA Queries ==
  ASSUME NEW r, Shaped(r)
  PROVE  LET j == [r EXCEPT !.pc = "query"]
         IN Shaped(j) /\ j.pc = "query" /\ j.lock = r.lock /\ j.key = r.key
BY DEF Shaped

LEMMA LocksAreNumbers == Locks \subseteq Nat \ {NoLock} /\ Nobody \notin Slots
<1>1. Cardinality(Slots) \in Nat /\ Cardinality(Routes) \in Nat
  BY HubCacheAssumption, FS_CardinalityType
<1>2. QED
  BY <1>1, HubCacheAssumption DEF Locks, NoLock, Nobody

\* There is a lock for a thread that holds none: the others and the keys leave one.
LEMMA LockIsFree ==
  ASSUME NEW t \in Slots, job[t].lock = NoLock
  PROVE  Unreferenced # {}
<1> DEFINE A == {lockOf[k] : k \in Routes}
           B == {job[u].lock : u \in Slots \ {t}}
           n == Cardinality(Slots)
           m == Cardinality(Routes)
<1>1. IsFiniteSet(Slots \ {t}) /\ Cardinality(Slots \ {t}) = n - 1 /\ n \in Nat /\ m \in Nat
  BY HubCacheAssumption, FS_RemoveElement, FS_CardinalityType
<1>2. IsFiniteSet(A) /\ Cardinality(A) <= m
  <2>1. [k \in Routes |-> lockOf[k]] \in Surjection(Routes, A)
    BY DEF Surjection
  <2> HIDE DEF A
  <2>2. QED
    BY <2>1, HubCacheAssumption, FS_Surjection
<1>3. IsFiniteSet(B) /\ Cardinality(B) <= n - 1
  <2> DEFINE R == Slots \ {t}
  <2>1. [u \in R |-> job[u].lock] \in Surjection(R, B)
    BY DEF Surjection
  <2>2. IsFiniteSet(R) /\ Cardinality(R) = n - 1
    BY <1>1
  <2> HIDE DEF B, R
  <2>3. QED
    BY <2>1, <2>2, FS_Surjection
<1>4. /\ IsFiniteSet(A \cup B) /\ Cardinality(A \cup B) \in Nat
      /\ Cardinality(A \cup B) <= m + (n - 1)
  <2>1. /\ IsFiniteSet(A \cup B)
        /\ Cardinality(A \cup B) = Cardinality(A) + Cardinality(B) - Cardinality(A \cap B)
    BY <1>2, <1>3, FS_Union
  <2>2. IsFiniteSet(A \cap B)
    BY <1>2, FS_Intersection
  <2>3. Cardinality(A) \in Nat /\ Cardinality(B) \in Nat /\ Cardinality(A \cap B) \in Nat
    BY <1>2, <1>3, <2>2, FS_CardinalityType
  <2>4. Cardinality(A \cup B) \in Nat
    BY <2>1, FS_CardinalityType
  <2>5. QED
    BY <1>1, <1>2, <1>3, <2>1, <2>3, <2>4
<1>5. Cardinality(Locks) = n + m
  <2>1. n + m \in Nat
    BY <1>1
  <2>2. \A j \in Nat : Cardinality(1 .. j) = IF 1 > j THEN 0 ELSE j - 1 + 1
    BY FS_Interval
  <2>3. QED
    BY <1>1, <2>1, <2>2 DEF Locks
<1>6. ~(Locks \subseteq A \cup B)
  <2>1. Locks \subseteq A \cup B => Cardinality(Locks) <= Cardinality(A \cup B)
    BY <1>4, FS_Subset
  <2>2. QED
    BY <1>1, <1>4, <1>5, <2>1
<1>7. PICK l \in Locks : l \notin A \cup B
  BY <1>6
<1>8. l # job[t].lock
  BY LocksAreNumbers
<1>9. l \in Unreferenced
  BY <1>7, <1>8 DEF Unreferenced
<1>10. QED
  BY <1>9

LEMMA LockForTyped ==
  ASSUME CInv, NEW t \in Slots, job[t].pc = "look", NEW k \in Routes
  PROVE  LockFor(k) \in Locks /\ (lockOf[k] # NoLock => LockFor(k) = lockOf[k])
<1>1. job[t].lock = NoLock /\ lockOf[k] \in Locks \cup {NoLock}
  BY DEF CInv, Sound
<1>2. Unreferenced # {} /\ Unreferenced \subseteq Locks
  BY <1>1, LockIsFree DEF Unreferenced
<1>3. QED
  BY <1>1, <1>2 DEF LockFor

\* The thread is done: it had no lock, or it gives its lock back.
LEMMA Leaves ==
  ASSUME CInv, NEW t \in Slots, job' = [job EXCEPT ![t] = Free],
         lockOf' \in [Routes -> Locks \cup {NoLock}], orphaned \subseteq orphaned',
         \A u \in Slots :
           job[u].lock # NoLock /\ job[u].lock = lockOf[job[u].key] =>
             job[u].lock = lockOf'[job[u].key] \/ job[u].key \in orphaned',
         \/ ~Computes(t) /\ owner' = owner
         \/ Is(t, "query") /\ owner' = Released(t)
         \/ Is(t, "store") /\ owner' = Released(t)
  PROVE  CInv'
<1> USE DEF CInv, Sound, Computes, Is, Pcs
<1> USE DEF Free
<1>0. Shaped(Free)
  BY DEF Shaped
<1>1. \A u \in Slots : job'[u] = IF u = t THEN Free ELSE job[u]
  OBVIOUS
<1>2. NoLock \notin Locks /\ Nobody \notin Slots
  BY LocksAreNumbers
<1>3. owner' \in [Locks -> Slots \cup {Nobody}]
  BY DEF Released
<1>4. ASSUME NEW u \in Slots, u # t, Computes(u) PROVE owner'[job[u].lock] = u
  BY <1>2, <1>4 DEF Released
<1>5. ASSUME NEW l \in Locks, owner'[l] # Nobody
      PROVE  /\ owner'[l] = owner[l] /\ owner[l] # t /\ owner[l] \in Slots
             /\ Computes(owner[l]) /\ job[owner[l]].lock = l
  <2>1. owner'[l] = owner[l] /\ owner[l] # Nobody
    BY <1>5 DEF Released
  <2>2. owner[l] \in Slots /\ Computes(owner[l]) /\ job[owner[l]].lock = l
    BY <2>1, SMTT(30)
  <2>3. ASSUME owner[l] = t PROVE FALSE
    <3>1. owner' = Released(t) /\ job[t].lock = l /\ job[t].lock # NoLock
      BY <2>2, <2>3
    <3>2. owner'[l] = Nobody
      BY <3>1 DEF Released
    <3>3. QED
      BY <1>5, <3>2
  <2>4. QED
    BY <2>1, <2>2, <2>3
<1>6. \A u \in Slots : (Computes(u))' => owner'[job'[u].lock] = u
  BY <1>1, <1>4
<1>7. ASSUME NEW l \in Locks, owner'[l] # Nobody
      PROVE  (Computes(owner[l]))' /\ job'[owner[l]].lock = l
  <2>1. /\ owner'[l] = owner[l] /\ owner[l] # t /\ owner[l] \in Slots
        /\ Computes(owner[l]) /\ job[owner[l]].lock = l
    BY <1>5, <1>7
  <2>2. job'[owner[l]] = job[owner[l]]
    BY <1>1, <2>1
  <2>3. owner[l] = owner'[l] /\ job'[owner'[l]] = job[owner[l]]
    BY <2>1, <2>2
  <2>4. (Computes(owner[l]))'
    BY <2>1, <2>3
  <2>5. QED
    BY <2>1, <2>2, <2>4
<1>8. QED
  BY <1>1, <1>3, <1>5, <1>6, <1>7, <1>0

LEMMA AskKeeps ==
  ASSUME CInv, NEW t \in Slots, NEW k \in Routes, Ask(t, k) PROVE CInv'
<1> DEFINE j == [Free EXCEPT !.pc = IF Ttl[k] > 0 THEN "look" ELSE "query",
                             !.key = k, !.floor = answered[k]]
<1>1. job' = [job EXCEPT ![t] = j] /\ UNCHANGED <<lockOf, owner, orphaned>>
  BY DEF Ask, Goes
<1>2. j.pc \in {"look", "query"} /\ j.key = k /\ j.lock = NoLock /\ job[t].pc = "free"
  BY DEF Free, Ask, Is
<1>5. Shaped(j)
  BY DEF Shaped, Free
<1> HIDE DEF j
<1>3. \A u \in Slots : job'[u] = IF u = t THEN j ELSE job[u]
  BY <1>1 DEF CInv, Sound
<1>4. \A u \in Slots : (Computes(u))' <=> Computes(u)
  BY <1>1, <1>2, <1>3 DEF Computes
<1>6. \A u \in Slots : Computes(u) => job'[u] = job[u]
  BY <1>2, <1>3 DEF Computes
<1>7. (\A u \in Slots : Sound(job[u], lockOf, orphaned))'
  BY <1>1, <1>2, <1>3, <1>5 DEF CInv, Sound, Pcs
<1>8. job' = [u \in Slots |-> job'[u]]
  BY <1>1 DEF CInv
<1>9. QED
  BY <1>1, <1>4, <1>6, <1>7, <1>8, SMTT(30) DEF CInv

\* A lock not yet taken: the thread comes to wait, or goes on from where it waited.
LEMMA LookupKeeps ==
  ASSUME CInv, NEW t \in Slots, Lookup(t) PROVE CInv'
<1> DEFINE k == job[t].key
           L == LockFor(k)
           j == [job[t] EXCEPT !.pc = "wait", !.lock = L]
<1>1. job[t].pc = "look" /\ k \in Routes /\ UNCHANGED <<owner, orphaned>>
  BY DEF Lookup, Is, CInv, Sound, Pcs
<1>2. ASSUME job' = [job EXCEPT ![t] = Free], UNCHANGED lockOf PROVE CInv'
  BY <1>1, <1>2, Leaves DEF CInv, Sound, Computes
<1>3. ASSUME lockOf' = [lockOf EXCEPT ![k] = L], job' = [job EXCEPT ![t] = j] PROVE CInv'
  <2>1. L \in Locks /\ L # NoLock /\ (lockOf[k] # NoLock => L = lockOf[k])
    BY <1>1, LockForTyped, LocksAreNumbers
  <2> HIDE DEF L
  <2>2. j.lock = L /\ j.pc = "wait" /\ j.key = k /\ Shaped(j)
    <3>1. Shaped(job[t])
      BY DEF CInv, Sound
    <3>2. QED
      BY <3>1, Waits
  <2> HIDE DEF j
  <2>3. \A u \in Slots : job'[u] = IF u = t THEN j ELSE job[u]
    BY <1>3 DEF CInv, Sound
  <2>4. lockOf' \in [Routes -> Locks \cup {NoLock}] /\ lockOf'[k] = L
    BY <1>1, <1>3, <2>1 DEF CInv, Sound
  <2>5. ASSUME NEW u \in Slots, u # t, job[u].lock # NoLock
        PROVE  job[u].lock = lockOf'[job[u].key] \/ job[u].key \in orphaned
    BY <1>1, <1>3, <2>1, <2>4, <2>5 DEF CInv, Sound, Pcs
  <2>6. (\A u \in Slots : Sound(job[u], lockOf, orphaned))'
    <3>1. Sound(j, lockOf', orphaned')
      BY <1>1, <2>1, <2>2, <2>4 DEF Sound, Pcs
    <3>2. ASSUME NEW u \in Slots, u # t PROVE Sound(job[u], lockOf, orphaned)'
      BY <1>1, <2>3, <2>5, <3>2 DEF CInv, Sound
    <3>3. QED
      BY <2>3, <3>1, <3>2
  <2>7. \A u \in Slots : (Computes(u))' <=> Computes(u)
    BY <1>1, <2>2, <2>3 DEF Computes
  <2>8. \A u \in Slots : Computes(u) => job'[u] = job[u]
    BY <1>1, <2>3 DEF Computes
  <2>9. job' = [u \in Slots |-> job'[u]]
    BY <1>3 DEF CInv
  <2>10. QED
    BY <1>1, <2>4, <2>6, <2>7, <2>8, <2>9, SMTT(30) DEF CInv
<1>4. QED
  BY <1>2, <1>3 DEF Lookup, Serves, Goes

LEMMA AcquireKeeps ==
  ASSUME CInv, NEW t \in Slots, Acquire(t) PROVE CInv'
<1> DEFINE l == job[t].lock
           j == [job[t] EXCEPT !.pc = "query"]
<1>1. /\ job[t].pc = "wait" /\ owner[l] = Nobody /\ UNCHANGED <<lockOf, orphaned>>
      /\ l \in Locks /\ l # NoLock
  BY DEF Acquire, Is, CInv, Sound, Pcs
<1>2. ASSUME job' = [job EXCEPT ![t] = Free], UNCHANGED owner PROVE CInv'
  BY <1>1, <1>2, Leaves DEF CInv, Sound, Computes
<1>3. ASSUME owner' = [owner EXCEPT ![l] = t], job' = [job EXCEPT ![t] = j] PROVE CInv'
  <2>1. j.lock = l /\ j.pc = "query" /\ j.key = job[t].key /\ Shaped(j)
    <3>1. Shaped(job[t])
      BY DEF CInv, Sound
    <3>2. QED
      BY <3>1, Queries
  <2> HIDE DEF j
  <2>2. \A u \in Slots : job'[u] = IF u = t THEN j ELSE job[u]
    BY <1>3 DEF CInv, Sound
  <2>3. owner' \in [Locks -> Slots \cup {Nobody}] /\ Nobody \notin Slots
    BY <1>1, <1>3, LocksAreNumbers DEF CInv, Sound
  <2>4. \A u \in Slots : (Computes(u))' => owner'[job'[u].lock] = u
    BY <1>1, <1>3, <2>1, <2>2, <2>3 DEF CInv, Sound, Computes
  <2>5. ASSUME NEW m \in Locks, owner'[m] # Nobody
        PROVE  job'[owner'[m]].pc \in {"query", "store"} /\ job'[owner'[m]].lock = m
    <3>1. CASE m = l
      BY <1>1, <1>3, <2>1, <2>2, <3>1 DEF CInv, Sound
    <3>2. CASE m # l
      <4>1. /\ owner'[m] = owner[m] /\ owner[m] \in Slots /\ Computes(owner[m])
            /\ job[owner[m]].lock = m
        <5>1. owner'[m] = owner[m]
          BY <1>3, <3>2 DEF CInv
        <5>2. QED
          BY <2>5, <5>1 DEF CInv
      <4>2. owner[m] # t
        BY <1>1, <4>1 DEF Computes
      <4>3. QED
        BY <2>2, <4>1, <4>2 DEF Computes
    <3>3. QED
      BY <3>1, <3>2
  <2>6. \A m \in Locks : m # NoLock
    BY LocksAreNumbers
  <2>7. QED
    <3>1. (\A u \in Slots : Sound(job[u], lockOf, orphaned))'
      BY <1>1, <2>1, <2>2 DEF CInv, Sound, Pcs
    <3>2. (\A m \in Locks : owner[m] # Nobody => Computes(owner[m]) /\ job[owner[m]].lock = m)'
      BY <2>5, <2>6 DEF Computes
    <3>3. job' = [u \in Slots |-> job'[u]]
      BY <1>3 DEF CInv
    <3>4. QED
      BY <1>1, <2>3, <2>4, <3>1, <3>2, <3>3 DEF CInv
<1>4. QED
  BY <1>2, <1>3 DEF Acquire, Serves, Goes

LEMMA QueryKeeps ==
  ASSUME CInv, NEW t \in Slots, Query(t) PROVE CInv'
<1> DEFINE j == [job[t] EXCEPT !.pc = "store", !.val = version, !.read = time]
<1>1. job[t].pc = "query" /\ UNCHANGED <<lockOf, owner, orphaned>>
      /\ job' = [job EXCEPT ![t] = j]
  BY DEF Query, Is, Goes
<1>2. j.lock = job[t].lock /\ j.pc = "store" /\ j.key = job[t].key /\ Shaped(j)
  <2>1. Shaped(job[t])
    BY DEF CInv, Sound
  <2>2. QED
    BY <2>1 DEF Shaped
<1> HIDE DEF j
<1>3. \A u \in Slots : job'[u] = IF u = t THEN j ELSE job[u]
  BY <1>1 DEF CInv, Sound
<1>4. \A u \in Slots : (Computes(u))' <=> Computes(u)
  BY <1>1, <1>2, <1>3 DEF Computes
<1>5. (\A u \in Slots : Sound(job[u], lockOf, orphaned))'
  BY <1>1, <1>2, <1>3 DEF CInv, Sound, Pcs
<1>6. \A u \in Slots : job'[u].lock = job[u].lock
  BY <1>1, <1>2, <1>3
<1>7. job' = [u \in Slots |-> job'[u]]
  BY <1>1 DEF CInv
<1>8. QED
  BY <1>1, <1>4, <1>5, <1>6, <1>7 DEF CInv

LEMMA StoreKeeps ==
  ASSUME CInv, NEW t \in Slots, Store(t) PROVE CInv'
<1> DEFINE gone == Dropped(Stored(t))
<1>1. job' = [job EXCEPT ![t] = Free] /\ job[t].pc = "store"
  BY DEF Store, Serves, Goes, Is
<1>2. CASE job[t].lock = NoLock
  BY <1>1, <1>2, Leaves DEF Store, CInv, Sound, Computes
<1>3. CASE job[t].lock # NoLock
  <2>1. /\ lockOf' = Unlocked(gone) /\ owner' = Released(t)
        /\ orphaned' = orphaned \cup {k \in gone : Referred(k)}
    BY <1>3 DEF Store
  <2> HIDE DEF gone
  <2>2. lockOf' \in [Routes -> Locks \cup {NoLock}]
    BY <2>1 DEF Unlocked, CInv, Sound
  <2>3. ASSUME NEW u \in Slots, job[u].lock # NoLock, job[u].lock = lockOf[job[u].key]
        PROVE  job[u].lock = lockOf'[job[u].key] \/ job[u].key \in orphaned'
    <3>1. job[u].key \in Routes
      BY <2>3 DEF CInv, Sound, Pcs
    <3>2. CASE job[u].key \in gone
      BY <2>1, <2>3, <3>2 DEF Referred
    <3>3. CASE job[u].key \notin gone
      BY <2>1, <2>3, <3>1, <3>3 DEF Unlocked
    <3>4. QED
      BY <3>2, <3>3
  <2>4. QED
    BY <1>1, <2>1, <2>2, <2>3, Leaves DEF Is
<1>4. QED
  BY <1>2, <1>3

LEMMA CacheStep == ASSUME CInv, [CacheNext]_cvars PROVE CInv'
<1>1. ASSUME NEW t \in Slots, Raise(t) PROVE CInv'
  <2>1. /\ job' = [job EXCEPT ![t] = Free] /\ owner' = Released(t) /\ Is(t, "query")
        /\ UNCHANGED <<lockOf, orphaned>>
    BY <1>1 DEF Raise, Goes
  <2>2. QED
    BY <2>1, Leaves DEF CInv, Sound
<1>2. ASSUME NEW t \in Slots, Step(t) PROVE CInv'
  BY <1>1, <1>2, LookupKeeps, AcquireKeeps, QueryKeeps, StoreKeeps DEF Step
<1>3. ASSUME UNCHANGED <<lockOf, owner, job, orphaned>> PROVE CInv'
  BY <1>3 DEF CInv, Sound, Computes
<1>4. UNCHANGED cvars \/ IngestRows \/ TimePasses \/ StepBack => CInv'
  BY <1>3 DEF cvars, IngestRows, TimePasses, StepBack, rest
<1>5. QED
  BY <1>2, <1>4, AskKeeps DEF CacheNext

(* The discipline of the per-key locks for every instance (hub.py, _cached).*)
THEOREM CacheInvariant == CacheSpec => []CInv
<1>1. CacheInit => CInv
  BY LocksAreNumbers DEF CacheInit, CInv, Sound, Free, Shaped, Computes, Pcs
<1>2. QED
  BY <1>1, CacheStep, PTL DEF CacheSpec

\* Two holders of one lock are one thread.
LEMMA OneComputes == ASSUME CInv PROVE SingleFlight
<1>1. SUFFICES ASSUME NEW t \in Slots, NEW u \in Slots, t # u,
                      Computes(t), Computes(u), job[t].key = job[u].key,
                      job[t].key \notin orphaned
               PROVE  FALSE
  BY DEF SingleFlight
<1>2. job[t].lock = job[u].lock
  BY <1>1 DEF CInv, Sound, Computes
<1>3. owner[job[t].lock] = t /\ owner[job[u].lock] = u
  BY <1>1 DEF CInv, Sound
<1>4. QED
  BY <1>1, <1>2, <1>3

(* Single flight for every number of request slots, keys, errors and        *)
(* evictions: two threads compute one answer only if its lock was evicted   *)
(* while a thread referred to it.                                           *)
THEOREM OneFlight == CacheSpec => []SingleFlight
BY OneComputes, CacheInvariant, PTL

----------------------------------------------------------------------------
(* The cache as a sequence with one entry for a key.                       *)

Entry == [key : Routes, at : Int, val : Nat, read : Nat]

\* A cache: one entry for a key.
OneEach(c) == c \in Seq(Entry) /\ \A i, j \in DOMAIN c : c[i].key = c[j].key => i = j

LEMMA PairMax ==
  \A a, b \in Int : Max({a, b}) \in {a, b} /\ Max({a, b}) >= a /\ Max({a, b}) >= b
<1> SUFFICES ASSUME NEW a \in Int, NEW b \in Int
             PROVE  Max({a, b}) \in {a, b} /\ Max({a, b}) >= a /\ Max({a, b}) >= b
  OBVIOUS
<1>1. \E x \in {a, b} : \A y \in {a, b} : x >= y
  OBVIOUS
<1>2. QED
  BY <1>1 DEF Max

\* One position of a sequence taken out.
LEMMA TakenOut ==
  ASSUME NEW S, NEW s \in Seq(S), NEW i \in 1 .. Len(s)
  PROVE  LET r == RemoveAt(s, i)
         IN /\ r \in Seq(S) /\ Len(r) = Len(s) - 1
            /\ \A j \in 1 .. Len(s) - 1 : r[j] = IF j < i THEN s[j] ELSE s[j + 1]
<1> DEFINE a == SubSeq(s, 1, i - 1)
           b == SubSeq(s, i + 1, Len(s))
<1>1. Len(s) \in Nat /\ \A j \in 1 .. Len(s) : s[j] \in S
  BY LenProperties, ElementOfSeq
<1>2. a \in Seq(S) /\ Len(a) = i - 1 /\ \A j \in 1 .. i - 1 : a[j] = s[j]
  <2>1. \A j \in 1 .. i - 1 : s[j] \in S
    BY <1>1
  <2>2. /\ a \in Seq(S) /\ Len(a) = IF 1 <= i - 1 THEN i - 1 - 1 + 1 ELSE 0
        /\ \A j \in 1 .. i - 1 - 1 + 1 : a[j] = s[1 + j - 1]
    BY <1>1, <2>1, SubSeqProperties
  <2> HIDE DEF a
  <2>3. QED
    BY <1>1, <2>2
<1>3. b \in Seq(S) /\ Len(b) = Len(s) - i /\ \A j \in 1 .. Len(s) - i : b[j] = s[i + j]
  <2>1. \A j \in i + 1 .. Len(s) : s[j] \in S
    BY <1>1
  <2>2. /\ b \in Seq(S) /\ Len(b) = IF i + 1 <= Len(s) THEN Len(s) - (i + 1) + 1 ELSE 0
        /\ \A j \in 1 .. Len(s) - (i + 1) + 1 : b[j] = s[i + 1 + j - 1]
    BY <1>1, <2>1, SubSeqProperties
  <2> HIDE DEF b
  <2>3. QED
    BY <1>1, <2>2
<1> HIDE DEF a, b
<1>4. /\ a \o b \in Seq(S) /\ Len(a \o b) = Len(a) + Len(b)
      /\ \A j \in 1 .. Len(a) + Len(b) : (a \o b)[j] = IF j <= Len(a) THEN a[j] ELSE b[j - Len(a)]
  BY <1>2, <1>3, ConcatProperties
<1>5. RemoveAt(s, i) = a \o b
  BY DEF RemoveAt, a, b
<1>6. ASSUME NEW j \in 1 .. Len(s) - 1
      PROVE  (a \o b)[j] = IF j < i THEN s[j] ELSE s[j + 1]
  <2>1. Len(a) + Len(b) = Len(s) - 1
    BY <1>1, <1>2, <1>3
  <2>2. CASE j < i
    BY <1>1, <1>2, <1>4, <2>1, <2>2
  <2>3. CASE ~(j < i)
    <3>1. j - Len(a) \in 1 .. Len(s) - i /\ i + (j - Len(a)) = j + 1 /\ ~(j <= Len(a))
      BY <1>1, <1>2, <2>3
    <3>2. b[j - Len(a)] = s[j + 1]
      BY <1>3, <3>1
    <3>3. QED
      BY <1>4, <2>1, <2>3, <3>1, <3>2
  <2>4. QED
    BY <2>2, <2>3
<1>7. /\ RemoveAt(s, i) \in Seq(S) /\ Len(RemoveAt(s, i)) = Len(s) - 1
      /\ \A j \in 1 .. Len(s) - 1 : RemoveAt(s, i)[j] = IF j < i THEN s[j] ELSE s[j + 1]
  <2>1. Len(a) + Len(b) = Len(s) - 1
    BY <1>1, <1>2, <1>3
  <2>2. /\ a \o b \in Seq(S) /\ Len(a \o b) = Len(s) - 1
    BY <1>4, <2>1
  <2>3. QED
    BY <1>5, <1>6, <2>2, Zenon
<1>8. QED
  BY <1>7, Zenon

\* The other entries, in their order, and nothing else.
LEMMA OthersStay ==
  ASSUME OneEach(cache), NEW k
  PROVE  /\ OneEach(Others(k)) /\ Len(Others(k)) <= Len(cache)
         /\ (\E e \in Range(cache) : e.key = k) => Len(Others(k)) = Len(cache) - 1
         /\ Range(Others(k)) = {e \in Range(cache) : e.key # k}
<1> DEFINE o == Others(k)
<1>1. cache \in Seq(Entry) /\ Len(cache) \in Nat /\ DOMAIN cache = 1 .. Len(cache)
  BY LenProperties DEF OneEach
<1>2. CASE Cached(k) = {}
  <2>1. o = cache /\ \A i \in DOMAIN cache : cache[i].key # k
    BY <1>2 DEF Others, Cached
  <2>2. \A e \in Range(cache) : e.key # k
    BY <2>1 DEF Range
  <2>3. Range(cache) = {e \in Range(cache) : e.key # k}
    BY <2>2
  <2>4. Others(k) = cache
    BY <2>1
  <2>5. OneEach(Others(k)) /\ Len(Others(k)) <= Len(cache)
    BY <1>1, <2>4
  <2>6. Range(Others(k)) = {e \in Range(cache) : e.key # k}
    BY <2>3, <2>4
  <2>7. QED
    BY <2>2, <2>5, <2>6
<1>3. CASE Cached(k) # {}
  <2> DEFINE i == CHOOSE x \in Cached(k) : TRUE
  <2>1. i \in 1 .. Len(cache) /\ cache[i].key = k /\ o = RemoveAt(cache, i)
    BY <1>1, <1>3 DEF Cached, Others
  <2> HIDE DEF i, o
  <2>2. /\ o \in Seq(Entry) /\ Len(o) = Len(cache) - 1
        /\ \A j \in 1 .. Len(cache) - 1 : o[j] = IF j < i THEN cache[j] ELSE cache[j + 1]
    BY <1>1, <2>1, TakenOut
  <2>3. DOMAIN o = 1 .. Len(cache) - 1
    BY <2>2, LenProperties
  <2>4. OneEach(o)
    <3>1. SUFFICES ASSUME NEW x \in DOMAIN o, NEW y \in DOMAIN o, o[x].key = o[y].key
                   PROVE  x = y
      BY <2>2 DEF OneEach
    <3> DEFINE from(z) == IF z < i THEN z ELSE z + 1
    <3>2. /\ from(x) \in DOMAIN cache /\ from(y) \in DOMAIN cache
          /\ o[x] = cache[from(x)] /\ o[y] = cache[from(y)]
      BY <1>1, <2>1, <2>2, <2>3
    <3>3. from(x) = from(y)
      BY <3>1, <3>2 DEF OneEach
    <3>4. QED
      BY <1>1, <2>1, <2>3, <3>3
  <2>5. ASSUME NEW e \in Range(o) PROVE e \in Range(cache) /\ e.key # k
    <3>1. PICK x \in DOMAIN o : e = o[x]
      BY DEF Range
    <3> DEFINE y == IF x < i THEN x ELSE x + 1
    <3>2. y \in DOMAIN cache /\ e = cache[y] /\ y # i
      BY <1>1, <2>1, <2>2, <2>3, <3>1
    <3> HIDE DEF y
    <3>3. QED
      BY <1>1, <2>1, <3>2 DEF OneEach, Range
  <2>6. ASSUME NEW e \in Range(cache), e.key # k PROVE e \in Range(o)
    <3>1. PICK y \in DOMAIN cache : e = cache[y]
      BY DEF Range
    <3>2. y # i
      BY <2>1, <2>6, <3>1
    <3>3. PICK x \in DOMAIN o : o[x] = cache[y]
      <4>1. CASE y < i
        BY <1>1, <2>1, <2>2, <2>3, <4>1
      <4>2. CASE y > i
        <5>1. y - 1 \in DOMAIN o /\ ~(y - 1 < i) /\ (y - 1) + 1 = y
          BY <1>1, <2>1, <2>3, <4>2
        <5>2. QED
          BY <2>2, <2>3, <5>1
      <4>3. QED
        BY <1>1, <2>1, <3>2, <4>1, <4>2
    <3>4. QED
      BY <3>1, <3>3 DEF Range
  <2>7. QED
    BY <1>1, <2>2, <2>4, <2>5, <2>6 DEF o
<1>4. QED
  BY <1>2, <1>3

\* An entry of a key that is not in the cache comes last.
LEMMA ComesLast ==
  ASSUME NEW c, OneEach(c), NEW e \in Entry, \A x \in Range(c) : x.key # e.key
  PROVE  /\ OneEach(Append(c, e)) /\ Len(Append(c, e)) = Len(c) + 1
         /\ Range(Append(c, e)) = Range(c) \cup {e}
         /\ Append(c, e)[Len(c) + 1] = e
<1> DEFINE d == Append(c, e)
<1>1. c \in Seq(Entry) /\ Len(c) \in Nat /\ DOMAIN c = 1 .. Len(c)
  BY LenProperties DEF OneEach
<1>2. /\ d \in Seq(Entry) /\ Len(d) = Len(c) + 1 /\ d[Len(c) + 1] = e
      /\ \A i \in 1 .. Len(c) : d[i] = c[i]
  BY <1>1, AppendProperties
<1>3. DOMAIN d = 1 .. Len(c) + 1
  BY <1>2, LenProperties
<1> HIDE DEF d
<1>4. \A i \in DOMAIN c : c[i].key # e.key
  BY DEF Range
<1>5. OneEach(d)
  <2>1. SUFFICES ASSUME NEW i \in DOMAIN d, NEW j \in DOMAIN d, d[i].key = d[j].key
                 PROVE  i = j
    BY <1>2 DEF OneEach
  <2>2. \A x \in DOMAIN d : (x \in DOMAIN c /\ d[x] = c[x]) \/ (x = Len(c) + 1 /\ d[x] = e)
    BY <1>1, <1>2, <1>3
  <2>3. QED
    BY <1>4, <2>1, <2>2 DEF OneEach
<1>6. Range(d) = Range(c) \cup {e}
  <2>1. \A x \in DOMAIN d : (x \in DOMAIN c /\ d[x] = c[x]) \/ d[x] = e
    BY <1>1, <1>2, <1>3
  <2>2. \A x \in DOMAIN c : x \in DOMAIN d /\ d[x] = c[x]
    BY <1>1, <1>2, <1>3
  <2>3. e \in Range(d)
    BY <1>1, <1>2, <1>3 DEF Range
  <2>4. QED
    BY <2>1, <2>2, <2>3 DEF Range
<1>7. QED
  BY <1>2, <1>5, <1>6 DEF d

\* A hit moves its entry to the end of the cache and changes none.
LEMMA TouchedIsSame ==
  ASSUME OneEach(cache), NEW e \in Range(cache)
  PROVE  /\ OneEach(Touched(e)) /\ Len(Touched(e)) = Len(cache)
         /\ Range(Touched(e)) = Range(cache)
<1> DEFINE o == Others(e.key)
<1>1. /\ OneEach(o) /\ Len(o) = Len(cache) - 1
      /\ Range(o) = {x \in Range(cache) : x.key # e.key}
  BY OthersStay
<1>2. e \in Entry /\ Len(cache) \in Nat
  BY ElementOfSeq, LenProperties DEF OneEach, Range
<1>3. \A x \in Range(cache) : x.key = e.key => x = e
  BY DEF OneEach, Range
<1> HIDE DEF o
<1>4. /\ OneEach(Append(o, e)) /\ Len(Append(o, e)) = Len(o) + 1
      /\ Range(Append(o, e)) = Range(o) \cup {e}
  BY <1>1, <1>2, ComesLast
<1>5. Range(o) \cup {e} = Range(cache)
  BY <1>1, <1>3
<1>6. QED
  BY <1>1, <1>2, <1>4, <1>5 DEF Touched, o

\* A store: the new entry is in, one of another key is out if the cache was full.
LEMMA StoredFits ==
  ASSUME OneEach(cache), Len(cache) <= CacheMax, NEW t,
         NEW e \in Entry,
         e = [key |-> job[t].key, at |-> Wall, val |-> job[t].val, read |-> job[t].read]
  PROVE  LET gone == Dropped(Stored(t))
             c == SubSeq(Stored(t), Cardinality(gone) + 1, Len(Stored(t)))
         IN /\ OneEach(c) /\ Len(c) <= CacheMax /\ e.key \notin gone
            /\ Range(c) = {x \in Range(cache) : x.key # e.key /\ x.key \notin gone} \cup {e}
<1> DEFINE o == Others(e.key)
           s == Stored(t)
           gone == Dropped(s)
           c == SubSeq(s, Cardinality(gone) + 1, Len(s))
<1>1. /\ OneEach(o) /\ Len(o) <= Len(cache)
      /\ Range(o) = {x \in Range(cache) : x.key # e.key}
  BY OthersStay
<1>2. CacheMax \in Nat \ {0} /\ Len(o) \in Nat /\ Len(cache) \in Nat
  BY <1>1, HubCacheAssumption, LenProperties DEF OneEach
<1>3. s = Append(o, e)
  BY DEF Stored
<1> HIDE DEF o
<1>4. /\ OneEach(s) /\ Len(s) = Len(o) + 1 /\ Range(s) = Range(o) \cup {e}
      /\ s[Len(o) + 1] = e
  BY <1>1, <1>3, ComesLast
<1>5. s \in Seq(Entry) /\ DOMAIN s = 1 .. Len(o) + 1 /\ Len(s) <= CacheMax + 1
  BY <1>1, <1>2, <1>4, LenProperties DEF OneEach
<1> HIDE DEF s
<1>6. CASE Len(s) <= CacheMax
  <2>1. 1 .. Len(s) - CacheMax = {}
    BY <1>2, <1>4, <1>6
  <2>2. gone = {} /\ Cardinality(gone) = 0
    BY <2>1, FS_EmptySet DEF Dropped
  <2> HIDE DEF gone
  <2>3. c = SubSeq(s, 1, Len(s))
    BY <2>2
  <2>4. c = s
    BY <1>5, <2>3, SubSeqFull
  <2>5. QED
    BY <1>1, <1>2, <1>4, <1>6, <2>2, <2>4 DEF gone, s
<1>7. CASE Len(s) = CacheMax + 1
  <2>1. 1 .. Len(s) - CacheMax = {1}
    BY <1>2, <1>7
  <2>2. gone = {s[1].key} /\ Cardinality(gone) = 1
    <3>1. gone = {s[1].key}
      BY <2>1 DEF Dropped
    <3> HIDE DEF gone
    <3>2. QED
      BY <3>1, FS_Singleton
  <2> HIDE DEF gone
  <2>3. c = SubSeq(s, 2, Len(s))
    <3>1. Cardinality(gone) + 1 = 2
      BY <2>2
    <3>2. QED
      BY <3>1
  <2> HIDE DEF c
  <2>4. c \in Seq(Entry) /\ Len(c) = CacheMax /\ \A i \in 1 .. CacheMax : c[i] = s[i + 1]
    <3>1. \A i \in 2 .. Len(s) : s[i] \in Entry
      BY <1>4, <1>5, ElementOfSeq
    <3>2. /\ c \in Seq(Entry) /\ Len(c) = IF 2 <= Len(s) THEN Len(s) - 2 + 1 ELSE 0
          /\ \A i \in 1 .. Len(s) - 2 + 1 : c[i] = s[2 + i - 1]
      BY <1>2, <1>4, <2>3, <3>1, SubSeqProperties
    <3>3. Len(s) = CacheMax + 1 /\ CacheMax >= 1
      BY <1>2, <1>7
    <3>4. QED
      BY <1>2, <3>2, <3>3
  <2>5. DOMAIN c = 1 .. CacheMax
    BY <2>4, LenProperties
  <2>6. DOMAIN s = 1 .. CacheMax + 1 /\ s[CacheMax + 1] = e
    BY <1>2, <1>4, <1>5, <1>7
  <2>7. OneEach(c)
    <3>1. SUFFICES ASSUME NEW i \in DOMAIN c, NEW j \in DOMAIN c, c[i].key = c[j].key
                   PROVE  i = j
      BY <2>4 DEF OneEach
    <3>2. i + 1 \in DOMAIN s /\ j + 1 \in DOMAIN s /\ i \in Nat /\ j \in Nat
      BY <1>2, <2>5, <2>6
    <3>3. s[i + 1].key = s[j + 1].key
      BY <2>4, <2>5, <3>1
    <3>4. i + 1 = j + 1
      BY <1>4, <3>2, <3>3 DEF OneEach
    <3>5. QED
      BY <3>2, <3>4
  <2>8. Range(c) = {x \in Range(s) : x.key \notin gone}
    <3>1. \A i \in DOMAIN c : i + 1 \in DOMAIN s /\ c[i] = s[i + 1] /\ i + 1 # 1
      BY <1>2, <2>4, <2>5, <2>6
    <3>2. \A x \in DOMAIN s : x = 1 \/ (x - 1 \in DOMAIN c /\ c[x - 1] = s[x])
      BY <1>2, <2>4, <2>5, <2>6
    <3>3. 1 \in DOMAIN s
      BY <1>2, <2>6
    <3>4. \A x \in DOMAIN s : s[x].key = s[1].key => x = 1
      BY <1>4, <3>3 DEF OneEach
    <3>5. QED
      BY <2>2, <3>1, <3>2, <3>4 DEF Range
  <2>9. e.key \notin gone
    <3>1. 1 \in DOMAIN s /\ CacheMax + 1 \in DOMAIN s /\ CacheMax + 1 # 1
      BY <1>2, <2>6
    <3>2. QED
      BY <1>4, <2>2, <2>6, <3>1 DEF OneEach
  <2>10. QED
    BY <1>1, <1>2, <1>4, <2>4, <2>7, <2>8, <2>9 DEF c, gone, s
<1>8. Len(s) <= CacheMax \/ Len(s) = CacheMax + 1
  BY <1>2, <1>4, <1>5
<1>9. QED
  BY <1>6, <1>7, <1>8 DEF s

----------------------------------------------------------------------------
(* What the threads and the entries know of the database.                  *)

\* A thread's answer is no older than what it must be newer than; while its lock has not
\* been evicted, also newer than the entry it will replace.
Knows(t) ==
  LET j == job[t]
  IN /\ j.val \in 0 .. version /\ j.read \in 0 .. time /\ j.floor \in Nat
     /\ j.pc \in {"look", "wait"} \/ j.lock # NoLock => Ttl[j.key] > 0
     /\ j.pc \in {"query", "store"} /\ j.lock = NoLock => Ttl[j.key] = 0
     /\ j.pc # "free" => j.floor <= answered[j.key]
     /\ j.pc = "store" => j.floor <= j.val /\ time - j.read <= QueryS
     /\ j.pc = "store" /\ j.lock # NoLock /\ j.key \notin orphaned =>
          /\ j.val >= answered[j.key]
          /\ \A e \in Range(cache) : e.key = j.key => e.val <= j.val

\* An entry was stamped soon after it was read, and nothing newer was answered.
Kept(e) ==
  /\ e.at <= e.read + QueryS /\ e.read <= time /\ Ttl[e.key] > 0 /\ e.val <= version
  /\ e.key \notin orphaned => e.val >= answered[e.key]

DInv ==
  /\ version \in 0 .. MaxVersion /\ time \in 0 .. MaxClock /\ back \in 0 .. MaxBack
  /\ asked \in 0 .. MaxRequests /\ answered \in [Routes -> 0 .. version]
  /\ OneEach(cache) /\ Len(cache) <= CacheMax /\ \A e \in Range(cache) : Kept(e)
  /\ \A t \in Slots : Knows(t)
  /\ behind \subseteq orphaned /\ late = {}

LEMMA Entries ==
  ASSUME OneEach(cache)
  PROVE  /\ \A e \in Range(cache) : e \in Entry
         /\ \A e, f \in Range(cache) : e.key = f.key => e = f
BY ElementOfSeq DEF OneEach, Range

LEMMA FreeKnows ==
  ASSUME NEW t, job'[t] = Free, version' \in Nat, time' \in Nat
  PROVE  Knows(t)'
BY DEF Knows, Free

\* What an answer leaves behind, when it is no older than it may be.
LEMMA Served ==
  ASSUME DInv, NEW t \in Slots, job[t].key \in Routes, NEW val \in 0 .. version,
         NEW read \in 0 .. time, Serves(t, val, read),
         val >= job[t].floor \/ job[t].key \in orphaned,
         time - read < Ttl[job[t].key] + QueryS + back \/ time - read <= QueryS
  PROVE  /\ answered' \in [Routes -> 0 .. version]
         /\ \A k \in Routes : answered'[k] >= answered[k]
         /\ \A k \in Routes : k # job[t].key => answered'[k] = answered[k]
         /\ answered'[job[t].key] \in {answered[job[t].key], val}
         /\ answered'[job[t].key] >= val
         /\ behind' \subseteq orphaned /\ late' = {}
<1> DEFINE k == job[t].key
           m == Max({answered[k], val})
           p == Max({Ttl[k], 1})
<1>1. answered[k] \in 0 .. version /\ version \in Nat /\ time \in Nat /\ back \in Nat
  BY DEF DInv
<1>2. m \in {answered[k], val} /\ m >= answered[k] /\ m >= val
  <2>1. answered[k] \in Int /\ val \in Int
    BY <1>1
  <2>2. QED
    BY <2>1, PairMax
<1>3. Ttl[k] \in Nat /\ QueryS \in Nat
  BY HubCacheAssumption
<1>4. p \in Nat /\ p >= Ttl[k] /\ p >= 1
  <2>1. Ttl[k] \in Int /\ 1 \in Int
    BY <1>3
  <2>2. p \in {Ttl[k], 1} /\ p >= Ttl[k] /\ p >= 1
    BY <2>1, PairMax
  <2> HIDE DEF p
  <2>3. QED
    BY <1>3, <2>2
<1>5. /\ answered' = [answered EXCEPT ![k] = m]
      /\ behind' = behind \cup {x \in {k} : val < job[t].floor}
      /\ late' = late \cup {x \in {k} : time - read >= p + QueryS + back}
  BY DEF Serves
<1>6. job[t].floor \in Nat
  BY DEF DInv, Knows
<1> HIDE DEF m, p
<1>7. ~(time - read >= p + QueryS + back)
  BY <1>1, <1>3, <1>4
<1>8. val < job[t].floor => k \in orphaned
  BY <1>1, <1>6
<1>9. behind' \subseteq orphaned /\ late' = {}
  BY <1>5, <1>7, <1>8 DEF DInv
<1>10. answered' \in [Routes -> 0 .. version] /\ answered'[k] = m
  BY <1>1, <1>2, <1>5 DEF DInv
<1>11. \A x \in Routes : answered'[x] >= answered[x] /\ (x # k => answered'[x] = answered[x])
  BY <1>1, <1>2, <1>5 DEF DInv
<1>12. QED
  BY <1>2, <1>9, <1>10, <1>11

\* A hit is young enough, and for a key whose lock nobody lost it is not older than what
\* was answered before.
LEMMA HitKeeps ==
  ASSUME CInv, DInv, NEW t \in Slots, job[t].pc \in {"look", "wait"},
         NEW e \in Hits(job[t].key), Serves(t, e.val, e.read),
         OneEach(cache'), Len(cache') = Len(cache), Range(cache') = Range(cache),
         UNCHANGED <<version, time, back, asked, orphaned>>
  PROVE  DInv'
<1> DEFINE k == job[t].key
<1>1. k \in Routes /\ job = [u \in Slots |-> job[u]]
  BY DEF CInv, Sound
<1>2. e \in Range(cache) /\ e.key = k /\ Wall - e.at < Ttl[k]
  BY DEF Hits, Cached, Valid, Range
<1>3. e \in Entry /\ Kept(e)
  BY <1>2, Entries DEF DInv
<1>4. version \in Nat /\ time \in Nat /\ back \in Nat /\ QueryS \in Nat /\ Ttl[k] \in Nat
  BY <1>1, HubCacheAssumption DEF DInv
<1>5. e.val \in 0 .. version /\ e.read \in 0 .. time /\ e.at \in Int
  BY <1>3, <1>4 DEF Kept, Entry
<1>6. time - e.read < Ttl[k] + QueryS + back
  <2>1. e.at <= e.read + QueryS /\ (time - back) - e.at < Ttl[k]
    BY <1>2, <1>3 DEF Kept, Wall
  <2>2. e.read \in Int /\ e.at \in Int /\ time \in Int /\ back \in Int /\ QueryS \in Int
        /\ Ttl[k] \in Int
    BY <1>4, <1>5
  <2>3. \A a, r, n, b, q, l \in Int :
          a <= r + q /\ (n - b) - a < l => n - r < l + q + b
    OBVIOUS
  <2>4. QED
    BY <2>1, <2>2, <2>3
<1>7. e.val >= job[t].floor \/ k \in orphaned
  <2>1. k \notin orphaned => e.val >= answered[k]
    BY <1>2, <1>3 DEF Kept
  <2>2. job[t].floor <= answered[k] /\ job[t].floor \in Nat /\ answered[k] \in Nat
    BY <1>1, <1>4 DEF DInv, Knows
  <2>3. QED
    BY <1>4, <1>5, <2>1, <2>2
<1>8. /\ answered' \in [Routes -> 0 .. version]
      /\ \A x \in Routes : answered'[x] >= answered[x]
      /\ \A x \in Routes : x # k => answered'[x] = answered[x]
      /\ answered'[k] \in {answered[k], e.val} /\ answered'[k] >= e.val
      /\ behind' \subseteq orphaned /\ late' = {}
  BY <1>1, <1>5, <1>6, <1>7, Served
<1>9. \A u \in Slots : job'[u] = IF u = t THEN Free ELSE job[u]
  BY <1>1 DEF Serves, Goes
<1>10. ASSUME NEW x \in Range(cache') PROVE Kept(x)'
  <2>1. x \in Range(cache) /\ Kept(x) /\ x.key \in Routes /\ x.val \in Nat
    BY Entries DEF DInv, Entry
  <2>2. CASE x.key = k
    <3>1. x = e
      BY <1>2, <2>1, <2>2, Entries DEF DInv
    <3>2. k \notin orphaned => e.val >= answered'[k]
      BY <1>2, <1>3, <1>5, <1>8 DEF Kept
    <3>3. QED
      BY <1>2, <2>1, <3>1, <3>2 DEF Kept
  <2>3. CASE x.key # k
    BY <1>8, <2>1, <2>3 DEF Kept
  <2>4. QED
    BY <2>2, <2>3
<1>11. ASSUME NEW u \in Slots PROVE Knows(u)'
  <2>1. CASE u = t
    BY <1>4, <1>9, <2>1, FreeKnows
  <2>2. CASE u # t
    <3>1. Knows(u) /\ job'[u] = job[u] /\ Sound(job[u], lockOf, orphaned)
      BY <1>9, <2>2 DEF DInv, CInv
    <3>2. job[u].pc # "free" => answered'[job[u].key] >= answered[job[u].key]
                                /\ answered[job[u].key] \in Nat
                                /\ answered'[job[u].key] \in Nat
      BY <1>8, <3>1 DEF Sound, DInv
    <3>3. job[u].pc # "free" => job[u].floor <= answered'[job[u].key]
      BY <3>1, <3>2 DEF Knows
    <3>4. ASSUME job[u].pc = "store", job[u].lock # NoLock, job[u].key \notin orphaned
          PROVE  job[u].val >= answered'[job[u].key]
      <4>1. job[u].val >= answered[job[u].key] /\ job[u].key \in Routes
        BY <3>1, <3>4 DEF Knows, Sound
      <4>2. job[u].key = k => e.val <= job[u].val
        BY <1>2, <3>1, <3>4 DEF Knows
      <4>3. QED
        BY <1>8, <4>1, <4>2
    <3>5. QED
      BY <3>1, <3>3, <3>4 DEF Knows
  <2>3. QED
    BY <2>1, <2>2
<1>12. QED
  BY <1>8, <1>10, <1>11 DEF DInv

\* A thread alone goes on: nothing is answered and the cache stays.
LEMMA GoesOn ==
  ASSUME CInv, DInv, NEW t \in Slots, \A u \in Slots : u # t => job'[u] = job[u],
         Knows(t)', asked' \in 0 .. MaxRequests,
         UNCHANGED <<version, time, back, cache, answered, behind, late, orphaned>>
  PROVE  DInv'
<1>1. \A e \in Range(cache') : Kept(e)'
  BY DEF DInv, Kept
<1>2. ASSUME NEW u \in Slots PROVE Knows(u)'
  BY DEF DInv, Knows
<1>3. OneEach(cache') /\ Len(cache') <= CacheMax
  BY DEF DInv
<1>4. QED
  BY <1>1, <1>2, <1>3 DEF DInv

LEMMA AskKnows ==
  ASSUME CInv, DInv, NEW t \in Slots, NEW k \in Routes, Ask(t, k) PROVE DInv'
<1> DEFINE j == [Free EXCEPT !.pc = IF Ttl[k] > 0 THEN "look" ELSE "query",
                             !.key = k, !.floor = answered[k]]
<1>1. /\ job' = [job EXCEPT ![t] = j] /\ asked < MaxRequests /\ asked' = asked + 1
      /\ UNCHANGED <<version, time, back, cache, answered, behind, late, orphaned>>
  BY DEF Ask, Goes, history
<1>2. /\ j.pc = (IF Ttl[k] > 0 THEN "look" ELSE "query") /\ j.key = k /\ j.lock = NoLock
      /\ j.val = 0 /\ j.read = 0 /\ j.floor = answered[k]
  BY DEF Free
<1> HIDE DEF j
<1>3. \A u \in Slots : job'[u] = IF u = t THEN j ELSE job[u]
  BY <1>1 DEF CInv
<1>4. Ttl[k] \in Nat /\ answered[k] \in 0 .. version /\ version \in Nat /\ time \in Nat
  BY HubCacheAssumption DEF DInv
<1>5. Knows(t)'
  BY <1>1, <1>2, <1>3, <1>4 DEF Knows, NoLock
<1>6. asked' \in 0 .. MaxRequests
  BY <1>1, HubCacheAssumption DEF DInv
<1>7. QED
  BY <1>1, <1>3, <1>5, <1>6, GoesOn

LEMMA LookupKnows ==
  ASSUME CInv, DInv, NEW t \in Slots, Lookup(t) PROVE DInv'
<1> DEFINE k == job[t].key
           j == [job[t] EXCEPT !.pc = "wait", !.lock = LockFor(k)]
<1>1. job[t].pc = "look" /\ UNCHANGED <<version, time, back, asked, orphaned>> /\ Shaped(job[t])
  BY DEF Lookup, Is, outside, CInv, Sound
<1>2. ASSUME NEW e \in Hits(k), Serves(t, e.val, e.read), cache' = Touched(e) PROVE DInv'
  <2>1. e \in Range(cache)
    BY DEF Hits, Cached, Range
  <2>2. OneEach(cache') /\ Len(cache') = Len(cache) /\ Range(cache') = Range(cache)
    BY <1>2, <2>1, TouchedIsSame DEF DInv
  <2>3. QED
    BY <1>1, <1>2, <2>2, HitKeeps
<1>3. ASSUME Goes(t, j), UNCHANGED <<cache, history>> PROVE DInv'
  <2>1. /\ j.pc = "wait" /\ j.key = k /\ j.val = job[t].val /\ j.read = job[t].read
        /\ j.floor = job[t].floor
    BY <1>1 DEF Shaped
  <2> HIDE DEF j
  <2>2. \A u \in Slots : job'[u] = IF u = t THEN j ELSE job[u]
    BY <1>3 DEF Goes, CInv
  <2>3. UNCHANGED <<answered, behind, late>>
    BY <1>3 DEF history
  <2>4. Knows(t)'
    BY <1>1, <1>3, <2>1, <2>2, <2>3 DEF DInv, Knows
  <2>5. asked' \in 0 .. MaxRequests
    BY <1>1 DEF DInv
  <2>6. QED
    BY <1>1, <1>3, <2>2, <2>3, <2>4, <2>5, GoesOn
<1>4. QED
  BY <1>2, <1>3 DEF Lookup

LEMMA AcquireKnows ==
  ASSUME CInv, DInv, NEW t \in Slots, Acquire(t) PROVE DInv'
<1> DEFINE k == job[t].key
           j == [job[t] EXCEPT !.pc = "query"]
<1>1. /\ job[t].pc = "wait" /\ UNCHANGED <<version, time, back, cache, asked, orphaned>>
      /\ Shaped(job[t]) /\ job[t].lock # NoLock
  BY DEF Acquire, Is, outside, CInv, Sound
<1>2. ASSUME NEW e \in Hits(k), Serves(t, e.val, e.read) PROVE DInv'
  <2>1. OneEach(cache') /\ Len(cache') = Len(cache) /\ Range(cache') = Range(cache)
    BY <1>1 DEF DInv
  <2>2. QED
    BY <1>1, <1>2, <2>1, HitKeeps
<1>3. ASSUME Goes(t, j), UNCHANGED history PROVE DInv'
  <2>1. /\ j.pc = "query" /\ j.key = k /\ j.val = job[t].val /\ j.read = job[t].read
        /\ j.floor = job[t].floor /\ j.lock = job[t].lock
    BY <1>1 DEF Shaped
  <2> HIDE DEF j
  <2>2. \A u \in Slots : job'[u] = IF u = t THEN j ELSE job[u]
    BY <1>3 DEF Goes, CInv
  <2>3. UNCHANGED <<answered, behind, late>>
    BY <1>3 DEF history
  <2>4. Knows(t)'
    BY <1>1, <1>3, <2>1, <2>2, <2>3 DEF DInv, Knows
  <2>5. asked' \in 0 .. MaxRequests
    BY <1>1 DEF DInv
  <2>6. QED
    BY <1>1, <2>2, <2>3, <2>4, <2>5, GoesOn
<1>4. QED
  BY <1>2, <1>3 DEF Acquire

\* The query sees all that was answered and all that is cached.
LEMMA QueryKnows ==
  ASSUME CInv, DInv, NEW t \in Slots, Query(t) PROVE DInv'
<1> DEFINE j == [job[t] EXCEPT !.pc = "store", !.val = version, !.read = time]
<1>1. /\ job[t].pc = "query" /\ Goes(t, j) /\ Shaped(job[t]) /\ job[t].key \in Routes
      /\ UNCHANGED <<version, time, back, asked, cache, answered, behind, late, orphaned>>
  BY DEF Query, Is, outside, history, CInv, Sound
<1>2. /\ j.pc = "store" /\ j.key = job[t].key /\ j.val = version /\ j.read = time
      /\ j.floor = job[t].floor /\ j.lock = job[t].lock
  BY <1>1 DEF Shaped
<1> HIDE DEF j
<1>3. \A u \in Slots : job'[u] = IF u = t THEN j ELSE job[u]
  BY <1>1 DEF Goes, CInv
<1>4. /\ version \in Nat /\ time \in Nat /\ answered[j.key] \in 0 .. version /\ QueryS \in Nat
      /\ Knows(t)
  BY <1>1, <1>2, HubCacheAssumption DEF DInv
<1>5. j.floor <= version /\ version >= answered[j.key] /\ time - time <= QueryS
  BY <1>1, <1>2, <1>4 DEF Knows
<1>6. \A e \in Range(cache) : e.val <= version
  BY DEF DInv, Kept
<1>7. Knows(t)'
  BY <1>1, <1>2, <1>3, <1>4, <1>5, <1>6 DEF Knows
<1>8. asked' \in 0 .. MaxRequests
  BY <1>1 DEF DInv
<1>9. QED
  BY <1>1, <1>3, <1>7, <1>8, GoesOn

LEMMA RaiseKnows ==
  ASSUME CInv, DInv, NEW t \in Slots, Raise(t) PROVE DInv'
<1>1. UNCHANGED <<version, time, back, asked, cache, answered, behind, late, orphaned>>
  BY DEF Raise, history
<1>2. \A u \in Slots : job'[u] = IF u = t THEN Free ELSE job[u]
  BY DEF Raise, Goes, CInv
<1>3. version \in Nat /\ time \in Nat /\ asked' \in 0 .. MaxRequests
  BY <1>1 DEF DInv
<1>4. Knows(t)'
  BY <1>1, <1>2, <1>3, FreeKnows
<1>5. QED
  BY <1>1, <1>2, <1>3, <1>4, GoesOn

\* The answer just computed: nobody else computes it, unless its lock was lost.
LEMMA StoreKnows ==
  ASSUME CInv, DInv, NEW t \in Slots, Store(t) PROVE DInv'
<1> DEFINE k == job[t].key
           v == job[t].val
           r == job[t].read
<1>1. /\ job[t].pc = "store" /\ Serves(t, v, r) /\ k \in Routes /\ Knows(t)
      /\ UNCHANGED <<version, time, back, asked>>
  BY DEF Store, Is, outside, CInv, Sound, DInv
<1>2. version \in Nat /\ time \in Nat /\ back \in Nat /\ QueryS \in Nat /\ Ttl[k] \in Nat
  BY <1>1, HubCacheAssumption DEF DInv
<1>3. /\ v \in 0 .. version /\ r \in 0 .. time /\ v >= job[t].floor /\ time - r <= QueryS
      /\ (job[t].lock # NoLock => Ttl[k] > 0) /\ (job[t].lock = NoLock => Ttl[k] = 0)
      /\ (job[t].lock # NoLock /\ k \notin orphaned => v >= answered[k])
  BY <1>1, <1>2 DEF Knows
<1>4. /\ answered' \in [Routes -> 0 .. version]
      /\ \A x \in Routes : answered'[x] >= answered[x]
      /\ \A x \in Routes : x # k => answered'[x] = answered[x]
      /\ answered'[k] \in {answered[k], v} /\ answered'[k] >= v
      /\ behind' \subseteq orphaned /\ late' = {}
  BY <1>1, <1>3, Served
<1>5. \A u \in Slots : job'[u] = IF u = t THEN Free ELSE job[u]
  BY <1>1 DEF Serves, Goes, CInv
<1>6. orphaned \subseteq orphaned'
  BY DEF Store
<1>7. /\ OneEach(cache') /\ Len(cache') <= CacheMax /\ \A x \in Range(cache') : Kept(x)'
      /\ \A x \in Range(cache') : x.key # k => x \in Range(cache)
  <2>1. CASE job[t].lock = NoLock
    <3>1. cache' = cache /\ Ttl[k] = 0
      BY <1>3, <2>1 DEF Store
    <3>2. ASSUME NEW x \in Range(cache) PROVE Kept(x)'
      <4>1. Kept(x) /\ x.key # k /\ x.key \in Routes
        BY <1>2, <3>1, Entries DEF DInv, Kept, Entry
      <4>2. QED
        BY <1>1, <1>4, <1>6, <4>1 DEF Kept
    <3>3. QED
      BY <3>1, <3>2 DEF DInv
  <2>2. CASE job[t].lock # NoLock
    <3> DEFINE gone == Dropped(Stored(t))
    <3>1. cache' = SubSeq(Stored(t), Cardinality(gone) + 1, Len(Stored(t)))
      BY <2>2 DEF Store
    <3>2. [key |-> k, at |-> Wall, val |-> v, read |-> r] \in Entry
      BY <1>1, <1>2, <1>3 DEF Entry, Wall
    <3> HIDE DEF gone
    <3> PICK e \in Entry : e = [key |-> k, at |-> Wall, val |-> v, read |-> r]
      BY <3>2
    <3>3. e.key = k /\ e.at = time - back /\ e.val = v /\ e.read = r
      BY DEF Wall
    <3>4. /\ OneEach(cache') /\ Len(cache') <= CacheMax
          /\ Range(cache') = {x \in Range(cache) : x.key # k /\ x.key \notin gone} \cup {e}
      <4>1. /\ OneEach(cache) /\ Len(cache) <= CacheMax
            /\ e = [key |-> job[t].key, at |-> Wall, val |-> job[t].val, read |-> job[t].read]
        BY DEF DInv
      <4>2. /\ OneEach(cache') /\ Len(cache') <= CacheMax
            /\ Range(cache') = {x \in Range(cache) : x.key # e.key /\ x.key \notin gone} \cup {e}
        BY <3>1, <4>1, StoredFits DEF gone
      <4>3. QED
        BY <3>3, <4>2
    <3>5. Kept(e)'
      BY <1>1, <1>2, <1>3, <1>4, <1>6, <2>2, <3>3 DEF Kept
    <3>6. ASSUME NEW x \in Range(cache), x.key # k PROVE Kept(x)'
      <4>1. Kept(x) /\ x.key \in Routes
        BY Entries DEF DInv, Entry
      <4>2. QED
        BY <1>1, <1>4, <1>6, <3>6, <4>1 DEF Kept
    <3>7. QED
      BY <3>3, <3>4, <3>5, <3>6
  <2>3. QED
    BY <2>1, <2>2
<1>8. ASSUME NEW u \in Slots PROVE Knows(u)'
  <2>1. CASE u = t
    BY <1>1, <1>2, <1>5, <2>1, FreeKnows
  <2>2. CASE u # t
    <3>1. Knows(u) /\ job'[u] = job[u] /\ Sound(job[u], lockOf, orphaned)
      BY <1>5, <2>2 DEF DInv, CInv
    <3>2. job[u].pc # "free" => /\ answered'[job[u].key] >= answered[job[u].key]
                                /\ answered[job[u].key] \in Nat
                                /\ answered'[job[u].key] \in Nat
      BY <1>2, <1>4, <3>1 DEF Sound, DInv
    <3>3. job[u].pc # "free" => job[u].floor <= answered'[job[u].key]
      BY <3>1, <3>2 DEF Knows
    <3>4. ASSUME job[u].pc = "store", job[u].lock # NoLock, job[u].key \notin orphaned'
          PROVE  /\ job[u].val >= answered'[job[u].key]
                 /\ \A x \in Range(cache') : x.key = job[u].key => x.val <= job[u].val
      <4>1. /\ job[u].val >= answered[job[u].key] /\ job[u].key \in Routes
            /\ job[u].key \notin orphaned
            /\ \A x \in Range(cache) : x.key = job[u].key => x.val <= job[u].val
        BY <1>6, <3>1, <3>4 DEF Knows, Sound
      <4>2. ASSUME job[u].key = k PROVE FALSE
        <5>1. job[t].lock # NoLock
          BY <1>3, <3>1, <3>4, <4>2 DEF Knows
        <5>2. Computes(t) /\ Computes(u)
          BY <1>1, <3>4, <5>1 DEF Computes
        <5>3. SingleFlight
          BY OneComputes
        <5>4. QED
          BY <2>2, <4>1, <4>2, <5>2, <5>3 DEF SingleFlight
      <4>3. answered'[job[u].key] = answered[job[u].key]
        BY <1>4, <4>1, <4>2
      <4>4. QED
        BY <1>7, <4>1, <4>2, <4>3
    <3>5. QED
      BY <1>1, <3>1, <3>3, <3>4 DEF Knows
  <2>3. QED
    BY <2>1, <2>2
<1>9. QED
  BY <1>1, <1>4, <1>6, <1>7, <1>8 DEF DInv

\* Ingest, the clock and its steps back: what was read is older, what is stored too.
LEMMA OutsideKnows ==
  ASSUME CInv, DInv, IngestRows \/ TimePasses \/ StepBack PROVE DInv'
<1>1. /\ version' \in version .. MaxVersion /\ time' \in time .. MaxClock
      /\ back' \in 0 .. MaxBack
      /\ UNCHANGED <<cache, job, asked, answered, behind, late, orphaned>>
      /\ \A t \in Slots : job[t].pc = "store" => time' - job[t].read <= QueryS
  <2>1. version \in 0 .. MaxVersion /\ time \in 0 .. MaxClock /\ back \in 0 .. MaxBack
        /\ MaxVersion \in Nat /\ MaxClock \in Nat /\ MaxBack \in Nat /\ QueryS \in Nat
    BY HubCacheAssumption DEF DInv
  <2>2. \A t \in Slots : job[t].pc = "store" =>
          time - job[t].read <= QueryS /\ job[t].read \in 0 .. time
    BY DEF DInv, Knows
  <2>3. CASE IngestRows
    BY <2>1, <2>2, <2>3 DEF IngestRows, rest, history
  <2>4. CASE TimePasses
    BY <2>1, <2>2, <2>4 DEF TimePasses, rest, history, Is
  <2>5. CASE StepBack
    BY <2>1, <2>2, <2>5 DEF StepBack, rest, history
  <2>6. QED
    BY <2>3, <2>4, <2>5
<1>2. version \in Nat /\ time \in Nat /\ version' \in Nat /\ time' \in Nat
      /\ version <= version' /\ time <= time'
  BY <1>1, HubCacheAssumption DEF DInv
<1>3. answered' \in [Routes -> 0 .. version']
  <2>1. 0 .. version \subseteq 0 .. version'
    BY <1>2
  <2>2. QED
    BY <1>1, <2>1 DEF DInv
<1>4. ASSUME NEW e \in Range(cache') PROVE Kept(e)'
  <2>1. Kept(e) /\ e.read \in Nat /\ e.val \in Nat
    BY <1>1, Entries DEF DInv, Entry
  <2>2. QED
    BY <1>1, <1>2, <2>1 DEF Kept
<1>5. ASSUME NEW t \in Slots PROVE Knows(t)'
  <2>1. Knows(t)
    BY DEF DInv
  <2>2. job[t].val \in 0 .. version' /\ job[t].read \in 0 .. time'
    BY <1>2, <2>1 DEF Knows
  <2>3. job[t].pc = "store" => time' - job[t].read <= QueryS
    BY <1>1
  <2>4. QED
    BY <1>1, <2>1, <2>2, <2>3 DEF Knows
<1>6. OneEach(cache') /\ Len(cache') <= CacheMax
  BY <1>1 DEF DInv
<1>7. version' \in 0 .. MaxVersion /\ time' \in 0 .. MaxClock
  BY <1>1, <1>2
<1>8. QED
  BY <1>1, <1>3, <1>4, <1>5, <1>6, <1>7 DEF DInv

LEMMA DataStep == ASSUME CInv, DInv, [CacheNext]_cvars PROVE DInv'
<1>1. ASSUME NEW t \in Slots, Step(t) PROVE DInv'
  BY <1>1, LookupKnows, AcquireKnows, QueryKnows, RaiseKnows, StoreKnows DEF Step
<1>2. ASSUME UNCHANGED cvars PROVE DInv'
  <2>1. UNCHANGED <<version, time, back, cache, job, asked, answered, behind, late, orphaned>>
    BY <1>2 DEF cvars, history
  <2>2. OneEach(cache') /\ Len(cache') <= CacheMax /\ \A t \in Slots : Knows(t)'
    BY <2>1 DEF DInv, Knows
  <2>3. \A e \in Range(cache') : Kept(e)'
    BY <2>1 DEF DInv, Kept
  <2>4. QED
    BY <2>1, <2>2, <2>3 DEF DInv
<1>3. ASSUME NEW t \in Slots, \E k \in Routes : Ask(t, k) PROVE DInv'
  BY <1>3, AskKnows
<1>4. QED
  BY <1>1, <1>2, <1>3, OutsideKnows DEF CacheNext

----------------------------------------------------------------------------
(* Whose a lock is.                                                        *)

InCache(k) == \E e \in Range(cache) : e.key = k

\* A lock in the dict is one key's, a thread that refers to it is after that key, and the
\* key is cached, in flight, or one whose producer raised.
OwnLocks ==
  /\ \A j, k \in Routes : lockOf[j] # NoLock /\ lockOf[j] = lockOf[k] => j = k
  /\ \A t \in Slots, k \in Routes :
       job[t].lock # NoLock /\ job[t].lock = lockOf[k] => job[t].key = k
  /\ \A k \in Routes : lockOf[k] # NoLock => InCache(k) \/ k \in failed \/ Referred(k)

\* No thread changes its lock.
LEMMA LocksStay ==
  ASSUME CInv, OwnLocks, UNCHANGED <<lockOf, cache, failed>>,
         \A t \in Slots : /\ job'[t].lock = job[t].lock
                          /\ job[t].lock # NoLock => job'[t].key = job[t].key
  PROVE  OwnLocks'
<1>1. \A k \in Routes : InCache(k) => InCache(k)'
  BY DEF InCache
<1>2. \A k \in Routes : Referred(k) => Referred(k)'
  BY DEF Referred
<1>3. QED
  BY <1>1, <1>2 DEF OwnLocks

\* A thread is done: its key is cached, or its producer raised.
LEMMA LockLeft ==
  ASSUME CInv, OwnLocks, NEW t \in Slots, job' = [job EXCEPT ![t] = Free],
         \A k \in Routes : lockOf'[k] \in {lockOf[k], NoLock}, failed \subseteq failed',
         \A k \in Routes : lockOf'[k] # NoLock /\ InCache(k) => InCache(k)',
         \A k \in Routes :
           job[t].lock # NoLock /\ job[t].key = k => k \in failed' \/ InCache(k)'
  PROVE  OwnLocks'
<1>1. /\ \A u \in Slots : u # t => job'[u] = job[u]
      /\ job'[t].lock = NoLock
  BY DEF Free, CInv
<1>2. ASSUME NEW k \in Routes, lockOf'[k] # NoLock
      PROVE  InCache(k)' \/ k \in failed' \/ Referred(k)'
  <2>1. lockOf'[k] = lockOf[k] /\ lockOf[k] # NoLock
    BY <1>2
  <2>2. CASE Referred(k)
    <3>1. PICK u \in Slots : job[u].lock = lockOf[k]
      BY <2>2 DEF Referred
    <3>2. CASE u = t
      BY <2>1, <3>1, <3>2 DEF OwnLocks
    <3>3. CASE u # t
      BY <1>1, <1>2, <2>1, <3>1, <3>3 DEF Referred
    <3>4. QED
      BY <3>2, <3>3
  <2>3. QED
    BY <1>2, <2>1, <2>2 DEF OwnLocks
<1>3. \A j, k \in Routes : lockOf'[j] # NoLock /\ lockOf'[j] = lockOf'[k] => j = k
  BY DEF OwnLocks
<1>4. ASSUME NEW u \in Slots, NEW k \in Routes, job'[u].lock # NoLock,
             job'[u].lock = lockOf'[k]
      PROVE  job'[u].key = k
  <2>1. job'[u] = job[u] /\ lockOf'[k] = lockOf[k]
    BY <1>1, <1>4
  <2>2. QED
    BY <1>4, <2>1 DEF OwnLocks
<1>5. QED
  BY <1>2, <1>3, <1>4 DEF OwnLocks

LEMMA CachedHit ==
  ASSUME NEW k, NEW e \in Hits(k) PROVE e \in Range(cache) /\ InCache(k)
BY DEF Hits, Cached, Range, InCache

LEMMA LookupOwns ==
  ASSUME CInv, DInv, OwnLocks, NEW t \in Slots, Lookup(t) PROVE OwnLocks'
<1> DEFINE k == job[t].key
           L == LockFor(k)
           j == [job[t] EXCEPT !.pc = "wait", !.lock = L]
<1>1. /\ job[t].pc = "look" /\ UNCHANGED failed /\ Shaped(job[t]) /\ job[t].lock = NoLock
      /\ k \in Routes
  BY DEF Lookup, Is, outside, CInv, Sound
<1>2. ASSUME NEW e \in Hits(k), Goes(t, Free), cache' = Touched(e), UNCHANGED lockOf
      PROVE  OwnLocks'
  <2>1. Range(cache') = Range(cache)
    BY <1>2, CachedHit, TouchedIsSame DEF DInv
  <2>2. \A x \in Routes : InCache(x) => InCache(x)'
    BY <2>1 DEF InCache
  <2>3. QED
    BY <1>1, <1>2, <2>2, LockLeft DEF Goes
<1>3. ASSUME lockOf' = [lockOf EXCEPT ![k] = L], Goes(t, j), UNCHANGED cache PROVE OwnLocks'
  <2>1. /\ L \in Locks /\ L # NoLock
        /\ lockOf[k] # NoLock => L = lockOf[k]
    BY <1>1, LockForTyped, LocksAreNumbers
  <2>2. lockOf[k] = NoLock =>
          /\ \A x \in Routes : lockOf[x] # L
          /\ \A u \in Slots : job[u].lock # L
    <3>1. lockOf[k] = NoLock => L \in Unreferenced
      BY <1>1, LockIsFree DEF LockFor
    <3>2. QED
      BY <3>1 DEF Unreferenced
  <2> HIDE DEF L
  <2>3. j.lock = L /\ j.key = k
    BY <1>1 DEF Shaped
  <2> HIDE DEF j
  <2>4. \A u \in Slots : job'[u] = IF u = t THEN j ELSE job[u]
    BY <1>3 DEF Goes, CInv
  <2>5. \A x \in Routes : lockOf'[x] = IF x = k THEN L ELSE lockOf[x]
    BY <1>3 DEF CInv
  <2>6. \A x \in Routes : x # k => lockOf[x] # L
    BY <1>1, <2>1, <2>2 DEF OwnLocks
  <2>7. \A x, y \in Routes : lockOf'[x] # NoLock /\ lockOf'[x] = lockOf'[y] => x = y
    BY <2>5, <2>6 DEF OwnLocks
  <2>8. ASSUME NEW u \in Slots, NEW x \in Routes, job'[u].lock # NoLock,
               job'[u].lock = lockOf'[x]
        PROVE  job'[u].key = x
    <3>1. CASE u = t
      BY <2>3, <2>4, <2>5, <2>6, <2>8, <3>1
    <3>2. CASE u # t
      <4>1. job'[u] = job[u] /\ job[u].lock # NoLock
        BY <2>4, <2>8, <3>2
      <4>2. CASE x = k
        BY <1>1, <2>1, <2>2, <2>5, <2>8, <4>1, <4>2 DEF OwnLocks
      <4>3. CASE x # k
        BY <2>5, <2>8, <4>1, <4>3 DEF OwnLocks
      <4>4. QED
        BY <4>2, <4>3
    <3>3. QED
      BY <3>1, <3>2
  <2>9. ASSUME NEW x \in Routes, lockOf'[x] # NoLock
        PROVE  InCache(x)' \/ x \in failed' \/ Referred(x)'
    <3>1. CASE x = k
      BY <2>1, <2>3, <2>4, <2>5, <3>1 DEF Referred
    <3>2. CASE x # k
      <4>1. lockOf'[x] = lockOf[x] /\ lockOf[x] # NoLock
        BY <2>5, <2>9, <3>2
      <4>2. InCache(x) => InCache(x)'
        BY <1>3 DEF InCache
      <4>3. ASSUME Referred(x) PROVE Referred(x)'
        <5>1. PICK u \in Slots : job[u].lock = lockOf[x]
          BY <4>3 DEF Referred
        <5>2. u # t /\ job'[u] = job[u]
          BY <1>1, <2>4, <4>1, <5>1
        <5>3. QED
          BY <4>1, <5>1, <5>2 DEF Referred
      <4>4. QED
        BY <1>1, <4>1, <4>2, <4>3 DEF OwnLocks
    <3>3. QED
      BY <3>1, <3>2
  <2>10. QED
    BY <2>7, <2>8, <2>9 DEF OwnLocks
<1>4. QED
  BY <1>2, <1>3 DEF Lookup, Serves

LEMMA AcquireOwns ==
  ASSUME CInv, OwnLocks, NEW t \in Slots, Acquire(t) PROVE OwnLocks'
<1> DEFINE k == job[t].key
           j == [job[t] EXCEPT !.pc = "query"]
<1>1. UNCHANGED <<cache, lockOf, failed>> /\ Shaped(job[t])
  BY DEF Acquire, outside, CInv, Sound
<1>2. \A x \in Routes : InCache(x) => InCache(x)'
  BY <1>1 DEF InCache
<1>3. ASSUME NEW e \in Hits(k), Goes(t, Free) PROVE OwnLocks'
  <2>1. \A x \in Routes : x = k => InCache(x)'
    BY <1>1, <1>3, CachedHit DEF InCache
  <2>2. QED
    BY <1>1, <1>2, <1>3, <2>1, LockLeft DEF Goes
<1>4. ASSUME Goes(t, j) PROVE OwnLocks'
  <2>1. j.lock = job[t].lock /\ j.key = k
    BY <1>1, Queries
  <2> HIDE DEF j
  <2>2. \A u \in Slots : job'[u] = IF u = t THEN j ELSE job[u]
    BY <1>4 DEF Goes, CInv
  <2>3. \A u \in Slots : job'[u].lock = job[u].lock /\ job'[u].key = job[u].key
    BY <2>1, <2>2
  <2>4. QED
    BY <1>1, <2>3, LocksStay
<1>5. QED
  BY <1>3, <1>4 DEF Acquire, Serves

LEMMA StoreOwns ==
  ASSUME CInv, DInv, OwnLocks, NEW t \in Slots, Store(t) PROVE OwnLocks'
<1>1. job' = [job EXCEPT ![t] = Free] /\ UNCHANGED failed /\ job[t].pc = "store"
  BY DEF Store, Serves, Goes, outside, Is
<1>2. CASE job[t].lock = NoLock
  <2>1. UNCHANGED <<cache, lockOf>>
    BY <1>2 DEF Store
  <2>2. \A x \in Routes : InCache(x) => InCache(x)'
    BY <2>1 DEF InCache
  <2>3. QED
    BY <1>1, <1>2, <2>1, <2>2, LockLeft
<1>3. CASE job[t].lock # NoLock
  <2> DEFINE k == job[t].key
             gone == Dropped(Stored(t))
  <2>1. /\ cache' = SubSeq(Stored(t), Cardinality(gone) + 1, Len(Stored(t)))
        /\ lockOf' = Unlocked(gone)
    BY <1>3 DEF Store
  <2>2. k \in Routes /\ job[t].val \in Nat /\ job[t].read \in Nat /\ Wall \in Int
    <3>1. Knows(t) /\ version \in Nat /\ time \in Nat /\ back \in Nat
      BY HubCacheAssumption DEF DInv
    <3>2. QED
      BY <1>1, <3>1 DEF Knows, Wall, CInv, Sound
  <2> HIDE DEF gone
  <2>3. [key |-> job[t].key, at |-> Wall, val |-> job[t].val, read |-> job[t].read] \in Entry
    BY <2>2 DEF Entry
  <2>4. PICK e \in Entry :
          e = [key |-> job[t].key, at |-> Wall, val |-> job[t].val, read |-> job[t].read]
    BY <2>3
  <2>5. e.key = k
    BY <2>4
  <2>6. Range(cache') = {x \in Range(cache) : x.key # e.key /\ x.key \notin gone} \cup {e}
    <3>1. OneEach(cache) /\ Len(cache) <= CacheMax
      BY DEF DInv
    <3>2. QED
      BY <2>1, <2>4, <3>1, StoredFits DEF gone
  <2>7. \A x \in Routes : x = k => InCache(x)'
    BY <2>5, <2>6 DEF InCache
  <2>8. ASSUME NEW x \in Routes, lockOf'[x] # NoLock, InCache(x) PROVE InCache(x)'
    <3>1. x \notin gone
      BY <2>1, <2>8 DEF Unlocked
    <3>2. CASE x = k
      BY <2>7, <3>2
    <3>3. CASE x # k
      BY <2>5, <2>6, <2>8, <3>1, <3>3 DEF InCache
    <3>4. QED
      BY <3>2, <3>3
  <2>9. \A x \in Routes : lockOf'[x] \in {lockOf[x], NoLock}
    BY <2>1 DEF Unlocked
  <2>10. QED
    BY <1>1, <2>7, <2>8, <2>9, LockLeft
<1>4. QED
  BY <1>2, <1>3

LEMMA OwnStep == ASSUME CInv, DInv, OwnLocks, [CacheNext]_cvars PROVE OwnLocks'
<1>1. ASSUME NEW t \in Slots, Query(t) PROVE OwnLocks'
  <2>1. UNCHANGED <<cache, lockOf, failed>> /\ Shaped(job[t])
    BY <1>1 DEF Query, outside, CInv, Sound
  <2>2. \A u \in Slots : job'[u].lock = job[u].lock /\ job'[u].key = job[u].key
    BY <1>1, <2>1 DEF Query, Goes, CInv, Shaped
  <2>3. QED
    BY <2>1, <2>2, LocksStay
<1>2. ASSUME NEW t \in Slots, Raise(t) PROVE OwnLocks'
  <2>1. /\ UNCHANGED <<cache, lockOf>> /\ failed' = failed \cup {job[t].key}
        /\ job' = [job EXCEPT ![t] = Free]
    BY <1>2 DEF Raise, Goes
  <2>2. \A x \in Routes : InCache(x) => InCache(x)'
    BY <2>1 DEF InCache
  <2>3. QED
    BY <2>1, <2>2, LockLeft
<1>3. ASSUME NEW t \in Slots, Step(t) PROVE OwnLocks'
  BY <1>1, <1>2, <1>3, LookupOwns, AcquireOwns, StoreOwns DEF Step
<1>4. ASSUME NEW t \in Slots, NEW k \in Routes, Ask(t, k) PROVE OwnLocks'
  <2>1. UNCHANGED <<cache, lockOf, failed>> /\ job[t].lock = NoLock
    BY <1>4 DEF Ask, Is, CInv, Sound
  <2>2. \A u \in Slots : u # t => job'[u] = job[u]
    BY <1>4 DEF Ask, Goes, CInv
  <2>3. job'[t].lock = NoLock
    BY <1>4 DEF Ask, Goes, CInv, Free
  <2>4. QED
    BY <2>1, <2>2, <2>3, LocksStay
<1>5. ASSUME UNCHANGED <<lockOf, job, cache, failed>> PROVE OwnLocks'
  BY <1>5, LocksStay
<1>6. UNCHANGED cvars \/ IngestRows \/ TimePasses \/ StepBack => OwnLocks'
  BY <1>5 DEF cvars, IngestRows, TimePasses, StepBack, rest
<1>7. QED
  BY <1>3, <1>4, <1>6 DEF CacheNext

\* What a thread of hub._cached holds is as new as every answer that went out for its
\* key, its key has one lock, and the list of entries is a map (CInv, DInv, OwnLocks).
THEOREM CacheKnows == CacheSpec => [](CInv /\ DInv /\ OwnLocks)
<1>1. CacheInit => CInv /\ DInv /\ OwnLocks
  <2>1. SUFFICES ASSUME CacheInit PROVE CInv /\ DInv /\ OwnLocks
    OBVIOUS
  <2>2. CInv
    BY <2>1, LocksAreNumbers DEF CacheInit, CInv, Sound, Free, Shaped, Computes, Pcs
  <2>3. OneEach(cache) /\ Len(cache) <= CacheMax /\ Range(cache) = {}
    <3>1. cache = <<>>
      BY <2>1 DEF CacheInit
    <3>2. <<>> \in Seq(Entry) /\ Len(<<>>) = 0 /\ DOMAIN <<>> = {}
      BY EmptySeq
    <3>3. QED
      BY <3>1, <3>2, HubCacheAssumption DEF OneEach, Range
  <2>4. DInv
    BY <2>1, <2>3, HubCacheAssumption DEF CacheInit, DInv, Knows, Free
  <2>5. OwnLocks
    BY <2>1 DEF CacheInit, OwnLocks, Free
  <2>6. QED
    BY <2>2, <2>4, <2>5
<1>2. QED
  BY <1>1, CacheStep, DataStep, OwnStep, PTL DEF CacheSpec

(* Types; the cache never exceeds its cap and has one entry for a key.      *)
THEOREM CacheTypeCorrect == CacheSpec => []CacheTypeOK
<1>1. ASSUME CInv, DInv PROVE CacheTypeOK
  <2>1. ASSUME NEW k \in Routes PROVE Cardinality(Cached(k)) <= 1
    <3>1. CASE Cached(k) = {}
      BY <3>1, FS_EmptySet
    <3>2. CASE Cached(k) # {}
      <4>1. PICK i : i \in Cached(k)
        BY <3>2
      <4>2. Cached(k) = {i}
        BY <1>1, <4>1 DEF Cached, DInv, OneEach
      <4>3. QED
        BY <4>2, FS_Singleton
    <3>3. QED
      BY <3>1, <3>2
  <2>2. \A t \in Slots : /\ job[t].pc \in {"free", "look", "wait", "query", "store"}
                         /\ job[t].val \in 0 .. version /\ job[t].lock \in Locks \cup {NoLock}
    BY <1>1 DEF CInv, Sound, Pcs, DInv, Knows
  <2>3. QED
    BY <1>1, <2>1, <2>2 DEF CInv, DInv, CacheTypeOK
<1>2. QED
  BY <1>1, CacheKnows, PTL

(* Nobody is shown an older state of the fleet than one already answered    *)
(* for the key, unless the key's lock was evicted from under a thread.      *)
THEOREM GoesForward == CacheSpec => []AnswersGoForward
<1>1. DInv => AnswersGoForward
  BY DEF DInv, AnswersGoForward
<1>2. QED
  BY <1>1, CacheKnows, PTL

(* No answer is older than its time to live, its query and what the wall    *)
(* clock was stepped back allow, whichever thread's query it came from.     *)
THEOREM Fresh == CacheSpec => []AnswersAreFresh
<1>1. DInv => AnswersAreFresh
  BY DEF DInv, AnswersAreFresh
<1>2. QED
  BY <1>1, CacheKnows, PTL

(* A lock outlives its value only while its key is in flight or after a     *)
(* producer of it raised, and a taken lock is the one its holder computes   *)
(* under.                                                                   *)
THEOREM LocksAreBounded == CacheSpec => []LocksBounded
<1>1. CInv /\ OwnLocks => LocksBounded
  <2>1. ASSUME NEW k, InCache(k) PROVE Cached(k) # {}
    BY <2>1 DEF InCache, Cached, Range
  <2>2. QED
    BY <2>1 DEF CInv, OwnLocks, LocksBounded
<1>2. QED
  BY <1>1, CacheKnows, PTL

----------------------------------------------------------------------------
LEMMA BoundedHasMax ==
  ASSUME NEW S \in SUBSET Nat, S # {}, NEW b \in Nat, \A x \in S : x <= b
  PROVE  Max(S) \in S /\ \A x \in S : x <= Max(S)
<1> DEFINE T == {u \in Nat : \A x \in S : x <= u}
<1>1. PICK u \in T : \A v \in T : ~ (<<v, u>> \in OpToRel(<, Nat))
  BY NatLessThanWellFounded, WFMin, b \in T, T \subseteq Nat
<1>2. \A v \in T : ~ (v < u)
  BY <1>1 DEF OpToRel
<1>3. u \in S
  <2>1. PICK x \in S : TRUE
    OBVIOUS
  <2>2. ASSUME u \notin S PROVE FALSE
    <3>1. x <= u /\ x # u /\ x \in Nat /\ u \in Nat
      BY <2>1, <2>2
    <3>2. u - 1 \in Nat /\ u - 1 < u
      BY <3>1
    <3>3. \A y \in S : y <= u - 1
      BY <2>2, <3>1
    <3>4. QED
      BY <1>2, <3>2, <3>3
  <2>3. QED
    BY <2>2
<1>4. \A x \in S : u >= x
  OBVIOUS
<1>5. Max(S) \in S /\ \A x \in S : Max(S) >= x
  BY <1>3, <1>4 DEF Max
<1>6. QED
  BY <1>5

\* The greatest of a set is the greatest of the part that has it.
LEMMA MaxOfPart ==
  ASSUME NEW S \in SUBSET Nat, NEW T \in SUBSET S, NEW b \in Nat, \A x \in S : x <= b,
         S # {}, Max(S) \in T
  PROVE  Max(T) = Max(S)
<1>1. Max(S) \in S /\ \A x \in S : x <= Max(S)
  BY BoundedHasMax
<1>2. T # {} /\ T \in SUBSET Nat /\ \A x \in T : x <= b
  OBVIOUS
<1>3. Max(T) \in T /\ \A x \in T : x <= Max(T)
  BY <1>2, BoundedHasMax
<1>4. Max(T) \in Nat /\ Max(S) \in Nat /\ Max(T) <= Max(S) /\ Max(S) <= Max(T)
  BY <1>1, <1>3
<1>5. QED
  BY <1>4

(* What a node wrote.                                                       *)
RInv == life \in [Incidents -> Lives]

LEMMA LifeOf ==
  ASSUME RInv, NEW u \in Incidents
  PROVE  /\ Len(life[u]) \in Nat \ {0} /\ DOMAIN life[u] = 1 .. Len(life[u])
         /\ \A i \in DOMAIN life[u] : life[u][i].ts \in 0 .. Until
         /\ \A i, j \in DOMAIN life[u] : i < j => life[u][i].ts < life[u][j].ts
<1> DEFINE l == life[u]
<1>1. l \in Lives
  BY DEF RInv
<1>2. l \in Seq([ts : 0 .. Until, op : STRING]) /\ l # <<>>
      /\ \A i, j \in DOMAIN l : i < j => l[i].ts < l[j].ts
  BY <1>1, HubReadsAssumption
<1> HIDE DEF l
<1> DEFINE R == [ts : 0 .. Until, op : STRING]
<1>3. Len(l) \in Nat \ {0} /\ DOMAIN l = 1 .. Len(l)
  <2>1. l \in Seq(R) /\ l # <<>>
    BY <1>2
  <2> HIDE DEF R
  <2>2. Len(l) \in Nat \ {0} /\ DOMAIN l = 1 .. Len(l)
    BY <2>1, EmptySeq, LenProperties
  <2>3. QED
    BY <2>2
<1>4. \A i \in DOMAIN l : l[i] \in R
  <2>1. l \in Seq(R)
    BY <1>2
  <2> HIDE DEF R
  <2>2. QED
    BY <1>3, <2>1, ElementOfSeq
<1>5. \A i \in DOMAIN l : l[i].ts \in 0 .. Until
  BY <1>4
<1>6. QED
  BY <1>2, <1>3, <1>5 DEF l

LEMMA RowsIn ==
  ASSUME RInv, NEW u \in Incidents, NEW from \in Nat
  PROVE  /\ Rows(u, from) \in SUBSET Nat /\ Rows(u, from) \subseteq Rows(u, 0)
         /\ \A i \in Rows(u, from) : i <= Len(life[u])
         /\ Len(life[u]) \in Nat
<1>1. Until \in Nat
  BY HubReadsAssumption
<1>2. QED
  BY <1>1, LifeOf DEF Rows

\* Whatever the window holds, its last row is the last row there is.
LEMMA LastInWindow ==
  ASSUME RInv, NEW from \in Nat, NEW u \in Loaded(from)
  PROVE  /\ u \in Incidents /\ u \in Loaded(0)
         /\ Max(Rows(u, 0)) \in Rows(u, from)
         /\ Max(Rows(u, from)) = Max(Rows(u, 0))
<1> DEFINE S == Rows(u, 0)
           T == Rows(u, from)
           n == Len(life[u])
<1>1. u \in Incidents /\ T # {}
  BY DEF Loaded
<1>2. S \in SUBSET Nat /\ T \subseteq S /\ n \in Nat /\ \A i \in S : i <= n
  BY <1>1, RowsIn
<1>3. Max(S) \in S /\ \A x \in S : x <= Max(S)
  BY <1>1, <1>2, BoundedHasMax
<1>4. PICK i \in T : TRUE
  BY <1>1
<1>5. i \in DOMAIN life[u] /\ Max(S) \in DOMAIN life[u] /\ life[u][i].ts \in from .. Until
      /\ <<u, Max(S)>> \in arrived
  BY <1>3, <1>4 DEF Rows
<1>6. i \in Nat /\ Max(S) \in Nat /\ i <= Max(S)
  BY <1>2, <1>3, <1>4
<1>7. life[u][i].ts <= life[u][Max(S)].ts
  BY <1>1, <1>5, <1>6, LifeOf
<1>8. life[u][Max(S)].ts \in 0 .. Until /\ Until \in Nat
  BY <1>1, <1>5, LifeOf, HubReadsAssumption
<1>9. Max(S) \in T
  <2>1. life[u][Max(S)].ts \in from .. Until
    BY <1>5, <1>7, <1>8
  <2>2. QED
    BY <1>5, <2>1 DEF Rows
<1> HIDE DEF S, T, n
<1>10. Max(T) = Max(S)
  BY <1>1, <1>2, <1>9, MaxOfPart
<1>11. S # {}
  BY <1>1, <1>2
<1>12. QED
  BY <1>1, <1>9, <1>10, <1>11 DEF S, T, Loaded

\* Every window that shows an incident shows its state and its times, and while it is
\* open its severity.
LEMMA LoadAgrees ==
  ASSUME RInv, NEW from \in Nat, NEW u \in Loaded(from)
  PROVE  /\ Load(u, from).state = Load(u, 0).state
         /\ Load(u, from).opened = Load(u, 0).opened
         /\ Load(u, from).ended = Load(u, 0).ended
         /\ Load(u, 0).state \in {"ongoing", "closed"}
         /\ Load(u, 0).state = "ongoing" => Load(u, from).sev = Load(u, 0).sev
<1> DEFINE S == Rows(u, 0)
           T == Rows(u, from)
           m == Max(S)
           Running(R) == {i \in R : ~Ends(life[u][i])}
<1>1. u \in Incidents /\ m \in T /\ m \in S /\ Max(T) = m
  <2>1. u \in Incidents /\ m \in T /\ Max(T) = m
    BY LastInWindow
  <2>2. QED
    BY <2>1, RowsIn
<1>2. /\ Load(u, from).state = IF Ends(life[u][m]) THEN "closed" ELSE "ongoing"
      /\ Load(u, 0).state = IF Ends(life[u][m]) THEN "closed" ELSE "ongoing"
      /\ Load(u, from).ended = IF Ends(life[u][m]) THEN life[u][m].ts ELSE 0
      /\ Load(u, 0).ended = IF Ends(life[u][m]) THEN life[u][m].ts ELSE 0
      /\ Load(u, from).opened = life[u][1].ts /\ Load(u, 0).opened = life[u][1].ts
  BY <1>1 DEF Load
<1>3. ASSUME ~Ends(life[u][m]) PROVE Load(u, from).sev = Load(u, 0).sev
  <2>1. /\ S \in SUBSET Nat /\ Len(life[u]) \in Nat /\ \A i \in S : i <= Len(life[u])
        /\ T \subseteq S /\ S # {}
    BY <1>1, RowsIn
  <2>2. m \in Running(T) /\ m \in Running(S) /\ Running(T) \subseteq S /\ Running(S) \subseteq S
    BY <1>1, <1>3, <2>1
  <2> HIDE DEF S, T, Running
  <2>3. Max(Running(S)) = m /\ Max(Running(T)) = m
    BY <2>1, <2>2, MaxOfPart DEF m
  <2>4. Running(S) # {} /\ Running(T) # {}
    BY <2>2
  <2>5. \A R : Load(u, R).sev = IF Running(Rows(u, R)) = {} \/ life[u][Max(Running(Rows(u, R)))].op = "persistent" THEN Info
                 ELSE SevOf[u]
    BY DEF Load, Running
  <2>6. QED
    BY <2>3, <2>4, <2>5 DEF S, T
<1>4. QED
  BY <1>2, <1>3

LEMMA LivenessIs == \A h \in Hosts : Liveness(h) \in {"unknown", "dead", "stale", "live"}
BY DEF Liveness

\* The rule for a silent node changes nothing but the state.
LEMMA TrustedKeeps ==
  ASSUME NEW u, NEW from
  PROVE  LET inc == Load(u, from)
         IN /\ Trusted(u, inc).opened = inc.opened /\ Trusted(u, inc).ended = inc.ended
            /\ Trusted(u, inc).sev = inc.sev
            /\ Trusted(u, inc).state =
                 IF inc.state = "ongoing" /\ Liveness(HostOf[u]) # "live" THEN "unknown"
                 ELSE inc.state
BY DEF Trusted, Load

LEMMA FleetAgrees ==
  ASSUME NEW h \in Hosts, FleetState(h) = "ok"
  PROVE  Liveness(h) = "live" /\ OpenOn(h) = {}
<1>1. Liveness(h) \in {"unknown", "dead", "stale", "live"}
  BY LivenessIs
<1>2. Liveness(h) \notin {"dead", "unknown"}
  BY DEF FleetState
<1>3. OpenOn(h) = {}
  <2> SUFFICES ASSUME OpenOn(h) # {} PROVE FALSE
    OBVIOUS
  <2>1. FleetState(h) \in {"critical", "degraded"}
    BY <1>1, <1>2 DEF FleetState
  <2>2. QED
    BY <2>1
<1>4. Liveness(h) # "stale"
  BY <1>3 DEF FleetState
<1>5. QED
  BY <1>1, <1>2, <1>3, <1>4

LEMMA Agree == ASSUME RInv PROVE ViewsAgree
<1>1. ASSUME NEW u \in Loaded(0), NEW from \in Windows, u \in FeedOf(from, 1)
      PROVE  LET f == FeedRow(u, from)
             IN /\ f.state = Detail(u).state /\ f.opened = Detail(u).opened
                /\ f.ended = Detail(u).ended
                /\ f.state # "closed" => f.sev = Detail(u).sev
  <2>1. from \in Nat /\ u \in Loaded(from)
    BY <1>1, HubReadsAssumption DEF Windows, FeedOf
  <2>2. /\ Load(u, from).state = Load(u, 0).state
        /\ Load(u, from).opened = Load(u, 0).opened
        /\ Load(u, from).ended = Load(u, 0).ended
        /\ Load(u, 0).state \in {"ongoing", "closed"}
        /\ Load(u, 0).state = "ongoing" => Load(u, from).sev = Load(u, 0).sev
    BY <2>1, LoadAgrees
  <2>3. /\ FeedRow(u, from) = Trusted(u, Load(u, from)) /\ Detail(u) = Trusted(u, Load(u, 0))
    BY DEF FeedRow, Detail
  <2>4. QED
    BY <2>2, <2>3, TrustedKeeps
<1>2. ASSUME NEW u \in Loaded(0)
      PROVE  /\ u \in OpenAlerts <=> Detail(u).state = "ongoing"
             /\ Liveness(HostOf[u]) # "live" => Detail(u).state # "ongoing"
             /\ Detail(u).state # "closed" <=> Load(u, 0).state = "ongoing"
  <2>1. Load(u, 0).state \in {"ongoing", "closed"}
    BY LoadAgrees
  <2>2. Detail(u).state = IF Load(u, 0).state = "ongoing" /\ Liveness(HostOf[u]) # "live"
                          THEN "unknown" ELSE Load(u, 0).state
    BY TrustedKeeps DEF Detail
  <2>3. QED
    BY <2>1, <2>2 DEF OpenAlerts
<1>3. \A h \in Hosts :
        OpenOn(h) = {u \in Loaded(0) : HostOf[u] = h /\ Detail(u).state # "closed"}
  BY <1>2 DEF OpenOn
<1>4. QED
  BY <1>1, <1>2, <1>3, FleetAgrees DEF ViewsAgree

LEMMA RInvStep ==
  /\ ReadsInit => RInv
  /\ RInv /\ [ReadsNext]_rvars => RInv'
BY DEF ReadsInit, RInv, ReadsNext, Arrives, rvars

(* Every view tells the same story of an incident, for any incidents, nodes, *)
(* windows and whatever rows have arrived in whatever order (hubapi.py).     *)
THEOREM ReadsAgree == ReadsSpec => []ViewsAgree
<1>1. RInv => ViewsAgree
  BY Agree
<1>2. QED
  BY <1>1, RInvStep, PTL DEF ReadsSpec

----------------------------------------------------------------------------
(* The density grid.                                                        *)

LEMMA DivIs ==
  ASSUME NEW d \in Nat \ {0}, NEW x \in Nat
  PROVE  x \div d \in Nat /\ d * (x \div d) <= x /\ x < d * (x \div d) + d
<1>1. x = d * (x \div d) + (x % d) /\ x % d \in 0 .. d - 1 /\ x \div d \in Int
  OBVIOUS
<1>2. x \div d >= 0
  <2> DEFINE q == x \div d
  <2>1. q \in Int /\ x < d * q + d
    BY <1>1
  <2> HIDE DEF q
  <2>2. ASSUME q <= -1 PROVE FALSE
    <3> DEFINE k == -1 - q
    <3>1. k \in Nat /\ q = -1 - k
      BY <2>1, <2>2
    <3> HIDE DEF k
    <3>2. d * k \in Nat /\ d * q = -d - d * k
      BY <3>1
    <3>3. QED
      BY <2>1, <3>2
  <2>3. QED
    BY <2>1, <2>2 DEF q
<1>3. QED
  BY <1>1, <1>2

LEMMA DivOnly ==
  ASSUME NEW d \in Nat \ {0}, NEW x \in Nat, NEW q \in Int, d * q <= x, x < d * q + d
  PROVE  x \div d = q
<1> DEFINE p == x \div d
<1>1. p \in Nat /\ d * p <= x /\ x < d * p + d
  BY DivIs
<1> HIDE DEF p
<1>2. ASSUME NEW a \in Int, NEW b \in Int, a < b PROVE d * a + d <= d * b
  <2>1. a + 1 <= b /\ d * (a + 1) = d * a + d
    BY <1>2
  <2>2. d * (a + 1) <= d * b
    BY <2>1
  <2>3. QED
    BY <2>1, <2>2
<1>3. ~ (p < q)
  <2>1. p < q => d * p + d <= d * q
    BY <1>1, <1>2
  <2>2. d * p \in Int /\ d * q \in Int
    BY <1>1
  <2>3. QED
    BY <1>1, <2>1, <2>2
<1>4. ~ (q < p)
  <2>1. q < p => d * q + d <= d * p
    BY <1>1, <1>2
  <2>2. d * p \in Int /\ d * q \in Int
    BY <1>1
  <2>3. QED
    BY <1>1, <2>1, <2>2
<1>5. QED
  BY <1>1, <1>3, <1>4 DEF p

Cells(d, a, e) == (a \div d) .. (e \div d)
Meets(d, a, e, b) == \E p \in a .. e : p \div d = b

\* The cells from one moment's to another's are those of the moments between them.
LEMMA CellsBetween ==
  ASSUME NEW d \in Nat \ {0}, NEW a \in Nat, NEW e \in Nat, a <= e, NEW b \in Int
  PROVE  b \in Cells(d, a, e) <=> Meets(d, a, e, b)
<1>1. /\ a \div d \in Nat /\ d * (a \div d) <= a /\ a < d * (a \div d) + d
      /\ e \div d \in Nat /\ d * (e \div d) <= e /\ e < d * (e \div d) + d
  BY DivIs
<1> DEFINE A == a \div d
           E == e \div d
<1>2. ASSUME NEW x \in Int, NEW y \in Int, x < y PROVE d * x + d <= d * y
  <2>1. x + 1 <= y /\ d * (x + 1) = d * x + d
    BY <1>2
  <2>2. d * (x + 1) <= d * y
    BY <2>1
  <2>3. QED
    BY <2>1, <2>2
<1> HIDE DEF A, E
<1>3. ASSUME b \in A .. E PROVE \E p \in a .. e : p \div d = b
  <2>1. CASE b = A
    BY <2>1 DEF A
  <2>2. CASE b # A
    <3>1. A < b /\ b <= E /\ b \in Nat
      BY <1>1, <1>3, <2>2 DEF A, E
    <3>2. d * A + d <= d * b /\ (b < E => d * b + d <= d * E)
      BY <1>1, <1>2, <3>1 DEF A, E
    <3>3. d * b \in Nat /\ d * A \in Int /\ d * E \in Int
      BY <1>1, <3>1 DEF A, E
    <3>4. d * b <= d * E
      <4>1. b = E \/ b < E
        BY <1>1, <3>1 DEF E
      <4>2. QED
        BY <1>1, <3>2, <3>3, <4>1
    <3>5. d * b \in a .. e
      BY <1>1, <3>2, <3>3, <3>4 DEF A, E
    <3>6. (d * b) \div d = b
      BY <3>1, <3>3, DivOnly
    <3>7. QED
      BY <3>5, <3>6
  <2>3. QED
    BY <2>1, <2>2
<1>4. ASSUME NEW p \in a .. e, p \div d = b PROVE b \in A .. E
  <2>1. p \in Nat /\ b \in Nat /\ d * b <= p /\ p < d * b + d
    BY <1>4, DivIs
  <2>2. d * b \in Int /\ d * A \in Int /\ d * E \in Int
    BY <1>1, <2>1 DEF A, E
  <2>3. ~ (b < A)
    <3>1. b < A => d * b + d <= d * A
      BY <1>1, <1>2, <2>1 DEF A
    <3>2. QED
      BY <1>1, <1>4, <2>1, <2>2, <3>1 DEF A
  <2>4. ~ (E < b)
    <3>1. E < b => d * E + d <= d * b
      BY <1>1, <1>2, <2>1 DEF E
    <3>2. QED
      BY <1>1, <1>4, <2>1, <2>2, <3>1 DEF E
  <2>5. QED
    BY <1>1, <2>1, <2>3, <2>4 DEF A, E
<1>5. QED
  BY <1>3, <1>4 DEF A, E, Cells, Meets

\* From its opening, or from where the window begins, to its end, or to now.
LEMMA SpannedIsOpen ==
  ASSUME RInv, NEW from \in Windows, NEW u \in Loaded(from), Complete(u),
         NEW b \in Hours(from)
  PROVE  b \in Spanned(u, from) <=> WasOpen(u, b, from)
<1> DEFINE n == Len(life[u])
           last == life[u][n]
           opened == life[u][1].ts
           start == Max({opened, from})
           end == IF Ends(last) THEN last.ts ELSE Until
           H == Hour0(from)
<1>1. /\ u \in Incidents /\ from \in Nat /\ from <= Until /\ Until \in Nat /\ HourS \in Nat \ {0}
  BY HubReadsAssumption DEF Loaded, Windows
<1>2. /\ n \in Nat \ {0} /\ DOMAIN life[u] = 1 .. n
      /\ \A i \in 1 .. n : life[u][i].ts \in 0 .. Until
      /\ \A i, j \in 1 .. n : i < j => life[u][i].ts < life[u][j].ts
  BY <1>1, LifeOf
<1>3. Max(Rows(u, from)) = n
  <2> DEFINE S == Rows(u, 0)
  <2>1. Max(Rows(u, from)) = Max(S)
    BY <1>1, LastInWindow
  <2>2. S = 1 .. n
    <3>1. \A i \in 1 .. n : life[u][i].ts \in 0 .. Until /\ <<u, i>> \in arrived
      BY <1>2 DEF Complete
    <3>2. QED
      BY <1>2, <3>1 DEF Rows
  <2>3. S \in SUBSET Nat /\ S # {} /\ \A i \in S : i <= n
    BY <1>2, <2>2
  <2> HIDE DEF S
  <2>4. Max(S) \in S /\ \A x \in S : x <= Max(S)
    BY <1>2, <2>3, BoundedHasMax
  <2>5. Max(S) = n
    BY <1>2, <2>2, <2>4
  <2>6. QED
    BY <2>1, <2>5
<1>4. last.ts \in from .. Until /\ opened \in 0 .. last.ts
  <2>1. Rows(u, from) # {}
    BY DEF Loaded
  <2>2. PICK i \in Rows(u, from) : TRUE
    BY <2>1
  <2>3. i \in 1 .. n /\ life[u][i].ts \in from .. Until
    BY <1>2, <2>2 DEF Rows
  <2>4. life[u][i].ts <= last.ts
    <3>1. n \in 1 .. n /\ (i = n \/ i < n)
      BY <1>2, <2>3
    <3>2. life[u][i].ts < last.ts \/ life[u][i].ts = last.ts
      BY <1>2, <2>3, <3>1
    <3>3. life[u][i].ts \in Int /\ last.ts \in Int
      BY <1>2, <2>3, <3>1
    <3>4. QED
      BY <3>2, <3>3
  <2>5. opened <= last.ts
    <3>1. n \in 1 .. n /\ 1 \in 1 .. n /\ (1 = n \/ 1 < n)
      <4>1. n \in Nat \ {0}
        BY <1>2
      <4> HIDE DEF n
      <4>2. QED
        BY <4>1
    <3>2. opened < last.ts \/ opened = last.ts
      BY <1>2, <3>1
    <3>3. opened \in Int /\ last.ts \in Int
      BY <1>2, <3>1
    <3>4. QED
      BY <3>2, <3>3
  <2>6. last.ts \in 0 .. Until /\ opened \in 0 .. Until
    BY <1>2
  <2>7. QED
    BY <1>1, <2>3, <2>4, <2>5, <2>6
<1>5. /\ Load(u, from).opened = opened
      /\ Load(u, from).state = IF Ends(last) THEN "closed" ELSE "ongoing"
      /\ Load(u, from).ended = IF Ends(last) THEN last.ts ELSE 0
  BY <1>3 DEF Load
<1>6. b \in Spanned(u, from) <=> b \in (start - H) \div HourS .. (end - H) \div HourS
  BY <1>5 DEF Spanned
<1>7. WasOpen(u, b, from) <=>
        \E p \in Windows : /\ p >= from /\ (p - H) \div HourS = b
                           /\ opened <= p /\ (Ends(last) => p <= last.ts)
  BY DEF WasOpen, LastRow, Ends
<1> HIDE DEF last, opened, n
<1>8. /\ start \in Nat /\ start >= opened /\ start >= from
      /\ start = opened \/ start = from
  <2> DEFINE S == {opened, from}
  <2>1. S \in SUBSET Nat /\ S # {} /\ (\A x \in S : x <= opened + from) /\ opened + from \in Nat
    BY <1>1, <1>4
  <2>2. opened \in S /\ from \in S
    OBVIOUS
  <2>3. \A x \in S : x = opened \/ x = from
    OBVIOUS
  <2> HIDE DEF S
  <2>4. Max(S) \in S /\ \A x \in S : x <= Max(S)
    BY <2>1, BoundedHasMax
  <2>5. Max(S) \in Nat /\ opened <= Max(S) /\ from <= Max(S)
    BY <2>1, <2>2, <2>4
  <2>6. QED
    BY <1>1, <1>4, <2>3, <2>4, <2>5 DEF S
<1>9. end \in Nat /\ start <= end /\ end <= Until
  BY <1>1, <1>4, <1>8
<1>10. H \in Nat /\ H <= from
  BY <1>1, DivIs DEF Hour0
<1> DEFINE a == start - H
           e == end - H
<1>11. /\ a \in Nat /\ e \in Nat /\ a <= e /\ b \in Int
       /\ start = a + H /\ end = e + H
  <2>1. b \in Int
    BY DEF Hours
  <2>2. QED
    BY <1>1, <1>8, <1>9, <1>10, <2>1
<1> HIDE DEF a, e, H
<1>12. b \in Cells(HourS, a, e) <=> Meets(HourS, a, e, b)
  BY <1>1, <1>11, CellsBetween
<1>13. Meets(HourS, a, e, b) <=>
         \E p \in Windows : /\ p >= from /\ (p - H) \div HourS = b
                            /\ opened <= p /\ (Ends(last) => p <= last.ts)
  <2>1. ASSUME NEW p \in a .. e, p \div HourS = b
        PROVE  LET q == p + H
               IN /\ q \in Windows /\ q >= from /\ (q - H) \div HourS = b
                  /\ opened <= q /\ (Ends(last) => q <= last.ts)
    <3> DEFINE q == p + H
    <3>1. q \in Nat /\ q >= start /\ q <= end /\ q - H = p
      BY <1>10, <1>11, <2>1
    <3> HIDE DEF q
    <3>2. q \in Windows
      BY <1>1, <1>9, <3>1 DEF Windows
    <3>3. q >= from /\ opened <= q
      BY <1>1, <1>4, <1>8, <3>1
    <3>4. Ends(last) => q <= last.ts
      BY <3>1
    <3>5. QED
      BY <2>1, <3>1, <3>2, <3>3, <3>4 DEF q
  <2>2. ASSUME NEW p \in Windows, p >= from, (p - H) \div HourS = b,
               opened <= p, Ends(last) => p <= last.ts
        PROVE  p - H \in a .. e
    <3>1. p \in Nat /\ p <= Until
      BY <1>1, <2>2 DEF Windows
    <3>2. start <= p
      BY <1>8, <2>2, <3>1
    <3>3. p <= end
      BY <2>2, <3>1
    <3>4. QED
      BY <1>9, <1>10, <1>11, <3>1, <3>2, <3>3
  <2>3. ASSUME NEW p \in Windows, p >= from, (p - H) \div HourS = b,
               opened <= p, Ends(last) => p <= last.ts
        PROVE  \E x \in a .. e : x \div HourS = b
    BY <2>2, <2>3
  <2>4. QED
    BY <2>1, <2>3 DEF Meets
<1>14. QED
  BY <1>6, <1>7, <1>12, <1>13 DEF a, e, Cells

(* The density grid counts an incident in exactly the hours it was open in,  *)
(* for every window, hour length and life of an incident (hubapi.py,         *)
(* incident_density).                                                        *)
THEOREM DensityCounts == ReadsSpec => []DensityIsTrue
<1>1. RInv => DensityIsTrue
  <2> SUFFICES ASSUME RInv, \A u \in Incidents : Complete(u),
                      NEW from \in Windows, NEW h \in Hosts, NEW b \in Hours(from)
               PROVE  Density(h, b, from) =
                        Cardinality({u \in Loaded(from) : HostOf[u] = h /\ WasOpen(u, b, from)})
    BY DEF DensityIsTrue
  <2>1. {u \in Loaded(from) : HostOf[u] = h /\ b \in Spanned(u, from)} =
          {u \in Loaded(from) : HostOf[u] = h /\ WasOpen(u, b, from)}
    BY SpannedIsOpen DEF Loaded
  <2>2. QED
    BY <2>1 DEF Density
<1>2. QED
  BY <1>1, RInvStep, PTL DEF ReadsSpec

----------------------------------------------------------------------------
(* Spans: one pass over the incidents, by start.                            *)

Stretch == [start : Int, end : Int, members : SUBSET DOMAIN spans]

LEMMA StretchFields ==
  \A r \in Stretch : r = [start |-> r.start, end |-> r.end, members |-> r.members]
BY DEF Stretch

SpanTypes ==
  /\ \A i \in DOMAIN spans : spans[i].start \in Int /\ spans[i].end \in Int
  /\ gap \in Nat /\ todo \subseteq DOMAIN spans
  /\ stretches \in Seq(Stretch)
  /\ counted \in 0 .. Len(stretches) /\ total \in Int

\* A stretch is as long as its members, which hang together and leave no moment of it out.
Tidy(r) ==
  /\ \A i \in r.members : r.start <= spans[i].start /\ spans[i].end <= r.end
  /\ \E i \in r.members : spans[i].start = r.start
  /\ \E i \in r.members : spans[i].end = r.end
  /\ Linked(r.members)
  /\ gap = 0 => Covers(r) = UNION {Covers(spans[i]) : i \in r.members}

\* The stretches share the incidents visited so far among them.
Shared ==
  /\ Seen = UNION {stretches[m].members : m \in DOMAIN stretches}
  /\ \A m, n \in DOMAIN stretches : m # n => stretches[m].members \cap stretches[n].members = {}

\* The loop visits by start and leaves more than the gap between two stretches.
Swept ==
  /\ \A i \in Seen, j \in todo : spans[i].start <= spans[j].start
  /\ \A m \in DOMAIN stretches : Tidy(stretches[m])
  /\ \A m, n \in DOMAIN stretches : m < n => stretches[m].end + gap < stretches[n].start

Summed(n) == UNION {Covers(stretches[m]) : m \in 1 .. n}

Totalled ==
  /\ counted > 0 => todo = {} /\ gap = 0
  /\ IsFiniteSet(Summed(counted)) /\ total = Cardinality(Summed(counted))

PInv == SpanTypes /\ Shared /\ (Forward => Swept /\ Totalled)

Opened(i) == [start |-> spans[i].start, end |-> spans[i].end, members |-> {i}]
Grown(r, i) ==
  [start |-> r.start, end |-> Max({r.end, spans[i].end}), members |-> r.members \cup {i}]

\* What one iteration of the loop does to the list of stretches.
LEMMA LastPosition ==
  \A n \in Nat : n > 0 => n \in 1 .. n /\ \A m \in 1 .. n : m # n => m \in 1 .. n - 1
OBVIOUS

LEMMA JoinedCases ==
  ASSUME SpanTypes, NEW i \in todo
  PROVE  LET out == Joined(stretches, i)
             n == Len(stretches)
         IN /\ out \in Seq(Stretch) /\ n \in Nat /\ DOMAIN out = 1 .. Len(out)
            /\ \/ /\ n > 0 /\ spans[i].start <= stretches[n].end + gap
                  /\ Len(out) = n /\ \A m \in 1 .. n - 1 : out[m] = stretches[m]
                  /\ out[n] = Grown(stretches[n], i)
               \/ /\ n > 0 => spans[i].start > stretches[n].end + gap
                  /\ Len(out) = n + 1 /\ \A m \in 1 .. n : out[m] = stretches[m]
                  /\ out[n + 1] = Opened(i)
<1> DEFINE out == Joined(stretches, i)
           n == Len(stretches)
           s == spans[i]
           x == [Last(stretches) EXCEPT !.end = Max({@, s.end}), !.members = @ \cup {i}]
<1>1. n = Len(stretches) /\ out = Joined(stretches, i)
  OBVIOUS
<1> HIDE DEF n, out
<1>2. /\ stretches \in Seq(Stretch) /\ n \in Nat /\ s.start \in Int /\ s.end \in Int
      /\ gap \in Nat /\ i \in DOMAIN spans
  BY <1>1 DEF SpanTypes
<1>3. Opened(i) \in Stretch
  BY <1>2 DEF Opened, Stretch
<1>4. CASE stretches # <<>> /\ s.start <= Last(stretches).end + gap
  <2>1. n > 0 /\ stretches[n] \in Stretch /\ Last(stretches) = stretches[n]
    <3>1. n > 0 /\ n \in DOMAIN stretches
      BY <1>1, <1>2, <1>4
    <3>2. QED
      BY <1>1, <1>2, <3>1 DEF Last
  <2>2. Max({stretches[n].end, s.end}) \in Int
    BY <1>2, <2>1, PairMax DEF Stretch
  <2>3. x = Grown(stretches[n], i) /\ x \in Stretch
    <3>1. /\ x.start = stretches[n].start
          /\ x.end = Max({stretches[n].end, s.end}) /\ x.members = stretches[n].members \cup {i}
          /\ DOMAIN x = DOMAIN stretches[n] /\ x = [f \in DOMAIN x |-> x[f]]
      BY <2>1 DEF Stretch
    <3>2. DOMAIN x = {"start", "end", "members"}
      BY <2>1, <3>1 DEF Stretch
    <3>3. x = [start |-> x.start, end |-> x.end, members |-> x.members]
      <4>1. x \in Stretch
        BY <1>2, <2>1, <2>2 DEF Stretch
      <4>2. QED
        BY <4>1, StretchFields
    <3>4. QED
      BY <1>2, <2>1, <2>2, <3>1, <3>3 DEF Grown, Stretch
  <2>4. out = Append(Front(stretches), x)
    BY <1>1, <1>4 DEF Joined
  <2>5. /\ Front(stretches) \in Seq(Stretch) /\ Len(Front(stretches)) = n - 1
        /\ \A m \in 1 .. n - 1 : Front(stretches)[m] = stretches[m]
    BY <1>1, <1>2, <2>1 DEF Front
  <2>6. /\ out \in Seq(Stretch) /\ Len(out) = n /\ out[n] = x
        /\ \A m \in 1 .. n - 1 : out[m] = stretches[m]
    BY <1>1, <1>2, <2>1, <2>3, <2>4, <2>5
  <2>7. QED
    BY <1>1, <1>2, <1>4, <2>1, <2>3, <2>6
<1>5. CASE ~(stretches # <<>> /\ s.start <= Last(stretches).end + gap)
  <2>1. out = Append(stretches, Opened(i))
    BY <1>1, <1>5 DEF Joined, Opened
  <2>2. n > 0 => s.start > stretches[n].end + gap
    <3>1. SUFFICES ASSUME n > 0 PROVE s.start > stretches[n].end + gap
      OBVIOUS
    <3>2. stretches[n] \in Stretch /\ stretches # <<>>
      BY <1>1, <1>2, <3>1
    <3>3. QED
      BY <1>1, <1>2, <1>5, <3>2 DEF Last, Stretch
  <2>3. QED
    BY <1>1, <1>2, <1>3, <2>1, <2>2
<1>6. QED
  BY <1>4, <1>5 DEF n, out

LEMMA OpenedIsTidy ==
  ASSUME SpanTypes, NEW i \in DOMAIN spans
  PROVE  Tidy(Opened(i))
<1>1. Linked({i})
  <2>1. \A A \in SUBSET {i} : A = {} \/ A = {i}
    OBVIOUS
  <2>2. QED
    BY <2>1 DEF Linked
<1>2. spans[i].start \in Int /\ spans[i].end \in Int
  BY DEF SpanTypes
<1>3. Opened(i).members = {i} /\ Opened(i).start = spans[i].start /\ Opened(i).end = spans[i].end
  BY DEF Opened
<1>4. Covers(Opened(i)) = Covers(spans[i])
  BY <1>3 DEF Covers
<1>5. UNION {Covers(spans[j]) : j \in {i}} = Covers(spans[i])
  OBVIOUS
<1>6. QED
  BY <1>1, <1>2, <1>3, <1>4, <1>5 DEF Tidy

\* An incident that starts within the gap of a stretch is linked to the member that ends last.
LEMMA GrownIsTidy ==
  ASSUME SpanTypes, Forward, NEW i \in DOMAIN spans, NEW r \in Stretch, Tidy(r),
         \A j \in r.members : spans[j].start <= spans[i].start, spans[i].start <= r.end + gap
  PROVE  Tidy(Grown(r, i))
<1> DEFINE s == spans[i]  g == Grown(r, i)  M == r.members
<1>1. /\ \A j \in M : spans[j].start \in Int /\ spans[j].end \in Int
      /\ s.start \in Int /\ s.end \in Int /\ gap \in Nat /\ r.start \in Int /\ r.end \in Int
      /\ s.start <= s.end /\ M \subseteq DOMAIN spans
      /\ \A j \in M : spans[j].start <= s.start
  BY DEF SpanTypes, Stretch, Forward
<1>2. g.start = r.start /\ g.members = M \cup {i} /\ g.end = Max({r.end, s.end})
  BY DEF Grown
<1>3. g.end \in {r.end, s.end} /\ g.end >= r.end /\ g.end >= s.end
  BY <1>1, <1>2, PairMax
<1>4. PICK j \in M : spans[j].end = r.end
  BY DEF Tidy
<1>5. \A h \in M : r.start <= spans[h].start /\ spans[h].end <= r.end
  BY DEF Tidy
<1>6. r.start <= s.start
  BY <1>1 DEF Tidy
<1>7. \A h \in g.members : g.start <= spans[h].start /\ spans[h].end <= g.end
  BY <1>1, <1>2, <1>3, <1>5, <1>6
<1>8. \E h \in g.members : spans[h].start = g.start
  BY <1>2 DEF Tidy
<1>9. \E h \in g.members : spans[h].end = g.end
  BY <1>2, <1>3, <1>4
<1>10. Linked(g.members)
  <2>1. spans[i].start <= spans[j].end + gap
    BY <1>4
  <2>2. spans[j].start <= s.end + gap
    BY <1>1, <1>4
  <2>3. Near(i, j) /\ Near(j, i)
    BY <2>1, <2>2 DEF Near
  <2>4. ASSUME NEW A \in (SUBSET g.members) \ {{}, g.members}
        PROVE  \E h \in A, k \in g.members \ A : Near(h, k)
    <3>1. CASE A \cap M # {} /\ A \cap M # M
      <4>1. PICK h \in A \cap M, k \in M \ (A \cap M) : Near(h, k)
        BY <3>1 DEF Tidy, Linked
      <4>2. QED
        BY <1>2, <4>1
    <3>2. CASE A \cap M = {}
      <4>1. i \in A /\ j \in g.members \ A
        BY <1>2, <2>4, <3>2
      <4>2. QED
        BY <2>3, <4>1
    <3>3. CASE A \cap M = M
      <4>1. j \in A /\ i \in g.members \ A
        BY <1>2, <2>4, <3>3
      <4>2. QED
        BY <2>3, <4>1
    <3>4. QED
      BY <3>1, <3>2, <3>3
  <2>5. QED
    BY <2>4 DEF Linked
<1>11. ASSUME gap = 0 PROVE Covers(g) = UNION {Covers(spans[h]) : h \in g.members}
  <2>1. Covers(r) = UNION {Covers(spans[h]) : h \in M}
    BY <1>11 DEF Tidy
  <2>2. Covers(g) = Covers(r) \cup Covers(s)
    <3>1. r.start <= s.start /\ s.start <= r.end
      BY <1>1, <1>6, <1>11
    <3>2. \A p \in Int : p \in r.start .. g.end - 1 <=>
                         p \in r.start .. r.end - 1 \/ p \in s.start .. s.end - 1
      BY <1>1, <1>3, <3>1
    <3>3. r.start .. g.end - 1 = (r.start .. r.end - 1) \cup (s.start .. s.end - 1)
      BY <3>2
    <3>4. QED
      BY <1>2, <3>3 DEF Covers
  <2>3. UNION {Covers(spans[h]) : h \in M \cup {i}}
          = (UNION {Covers(spans[h]) : h \in M}) \cup Covers(s)
    <3>1. {Covers(spans[h]) : h \in M \cup {i}} = {Covers(spans[h]) : h \in M} \cup {Covers(s)}
      OBVIOUS
    <3>2. QED
      BY <3>1
  <2>4. QED
    BY <1>2, <2>1, <2>2, <2>3
<1>12. QED
  BY <1>7, <1>8, <1>9, <1>10, <1>11 DEF Tidy

LEMMA SpanStart == SpansInit => PInv
<1>1. SUFFICES ASSUME SpansInit PROVE PInv
  OBVIOUS
<1>2. PICK n \in 0 .. MaxSpans : spans \in [1 .. n -> [start : Moments, end : Moments]]
  BY <1>1 DEF SpansInit, Inputs
<1>3. stretches = <<>> /\ counted = 0 /\ total = 0 /\ todo = DOMAIN spans /\ gap \in {0, WindowS}
  BY <1>1 DEF SpansInit
<1>4. SpanTypes
  <2>1. \A i \in DOMAIN spans : spans[i] \in [start : Moments, end : Moments]
    BY <1>2
  <2>2. stretches \in Seq(Stretch) /\ Len(stretches) = 0
    BY <1>3
  <2>3. gap \in Nat
    BY <1>3, SpansAssumption
  <2>4. \A i \in DOMAIN spans : spans[i].start \in Int /\ spans[i].end \in Int
    <3>1. \A i \in DOMAIN spans : spans[i].start \in Moments /\ spans[i].end \in Moments
      BY <2>1
    <3>2. Moments \subseteq Int
      BY SpansAssumption
    <3>3. QED
      BY <3>1, <3>2
  <2>5. QED
    BY <1>3, <2>2, <2>3, <2>4 DEF SpanTypes
<1>5. Seen = {} /\ DOMAIN stretches = {}
  BY <1>3 DEF Seen
<1>6. Summed(0) = {}
  BY DEF Summed
<1>7. Shared
  BY <1>5 DEF Shared
<1>8. Swept /\ Totalled
  BY <1>3, <1>5, <1>6, FS_EmptySet DEF Swept, Totalled
<1>9. QED
  BY <1>4, <1>7, <1>8 DEF PInv

LEMMA VisitShares ==
  ASSUME SpanTypes, Shared, NEW i \in todo, Visit(i)
  PROVE  SpanTypes' /\ Shared'
<1> DEFINE n == Len(stretches)
<1>1. /\ stretches' = Joined(stretches, i) /\ todo' = todo \ {i} /\ i \in DOMAIN spans
      /\ spans' = spans /\ gap' = gap /\ counted' = counted /\ total' = total
      /\ stretches \in Seq(Stretch)
  BY DEF Visit, SpanTypes
<1>2. /\ stretches' \in Seq(Stretch) /\ n \in Nat /\ Len(stretches') >= n
      /\ DOMAIN stretches' = 1 .. Len(stretches')
  BY <1>1, JoinedCases
<1>3. Stretch' = Stretch
  BY <1>1 DEF Stretch
<1>4. SpanTypes'
  BY <1>1, <1>2, <1>3 DEF SpanTypes
<1>5. Seen' = Seen \cup {i} /\ i \notin Seen
  BY <1>1 DEF Seen, SpanTypes
<1>6. DOMAIN stretches = 1 .. n /\ \A m \in 1 .. n : i \notin stretches[m].members
  BY <1>1, <1>5 DEF Shared
<1>7. PICK h \in 1 .. Len(stretches') :
        /\ stretches'[h].members = (IF h \in 1 .. n THEN stretches[h].members ELSE {}) \cup {i}
        /\ 1 .. Len(stretches') = (1 .. n) \cup {h}
        /\ \A m \in 1 .. n : m # h => stretches'[m] = stretches[m]
  <2>1. CASE n > 0 /\ Len(stretches') = n /\ stretches'[n] = Grown(stretches[n], i)
             /\ \A m \in 1 .. n - 1 : stretches'[m] = stretches[m]
    <3>1. n \in 1 .. n /\ \A m \in 1 .. n : m # n => m \in 1 .. n - 1
      BY <1>2, <2>1, LastPosition
    <3>2. stretches'[n].members = stretches[n].members \cup {i}
      BY <2>1 DEF Grown
    <3>3. QED
      BY <1>2, <2>1, <3>1, <3>2
  <2>2. CASE Len(stretches') = n + 1 /\ stretches'[n + 1] = Opened(i)
             /\ \A m \in 1 .. n : stretches'[m] = stretches[m]
    <3>1. stretches'[n + 1].members = {i}
      BY <2>2 DEF Opened
    <3>2. QED
      BY <1>2, <2>2, <3>1
  <2>3. QED
    BY <1>1, <2>1, <2>2, JoinedCases
<1>8. DOMAIN stretches' = (1 .. n) \cup {h}
  BY <1>2, <1>7
<1>9. Seen' = UNION {stretches'[m].members : m \in DOMAIN stretches'}
  BY <1>5, <1>6, <1>7, <1>8 DEF Shared
<1>10. ASSUME NEW a \in DOMAIN stretches', NEW b \in DOMAIN stretches', a # b
       PROVE  stretches'[a].members \cap stretches'[b].members = {}
  BY <1>6, <1>7, <1>8, <1>10 DEF Shared
<1>11. QED
  BY <1>4, <1>9, <1>10 DEF Shared

LEMMA VisitSweeps ==
  ASSUME SpanTypes, Shared, Swept, Forward, NEW i \in todo, Visit(i)
  PROVE  Swept'
<1> DEFINE n == Len(stretches)
<1>1. /\ stretches' = Joined(stretches, i) /\ todo' = todo \ {i} /\ i \in DOMAIN spans
      /\ spans' = spans /\ gap' = gap /\ gap \in Nat
      /\ stretches \in Seq(Stretch) /\ DOMAIN stretches = 1 .. n
      /\ \A j \in todo : spans[i].start <= spans[j].start
  BY DEF Visit, SpanTypes
<1>2. stretches' \in Seq(Stretch) /\ n \in Nat /\ DOMAIN stretches' = 1 .. Len(stretches')
  BY <1>1, JoinedCases
<1>3. Seen' = Seen \cup {i} /\ i \notin Seen
  BY <1>1 DEF Seen, SpanTypes
<1>4. \A h \in Seen', j \in todo' : spans'[h].start <= spans'[j].start
  BY <1>1, <1>3 DEF Swept
<1>5. \A r : Tidy(r)' <=> Tidy(r)
  BY <1>1 DEF Tidy, Linked, Near, Covers
<1>6. \A m \in 1 .. n : /\ stretches[m] \in Stretch /\ Tidy(stretches[m])
                        /\ stretches[m].members \subseteq Seen
  BY <1>1 DEF Swept, Shared
<1>7. \A m \in 1 .. n : /\ stretches[m].start \in Int /\ stretches[m].end \in Int
                        /\ stretches[m].start <= spans[i].start
                        /\ \A j \in stretches[m].members : spans[j].start <= spans[i].start
  <2>1. SUFFICES ASSUME NEW m \in 1 .. n
                 PROVE  /\ stretches[m].start \in Int /\ stretches[m].end \in Int
                        /\ stretches[m].start <= spans[i].start
                        /\ \A j \in stretches[m].members : spans[j].start <= spans[i].start
    OBVIOUS
  <2>2. \A j \in stretches[m].members : spans[j].start <= spans[i].start
    BY <1>6 DEF Swept
  <2>3. \E j \in stretches[m].members : spans[j].start = stretches[m].start
    BY <1>6 DEF Tidy
  <2>4. QED
    BY <1>6, <2>2, <2>3 DEF Stretch
<1>8. CASE n > 0 /\ Len(stretches') = n /\ stretches'[n] = Grown(stretches[n], i)
           /\ spans[i].start <= stretches[n].end + gap
           /\ \A m \in 1 .. n - 1 : stretches'[m] = stretches[m]
  <2>1. n \in 1 .. n /\ \A m \in 1 .. n : m # n => m \in 1 .. n - 1
    BY <1>2, <1>8, LastPosition
  <2>2. Tidy(Grown(stretches[n], i))
    BY <1>1, <1>6, <1>7, <1>8, <2>1, GrownIsTidy
  <2>3. \A m \in 1 .. n : Tidy(stretches'[m])
    BY <1>6, <1>8, <2>1, <2>2
  <2>4. stretches'[n].start = stretches[n].start
    BY <1>8 DEF Grown
  <2>5. \A a, b \in 1 .. n : a < b => stretches'[a].end + gap < stretches'[b].start
    <3>1. SUFFICES ASSUME NEW a \in 1 .. n, NEW b \in 1 .. n, a < b
                   PROVE  stretches'[a].end + gap < stretches'[b].start
      OBVIOUS
    <3>2. a # n /\ stretches'[a] = stretches[a] /\ stretches'[b].start = stretches[b].start
      BY <1>8, <2>1, <2>4, <3>1
    <3>3. QED
      BY <1>1, <3>1, <3>2 DEF Swept
  <2>6. QED
    BY <1>1, <1>2, <1>4, <1>5, <1>8, <2>3, <2>5 DEF Swept
<1>9. CASE Len(stretches') = n + 1 /\ stretches'[n + 1] = Opened(i)
           /\ (n > 0 => spans[i].start > stretches[n].end + gap)
           /\ \A m \in 1 .. n : stretches'[m] = stretches[m]
  <2>1. Tidy(Opened(i))
    BY <1>1, OpenedIsTidy
  <2>2. \A m \in 1 .. n + 1 : m = n + 1 \/ m \in 1 .. n
    BY <1>2
  <2>3. \A m \in 1 .. n + 1 : Tidy(stretches'[m])
    BY <1>6, <1>9, <2>1, <2>2
  <2>4. \A a, b \in 1 .. n + 1 : a < b => stretches'[a].end + gap < stretches'[b].start
    <3>1. SUFFICES ASSUME NEW a \in 1 .. n + 1, NEW b \in 1 .. n + 1, a < b
                   PROVE  stretches'[a].end + gap < stretches'[b].start
      OBVIOUS
    <3>2. a \in 1 .. n /\ stretches'[a] = stretches[a]
      BY <1>2, <1>9, <3>1
    <3>3. CASE b \in 1 .. n
      BY <1>1, <1>9, <3>1, <3>2, <3>3 DEF Swept
    <3>4. CASE b = n + 1
      <4>1. n > 0 /\ n \in 1 .. n /\ stretches'[b].start = spans[i].start
        BY <1>2, <1>9, <3>2, <3>4 DEF Opened
      <4>2. CASE a = n
        BY <1>7, <1>9, <3>2, <4>1, <4>2, <1>1
      <4>3. CASE a < n
        <5>1. stretches[a].end + gap < stretches[n].start
          BY <1>1, <3>2, <4>1, <4>3 DEF Swept
        <5>2. stretches[n].start <= spans[i].start /\ spans[i].start \in Int
          BY <1>1, <1>7, <4>1 DEF SpanTypes
        <5>3. QED
          BY <1>1, <1>7, <3>2, <4>1, <5>1, <5>2
      <4>4. QED
        BY <1>2, <3>2, <4>2, <4>3
    <3>5. QED
      BY <2>2, <3>3, <3>4
  <2>5. QED
    BY <1>1, <1>2, <1>4, <1>5, <1>9, <2>3, <2>4 DEF Swept
<1>10. QED
  BY <1>1, <1>8, <1>9, JoinedCases

\* One stretch more is added up: it shares no moment with those before it.
LEMMA AddUpTotals ==
  ASSUME SpanTypes, Forward, Swept, Totalled, AddUp
  PROVE  Swept' /\ Totalled'
<1> DEFINE c == counted + 1
           r == stretches[c]
<1>1. /\ counted' = c /\ total' = total + r.end - r.start /\ todo = {} /\ gap = 0
      /\ spans' = spans /\ gap' = gap /\ todo' = todo /\ stretches' = stretches
      /\ counted \in Nat /\ c \in 1 .. Len(stretches) /\ total \in Int
      /\ stretches \in Seq(Stretch) /\ DOMAIN stretches = 1 .. Len(stretches)
  BY DEF AddUp, SpanTypes
<1>2. r.start \in Int /\ r.end \in Int /\ r.start <= r.end
  <2>1. r \in Stretch /\ Tidy(r)
    BY <1>1 DEF Swept
  <2>2. PICK i \in r.members : spans[i].start = r.start
    BY <2>1 DEF Tidy
  <2>3. spans[i].end <= r.end
    BY <2>1, <2>2 DEF Tidy
  <2>4. r.start \in Int /\ r.end \in Int /\ i \in DOMAIN spans
    BY <2>1 DEF Stretch
  <2>5. spans[i].start <= spans[i].end /\ spans[i].end \in Int
    BY <2>4 DEF Forward, SpanTypes
  <2>6. QED
    BY <2>2, <2>3, <2>4, <2>5
<1>3. Swept'
  <2>1. \A s : Tidy(s)' <=> Tidy(s)
    BY <1>1 DEF Tidy, Linked, Near, Covers
  <2>2. QED
    BY <1>1, <2>1 DEF Swept, Seen
<1>4. Summed(c) = Summed(counted) \cup Covers(r)
  <2>1. 1 .. c = (1 .. counted) \cup {c}
    BY <1>1
  <2>2. {Covers(stretches[m]) : m \in 1 .. c}
          = {Covers(stretches[m]) : m \in 1 .. counted} \cup {Covers(r)}
    BY <2>1
  <2>3. QED
    BY <2>2 DEF Summed
<1>5. Summed(counted) \cap Covers(r) = {}
  <2>1. SUFFICES ASSUME NEW m \in 1 .. counted, NEW p \in Covers(stretches[m]) PROVE p \notin Covers(r)
    BY DEF Summed
  <2>2. m \in DOMAIN stretches /\ c \in DOMAIN stretches /\ m < c
    BY <1>1
  <2>3. stretches[m].end < r.start /\ stretches[m] \in Stretch
    <3>1. stretches[m].end + gap < r.start
      BY <2>2 DEF Swept
    <3>2. stretches[m].end \in Int /\ stretches[m] \in Stretch
      <4>1. stretches[m] \in Stretch
        BY <1>1, <2>2
      <4>2. QED
        BY <4>1 DEF Stretch
    <3>3. QED
      BY <1>1, <3>1, <3>2
  <2>4. stretches[m].end \in Int /\ stretches[m].start \in Int
    BY <2>3 DEF Stretch
  <2>5. QED
    BY <1>2, <2>1, <2>3, <2>4 DEF Covers
<1>6. IsFiniteSet(Covers(r)) /\ Cardinality(Covers(r)) = r.end - r.start
  <2>1. Covers(r) = r.start .. r.end - 1 /\ r.end - 1 \in Int
    BY <1>2 DEF Covers
  <2>2. /\ IsFiniteSet(r.start .. r.end - 1)
        /\ Cardinality(r.start .. r.end - 1)
             = IF r.start > r.end - 1 THEN 0 ELSE r.end - 1 - r.start + 1
    BY <1>2, <2>1, FS_Interval
  <2>3. QED
    BY <1>2, <2>1, <2>2
<1>7. Summed(counted)' = Summed(c)
  <2>1. (1 .. counted)' = 1 .. c
    BY <1>1
  <2>2. \A m : Covers(stretches[m])' = Covers(stretches[m])
    BY <1>1 DEF Covers
  <2>3. QED
    BY <2>1, <2>2 DEF Summed
<1>8. IsFiniteSet(Summed(c)) /\ Cardinality(Summed(c)) = total + (r.end - r.start)
  <2>1. /\ IsFiniteSet(Summed(counted)) /\ total = Cardinality(Summed(counted))
    BY DEF Totalled
  <2>2. Cardinality({}) = 0
    BY FS_EmptySet
  <2>3. QED
    <3>1. /\ IsFiniteSet(Summed(counted) \cup Covers(r))
          /\ Cardinality(Summed(counted) \cup Covers(r))
               = Cardinality(Summed(counted)) + Cardinality(Covers(r)) - Cardinality({})
      BY <1>5, <1>6, <2>1, FS_Union
    <3>2. /\ IsFiniteSet(Summed(c))
          /\ Cardinality(Summed(c)) = total + (r.end - r.start) - 0
      BY <1>4, <1>6, <2>1, <2>2, <3>1, Zenon
    <3>3. QED
      BY <1>1, <1>2, <3>2
<1>9. Totalled'
  BY <1>1, <1>2, <1>7, <1>8 DEF Totalled
<1>10. QED
  BY <1>3, <1>9

LEMMA SpanStep == PInv /\ [SpansNext]_pvars => PInv'
<1> SUFFICES ASSUME PInv, [SpansNext]_pvars PROVE PInv'
  OBVIOUS
<1>1. ASSUME NEW i \in todo, Visit(i) PROVE PInv'
  <2>1. SpanTypes' /\ Shared'
    BY <1>1, VisitShares DEF PInv
  <2>2. spans' = spans /\ counted' = counted /\ total' = total /\ todo # {}
    BY <1>1 DEF Visit
  <2>3. Forward' <=> Forward
    BY <2>2 DEF Forward
  <2>4. ASSUME Forward PROVE Swept' /\ Totalled'
    <3>1. Swept'
      BY <1>1, <2>4, VisitSweeps DEF PInv
    <3>2. counted = 0
      BY <2>2, <2>4 DEF PInv, Totalled, SpanTypes
    <3>3. Summed(0) = {} /\ Summed(0)' = {}
      BY DEF Summed
    <3>4. QED
      BY <2>2, <2>4, <3>1, <3>2, <3>3 DEF PInv, Totalled
  <2>5. QED
    BY <2>1, <2>3, <2>4 DEF PInv
<1>2. CASE AddUp
  <2>1. spans' = spans /\ todo' = todo /\ stretches' = stretches
    BY <1>2 DEF AddUp
  <2>2. Forward' <=> Forward
    BY <2>1 DEF Forward
  <2>3. Shared'
    BY <2>1 DEF PInv, Shared, Seen
  <2>4. SpanTypes'
    <3>1. Stretch' = Stretch
      BY <2>1 DEF Stretch
    <3>2. /\ gap' = gap /\ counted' = counted + 1 /\ counted < Len(stretches)
          /\ total' = total + stretches[counted + 1].end - stretches[counted + 1].start
      BY <1>2 DEF AddUp
    <3>3. counted + 1 \in DOMAIN stretches /\ counted' \in 0 .. Len(stretches)
      BY <3>2 DEF PInv, SpanTypes
    <3>4. stretches[counted + 1] \in Stretch /\ total \in Int
      BY <3>3 DEF PInv, SpanTypes
    <3>5. stretches[counted + 1].end \in Int /\ stretches[counted + 1].start \in Int
      BY <3>4 DEF Stretch
    <3>6. total' \in Int
      BY <3>2, <3>4, <3>5
    <3>7. QED
      BY <2>1, <3>1, <3>2, <3>3, <3>6 DEF PInv, SpanTypes
  <2>5. QED
    BY <1>2, <2>2, <2>3, <2>4, AddUpTotals DEF PInv
<1>3. CASE UNCHANGED pvars
  <2>1. UNCHANGED <<SpanTypes, Shared, Forward, Swept, Totalled>>
    BY <1>3 DEF pvars, SpanTypes, Stretch, Shared, Seen, Forward, Swept, Tidy, Linked, Near, Covers,
       Totalled, Summed
  <2>2. QED
    BY <2>1 DEF PInv
<1>4. QED
  BY <1>1, <1>2, <1>3 DEF SpansNext

\* What the invariant says of the finished loop and of every state on the way.
LEMMA SpansAreClusters == PInv => ClustersAreComponents
<1> SUFFICES ASSUME PInv PROVE ClustersAreComponents
  OBVIOUS
<1>1. stretches \in Seq(Stretch) /\ DOMAIN stretches = 1 .. Len(stretches) /\ gap \in Nat
  BY DEF PInv, SpanTypes
<1>2. ASSUME Forward, NEW m \in DOMAIN stretches PROVE Linked(stretches[m].members)
  BY <1>2 DEF PInv, Swept, Tidy
<1>3. ASSUME Forward, NEW m \in DOMAIN stretches, NEW n \in DOMAIN stretches, m < n,
             NEW i \in stretches[m].members, NEW j \in stretches[n].members
      PROVE  ~Near(i, j) /\ ~Near(j, i)
  <2>1. stretches[m].end + gap < stretches[n].start
    BY <1>3 DEF PInv, Swept
  <2>2. spans[i].end <= stretches[m].end /\ stretches[n].start <= spans[j].start
    BY <1>3 DEF PInv, Swept, Tidy
  <2>3. /\ stretches[m] \in Stretch /\ stretches[n] \in Stretch
        /\ i \in DOMAIN spans /\ j \in DOMAIN spans
    <3>1. stretches[m] \in Stretch /\ stretches[n] \in Stretch
      BY <1>1, <1>3
    <3>2. QED
      BY <1>3, <3>1 DEF Stretch
  <2>4. spans[i].end \in Int /\ spans[j].start \in Int
    BY <2>3 DEF PInv, SpanTypes
  <2>5. QED
    BY <1>1, <2>1, <2>2, <2>3, <2>4 DEF Near, Stretch
<1>4. ASSUME Forward, todo = {}, gap = 0, counted = Len(stretches)
      PROVE  total = Cardinality(Covered)
  <2>1. Summed(counted) = Covered
    <3>1. \A m \in DOMAIN stretches :
             Covers(stretches[m]) = UNION {Covers(spans[i]) : i \in stretches[m].members}
      BY <1>4 DEF PInv, Swept, Tidy
    <3>2. Seen = UNION {stretches[m].members : m \in DOMAIN stretches}
      BY DEF PInv, Shared
    <3>3. \A p : p \in Summed(counted) <=> \E m \in DOMAIN stretches : p \in Covers(stretches[m])
      BY <1>1, <1>4 DEF Summed
    <3>4. \A p : p \in Covered <=> \E i \in Seen : p \in Covers(spans[i])
      BY DEF Covered
    <3>5. QED
      <4>1. \A p : (\E m \in DOMAIN stretches : p \in Covers(stretches[m]))
                      <=> \E m \in DOMAIN stretches : \E i \in stretches[m].members :
                             p \in Covers(spans[i])
        BY <3>1
      <4>2. \A p : (\E i \in Seen : p \in Covers(spans[i]))
                      <=> \E m \in DOMAIN stretches : \E i \in stretches[m].members :
                             p \in Covers(spans[i])
        BY <3>2
      <4>3. QED
        BY <3>3, <3>4, <4>1, <4>2
  <2>2. QED
    BY <1>4, <2>1 DEF PInv, Totalled
<1>5. ASSUME NEW m \in DOMAIN stretches, NEW n \in DOMAIN stretches, m # n
      PROVE  m < n \/ n < m
  BY <1>1, <1>5
<1>6. QED
  BY <1>2, <1>3, <1>4, <1>5 DEF PInv, Shared, ClustersAreComponents

(* Whatever incidents there are and in whatever order they were read, the   *)
(* pass of analyze.correlate_incidents and analyze.merge_spans hides and    *)
(* repeats none, its groups are the components of nearness, and the time    *)
(* in incident of report.digest counts every moment once.                   *)
THEOREM SpansAreMerged == SpansSpec => []ClustersAreComponents
<1>1. SpansInit => PInv
  BY SpanStart
<1>2. PInv /\ [SpansNext]_pvars => PInv'
  BY SpanStep
<1>3. PInv => ClustersAreComponents
  BY SpansAreClusters
<1>4. QED
  BY <1>1, <1>2, <1>3, PTL DEF SpansSpec

=============================================================================
