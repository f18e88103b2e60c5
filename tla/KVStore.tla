------------------------------- MODULE KVStore --------------------------------
(***************************************************************************)
(* Class KVStore (src/core/kv_store.cpp): a map whose entries may carry an *)
(* expiry instant, two counters, and a min-heap of expiration records that *)
(* is allowed to hold stale ones.  Every public operation runs under       *)
(* m_mutex and samples the clock inside it, so each one is one action.     *)
(*                                                                         *)
(* m_expirations is a set: a record carries a generation that no other     *)
(* record ever pushed carries, so a priority_queue never holds two equal   *)
(* ones.  ExpirationCompare orders by expireAt alone; which of several     *)
(* records due at the same instant is popped first is left open.           *)
(***************************************************************************)
EXTENDS StoreReplies, FiniteSets, Functions

CONSTANTS
    Seconds,            \* the arguments EXPIRE is called with
    TicksPerSecond,     \* clock ticks in one second
    NoExpiry,           \* the empty optional<TimePoint>
    SweepBatches,       \* the values of maxRecordsToProcess (1024 by default)
    MinHeapRecords,     \* MIN_HEAP_RECORDS_FOR_REBUILD
    MinStaleRecords,    \* MIN_STALE_RECORDS_FOR_REBUILD
    MaxClock,           \* bound: the clock stops here
    MaxGeneration,      \* bound: this many EXPIREs succeed
    MaxOverwrites       \* bound: SETs take a persistent key's generation at most
                        \* this far beyond the counter of EXPIRE

ASSUME KVStoreAssumption ==
    /\ IsFiniteSet(Keys)
    /\ Seconds \subseteq Int
    /\ TicksPerSecond \in Nat \ {0}
    /\ NoExpiry \notin Int
    /\ SweepBatches \subseteq Nat \ {0}
    /\ MinHeapRecords \in Nat
    /\ MinStaleRecords \in Nat \ {0}
    /\ MaxClock \in Nat
    /\ MaxGeneration \in Nat
    /\ MaxOverwrites \in Nat \ {0}

VARIABLES
    m_data,                       \* key |-> Entry
    m_expirations,                \* the set of ExpirationRecords in the heap
    m_nextExpirationGeneration,
    m_persistentKeys,
    m_expiringKeys,
    clock,                        \* steady_clock, in ticks
    ret                           \* what the latest operation returned

vars == <<m_data, m_expirations, m_nextExpirationGeneration,
          m_persistentKeys, m_expiringKeys, clock, ret>>

Entry == [value : Values, expireAt : Nat \cup {NoExpiry}, generation : Nat]

ExpirationRecord == [expireAt : Nat, key : Keys, generation : Nat]

\* The map with k bound to e (operator[] and emplace of unordered_map).
With(f, k, e) == [x \in DOMAIN f \cup {k} |-> IF x = k THEN e ELSE f[x]]

HasExpiry(entry) == entry.expireAt # NoExpiry

IsExpired(entry, now) == HasExpiry(entry) /\ now >= entry.expireAt

Found(k) == k \in DOMAIN m_data

\* The number of keys in S whose entry has an expiry instant.
ExpiringIn(S) == Cardinality({k \in S : HasExpiry(m_data[k])})

\* The number of keys in S whose entry has none.
PersistentIn(S) == Cardinality({k \in S : ~HasExpiry(m_data[k])})

\* Mutant: the entries go, the counters stay.
EraseWithoutCounting(S) ==
    /\ m_data' = Restrict(m_data, DOMAIN m_data \ S)
    /\ UNCHANGED <<m_persistentKeys, m_expiringKeys>>

\* EraseEntryLocked, for each key of S.
EraseEntries(S) ==
    /\ m_data' = Restrict(m_data, DOMAIN m_data \ S)
    /\ m_expiringKeys' = m_expiringKeys - ExpiringIn(S)
    /\ m_persistentKeys' = m_persistentKeys - PersistentIn(S)

KeepData == UNCHANGED <<m_data, m_persistentKeys, m_expiringKeys>>

KeepHeap == UNCHANGED <<m_expirations, m_nextExpirationGeneration>>

(***************************************************************************)
(* The client operations.                                                  *)
(***************************************************************************)
FreshEntry(v) == [value |-> v, expireAt |-> NoExpiry, generation |-> 0]

Overwrite(e, v) ==
    [value |-> v, expireAt |-> NoExpiry, generation |-> e.generation + 1]

Set(k, v) ==
    /\ \/ /\ ~Found(k)
          /\ m_data' = With(m_data, k, FreshEntry(v))
          /\ m_persistentKeys' = m_persistentKeys + 1
          /\ UNCHANGED m_expiringKeys
       \/ /\ Found(k)
          /\ m_data[k].generation < m_nextExpirationGeneration + MaxOverwrites
          /\ m_data' = With(m_data, k, Overwrite(m_data[k], v))
          /\ m_expiringKeys' = m_expiringKeys - ExpiringIn({k})
          /\ m_persistentKeys' = m_persistentKeys + ExpiringIn({k})
    /\ ret' = SetReply(k)
    /\ KeepHeap
    /\ UNCHANGED clock

\* What Get, Del, Expire and Ttl do first: find the key and lazily erase an
\* expired entry.  reply is what the caller then gets.
Miss(k, reply) ==
    /\ ~Found(k)
    /\ ret' = reply
    /\ KeepData /\ KeepHeap
    /\ UNCHANGED clock

LazyErase(k, reply) ==
    /\ Found(k)
    /\ IsExpired(m_data[k], clock)
    /\ EraseEntries({k})
    /\ ret' = reply
    /\ KeepHeap
    /\ UNCHANGED clock

Live(k) == Found(k) /\ ~IsExpired(m_data[k], clock)

Get(k) ==
    \/ Miss(k, GetReply(k, FALSE, Nil))
    \/ LazyErase(k, GetReply(k, FALSE, Nil))
    \/ /\ Live(k)
       /\ ret' = GetReply(k, TRUE, m_data[k].value)
       /\ KeepData /\ KeepHeap
       /\ UNCHANGED clock

Del(k) ==
    \/ Miss(k, DelReply(k, FALSE))
    \/ LazyErase(k, DelReply(k, FALSE))
    \/ /\ Live(k)
       /\ EraseEntries({k})
       /\ ret' = DelReply(k, TRUE)
       /\ KeepHeap
       /\ UNCHANGED clock

ExpireIllegal(k, s) ==
    /\ s <= 0
    /\ ret' = ExpireReply(k, FALSE)
    /\ KeepData /\ KeepHeap
    /\ UNCHANGED clock

NextGeneration(k) == m_nextExpirationGeneration + 1

ExpireLive(k, s) ==
    LET expireAt   == clock + s * TicksPerSecond
        generation == NextGeneration(k)
    IN  /\ s > 0
        /\ Live(k)
        /\ m_nextExpirationGeneration < MaxGeneration
        /\ m_data' = With(m_data, k, [value |-> m_data[k].value,
                                      expireAt |-> expireAt,
                                      generation |-> generation])
        /\ m_persistentKeys' = m_persistentKeys - PersistentIn({k})
        /\ m_expiringKeys' = m_expiringKeys + PersistentIn({k})
        /\ m_nextExpirationGeneration' = generation
        /\ m_expirations' = m_expirations \cup
              {[expireAt |-> expireAt, key |-> k, generation |-> generation]}
        /\ ret' = ExpireReply(k, TRUE)
        /\ UNCHANGED clock

Expire(k, s) ==
    \/ ExpireIllegal(k, s)
    \/ s > 0 /\ Miss(k, ExpireReply(k, FALSE))
    \/ s > 0 /\ LazyErase(k, ExpireReply(k, FALSE))
    \/ ExpireLive(k, s)

\* chrono::ceil<seconds>
CeilSeconds(ticks) == (ticks + TicksPerSecond - 1) \div TicksPerSecond

Ttl(k) ==
    \/ Miss(k, TtlReply(k, -2))
    \/ LazyErase(k, TtlReply(k, -2))
    \/ /\ Live(k)
       /\ ret' = TtlReply(k, IF HasExpiry(m_data[k])
                             THEN CeilSeconds(m_data[k].expireAt - clock)
                             ELSE -1)
       /\ KeepData /\ KeepHeap
       /\ UNCHANGED clock

\* Size and Stats.
Stats ==
    /\ ret' = StatsReply(m_persistentKeys, m_expiringKeys)
    /\ KeepData /\ KeepHeap
    /\ UNCHANGED clock

(***************************************************************************)
(* The sweep.                                                              *)
(***************************************************************************)
\* Mutant: a record is due only after its instant.
DueLate(heap, now) == {r \in heap : r.expireAt < now}

Due(heap, now) == {r \in heap : r.expireAt <= now}

\* Mutant: any record left counts, whatever its instant.
RecordsLeft(heap, now) == heap # {}

HasMoreExpired(heap, now) == Due(heap, now) # {}

\* One run of the pop loop: the batch is as large as the limit and the due
\* records allow, and nothing left behind is older than what was popped.
IsPopped(batch, limit) ==
    LET due == Due(m_expirations, clock)
    IN  /\ batch \subseteq due
        /\ Cardinality(batch) <= limit
        /\ batch = due \/ Cardinality(batch) = limit
        /\ \A r \in batch, q \in due \ batch : r.expireAt <= q.expireAt

\* Mutant: any record of a key that can expire erases it.
CurrentForAnyGeneration(r) == Found(r.key) /\ HasExpiry(m_data[r.key])

\* The four tests a popped record must pass before its key is erased.
Current(r) ==
    /\ Found(r.key)
    /\ m_data[r.key].generation = r.generation
    /\ HasExpiry(m_data[r.key])
    /\ m_data[r.key].expireAt = r.expireAt

\* Mutant: the early return for a small heap comes before the test for an
\* empty store.
ShouldRebuildLargeOnly(heap, expiring) ==
    LET stale == Cardinality(heap) - expiring
    IN  /\ Cardinality(heap) >= MinHeapRecords
        /\ stale >= MinStaleRecords
        /\ stale >= expiring

ShouldRebuildExpirationHeap(heap, expiring) ==
    LET heapSize == Cardinality(heap)
        stale    == heapSize - expiring
    IN  /\ heapSize # 0
        /\ \/ expiring = 0
           \/ /\ heapSize >= MinHeapRecords
              /\ stale >= MinStaleRecords
              /\ stale >= expiring

\* Mutant: the rebuilt records carry the default generation.
RebuiltWithoutGenerations(data) ==
    {[expireAt |-> data[k].expireAt, key |-> k, generation |-> 0] :
        k \in {x \in DOMAIN data : HasExpiry(data[x])}}

\* Mutant: the new heap is swapped in empty.
RebuiltEmpty(data) == {}

\* RebuildExpirationHeapLocked: one record per entry that can expire.
RebuiltHeap(data) ==
    {[expireAt |-> data[k].expireAt, key |-> k,
      generation |-> data[k].generation] :
        k \in {x \in DOMAIN data : HasExpiry(data[x])}}

SweepExpired(limit) ==
    \E batch \in SUBSET Due(m_expirations, clock) :
       /\ IsPopped(batch, limit)
       /\ LET removed == {r.key : r \in {q \in batch : Current(q)}}
              left    == m_expirations \ batch
          IN  /\ EraseEntries(removed)
              /\ LET rebuild == ShouldRebuildExpirationHeap(left, m_expiringKeys')
                     heap    == IF rebuild THEN RebuiltHeap(m_data') ELSE left
                 IN  /\ m_expirations' = heap
                     /\ ret' = SweepReply(Cardinality(batch), Cardinality(removed),
                                          HasMoreExpired(heap, clock), rebuild)
       /\ UNCHANGED <<m_nextExpirationGeneration, clock>>

Tick ==
    /\ clock < MaxClock
    /\ clock' = clock + 1
    /\ KeepData /\ KeepHeap
    /\ UNCHANGED ret

Init ==
    /\ m_data = [k \in {} |-> Nil]
    /\ m_expirations = {}
    /\ m_nextExpirationGeneration = 0
    /\ m_persistentKeys = 0
    /\ m_expiringKeys = 0
    /\ clock = 0
    /\ ret = NoReply

ClientOp ==
    \/ \E k \in Keys :
          \/ \E v \in Values : Set(k, v)
          \/ Get(k)
          \/ Del(k)
          \/ \E s \in Seconds : Expire(k, s)
          \/ Ttl(k)
    \/ Stats

Sweep == \E limit \in SweepBatches : SweepExpired(limit)

Next ==
    \/ ClientOp
    \/ Sweep
    \/ Tick

Spec == Init /\ [][Next]_vars

-----------------------------------------------------------------------------
(***************************************************************************)
(* Properties.                                                             *)
(***************************************************************************)
\* Types; in particular the two size_t counters never go below zero (the
\* assertions at kv_store.cpp:23, 26 and 153 and the bare decrement at 86).
TypeOK ==
    /\ DOMAIN m_data \subseteq Keys
    /\ m_data \in [DOMAIN m_data -> Entry]
    /\ m_expirations \subseteq ExpirationRecord
    /\ m_nextExpirationGeneration \in Nat
    /\ m_persistentKeys \in Nat
    /\ m_expiringKeys \in Nat
    /\ clock \in Nat
    /\ ret \in Replies

\* The O(1) counters Size and Stats report equal the number of entries of
\* each kind in m_data, through every overwrite, lazy deletion and sweep.
CountersMatch ==
    /\ m_persistentKeys = PersistentIn(DOMAIN m_data)
    /\ m_expiringKeys = ExpiringIn(DOMAIN m_data)

\* No entry with a time to live is forgotten: its own record, with its very
\* instant and generation, waits in the heap until the entry changes.  (It is
\* what lets the sweeper find keys by the heap alone.)
HeapCoversExpiring ==
    \A k \in DOMAIN m_data :
        HasExpiry(m_data[k]) =>
            [expireAt |-> m_data[k].expireAt, key |-> k,
             generation |-> m_data[k].generation] \in m_expirations

\* A generation identifies one EXPIRE: no two records share one, and none is
\* ahead of the counter the next one is drawn from.  So a stale record can
\* never pass for the current one of a key deleted and created again.
GenerationsUnique ==
    /\ \A r, q \in m_expirations : r.generation = q.generation => r = q
    /\ \A r \in m_expirations : r.generation <= m_nextExpirationGeneration

\* assert(heapSize >= m_expiringKeys), kv_store.cpp:241: the subtraction of
\* the two size_t that follows it cannot wrap.
HeapAtLeastExpiring == Cardinality(m_expirations) >= m_expiringKeys

\* The two counters from which Size and Stats answer without a look at the table
\* never go below zero and count its entries with and without an expiry instant.
CountersRight == TypeOK /\ CountersMatch

\* m_expirations never loses an expiring entry and never confuses two lives of a
\* key: each expiring entry has its record, no two records share a generation, and
\* the subtraction in ShouldRebuildExpirationHeap does not wrap.
HeapConsistent == HeapCoversExpiring /\ GenerationsUnique /\ HeapAtLeastExpiring

\* A step of SweepExpired, recognised by its report: every other operation
\* leaves a report of its own, and only Tick moves the clock.
SweepReported == ret'.op = "sweep" /\ UNCHANGED clock

\* When a sweep reports that nothing more is due, no expired entry is left in
\* m_data: the sweeper thread may sleep for a whole interval.
SweepDoneMeansClean ==
    [][(SweepReported /\ ~ret'.hasMoreExpired) =>
          \A k \in DOMAIN m_data' : ~IsExpired(m_data'[k], clock)]_vars

\* A sweep leaves the heap small: empty when no key can expire, and otherwise
\* below the first threshold or with few stale records in it.
SweepBoundsHeap ==
    [][SweepReported =>
          LET size  == Cardinality(m_expirations')
              stale == size - m_expiringKeys'
          IN  /\ m_expiringKeys' = 0 => size = 0
              /\ \/ size < MinHeapRecords
                 \/ stale < MinStaleRecords
                 \/ stale < m_expiringKeys']_vars

\* The live part of the store, as a caller sees it.
LiveView ==
    [k \in {x \in DOMAIN m_data : ~IsExpired(m_data[x], clock)} |->
        [value |-> m_data[k].value, expireAt |-> m_data[k].expireAt]]

Abstract == INSTANCE TTLMap WITH map <- LiveView

\* The store implements the abstract map with times to live: every answer is
\* the one the map gives, lazily deleted, stale and rebuilt state is never
\* visible, and a sweep never takes a key that is still alive.
RefinesTTLMap == Abstract!Spec

\* What kv_store.h:102 and :109 say of Size and Stats: they report the number
\* of currently valid keys.
SizeCountsValidKeys ==
    [][Stats => ret'.keys = Cardinality(DOMAIN LiveView)]_vars

=============================================================================
