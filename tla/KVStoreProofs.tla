---------------------------- MODULE KVStoreProofs -----------------------------
(***************************************************************************)
(* Theorems about KVStore, alone and under the sweeper thread, for every   *)
(* value of its constants.                                                 *)
(***************************************************************************)
EXTENDS SweptStore, FiniteSetTheorems, TLAPS

\* The replies are built with the types of StoreReplies.
LEMMA ReplyTypes ==
    ASSUME NEW k \in Keys, NEW ok \in BOOLEAN, NEW v \in Values \cup {Nil},
           NEW secs \in Int, NEW m \in Nat, NEW n \in Nat,
           NEW more \in BOOLEAN, NEW rebuilt \in BOOLEAN
    PROVE  /\ NoReply \in Replies
           /\ SetReply(k) \in Replies
           /\ GetReply(k, ok, v) \in Replies
           /\ DelReply(k, ok) \in Replies
           /\ ExpireReply(k, ok) \in Replies
           /\ TtlReply(k, secs) \in Replies
           /\ StatsReply(m, n) \in Replies
           /\ SweepReply(m, n, more, rebuilt) \in Replies
<1>1. NoReply \in Replies
  BY DEF NoReply, Replies
<1>2. SetReply(k) \in Replies
  BY DEF SetReply, Replies
<1>3. GetReply(k, ok, v) \in Replies
  BY DEF GetReply, Replies
<1>4. DelReply(k, ok) \in Replies
  BY DEF DelReply, Replies
<1>5. ExpireReply(k, ok) \in Replies
  BY DEF ExpireReply, Replies
<1>6. TtlReply(k, secs) \in Replies
  BY DEF TtlReply, Replies
<1>7. StatsReply(m, n) \in Replies
  <2>1. m + n \in Nat
    OBVIOUS
  <2>2. QED
    BY <2>1 DEF StatsReply, Replies
<1>8. SweepReply(m, n, more, rebuilt) \in Replies
  BY DEF SweepReply, Replies
<1>9. QED
  BY <1>1, <1>2, <1>3, <1>4, <1>5, <1>6, <1>7, <1>8

-----------------------------------------------------------------------------
\* The inductive invariant.  TypeOK alone is not inductive: that a counter
\* stays a natural number needs to know what it counts, and that a rebuild
\* keeps generations unique needs to know that every record it creates was
\* in the heap already.
IInv ==
    /\ TypeOK
    /\ CountersMatch
    /\ HeapCoversExpiring
    /\ GenerationsUnique
    /\ IsFiniteSet(m_expirations)

\* Removing part of a finite set subtracts its size.
LEMMA CardinalityOfRest ==
    ASSUME NEW A, IsFiniteSet(A), NEW B, B \subseteq A, NEW C, C = A \ B
    PROVE  Cardinality(C) = Cardinality(A) - Cardinality(B)
<1>1. A \cap B = B
  OBVIOUS
<1>2. Cardinality(A \ B) = Cardinality(A) - Cardinality(A \cap B)
  BY FS_Difference
<1>3. Cardinality(A \ B) = Cardinality(A) - Cardinality(B)
  BY <1>1, <1>2, Zenon
<1>4. QED
  BY <1>3, Zenon

\* Every set of stored keys is finite, because Keys is.
LEMMA StoredFinite ==
    ASSUME TypeOK, NEW S \in SUBSET DOMAIN m_data
    PROVE  IsFiniteSet(S) /\ Cardinality(S) \in Nat
<1>1. IsFiniteSet(Keys) /\ S \in SUBSET Keys
  BY KVStoreAssumption DEF TypeOK
<1>2. IsFiniteSet(S)
  BY <1>1, FS_Subset
<1>3. QED
  BY <1>2, FS_CardinalityType

\* Erasing a set of stored keys keeps the counters exact and the map typed
\* (EraseEntryLocked, kv_store.cpp:20).
LEMMA EraseKeepsCounters ==
    ASSUME TypeOK, CountersMatch, NEW S \in SUBSET DOMAIN m_data,
           EraseEntries(S)
    PROVE  /\ DOMAIN m_data' = DOMAIN m_data \ S
           /\ \A k \in DOMAIN m_data' : m_data'[k] = m_data[k]
           /\ m_data' \in [DOMAIN m_data' -> Entry]
           /\ CountersMatch'
           /\ m_persistentKeys' \in Nat
           /\ m_expiringKeys' \in Nat
<1> DEFINE E == {k \in DOMAIN m_data : HasExpiry(m_data[k])}
           P == {k \in DOMAIN m_data : ~HasExpiry(m_data[k])}
           E2 == {k \in DOMAIN m_data' : HasExpiry(m_data'[k])}
           P2 == {k \in DOMAIN m_data' : ~HasExpiry(m_data'[k])}
           SE == {k \in S : HasExpiry(m_data[k])}
           SP == {k \in S : ~HasExpiry(m_data[k])}
<1>1. /\ DOMAIN m_data' = DOMAIN m_data \ S
      /\ \A k \in DOMAIN m_data' : m_data'[k] = m_data[k]
  BY DEF EraseEntries, Restrict
<1>2. m_data' \in [DOMAIN m_data' -> Entry]
  BY <1>1 DEF EraseEntries, Restrict, TypeOK
<1>3. /\ E2 = E \ SE /\ SE \subseteq E
      /\ P2 = P \ SP /\ SP \subseteq P
  BY <1>1
<1>4. /\ IsFiniteSet(E) /\ IsFiniteSet(P)
      /\ IsFiniteSet(E2) /\ IsFiniteSet(P2)
  <2>1. E \in SUBSET DOMAIN m_data /\ P \in SUBSET DOMAIN m_data
    OBVIOUS
  <2>2. E2 \in SUBSET DOMAIN m_data /\ P2 \in SUBSET DOMAIN m_data
    BY <1>1
  <2> HIDE DEF E, P, E2, P2
  <2>3. QED
    BY <2>1, <2>2, StoredFinite
<1>5. /\ Cardinality(E2) = m_expiringKeys'
      /\ Cardinality(P2) = m_persistentKeys'
  <2>1. /\ Cardinality(E) = m_expiringKeys /\ Cardinality(P) = m_persistentKeys
        /\ ExpiringIn(S) = Cardinality(SE) /\ PersistentIn(S) = Cardinality(SP)
    BY DEF CountersMatch, ExpiringIn, PersistentIn
  <2> HIDE DEF E, P, E2, P2, SE, SP
  <2>2. /\ Cardinality(E2) = Cardinality(E) - Cardinality(SE)
        /\ Cardinality(P2) = Cardinality(P) - Cardinality(SP)
    BY <1>3, <1>4, CardinalityOfRest, Zenon
  <2>3. QED
    BY <2>1, <2>2 DEF EraseEntries
<1>6. CountersMatch'
  BY <1>5 DEF CountersMatch, ExpiringIn, PersistentIn
<1>7. m_persistentKeys' \in Nat /\ m_expiringKeys' \in Nat
  BY <1>4, <1>5, FS_CardinalityType
<1>8. QED
  BY <1>1, <1>2, <1>6, <1>7

\* Counting one key.
LEMMA CountOne ==
    ASSUME NEW k
    PROVE  /\ ExpiringIn({k}) = IF HasExpiry(m_data[k]) THEN 1 ELSE 0
           /\ PersistentIn({k}) = IF HasExpiry(m_data[k]) THEN 0 ELSE 1
<1>1. CASE HasExpiry(m_data[k])
  <2>1. /\ {x \in {k} : HasExpiry(m_data[x])} = {k}
        /\ {x \in {k} : ~HasExpiry(m_data[x])} = {}
    BY <1>1
  <2>2. Cardinality({k}) = 1 /\ Cardinality({}) = 0
    BY FS_Singleton, FS_EmptySet
  <2>3. ExpiringIn({k}) = 1 /\ PersistentIn({k}) = 0
    BY <2>1, <2>2, Zenon DEF ExpiringIn, PersistentIn
  <2>4. QED
    BY <1>1, <2>3
<1>2. CASE ~HasExpiry(m_data[k])
  <2>1. /\ {x \in {k} : ~HasExpiry(m_data[x])} = {k}
        /\ {x \in {k} : HasExpiry(m_data[x])} = {}
    BY <1>2
  <2>2. Cardinality({k}) = 1 /\ Cardinality({}) = 0
    BY FS_Singleton, FS_EmptySet
  <2>3. ExpiringIn({k}) = 0 /\ PersistentIn({k}) = 1
    BY <2>1, <2>2, Zenon DEF ExpiringIn, PersistentIn
  <2>4. QED
    BY <1>2, <2>3
<1>3. QED
  BY <1>1, <1>2

\* Binding k to e moves k between the two counted sets, and only k.
LEMMA WriteMovesKey ==
    ASSUME TypeOK, CountersMatch, NEW k \in Keys, NEW e \in Entry,
           m_data' = With(m_data, k, e)
    PROVE  /\ DOMAIN m_data' = DOMAIN m_data \cup {k}
           /\ DOMAIN m_data' \subseteq Keys
           /\ m_data' \in [DOMAIN m_data' -> Entry]
           /\ m_data'[k] = e
           /\ \A x \in DOMAIN m_data' \ {k} :
                 x \in DOMAIN m_data /\ m_data'[x] = m_data[x]
           /\ ExpiringIn(DOMAIN m_data)' =
                 m_expiringKeys + (IF HasExpiry(e) THEN 1 ELSE 0)
                    - (IF Found(k) /\ HasExpiry(m_data[k]) THEN 1 ELSE 0)
           /\ PersistentIn(DOMAIN m_data)' =
                 m_persistentKeys + (IF HasExpiry(e) THEN 0 ELSE 1)
                    - (IF Found(k) /\ ~HasExpiry(m_data[k]) THEN 1 ELSE 0)
<1> DEFINE E == {x \in DOMAIN m_data : HasExpiry(m_data[x])}
           P == {x \in DOMAIN m_data : ~HasExpiry(m_data[x])}
           E2 == {x \in DOMAIN m_data' : HasExpiry(m_data'[x])}
           P2 == {x \in DOMAIN m_data' : ~HasExpiry(m_data'[x])}
<1>1. /\ DOMAIN m_data' = DOMAIN m_data \cup {k}
      /\ m_data'[k] = e
      /\ \A x \in DOMAIN m_data' \ {k} :
            x \in DOMAIN m_data /\ m_data'[x] = m_data[x]
  BY DEF With
<1>2. DOMAIN m_data' \subseteq Keys
  BY <1>1 DEF TypeOK
<1>3. m_data' \in [DOMAIN m_data' -> Entry]
  <2>1. \A x \in DOMAIN m_data : m_data[x] \in Entry
    BY DEF TypeOK
  <2>2. QED
    BY <2>1 DEF With
<1>4. /\ IsFiniteSet(E) /\ Cardinality(E) = m_expiringKeys
      /\ IsFiniteSet(P) /\ Cardinality(P) = m_persistentKeys
      /\ m_expiringKeys \in Nat /\ m_persistentKeys \in Nat
  <2>1. E \in SUBSET DOMAIN m_data /\ P \in SUBSET DOMAIN m_data
    OBVIOUS
  <2>2. Cardinality(E) = m_expiringKeys /\ Cardinality(P) = m_persistentKeys
    BY DEF CountersMatch, ExpiringIn, PersistentIn
  <2>3. IsFiniteSet(E) /\ IsFiniteSet(P)
    <3> HIDE DEF E, P
    <3>1. QED
      BY <2>1, StoredFinite
  <2>4. QED
    BY <2>2, <2>3 DEF TypeOK
<1>5. /\ k \in E <=> Found(k) /\ HasExpiry(m_data[k])
      /\ k \in P <=> Found(k) /\ ~HasExpiry(m_data[k])
  BY DEF Found
<1>6. /\ ExpiringIn(DOMAIN m_data)' = Cardinality(E2)
      /\ PersistentIn(DOMAIN m_data)' = Cardinality(P2)
  BY DEF ExpiringIn, PersistentIn
<1>7. CASE HasExpiry(e)
  <2>1. E2 = E \cup {k} /\ P2 = P \ {k}
    BY <1>1, <1>7
  <2> HIDE DEF E, P, E2, P2
  <2>2. /\ Cardinality(E \cup {k}) = IF k \in E THEN Cardinality(E)
                                              ELSE Cardinality(E) + 1
        /\ Cardinality(P \ {k}) = IF k \in P THEN Cardinality(P) - 1
                                            ELSE Cardinality(P)
    BY <1>4, FS_AddElement, FS_RemoveElement
  <2>3. /\ Cardinality(E2) = IF k \in E THEN Cardinality(E)
                                       ELSE Cardinality(E) + 1
        /\ Cardinality(P2) = IF k \in P THEN Cardinality(P) - 1
                                       ELSE Cardinality(P)
    BY <2>1, <2>2, Zenon
  <2>4. QED
    BY <1>1, <1>2, <1>3, <1>4, <1>5, <1>6, <1>7, <2>3
<1>8. CASE ~HasExpiry(e)
  <2>1. P2 = P \cup {k} /\ E2 = E \ {k}
    BY <1>1, <1>8
  <2> HIDE DEF E, P, E2, P2
  <2>2. /\ Cardinality(P \cup {k}) = IF k \in P THEN Cardinality(P)
                                              ELSE Cardinality(P) + 1
        /\ Cardinality(E \ {k}) = IF k \in E THEN Cardinality(E) - 1
                                            ELSE Cardinality(E)
    BY <1>4, FS_AddElement, FS_RemoveElement
  <2>3. /\ Cardinality(P2) = IF k \in P THEN Cardinality(P)
                                       ELSE Cardinality(P) + 1
        /\ Cardinality(E2) = IF k \in E THEN Cardinality(E) - 1
                                       ELSE Cardinality(E)
    BY <2>1, <2>2, Zenon
  <2>4. QED
    BY <1>1, <1>2, <1>3, <1>4, <1>5, <1>6, <1>8, <2>3
<1>9. QED
  BY <1>7, <1>8

-----------------------------------------------------------------------------
\* Steps that touch neither the map nor the heap.
LEMMA ReadKeepsIInv ==
    ASSUME IInv, KeepData, KeepHeap, clock' \in Nat, ret' \in Replies
    PROVE  IInv'
  BY DEF IInv, KeepData, KeepHeap, TypeOK, CountersMatch, ExpiringIn,
         PersistentIn, HeapCoversExpiring, GenerationsUnique

\* Steps that only erase stored keys: the lazy deletions and DEL.
LEMMA EraseKeepsIInv ==
    ASSUME IInv, NEW S \in SUBSET DOMAIN m_data, EraseEntries(S), KeepHeap,
           UNCHANGED clock, ret' \in Replies
    PROVE  IInv'
<1>1. /\ DOMAIN m_data' = DOMAIN m_data \ S
      /\ \A k \in DOMAIN m_data' : m_data'[k] = m_data[k]
      /\ m_data' \in [DOMAIN m_data' -> Entry]
      /\ CountersMatch'
      /\ m_persistentKeys' \in Nat
      /\ m_expiringKeys' \in Nat
  BY EraseKeepsCounters DEF IInv
<1>2. TypeOK'
  BY <1>1 DEF IInv, TypeOK, KeepHeap
<1>3. HeapCoversExpiring'
  BY <1>1 DEF IInv, HeapCoversExpiring, KeepHeap
<1>4. GenerationsUnique' /\ IsFiniteSet(m_expirations)'
  BY DEF IInv, GenerationsUnique, KeepHeap
<1>5. QED
  BY <1>1, <1>2, <1>3, <1>4 DEF IInv

\* An operation that does not find its key.
LEMMA MissKeepsIInv ==
    ASSUME IInv, NEW k \in Keys, NEW reply \in Replies, Miss(k, reply)
    PROVE  IInv'
<1>1. KeepData /\ KeepHeap /\ clock' \in Nat /\ ret' \in Replies
  BY DEF Miss, IInv, TypeOK
<1>2. QED
  BY <1>1, ReadKeepsIInv

\* An operation that finds its key expired and erases it.
LEMMA LazyEraseKeepsIInv ==
    ASSUME IInv, NEW k \in Keys, NEW reply \in Replies, LazyErase(k, reply)
    PROVE  IInv'
<1>1. /\ {k} \in SUBSET DOMAIN m_data
      /\ EraseEntries({k}) /\ KeepHeap /\ UNCHANGED clock /\ ret' \in Replies
  BY DEF LazyErase, Found
<1>2. QED
  BY <1>1, EraseKeepsIInv

\* SET of a new key, and over a persistent or an expiring one; the record of
\* an overwritten expiring entry stays behind in the heap, stale.
LEMMA SetKeepsIInv ==
    ASSUME IInv, NEW k \in Keys, NEW v \in Values, Set(k, v)
    PROVE  IInv'
<1>1. PICK e \in Entry :
         /\ m_data' = With(m_data, k, e)
         /\ ~HasExpiry(e)
         /\ \/ /\ ~Found(k)
               /\ m_persistentKeys' = m_persistentKeys + 1
               /\ m_expiringKeys' = m_expiringKeys
            \/ /\ Found(k)
               /\ m_expiringKeys' = m_expiringKeys - ExpiringIn({k})
               /\ m_persistentKeys' = m_persistentKeys + ExpiringIn({k})
  <2>1. CASE ~Found(k)
    <3>1. FreshEntry(v) \in Entry /\ ~HasExpiry(FreshEntry(v))
      BY DEF FreshEntry, Entry, HasExpiry
    <3>2. QED
      BY <2>1, <3>1 DEF Set
  <2>2. CASE Found(k)
    <3>1. m_data[k] \in Entry
      BY <2>2 DEF IInv, TypeOK, Found
    <3>2. Overwrite(m_data[k], v) \in Entry /\ ~HasExpiry(Overwrite(m_data[k], v))
      BY <3>1 DEF Overwrite, Entry, HasExpiry
    <3>3. QED
      BY <2>2, <3>2 DEF Set
  <2>3. QED
    BY <2>1, <2>2
<1>2. /\ DOMAIN m_data' = DOMAIN m_data \cup {k}
      /\ DOMAIN m_data' \subseteq Keys
      /\ m_data' \in [DOMAIN m_data' -> Entry]
      /\ m_data'[k] = e
      /\ \A x \in DOMAIN m_data' \ {k} :
            x \in DOMAIN m_data /\ m_data'[x] = m_data[x]
      /\ ExpiringIn(DOMAIN m_data)' =
            m_expiringKeys - (IF Found(k) /\ HasExpiry(m_data[k]) THEN 1 ELSE 0)
      /\ PersistentIn(DOMAIN m_data)' =
            m_persistentKeys + 1
               - (IF Found(k) /\ ~HasExpiry(m_data[k]) THEN 1 ELSE 0)
  <2>1. TypeOK /\ CountersMatch /\ m_expiringKeys \in Nat /\ m_persistentKeys \in Nat
    BY DEF IInv, TypeOK
  <2>2. /\ DOMAIN m_data' = DOMAIN m_data \cup {k}
        /\ DOMAIN m_data' \subseteq Keys
        /\ m_data' \in [DOMAIN m_data' -> Entry]
        /\ m_data'[k] = e
        /\ \A x \in DOMAIN m_data' \ {k} :
              x \in DOMAIN m_data /\ m_data'[x] = m_data[x]
    BY <1>1, <2>1, WriteMovesKey
  <2>3. /\ ExpiringIn(DOMAIN m_data)' =
              m_expiringKeys + (IF HasExpiry(e) THEN 1 ELSE 0)
                 - (IF Found(k) /\ HasExpiry(m_data[k]) THEN 1 ELSE 0)
        /\ PersistentIn(DOMAIN m_data)' =
              m_persistentKeys + (IF HasExpiry(e) THEN 0 ELSE 1)
                 - (IF Found(k) /\ ~HasExpiry(m_data[k]) THEN 1 ELSE 0)
    BY <1>1, <2>1, WriteMovesKey, Zenon
  <2>4. QED
    BY <1>1, <2>1, <2>2, <2>3
<1>3. CountersMatch'
  <2>1. m_expiringKeys \in Nat /\ m_persistentKeys \in Nat
    BY DEF IInv, TypeOK
  <2>2. ExpiringIn({k}) = IF HasExpiry(m_data[k]) THEN 1 ELSE 0
    BY CountOne
  <2>3. /\ m_expiringKeys' = ExpiringIn(DOMAIN m_data)'
        /\ m_persistentKeys' = PersistentIn(DOMAIN m_data)'
    BY <1>1, <1>2, <2>1, <2>2
  <2>4. QED
    BY <2>3 DEF CountersMatch
<1>4. m_persistentKeys' \in Nat /\ m_expiringKeys' \in Nat
  <2>1. /\ {x \in DOMAIN m_data' : HasExpiry(m_data'[x])} \in SUBSET Keys
        /\ {x \in DOMAIN m_data' : ~HasExpiry(m_data'[x])} \in SUBSET Keys
    BY <1>2
  <2>2. /\ Cardinality({x \in DOMAIN m_data' : HasExpiry(m_data'[x])}) \in Nat
        /\ Cardinality({x \in DOMAIN m_data' : ~HasExpiry(m_data'[x])}) \in Nat
    BY <2>1, KVStoreAssumption, FS_Subset, FS_CardinalityType
  <2>3. QED
    BY <1>3, <2>2 DEF CountersMatch, ExpiringIn, PersistentIn
<1>5. TypeOK'
  <2>1. ret' \in Replies
    BY ReplyTypes DEF Set, SetReply, Replies
  <2>2. QED
    BY <1>2, <1>4, <2>1 DEF IInv, TypeOK, Set, KeepHeap
<1>6. HeapCoversExpiring'
  BY <1>1, <1>2 DEF IInv, HeapCoversExpiring, Set, KeepHeap
<1>7. GenerationsUnique' /\ IsFiniteSet(m_expirations)'
  BY DEF IInv, GenerationsUnique, Set, KeepHeap
<1>8. QED
  BY <1>3, <1>5, <1>6, <1>7 DEF IInv

\* A successful EXPIRE moves the key to the expiring side and pushes its record.
LEMMA ExpireLiveKeepsIInv ==
    ASSUME IInv, NEW k \in Keys, NEW s \in Seconds, ExpireLive(k, s)
    PROVE  IInv'
<1> DEFINE at == clock + s * TicksPerSecond
           gen == m_nextExpirationGeneration + 1
           e == [value |-> m_data[k].value, expireAt |-> at, generation |-> gen]
           rec == [expireAt |-> at, key |-> k, generation |-> gen]
<1>1. /\ Found(k)
      /\ m_data' = With(m_data, k, e)
      /\ m_persistentKeys' = m_persistentKeys - PersistentIn({k})
      /\ m_expiringKeys' = m_expiringKeys + PersistentIn({k})
      /\ m_nextExpirationGeneration' = gen
      /\ m_expirations' = m_expirations \cup {rec}
      /\ ret' = ExpireReply(k, TRUE)
      /\ clock' = clock
  BY DEF ExpireLive, NextGeneration, Live
<1>2. at \in Nat /\ gen \in Nat
  <2>1. /\ clock \in Nat /\ s \in Nat /\ TicksPerSecond \in Nat
        /\ m_nextExpirationGeneration \in Nat
    BY KVStoreAssumption DEF IInv, TypeOK, ExpireLive
  <2>2. s * TicksPerSecond \in Nat
    BY <2>1
  <2>3. QED
    BY <2>1, <2>2
<1>3. e \in Entry /\ HasExpiry(e) /\ rec \in ExpirationRecord
  <2>1. m_data[k].value \in Values
    BY <1>1 DEF IInv, TypeOK, Found, Entry
  <2>2. at # NoExpiry
    BY <1>2, KVStoreAssumption
  <2> HIDE DEF at, gen
  <2>3. QED
    BY <1>2, <2>1, <2>2 DEF Entry, ExpirationRecord, HasExpiry
<1> HIDE DEF e
<1>4. /\ DOMAIN m_data' = DOMAIN m_data \cup {k}
      /\ DOMAIN m_data' \subseteq Keys
      /\ m_data' \in [DOMAIN m_data' -> Entry]
      /\ m_data'[k] = e
      /\ \A x \in DOMAIN m_data' \ {k} :
            x \in DOMAIN m_data /\ m_data'[x] = m_data[x]
  BY <1>1, <1>3, WriteMovesKey DEF IInv
<1>5. /\ ExpiringIn(DOMAIN m_data)' =
            m_expiringKeys + (IF HasExpiry(e) THEN 1 ELSE 0)
               - (IF Found(k) /\ HasExpiry(m_data[k]) THEN 1 ELSE 0)
      /\ PersistentIn(DOMAIN m_data)' =
            m_persistentKeys + (IF HasExpiry(e) THEN 0 ELSE 1)
               - (IF Found(k) /\ ~HasExpiry(m_data[k]) THEN 1 ELSE 0)
  <2>1. TypeOK /\ CountersMatch
    BY DEF IInv
  <2>2. QED
    BY <1>1, <1>3, <2>1, WriteMovesKey, Zenon
<1>6. CountersMatch'
  <2>1. m_expiringKeys \in Nat /\ m_persistentKeys \in Nat
    BY DEF IInv, TypeOK
  <2>2. PersistentIn({k}) = IF HasExpiry(m_data[k]) THEN 0 ELSE 1
    BY CountOne
  <2>3. /\ m_expiringKeys' = ExpiringIn(DOMAIN m_data)'
        /\ m_persistentKeys' = PersistentIn(DOMAIN m_data)'
    BY <1>1, <1>3, <1>5, <2>1, <2>2
  <2>4. QED
    BY <2>3 DEF CountersMatch
<1>7. m_persistentKeys' \in Nat /\ m_expiringKeys' \in Nat
  <2>1. /\ {x \in DOMAIN m_data' : HasExpiry(m_data'[x])} \in SUBSET Keys
        /\ {x \in DOMAIN m_data' : ~HasExpiry(m_data'[x])} \in SUBSET Keys
    BY <1>4
  <2>2. /\ Cardinality({x \in DOMAIN m_data' : HasExpiry(m_data'[x])}) \in Nat
        /\ Cardinality({x \in DOMAIN m_data' : ~HasExpiry(m_data'[x])}) \in Nat
    BY <2>1, KVStoreAssumption, FS_Subset, FS_CardinalityType
  <2>3. QED
    BY <1>6, <2>2 DEF CountersMatch, ExpiringIn, PersistentIn
<1>8. TypeOK'
  <2>1. ret' \in Replies
    BY <1>1 DEF ExpireReply, Replies
  <2>2. m_expirations' \subseteq ExpirationRecord
    BY <1>1, <1>3 DEF IInv, TypeOK
  <2>3. m_nextExpirationGeneration' \in Nat /\ clock' \in Nat
    BY <1>1, <1>2 DEF IInv, TypeOK
  <2>4. QED
    BY <1>4, <1>7, <2>1, <2>2, <2>3 DEF TypeOK
<1>9. HeapCoversExpiring'
  <2> SUFFICES ASSUME NEW x \in DOMAIN m_data', HasExpiry(m_data'[x])
               PROVE  [expireAt |-> m_data'[x].expireAt, key |-> x,
                       generation |-> m_data'[x].generation] \in m_expirations'
    BY DEF HeapCoversExpiring
  <2>1. CASE x = k
    BY <1>1, <1>4, <2>1 DEF e
  <2>2. CASE x # k
    BY <1>1, <1>4, <2>2 DEF IInv, HeapCoversExpiring
  <2>3. QED
    BY <2>1, <2>2
<1>10. GenerationsUnique'
  <2>1. \A r \in m_expirations :
           r.generation \in Nat /\ r.generation <= m_nextExpirationGeneration
    BY DEF IInv, TypeOK, GenerationsUnique, ExpirationRecord
  <2>2. rec.generation = gen
    OBVIOUS
  <2>3. m_nextExpirationGeneration \in Nat
    BY DEF IInv, TypeOK
  <2> HIDE DEF rec
  <2>4. QED
    BY <1>1, <2>1, <2>2, <2>3 DEF IInv, GenerationsUnique
<1>11. IsFiniteSet(m_expirations')
  BY <1>1, FS_AddElement DEF IInv
<1>12. QED
  BY <1>6, <1>8, <1>9, <1>10, <1>11 DEF IInv

\* A sweep: what it pops it may forget, because a popped record either was
\* stale or took its key along; and a rebuild creates no record that was not
\* in the heap before.
LEMMA SweepKeepsIInv ==
    ASSUME IInv, NEW limit \in SweepBatches, SweepExpired(limit)
    PROVE  IInv'
<1>1. PICK batch \in SUBSET Due(m_expirations, clock) :
         LET removed == {r.key : r \in {q \in batch : Current(q)}}
             left    == m_expirations \ batch
             rebuild == ShouldRebuildExpirationHeap(left, m_expiringKeys')
             heap    == IF rebuild THEN RebuiltHeap(m_data') ELSE left
         IN  /\ EraseEntries(removed)
             /\ m_expirations' = heap
             /\ ret' = SweepReply(Cardinality(batch), Cardinality(removed),
                                  HasMoreExpired(heap, clock), rebuild)
             /\ UNCHANGED <<m_nextExpirationGeneration, clock>>
  BY Zenon DEF SweepExpired
<1> DEFINE removed == {r.key : r \in {q \in batch : Current(q)}}
           left    == m_expirations \ batch
           rebuild == ShouldRebuildExpirationHeap(left, m_expiringKeys')
<1>2. removed \in SUBSET DOMAIN m_data
  BY DEF Current, Found
<1>3. /\ DOMAIN m_data' = DOMAIN m_data \ removed
      /\ \A k \in DOMAIN m_data' : m_data'[k] = m_data[k]
      /\ m_data' \in [DOMAIN m_data' -> Entry]
      /\ CountersMatch'
      /\ m_persistentKeys' \in Nat
      /\ m_expiringKeys' \in Nat
  <2>1. TypeOK /\ CountersMatch /\ EraseEntries(removed)
    BY <1>1 DEF IInv
  <2> HIDE DEF removed
  <2>2. QED
    BY <1>2, <2>1, EraseKeepsCounters
<1>4. m_expirations' = RebuiltHeap(m_data') \/ m_expirations' = left
  BY <1>1
<1>5. RebuiltHeap(m_data') \subseteq m_expirations
  BY <1>3 DEF RebuiltHeap, IInv, HeapCoversExpiring
<1>6. m_expirations' \subseteq m_expirations
  BY <1>4, <1>5
<1>7. IsFiniteSet(m_expirations')
  BY <1>6, FS_Subset DEF IInv
<1>8. GenerationsUnique'
  BY <1>1, <1>6 DEF IInv, GenerationsUnique
<1>9. HeapCoversExpiring'
  <2> SUFFICES ASSUME NEW k \in DOMAIN m_data', HasExpiry(m_data'[k])
               PROVE  [expireAt |-> m_data'[k].expireAt, key |-> k,
                       generation |-> m_data'[k].generation] \in m_expirations'
    BY DEF HeapCoversExpiring
  <2> DEFINE rec == [expireAt |-> m_data'[k].expireAt, key |-> k,
                     generation |-> m_data'[k].generation]
  <2>1. CASE m_expirations' = RebuiltHeap(m_data')
    BY <2>1 DEF RebuiltHeap
  <2>2. CASE m_expirations' = left
    <3>1. rec \in m_expirations
      BY <1>3 DEF IInv, HeapCoversExpiring
    <3>2. Current(rec)
      BY <1>3 DEF Current, Found
    <3>3. rec \notin batch
      <4>1. SUFFICES ASSUME rec \in batch PROVE FALSE
        OBVIOUS
      <4>2. rec.key \in removed
        BY <3>2, <4>1
      <4>3. k \in removed
        BY <4>2
      <4>4. QED
        BY <4>3, <1>3
    <3>4. QED
      BY <2>2, <3>1, <3>3
  <2>3. QED
    BY <1>4, <2>1, <2>2
<1>10. TypeOK'
  <2>1. ret' \in Replies
    <3>1. /\ IsFiniteSet(batch) /\ IsFiniteSet(removed)
      <4>1. batch \subseteq m_expirations
        BY DEF Due
      <4>2. IsFiniteSet(batch)
        BY <4>1, FS_Subset DEF IInv
      <4>3. TypeOK
        BY DEF IInv
      <4> HIDE DEF removed
      <4>4. IsFiniteSet(removed)
        BY <1>2, <4>3, StoredFinite
      <4>5. QED
        BY <4>2, <4>4
    <3>2. Cardinality(batch) \in Nat /\ Cardinality(removed) \in Nat
      BY <3>1, FS_CardinalityType
    <3>3. rebuild \in BOOLEAN
      BY DEF ShouldRebuildExpirationHeap
    <3>4. PICK more \in BOOLEAN :
             ret' = SweepReply(Cardinality(batch), Cardinality(removed),
                               more, rebuild)
      BY <1>1 DEF HasMoreExpired
    <3> HIDE DEF removed, rebuild
    <3>5. QED
      BY <3>2, <3>3, <3>4 DEF SweepReply, Replies
  <2>2. m_expirations' \subseteq ExpirationRecord
    BY <1>6 DEF IInv, TypeOK
  <2>3. DOMAIN m_data' \subseteq Keys
    BY <1>3 DEF IInv, TypeOK
  <2>4. m_nextExpirationGeneration' \in Nat /\ clock' \in Nat
    BY <1>1 DEF IInv, TypeOK
  <2>5. QED
    BY <1>3, <2>1, <2>2, <2>3, <2>4 DEF TypeOK
<1>11. QED
  BY <1>3, <1>7, <1>8, <1>9, <1>10 DEF IInv

\* Every command a client can send.
LEMMA ClientOpKeepsIInv ==
    ASSUME IInv, ClientOp
    PROVE  IInv'
<1>1. clock \in Nat /\ m_persistentKeys \in Nat /\ m_expiringKeys \in Nat
  BY DEF IInv, TypeOK
<1>2. ASSUME NEW k \in Keys, Get(k) PROVE IInv'
  <2>1. GetReply(k, FALSE, Nil) \in Replies
    BY DEF GetReply, Replies
  <2>2. CASE Live(k) /\ ret' = GetReply(k, TRUE, m_data[k].value)
                /\ KeepData /\ KeepHeap /\ UNCHANGED clock
    <3>1. m_data[k].value \in Values
      BY <2>2 DEF IInv, TypeOK, Live, Found, Entry
    <3>2. ret' \in Replies
      BY <2>2, <3>1 DEF GetReply, Replies
    <3>3. QED
      BY <1>1, <2>2, <3>2, ReadKeepsIInv
  <2>3. QED
    BY <1>2, <2>1, <2>2, MissKeepsIInv, LazyEraseKeepsIInv DEF Get
<1>3. ASSUME NEW k \in Keys, Del(k) PROVE IInv'
  <2>1. DelReply(k, FALSE) \in Replies /\ DelReply(k, TRUE) \in Replies
    BY DEF DelReply, Replies
  <2>2. CASE Live(k) /\ EraseEntries({k}) /\ ret' = DelReply(k, TRUE)
                /\ KeepHeap /\ UNCHANGED clock
    <3>1. {k} \in SUBSET DOMAIN m_data /\ ret' \in Replies
      BY <2>1, <2>2 DEF Live, Found
    <3>2. QED
      BY <2>2, <3>1, EraseKeepsIInv
  <2>3. QED
    BY <1>3, <2>1, <2>2, MissKeepsIInv, LazyEraseKeepsIInv DEF Del
<1>4. ASSUME NEW k \in Keys, NEW s \in Seconds, Expire(k, s) PROVE IInv'
  <2>1. ExpireReply(k, FALSE) \in Replies
    BY DEF ExpireReply, Replies
  <2>2. CASE ExpireIllegal(k, s)
    BY <1>1, <2>1, <2>2, ReadKeepsIInv DEF ExpireIllegal
  <2>3. QED
    BY <1>4, <2>1, <2>2, MissKeepsIInv, LazyEraseKeepsIInv, ExpireLiveKeepsIInv
       DEF Expire
<1>5. ASSUME NEW k \in Keys, Ttl(k) PROVE IInv'
  <2>1. TtlReply(k, -2) \in Replies
    BY DEF TtlReply, Replies
  <2>2. CASE /\ Live(k)
             /\ ret' = TtlReply(k, IF HasExpiry(m_data[k])
                                   THEN CeilSeconds(m_data[k].expireAt - clock)
                                   ELSE -1)
             /\ KeepData /\ KeepHeap /\ UNCHANGED clock
    <3>1. CASE HasExpiry(m_data[k])
      <4>1. m_data[k].expireAt \in Nat
        BY <2>2, <3>1 DEF IInv, TypeOK, Live, Found, Entry, HasExpiry
      <4>2. CeilSeconds(m_data[k].expireAt - clock) \in Int
        BY <1>1, <4>1, KVStoreAssumption DEF CeilSeconds
      <4>3. ret' \in Replies
        BY <2>2, <3>1, <4>2 DEF TtlReply, Replies
      <4>4. QED
        BY <1>1, <2>2, <4>3, ReadKeepsIInv
    <3>2. CASE ~HasExpiry(m_data[k])
      <4>1. ret' \in Replies
        BY <2>2, <3>2 DEF TtlReply, Replies
      <4>2. QED
        BY <1>1, <2>2, <4>1, ReadKeepsIInv
    <3>3. QED
      BY <3>1, <3>2
  <2>3. QED
    BY <1>5, <2>1, <2>2, MissKeepsIInv, LazyEraseKeepsIInv DEF Ttl
<1>6. ASSUME Stats PROVE IInv'
  <2>1. m_persistentKeys + m_expiringKeys \in Nat
    BY <1>1
  <2>2. ret' \in Replies
    BY <1>1, <1>6, <2>1 DEF Stats, StatsReply, Replies
  <2>3. QED
    BY <1>1, <1>6, <2>2, ReadKeepsIInv DEF Stats
<1>7. QED
  BY <1>2, <1>3, <1>4, <1>5, <1>6, SetKeepsIInv DEF ClientOp

\* The empty store.
LEMMA InitIInv == Init => IInv
<1> SUFFICES ASSUME Init PROVE IInv
  OBVIOUS
<1>1. m_data = [k \in {} |-> Nil] /\ DOMAIN m_data = {}
  BY DEF Init
<1>2. TypeOK
  <2>1. ret \in Replies
    BY DEF Init, NoReply, Replies
  <2>2. m_data \in [DOMAIN m_data -> Entry]
    BY <1>1
  <2>3. QED
    BY <1>1, <2>1, <2>2 DEF Init, TypeOK
<1>3. CountersMatch
  <2>1. /\ {k \in DOMAIN m_data : HasExpiry(m_data[k])} = {}
        /\ {k \in DOMAIN m_data : ~HasExpiry(m_data[k])} = {}
    BY <1>1
  <2>2. QED
    BY <2>1, FS_EmptySet DEF Init, CountersMatch, ExpiringIn, PersistentIn
<1>4. HeapCoversExpiring /\ GenerationsUnique
  BY <1>1 DEF Init, HeapCoversExpiring, GenerationsUnique
<1>5. IsFiniteSet(m_expirations)
  BY FS_EmptySet DEF Init
<1>6. QED
  BY <1>2, <1>3, <1>4, <1>5 DEF IInv

\* IInv is inductive.
LEMMA NextIInv == IInv /\ [Next]_vars => IInv'
<1> SUFFICES ASSUME IInv, [Next]_vars PROVE IInv'
  OBVIOUS
<1>1. CASE ClientOp
  BY <1>1, ClientOpKeepsIInv
<1>2. CASE Sweep
  BY <1>2, SweepKeepsIInv DEF Sweep
<1>3. CASE Tick
  <2>1. KeepData /\ KeepHeap /\ clock' \in Nat /\ ret' \in Replies
    BY <1>3 DEF Tick, IInv, TypeOK
  <2>2. QED
    BY <2>1, ReadKeepsIInv
<1>4. CASE UNCHANGED vars
  BY <1>4 DEF vars, IInv, TypeOK, CountersMatch, ExpiringIn, PersistentIn,
              HeapCoversExpiring, GenerationsUnique
<1>5. QED
  BY <1>1, <1>2, <1>3, <1>4 DEF Next

\* The inductive invariant holds in every reachable state.
THEOREM Invariance == Spec => []IInv
  BY InitIInv, NextIInv, PTL DEF Spec

\* Type correctness, in which the two unsigned counters never go below zero
\* (the assertions of EraseEntryLocked and Expire).
THEOREM TypeCorrect == Spec => []TypeOK
<1>1. IInv => TypeOK
  BY DEF IInv
<1>2. QED
  BY <1>1, Invariance, PTL

\* Size and Stats count the stored entries exactly.
THEOREM CountersExact == Spec => []CountersMatch
<1>1. IInv => CountersMatch
  BY DEF IInv
<1>2. QED
  BY <1>1, Invariance, PTL

\* Every entry with a time to live has its own record in the heap, whatever
\* mixture of SET, DEL, EXPIRE, lazy deletion, sweep and rebuild came before.
THEOREM HeapComplete == Spec => []HeapCoversExpiring
<1>1. IInv => HeapCoversExpiring
  BY DEF IInv
<1>2. QED
  BY <1>1, Invariance, PTL

\* No two records in the heap carry the same generation.
THEOREM RecordsDistinct == Spec => []GenerationsUnique
<1>1. IInv => GenerationsUnique
  BY DEF IInv
<1>2. QED
  BY <1>1, Invariance, PTL

-----------------------------------------------------------------------------
\* The record of each expiring key is in the heap, and different keys have
\* different ones, so the heap is at least as large as the counter.
LEMMA HeapLargeEnough == IInv => HeapAtLeastExpiring
<1> SUFFICES ASSUME IInv PROVE HeapAtLeastExpiring
  OBVIOUS
<1> DEFINE E == {k \in DOMAIN m_data : HasExpiry(m_data[k])}
           f == [k \in E |-> [expireAt |-> m_data[k].expireAt, key |-> k,
                              generation |-> m_data[k].generation]]
<1>1. \A k \in E : f[k] \in m_expirations /\ f[k].key = k
  BY DEF IInv, HeapCoversExpiring
<1>2. DOMAIN f = E /\ f = [k \in E |-> f[k]]
  OBVIOUS
<1> HIDE DEF f, E
<1>3. f \in [E -> m_expirations]
  BY <1>1, <1>2
<1>4. \A a, b \in E : f[a] = f[b] => a = b
  BY <1>1
<1>5. f \in Injection(E, m_expirations)
  BY <1>2, <1>3, <1>4 DEF Injection, IsInjective
<1>6. Cardinality(E) <= Cardinality(m_expirations)
  BY <1>5, FS_Injection DEF IInv
<1>7. m_expiringKeys = Cardinality(E)
  BY DEF IInv, CountersMatch, ExpiringIn, E
<1>8. m_expiringKeys \in Nat /\ Cardinality(m_expirations) \in Nat
  BY FS_CardinalityType DEF IInv, TypeOK
<1>9. QED
  BY <1>6, <1>7, <1>8 DEF HeapAtLeastExpiring

\* assert(heapSize >= m_expiringKeys) never fires, and the subtraction after it
\* never wraps (kv_store.cpp:241-243).
THEOREM RebuildAssertionHolds == Spec => []HeapAtLeastExpiring
  BY HeapLargeEnough, Invariance, PTL

\* What Size and Stats answer from is right after any sequence of calls: no
\* unsigned counter goes below zero, and both equal what they count.
THEOREM CountersAlwaysRight == Spec => []CountersRight
<1>1. IInv => CountersRight
  BY DEF IInv, CountersRight
<1>2. QED
  BY <1>1, Invariance, PTL

\* What the sweeper relies on after any sequence of calls: the heap covers every
\* expiring entry, tells the lives of a key apart, and is never smaller than the
\* number subtracted from its size.
THEOREM HeapAlwaysConsistent == Spec => []HeapConsistent
<1>1. IInv => HeapConsistent
  BY HeapLargeEnough DEF IInv, HeapConsistent
<1>2. QED
  BY <1>1, Invariance, PTL

\* Only SweepExpired leaves a sweep report without moving the clock.
LEMMA OnlySweepReports ==
    ASSUME IInv, Next, SweepReported
    PROVE  Sweep
<1>1. ~Tick
  BY DEF SweepReported, Tick, IInv, TypeOK
<1>2. ASSUME NEW k, NEW v, NEW ok, NEW secs, NEW m, NEW n
      PROVE  /\ SetReply(k).op # "sweep"
             /\ GetReply(k, ok, v).op # "sweep"
             /\ DelReply(k, ok).op # "sweep"
             /\ ExpireReply(k, ok).op # "sweep"
             /\ TtlReply(k, secs).op # "sweep"
             /\ StatsReply(m, n).op # "sweep"
  BY DEF SetReply, GetReply, DelReply, ExpireReply, TtlReply, StatsReply
<1>3. ASSUME NEW k, NEW v, Set(k, v) PROVE FALSE
  BY <1>2, <1>3 DEF Set, SweepReported
<1>4. ASSUME NEW k, Get(k) PROVE FALSE
  BY <1>2, <1>4 DEF Get, Miss, LazyErase, SweepReported
<1>5. ASSUME NEW k, Del(k) PROVE FALSE
  BY <1>2, <1>5 DEF Del, Miss, LazyErase, SweepReported
<1>6. ASSUME NEW k, NEW s, Expire(k, s) PROVE FALSE
  BY <1>2, <1>6 DEF Expire, ExpireIllegal, ExpireLive, Miss, LazyErase, SweepReported
<1>7. ASSUME NEW k, Ttl(k) PROVE FALSE
  BY <1>2, <1>7 DEF Ttl, Miss, LazyErase, SweepReported
<1>8. ASSUME Stats PROVE FALSE
  BY <1>2, <1>8 DEF Stats, SweepReported
<1>9. QED
  BY <1>1, <1>3, <1>4, <1>5, <1>6, <1>7, <1>8 DEF Next, ClientOp

\* A sweep that says nothing more is due leaves no expired entry: the record
\* of such an entry would still be in the heap, and due.
LEMMA CleanSweep ==
    ASSUME IInv, IInv', NEW limit, SweepExpired(limit), ~ret'.hasMoreExpired,
           NEW k \in DOMAIN m_data'
    PROVE  ~IsExpired(m_data'[k], clock)
<1> SUFFICES ASSUME IsExpired(m_data'[k], clock) PROVE FALSE
  OBVIOUS
<1>1. ret'.hasMoreExpired = HasMoreExpired(m_expirations', clock)
  <2>1. PICK a, b, c :
           ret' = SweepReply(a, b, HasMoreExpired(m_expirations', clock), c)
    BY Zenon DEF SweepExpired
  <2>2. QED
    BY <2>1 DEF SweepReply
<1>2. Due(m_expirations', clock) = {}
  BY <1>1 DEF HasMoreExpired
<1>3. /\ HasExpiry(m_data'[k]) /\ clock >= m_data'[k].expireAt
      /\ clock \in Nat /\ m_data'[k].expireAt \in Nat
  BY DEF IsExpired, HasExpiry, IInv, TypeOK, Entry
<1> DEFINE rec == [expireAt |-> m_data'[k].expireAt, key |-> k,
                   generation |-> m_data'[k].generation]
<1>4. rec \in m_expirations'
  BY <1>3 DEF IInv, HeapCoversExpiring
<1>5. rec \in Due(m_expirations', clock)
  BY <1>3, <1>4 DEF Due
<1>6. QED
  BY <1>2, <1>5

\* A sweep that reports nothing more due leaves no expired entry behind
\* (SweepExpired), so the thread that called it may sleep.
THEOREM SweeperMaySleep == Spec => SweepDoneMeansClean
<1>1. ASSUME IInv, IInv', [Next]_vars
      PROVE  [(SweepReported /\ ~ret'.hasMoreExpired) =>
                 \A k \in DOMAIN m_data' : ~IsExpired(m_data'[k], clock)]_vars
  <2> SUFFICES ASSUME Next, SweepReported, ~ret'.hasMoreExpired,
                      NEW k \in DOMAIN m_data'
               PROVE  ~IsExpired(m_data'[k], clock)
    BY <1>1
  <2>1. PICK limit \in SweepBatches : SweepExpired(limit)
    BY <1>1, OnlySweepReports DEF Sweep
  <2>2. QED
    BY <1>1, <2>1, CleanSweep
<1>2. QED
  BY <1>1, Invariance, PTL DEF Spec, SweepDoneMeansClean

-----------------------------------------------------------------------------
(* The sweeper thread *)

\* To the store, the sweeper loop is one more caller: every step of the
\* composition is a step of KVStore, or leaves the store alone.
THEOREM SweptStoreImplementsKVStore == SweptSpec => Spec
<1>1. SweptInit => Init
  BY DEF SweptInit
<1>2. ASSUME [SweptNext]_allVars PROVE [Next]_vars
  <2>1. CASE SweeperStep
    BY <2>1 DEF SweeperStep, WaitTimesOut, LeaveLoop, SweepBatch, Next
  <2>2. CASE RequestStop \/ StopSweeperThread
    BY <2>2 DEF RequestStop, StopSweeperThread
  <2>3. CASE StoreStep
    BY <2>3 DEF StoreStep, Next
  <2>4. CASE UNCHANGED allVars
    BY <2>4 DEF allVars
  <2>5. QED
    BY <1>2, <2>1, <2>2, <2>3, <2>4 DEF SweptNext
<1>3. QED
  BY <1>1, <1>2, PTL DEF SweptSpec, Spec

\* SweeperLoop leaves its do-while for the next wait only when no expired
\* entry is in the store, unless Stop has been called: for every number of
\* keys, every batch size and every interleaving with the commands.
THEOREM SweeperSleepsOnlyWhenClean == SweptSpec => SleepsOnlyWhenClean
<1>1. ASSUME IInv, IInv', [SweptNext]_allVars
      PROVE  [(sweeperPc = "sweeping" /\ sweeperPc' = "waiting") =>
                 m_stopRequested \/ NoExpiredEntry(m_data')]_allVars
  <2> SUFFICES ASSUME SweptNext, sweeperPc = "sweeping", sweeperPc' = "waiting",
                      ~m_stopRequested, NEW k \in DOMAIN m_data'
               PROVE  ~IsExpired(m_data'[k], clock)
    BY <1>1 DEF NoExpiredEntry
  <2>1. SweepBatch
    BY DEF SweptNext, SweeperStep, WaitTimesOut, LeaveLoop, RequestStop,
           StopSweeperThread, StoreStep, sweeperVars
  <2>2. ~ret'.hasMoreExpired
    BY <2>1 DEF SweepBatch, SweepAgain
  <2>3. PICK limit \in SweepBatches : SweepExpired(limit)
    BY <2>1 DEF SweepBatch, Sweep
  <2>4. QED
    BY <1>1, <2>2, <2>3, CleanSweep
<1>2. SweptSpec => []IInv
  BY SweptStoreImplementsKVStore, Invariance, PTL
<1>3. QED
  BY <1>1, <1>2, PTL DEF SweptSpec, SleepsOnlyWhenClean

-----------------------------------------------------------------------------
(* The size of the heap *)

\* RebuildExpirationHeapLocked makes one record per expiring entry.
LEMMA RebuiltSize ==
    ASSUME NEW data, NEW E, E = {k \in DOMAIN data : HasExpiry(data[k])}, IsFiniteSet(E)
    PROVE  Cardinality(RebuiltHeap(data)) = Cardinality(E)
<1> DEFINE rec(k) == [expireAt |-> data[k].expireAt, key |-> k, generation |-> data[k].generation]
           f == [k \in E |-> rec(k)]
<1>1. RebuiltHeap(data) = {rec(k) : k \in E}
  BY DEF RebuiltHeap
<1>2. \A a, b \in E : f[a] = f[b] => a = b
  OBVIOUS
<1>3. f \in [E -> RebuiltHeap(data)] /\ DOMAIN f = E
  BY <1>1
<1>4. \A t \in RebuiltHeap(data) : \E s \in E : f[s] = t
  BY <1>1
<1> HIDE DEF f
<1>5. f \in Injection(E, RebuiltHeap(data)) /\ f \in Surjection(E, RebuiltHeap(data))
  BY <1>2, <1>3, <1>4 DEF Injection, Surjection, IsInjective
<1>6. ExistsBijection(E, RebuiltHeap(data))
  BY <1>5 DEF ExistsBijection, Bijection
<1> QED
  BY <1>6, FS_Bijection

\* After a sweep the heap is empty or as ShouldRebuildExpirationHeap leaves it.
LEMMA SweepKeepsHeapSmall ==
    ASSUME IInv, IInv', NEW limit, SweepExpired(limit)
    PROVE  LET size  == Cardinality(m_expirations')
               stale == size - m_expiringKeys'
           IN  /\ m_expiringKeys' = 0 => size = 0
               /\ \/ size < MinHeapRecords
                  \/ stale < MinStaleRecords
                  \/ stale < m_expiringKeys'
<1>0. PICK size, n : size = Cardinality(m_expirations') /\ n = m_expiringKeys'
  OBVIOUS
<1>1. /\ size \in Nat /\ n \in Nat /\ MinHeapRecords \in Nat /\ MinStaleRecords \in Nat \ {0}
  BY <1>0, FS_CardinalityType, KVStoreAssumption DEF IInv, TypeOK
<1>2. PICK left : \/ /\ ShouldRebuildExpirationHeap(left, m_expiringKeys')
                     /\ m_expirations' = RebuiltHeap(m_data')
                  \/ /\ ~ShouldRebuildExpirationHeap(left, m_expiringKeys')
                     /\ m_expirations' = left
  BY Zenon DEF SweepExpired
<1>3. CASE m_expirations' = RebuiltHeap(m_data')
  <2>1. PICK E : E = {k \in DOMAIN m_data' : HasExpiry(m_data'[k])}
    OBVIOUS
  <2>2. IsFiniteSet(E)
    <3>1. E \in SUBSET Keys
      BY <2>1 DEF IInv, TypeOK
    <3> QED
      BY <3>1, KVStoreAssumption, FS_Subset
  <2>3. n = Cardinality(E)
    BY <1>0, <2>1 DEF IInv, CountersMatch, ExpiringIn
  <2>4. size = n
    BY <1>0, <1>3, <2>1, <2>2, <2>3, RebuiltSize
  <2>5. (n = 0 => size = 0) /\ size - n < MinStaleRecords
    BY <1>1, <2>4
  <2> QED
    BY <1>0, <2>5
<1>4. CASE ~ShouldRebuildExpirationHeap(m_expirations', m_expiringKeys')
  <2>1. \/ size = 0
        \/ /\ n # 0
           /\ \/ ~(size >= MinHeapRecords)
              \/ ~(size - n >= MinStaleRecords)
              \/ ~(size - n >= n)
    BY <1>0, <1>4 DEF ShouldRebuildExpirationHeap
  <2>2. /\ n = 0 => size = 0
        /\ size < MinHeapRecords \/ size - n < MinStaleRecords \/ size - n < n
    BY <1>1, <2>1
  <2> QED
    BY <1>0, <2>2
<1> QED
  BY <1>2, <1>3, <1>4

\* Stale records do not pile up: after every SweepExpired the heap is small, or
\* fewer of its records are stale than ShouldRebuildExpirationHeap tolerates.
THEOREM SweepAlwaysBoundsHeap == Spec => SweepBoundsHeap
<1>1. ASSUME IInv, IInv', [Next]_vars
      PROVE  [SweepReported =>
                LET size  == Cardinality(m_expirations')
                    stale == size - m_expiringKeys'
                IN  /\ m_expiringKeys' = 0 => size = 0
                    /\ \/ size < MinHeapRecords
                       \/ stale < MinStaleRecords
                       \/ stale < m_expiringKeys']_vars
  <2>1. CASE Next /\ SweepReported
    <3>1. PICK limit \in SweepBatches : SweepExpired(limit)
      BY <1>1, <2>1, OnlySweepReports DEF Sweep
    <3> QED
      BY <1>1, <3>1, SweepKeepsHeapSmall
  <2> QED
    BY <1>1, <2>1
<1> QED
  BY <1>1, Invariance, PTL DEF Spec, SweepBoundsHeap

-----------------------------------------------------------------------------
(* The store implements the map with times to live *)

\* LiveView, entry by entry.
LEMMA ViewFacts ==
    /\ DOMAIN LiveView = {k \in DOMAIN m_data : ~IsExpired(m_data[k], clock)}
    /\ \A k \in DOMAIN LiveView :
          LiveView[k] = [value |-> m_data[k].value, expireAt |-> m_data[k].expireAt]
BY DEF LiveView

\* Erasing entries takes exactly them out of the view ...
LEMMA EraseView ==
    ASSUME NEW S, EraseEntries(S), clock' = clock
    PROVE  LiveView' = Restrict(LiveView, DOMAIN LiveView \ S)
<1>1. DOMAIN m_data' = DOMAIN m_data \ S /\ \A k \in DOMAIN m_data' : m_data'[k] = m_data[k]
  BY DEF EraseEntries, Restrict
<1>2. {k \in DOMAIN m_data' : ~IsExpired(m_data'[k], clock')} = DOMAIN LiveView \ S
  BY <1>1, ViewFacts
<1>3. \A k \in DOMAIN LiveView \ S :
         LiveView[k] = [value |-> m_data'[k].value, expireAt |-> m_data'[k].expireAt]
  BY <1>1, ViewFacts
<1>4. LiveView' = [k \in DOMAIN LiveView \ S |->
                     [value |-> m_data'[k].value, expireAt |-> m_data'[k].expireAt]]
  BY <1>2 DEF LiveView
<1> HIDE DEF LiveView
<1> QED
  BY <1>3, <1>4 DEF Restrict

\* ... so erasing expired ones goes unseen.
LEMMA EraseExpiredView ==
    ASSUME NEW S, EraseEntries(S), clock' = clock,
           \A k \in S \cap DOMAIN m_data : IsExpired(m_data[k], clock)
    PROVE  LiveView' = LiveView
<1>1. DOMAIN LiveView \ S = DOMAIN LiveView
  BY ViewFacts
<1>2. LiveView = [k \in DOMAIN LiveView |-> LiveView[k]]
  BY DEF LiveView
<1> QED
  BY <1>1, <1>2, EraseView DEF Restrict

\* Writing an entry that has not expired writes the view.
LEMMA WriteView ==
    ASSUME NEW k, NEW e, m_data' = With(m_data, k, e), clock' = clock, ~IsExpired(e, clock)
    PROVE  LiveView' = With(LiveView, k, [value |-> e.value, expireAt |-> e.expireAt])
<1>1. /\ DOMAIN m_data' = DOMAIN m_data \cup {k}
      /\ \A x \in DOMAIN m_data' : m_data'[x] = IF x = k THEN e ELSE m_data[x]
  BY DEF With
<1>2. {x \in DOMAIN m_data' : ~IsExpired(m_data'[x], clock')} = DOMAIN LiveView \cup {k}
  BY <1>1, ViewFacts
<1>3. LiveView' = [x \in DOMAIN LiveView \cup {k} |->
                     [value |-> m_data'[x].value, expireAt |-> m_data'[x].expireAt]]
  BY <1>2 DEF LiveView
<1>4. \A x \in DOMAIN LiveView \cup {k} :
         [value |-> m_data'[x].value, expireAt |-> m_data'[x].expireAt]
         = IF x = k THEN [value |-> e.value, expireAt |-> e.expireAt] ELSE LiveView[x]
  BY <1>1, ViewFacts
<1> QED
  BY <1>3, <1>4 DEF With

\* A step that touches neither the data nor the clock.
LEMMA KeepView ==
    ASSUME KeepData, clock' = clock
    PROVE  LiveView' = LiveView
BY DEF KeepData, LiveView

\* Get, Del, Expire and Ttl begin with the same look at the key.
LEMMA AbsentView ==
    ASSUME NEW k, NEW reply, Miss(k, reply) \/ LazyErase(k, reply)
    PROVE  /\ LiveView' = LiveView /\ k \notin DOMAIN LiveView
           /\ ret' = reply /\ clock' = clock
<1>1. CASE Miss(k, reply)
  BY <1>1, KeepView, ViewFacts DEF Miss, Found
<1>2. CASE LazyErase(k, reply)
  <2>1. LiveView' = LiveView
    BY <1>2, EraseExpiredView DEF LazyErase
  <2> QED
    BY <1>2, <2>1, ViewFacts DEF LazyErase
<1> QED
  BY <1>1, <1>2

\* Whole seconds, rounded up.
LEMMA CeilFacts ==
    ASSUME NEW left \in Nat \ {0}
    PROVE  LET s == CeilSeconds(left)
           IN  /\ s \in 1 .. left
               /\ (s - 1) * TicksPerSecond < left
               /\ left <= s * TicksPerSecond
<1> PICK T, s : T = TicksPerSecond /\ s = CeilSeconds(left)
  OBVIOUS
<1>1. T \in Nat \ {0}
  BY KVStoreAssumption
<1> PICK a : a = left + T - 1
  OBVIOUS
<1>2. s = a \div T /\ a \in Nat
  BY <1>1 DEF CeilSeconds
<1>3. s \in Int /\ T * s <= a /\ a < T * s + T
  BY <1>1, <1>2
<1>4. T * s < left + T /\ left <= T * s
  BY <1>1, <1>3
<1>5. s >= 1
  <2> SUFFICES ASSUME s <= 0 PROVE FALSE
    BY <1>3
  <2>1. T * s <= 0
    BY <1>1, <1>3
  <2> QED
    BY <1>1, <1>3, <1>4, <2>1
<1>6. s <= left
  <2> SUFFICES ASSUME s - 1 >= left PROVE FALSE
    BY <1>3
  <2>1. T * (s - 1) >= s - 1
    BY <1>1, <1>3, <1>5
  <2>2. T * (s - 1) = T * s - T
    BY <1>1, <1>3
  <2>3. T * s \in Int
    BY <1>1, <1>3
  <2> QED
    BY <1>1, <1>3, <1>4, <2>1, <2>2, <2>3
<1>7. (s - 1) * T = T * s - T /\ s * T = T * s /\ T * s \in Int
  BY <1>1, <1>3
<1> QED
  BY <1>1, <1>3, <1>4, <1>5, <1>6, <1>7

\* The map and the store speak of the same replies.
LEMMA SameReplies ==
    /\ \A k : Abstract!SetReply(k) = SetReply(k)
    /\ \A k, ok, v : Abstract!GetReply(k, ok, v) = GetReply(k, ok, v)
    /\ \A k, ok : Abstract!DelReply(k, ok) = DelReply(k, ok)
    /\ \A k, ok : Abstract!ExpireReply(k, ok) = ExpireReply(k, ok)
    /\ \A k, secs : Abstract!TtlReply(k, secs) = TtlReply(k, secs)
    /\ \A p, e : Abstract!StatsReply(p, e) = StatsReply(p, e)
    /\ \A f, S : Abstract!Restrict(f, S) = Restrict(f, S)
BY DEF Abstract!SetReply, SetReply, Abstract!GetReply, GetReply, Abstract!DelReply, DelReply,
       Abstract!ExpireReply, ExpireReply, Abstract!TtlReply, TtlReply, Abstract!StatsReply,
       StatsReply, Abstract!Restrict, Restrict

\* A live key, in the store and in its view.
LEMMA LiveKey ==
    ASSUME NEW k, Live(k)
    PROVE  /\ k \in DOMAIN LiveView
           /\ LiveView[k].value = m_data[k].value
           /\ LiveView[k].expireAt = m_data[k].expireAt
BY ViewFacts DEF Live, Found

\* SET in the store is SET in the map.
LEMMA SetRefines ==
    ASSUME NEW k \in Keys, NEW v \in Values, Set(k, v)
    PROVE  Abstract!Set(k, v)
<1>1. PICK e : m_data' = With(m_data, k, e) /\ e.value = v /\ e.expireAt = NoExpiry
  BY DEF Set, FreshEntry, Overwrite
<1>2. clock' = clock /\ ret' = SetReply(k)
  BY DEF Set
<1>3. LiveView' = With(LiveView, k, [value |-> v, expireAt |-> NoExpiry])
  BY <1>1, <1>2, WriteView DEF IsExpired, HasExpiry
<1>4. With(LiveView, k, [value |-> v, expireAt |-> NoExpiry])
      = Abstract!With(LiveView, k, [value |-> v, expireAt |-> NoExpiry])
  BY DEF With, Abstract!With
<1> QED
  BY <1>2, <1>3, <1>4, SameReplies DEF Abstract!Set

\* Get of a missing, an expired and a live key.
LEMMA GetRefines ==
    ASSUME NEW k \in Keys, Get(k)
    PROVE  Abstract!Get(k)
<1>1. CASE Miss(k, GetReply(k, FALSE, Nil)) \/ LazyErase(k, GetReply(k, FALSE, Nil))
  BY <1>1, AbsentView, SameReplies DEF Abstract!Get
<1>2. CASE Live(k) /\ ret' = GetReply(k, TRUE, m_data[k].value) /\ KeepData /\ clock' = clock
  BY <1>2, LiveKey, KeepView, SameReplies DEF Abstract!Get
<1> QED
  BY <1>1, <1>2 DEF Get

\* Del: what is expired was not there.
LEMMA DelRefines ==
    ASSUME NEW k \in Keys, Del(k)
    PROVE  Abstract!Del(k)
<1>1. CASE Miss(k, DelReply(k, FALSE)) \/ LazyErase(k, DelReply(k, FALSE))
  <2>1. LiveView' = LiveView /\ k \notin DOMAIN LiveView /\ ret' = DelReply(k, FALSE) /\ clock' = clock
    BY <1>1, AbsentView
  <2>2. LiveView = Restrict(LiveView, DOMAIN LiveView \ {k})
    <3>1. LiveView = [x \in DOMAIN LiveView |-> LiveView[x]]
      BY DEF LiveView
    <3>2. DOMAIN LiveView \ {k} = DOMAIN LiveView
      BY <2>1
    <3> QED
      BY <3>1, <3>2 DEF Restrict
  <2>3. (k \in DOMAIN LiveView) = FALSE
    BY <2>1
  <2> QED
    BY <2>1, <2>2, <2>3, SameReplies DEF Abstract!Del
<1>2. CASE Live(k) /\ EraseEntries({k}) /\ ret' = DelReply(k, TRUE) /\ clock' = clock
  <2>1. LiveView' = Restrict(LiveView, DOMAIN LiveView \ {k})
    BY <1>2, EraseView
  <2>2. (k \in DOMAIN LiveView) = TRUE
    BY <1>2, LiveKey
  <2> QED
    BY <1>2, <2>1, <2>2, SameReplies DEF Abstract!Del
<1> QED
  BY <1>1, <1>2 DEF Del

\* Expire, which deletes at once when the time is not positive.
LEMMA ExpireRefines ==
    ASSUME IInv, NEW k \in Keys, NEW s \in Seconds, Expire(k, s)
    PROVE  Abstract!Expire(k, s)
<1>0. s \in Int /\ clock \in Nat /\ TicksPerSecond \in Nat \ {0} /\ NoExpiry \notin Int
  BY KVStoreAssumption DEF IInv, TypeOK
<1>1. CASE ExpireIllegal(k, s)
  <2>1. LiveView' = LiveView /\ ret' = ExpireReply(k, FALSE) /\ clock' = clock
    BY <1>1, KeepView DEF ExpireIllegal
  <2>2. (s > 0 /\ k \in DOMAIN LiveView) = FALSE
    BY <1>0, <1>1 DEF ExpireIllegal
  <2> QED
    BY <2>1, <2>2, SameReplies DEF Abstract!Expire
<1>2. CASE Miss(k, ExpireReply(k, FALSE)) \/ LazyErase(k, ExpireReply(k, FALSE))
  <2>1. LiveView' = LiveView /\ k \notin DOMAIN LiveView /\ ret' = ExpireReply(k, FALSE) /\ clock' = clock
    BY <1>2, AbsentView
  <2>2. (s > 0 /\ k \in DOMAIN LiveView) = FALSE
    BY <2>1
  <2> QED
    BY <2>1, <2>2, SameReplies DEF Abstract!Expire
<1>3. CASE ExpireLive(k, s)
  <2>1. PICK at : at = clock + s * TicksPerSecond
    OBVIOUS
  <2>2. PICK e : m_data' = With(m_data, k, e) /\ e.value = m_data[k].value /\ e.expireAt = at
    BY <1>3, <2>1 DEF ExpireLive
  <2>3. s > 0 /\ Live(k) /\ ret' = ExpireReply(k, TRUE) /\ clock' = clock
    BY <1>3 DEF ExpireLive
  <2>4. at \in Int /\ at > clock
    <3>1. s * TicksPerSecond > 0 /\ s * TicksPerSecond \in Int
      BY <1>0, <2>3
    <3> QED
      BY <1>0, <2>1, <3>1
  <2>5. ~IsExpired(e, clock)
    BY <1>0, <2>2, <2>4 DEF IsExpired
  <2>6. LiveView' = With(LiveView, k, [value |-> m_data[k].value, expireAt |-> at])
    BY <2>2, <2>3, <2>5, WriteView
  <2>7. /\ k \in DOMAIN LiveView /\ LiveView = [x \in DOMAIN LiveView |-> LiveView[x]]
        /\ LiveView[k] = [value |-> m_data[k].value, expireAt |-> m_data[k].expireAt]
    BY <2>3, LiveKey, ViewFacts DEF LiveView
  <2>8. [LiveView EXCEPT ![k].expireAt = at] = LiveView'
    <3>1. [LiveView[k] EXCEPT !.expireAt = at] = [value |-> m_data[k].value, expireAt |-> at]
      BY <2>7
    <3>2. [LiveView EXCEPT ![k].expireAt = at]
          = [x \in DOMAIN LiveView |-> IF x = k THEN [LiveView[k] EXCEPT !.expireAt = at] ELSE LiveView[x]]
      BY <2>7
    <3>3. DOMAIN LiveView \cup {k} = DOMAIN LiveView
      BY <2>7
    <3> QED
      BY <2>6, <3>1, <3>2, <3>3 DEF With
  <2>9. (s > 0 /\ k \in DOMAIN LiveView) = TRUE
    BY <2>3, <2>7
  <2> QED
    BY <2>1, <2>3, <2>8, <2>9, SameReplies DEF Abstract!Expire
<1> QED
  BY <1>1, <1>2, <1>3 DEF Expire

\* Ttl: the seconds are rounded up as the abstract map rounds them.
LEMMA TtlRefines ==
    ASSUME IInv, NEW k \in Keys, Ttl(k)
    PROVE  Abstract!Ttl(k)
<1>1. CASE Miss(k, TtlReply(k, -2)) \/ LazyErase(k, TtlReply(k, -2))
  BY <1>1, AbsentView, SameReplies DEF Abstract!Ttl
<1>2. CASE /\ Live(k)
           /\ ret' = TtlReply(k, IF HasExpiry(m_data[k])
                                 THEN CeilSeconds(m_data[k].expireAt - clock) ELSE -1)
           /\ KeepData /\ clock' = clock
  <2>1. LiveView' = LiveView
    BY <1>2, KeepView
  <2>2. k \in DOMAIN LiveView /\ LiveView[k].expireAt = m_data[k].expireAt
    BY <1>2, LiveKey
  <2>3. CASE ~HasExpiry(m_data[k])
    <3>1. k \in Abstract!Persistent
      BY <2>2, <2>3 DEF Abstract!Persistent, HasExpiry
    <3> QED
      BY <1>2, <2>1, <2>3, <3>1, SameReplies DEF Abstract!Ttl
  <2>4. CASE HasExpiry(m_data[k])
    <3>1. k \in DOMAIN LiveView \ Abstract!Persistent
      BY <2>2, <2>4 DEF Abstract!Persistent, HasExpiry
    <3>2. PICK left : left = LiveView[k].expireAt - clock
      OBVIOUS
    <3>3. left \in Nat \ {0}
      <4>1. m_data[k].expireAt \in Nat /\ clock \in Nat
        BY <1>2, <2>4 DEF Live, Found, HasExpiry, IInv, TypeOK, Entry
      <4>2. ~(clock >= m_data[k].expireAt)
        BY <1>2, <2>4 DEF Live, IsExpired
      <4> QED
        BY <2>2, <3>2, <4>1, <4>2
    <3>4. PICK s : s = CeilSeconds(left)
      OBVIOUS
    <3>5. s \in 1 .. left /\ (s - 1) * TicksPerSecond < left /\ left <= s * TicksPerSecond
      BY <3>3, <3>4, CeilFacts
    <3>6. ret' = TtlReply(k, s)
      BY <1>2, <2>2, <2>4, <3>2, <3>4
    <3> QED
      BY <1>2, <2>1, <3>1, <3>2, <3>5, <3>6, SameReplies DEF Abstract!Ttl
  <2> QED
    BY <2>3, <2>4
<1> QED
  BY <1>1, <1>2 DEF Ttl

\* ... and count alike.
LEMMA SameCardinality ==
    ASSUME NEW S
    PROVE  Abstract!Cardinality(S) = Cardinality(S)
BY Zenon DEF Cardinality, Abstract!Cardinality

\* The counters answer for the keys in storage: all persistent ones, and the
\* expiring ones that are alive or not yet erased.
LEMMA StatsRefines ==
    ASSUME IInv, Stats
    PROVE  Abstract!Stats
<1> DEFINE D == DOMAIN m_data
           P == {k \in D : ~HasExpiry(m_data[k])}
           E == {k \in D : HasExpiry(m_data[k])}
<1>1. LiveView' = LiveView /\ clock' = clock /\ ret' = StatsReply(m_persistentKeys, m_expiringKeys)
  BY KeepView DEF Stats
<1>2. Abstract!Persistent = P
  <2>1. \A k \in P : ~IsExpired(m_data[k], clock)
    BY DEF IsExpired
  <2>2. \A k \in DOMAIN LiveView : LiveView[k].expireAt = m_data[k].expireAt
    BY ViewFacts
  <2> QED
    BY <2>1, <2>2, ViewFacts DEF Abstract!Persistent, HasExpiry
<1>3. DOMAIN LiveView \ P \subseteq E /\ P \cup E = D /\ P \cap E = {} /\ D \subseteq Keys
  BY ViewFacts DEF IInv, TypeOK
<1>4. m_persistentKeys = Cardinality(P) /\ m_expiringKeys = Cardinality(E)
  BY DEF IInv, CountersMatch, PersistentIn, ExpiringIn
<1> HIDE DEF D, P, E
<1>5. /\ IsFiniteSet(Keys) /\ IsFiniteSet(D) /\ IsFiniteSet(P) /\ IsFiniteSet(E)
      /\ Cardinality(Keys) \in Nat /\ Cardinality(D) \in Nat
      /\ Cardinality(P) \in Nat /\ Cardinality(E) \in Nat /\ Cardinality(D) <= Cardinality(Keys)
  <2>1. IsFiniteSet(Keys) /\ D \in SUBSET Keys /\ P \in SUBSET Keys /\ E \in SUBSET Keys
    BY <1>3, KVStoreAssumption
  <2> QED
    BY <2>1, FS_Subset, FS_CardinalityType
<1>6. Cardinality(D) = Cardinality(P) + Cardinality(E)
  <2>1. P = D \ E /\ E \subseteq D
    BY <1>3
  <2>2. Cardinality(P) = Cardinality(D) - Cardinality(E)
    BY <1>5, <2>1, CardinalityOfRest
  <2> QED
    BY <1>5, <2>2
<1>7. Cardinality(E) >= Cardinality(DOMAIN LiveView \ P)
  <2>1. Cardinality(DOMAIN LiveView \ P) <= Cardinality(E) /\ IsFiniteSet(DOMAIN LiveView \ P)
    BY <1>3, <1>5, FS_Subset
  <2>2. Cardinality(DOMAIN LiveView \ P) \in Nat
    BY <2>1, FS_CardinalityType
  <2> QED
    BY <1>5, <2>1, <2>2
<1>8. Cardinality(E) \in 0 .. Cardinality(Keys)
      /\ Cardinality(E) + Cardinality(P) <= Cardinality(Keys)
  BY <1>5, <1>6
<1>9. ret' = Abstract!StatsReply(Cardinality(P), Cardinality(E))
  BY <1>1, <1>4, SameReplies
<1>10. /\ Cardinality(E) \in 0 .. Cardinality(Keys)
       /\ Cardinality(E) >= Cardinality(DOMAIN LiveView \ Abstract!Persistent)
       /\ Cardinality(E) + Cardinality(Abstract!Persistent) <= Cardinality(Keys)
       /\ ret' = Abstract!StatsReply(Cardinality(Abstract!Persistent), Cardinality(E))
  BY <1>2, <1>7, <1>8, <1>9
<1> QED
  BY <1>1, <1>10, SameCardinality DEF Abstract!Stats

\* A sweep takes expired keys only: a record that is current has the entry's own
\* instant, and is due.
LEMMA SweepRefines ==
    ASSUME IInv, NEW limit, SweepExpired(limit)
    PROVE  Abstract!Sweep
<1>1. PICK batch \in SUBSET Due(m_expirations, clock) :
         LET removed == {r.key : r \in {q \in batch : Current(q)}}
         IN  /\ EraseEntries(removed)
             /\ \E a, b, c, d : ret' = SweepReply(a, b, c, d)
             /\ clock' = clock
  BY Zenon DEF SweepExpired
<1> DEFINE removed == {r.key : r \in {q \in batch : Current(q)}}
<1>2. ASSUME NEW k \in removed PROVE IsExpired(m_data[k], clock)
  <2>1. PICK r \in batch : Current(r) /\ r.key = k
    OBVIOUS
  <2>2. r.expireAt <= clock /\ r.expireAt \in Nat /\ clock \in Nat
    BY DEF Due, IInv, TypeOK, ExpirationRecord
  <2> QED
    BY <2>1, <2>2 DEF Current, IsExpired
<1>3. LiveView' = LiveView
  <2>1. EraseEntries(removed) /\ clock' = clock
    BY <1>1
  <2> HIDE DEF removed
  <2> QED
    BY <1>2, <2>1, EraseExpiredView
<1>4. ret'.op = "sweep"
  BY <1>1 DEF SweepReply
<1> QED
  BY <1>1, <1>3, <1>4 DEF Abstract!Sweep

\* When time passes the view loses the keys whose instant has come.
LEMMA TickRefines ==
    ASSUME IInv, Tick
    PROVE  Abstract!Tick
<1>1. clock' = clock + 1 /\ ret' = ret /\ m_data' = m_data /\ clock \in Nat
  BY DEF Tick, KeepData, IInv, TypeOK
<1>2. PICK S : S = {k \in DOMAIN LiveView :
                      LiveView[k].expireAt = NoExpiry \/ clock + 1 < LiveView[k].expireAt}
  OBVIOUS
<1>3. {k \in DOMAIN m_data : ~IsExpired(m_data[k], clock + 1)} = S
  <2>1. ASSUME NEW k \in DOMAIN m_data
        PROVE  k \in S <=> ~IsExpired(m_data[k], clock + 1)
    <3>1. m_data[k].expireAt \in Nat \/ m_data[k].expireAt = NoExpiry
      BY DEF IInv, TypeOK, Entry
    <3>2. k \in DOMAIN LiveView <=> ~IsExpired(m_data[k], clock)
      BY ViewFacts
    <3>3. k \in DOMAIN LiveView => LiveView[k].expireAt = m_data[k].expireAt
      BY ViewFacts
    <3>4. k \in S <=> /\ k \in DOMAIN LiveView
                      /\ m_data[k].expireAt = NoExpiry \/ clock + 1 < m_data[k].expireAt
      BY <1>2, <3>3
    <3>5. CASE m_data[k].expireAt = NoExpiry
      BY <3>2, <3>4, <3>5 DEF IsExpired, HasExpiry
    <3>6. CASE m_data[k].expireAt # NoExpiry
      <4>1. PICK at : at = m_data[k].expireAt
        OBVIOUS
      <4>2. at \in Nat /\ at # NoExpiry
        BY <3>1, <3>6, <4>1
      <4>3. IsExpired(m_data[k], clock) <=> clock >= at
        BY <4>1, <4>2 DEF IsExpired, HasExpiry
      <4>4. IsExpired(m_data[k], clock + 1) <=> clock + 1 >= at
        BY <4>1, <4>2 DEF IsExpired, HasExpiry
      <4>5. k \in S <=> ~(clock >= at) /\ clock + 1 < at
        BY <3>2, <3>4, <4>1, <4>2, <4>3
      <4> QED
        BY <1>1, <4>2, <4>4, <4>5
    <3> QED
      BY <3>5, <3>6
  <2>2. S \subseteq DOMAIN m_data
    BY <1>2, ViewFacts
  <2> QED
    BY <2>1, <2>2
<1>4. LiveView' = [k \in S |-> [value |-> m_data[k].value, expireAt |-> m_data[k].expireAt]]
  BY <1>1, <1>3 DEF LiveView
<1>5. \A k \in S : LiveView[k] = [value |-> m_data[k].value, expireAt |-> m_data[k].expireAt]
  BY <1>2, ViewFacts
<1>6. LiveView' = [k \in S |-> LiveView[k]]
  BY <1>4, <1>5
<1> HIDE DEF LiveView
<1> QED
  BY <1>1, <1>2, <1>6 DEF Abstract!Tick, Abstract!RestrictValues, Abstract!Restrict

\* Every step of the store is one of the map.
LEMMA StepRefines ==
    ASSUME IInv, [Next]_vars
    PROVE  [Abstract!Next]_(Abstract!absVars)
<1>1. CASE ClientOp
  BY <1>1, SetRefines, GetRefines, DelRefines, ExpireRefines, TtlRefines, StatsRefines
     DEF ClientOp, Abstract!Next
<1>2. CASE Sweep
  BY <1>2, SweepRefines DEF Sweep, Abstract!Next
<1>3. CASE Tick
  BY <1>3, TickRefines DEF Abstract!Next
<1>4. CASE UNCHANGED vars
  BY <1>4 DEF vars, LiveView, Abstract!absVars
<1> QED
  BY <1>1, <1>2, <1>3, <1>4 DEF Next

\* KVStore keeps its contract: to its callers it is a map whose keys vanish at
\* their very instant, whatever the lazy deletion, the stale records and the
\* rebuilds of the heap do, for every set of keys and every sweep.
THEOREM StoreImplementsTTLMap == Spec => RefinesTTLMap
<1>1. Init => Abstract!Init
  <2> SUFFICES ASSUME Init PROVE Abstract!Init
    OBVIOUS
  <2>1. m_data = [k \in {} |-> Nil] /\ clock = 0 /\ ret = NoReply
    BY DEF Init
  <2>2. LiveView = [k \in {} |-> Nil]
    BY <2>1 DEF LiveView
  <2> QED
    BY <2>1, <2>2 DEF Abstract!Init, NoReply, Abstract!NoReply
<1>2. IInv /\ [Next]_vars => [Abstract!Next]_(Abstract!absVars)
  BY StepRefines
<1> QED
  BY <1>1, <1>2, Invariance, PTL DEF Spec, RefinesTTLMap, Abstract!Spec

=============================================================================
