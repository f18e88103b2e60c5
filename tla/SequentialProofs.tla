--------------------------- MODULE SequentialProofs ---------------------------
(***************************************************************************)
(* The components that work within one thread or between one client and    *)
(* one connection, for all values of their constants.                      *)
(*                                                                         *)
(* OutputBuffer keeps its position inside the storage, bounds what it      *)
(* wastes, and implements a queue of bytes.  ScopedFd closes every         *)
(* descriptor once.  FrameCodec: ntohl inverts htonl, Decode inverts       *)
(* Encode, and the two ends of a stream implement a channel of payloads,   *)
(* however TCP cuts its bytes.  The interactive client prints the answers  *)
(* in the order of its lines and has nothing under way at its prompt.      *)
(* CommandParser recognises exactly the lines that the grammar has, and    *)
(* the answers that Commands gives are true of the store.                  *)
(***************************************************************************)
EXTENDS OutputBuffer, ScopedFd, Commands, FrameStream, Client, SequenceTheorems,
        RecursionLemmas

-----------------------------------------------------------------------------
(* OutputBuffer *)

\* The unsent bytes of a storage with its position.
Unsent(storage, readPos) == SubSeq(storage, readPos + 1, Len(storage))

\* Facts about the unsent bytes as a sequence (Data, Size of the buffer).
LEMMA UnsentIsSeq ==
    ASSUME NEW s \in Seq(Byte), NEW p \in 0..Len(s)
    PROVE  /\ Unsent(s, p) \in Seq(Byte)
           /\ Len(Unsent(s, p)) = Len(s) - p
           /\ \A i \in 1..(Len(s) - p) : Unsent(s, p)[i] = s[p + i]
<1>1. /\ Len(s) \in Nat
      /\ \A i \in (p + 1)..Len(s) : s[i] \in Byte
  BY LenProperties
<1>2. /\ SubSeq(s, p + 1, Len(s)) \in Seq(Byte)
      /\ Len(SubSeq(s, p + 1, Len(s))) =
            IF p + 1 <= Len(s) THEN Len(s) - (p + 1) + 1 ELSE 0
      /\ \A i \in 1..(Len(s) - (p + 1) + 1) :
            SubSeq(s, p + 1, Len(s))[i] = s[(p + 1) + i - 1]
  BY <1>1, SubSeqProperties
<1> QED
  BY <1>1, <1>2 DEF Unsent

\* Appending to the storage appends to the unsent bytes (Append).
LEMMA UnsentOfConcat ==
    ASSUME NEW s \in Seq(Byte), NEW p \in 0..Len(s), NEW d \in Seq(Byte)
    PROVE  Unsent(s \o d, p) = Unsent(s, p) \o d
<1> DEFINE sd == s \o d
           t == Unsent(s, p)
           u == Unsent(sd, p)
<1>1. /\ sd \in Seq(Byte)
      /\ Len(sd) = Len(s) + Len(d)
      /\ \A i \in 1..(Len(s) + Len(d)) :
            sd[i] = IF i <= Len(s) THEN s[i] ELSE d[i - Len(s)]
  BY ConcatProperties
<1>2. Len(s) \in Nat /\ Len(d) \in Nat
  BY LenProperties
<1> HIDE DEF sd
<1>3. p \in 0..Len(sd)
  BY <1>1, <1>2
<1>4. /\ u \in Seq(Byte)
      /\ Len(u) = Len(sd) - p
      /\ \A i \in 1..(Len(sd) - p) : u[i] = sd[p + i]
  BY <1>1, <1>3, UnsentIsSeq
<1>5. /\ t \in Seq(Byte)
      /\ Len(t) = Len(s) - p
      /\ \A i \in 1..(Len(s) - p) : t[i] = s[p + i]
  BY UnsentIsSeq
<1> HIDE DEF t, u
<1>6. /\ t \o d \in Seq(Byte)
      /\ Len(t \o d) = Len(t) + Len(d)
      /\ \A i \in 1..(Len(t) + Len(d)) :
            (t \o d)[i] = IF i <= Len(t) THEN t[i] ELSE d[i - Len(t)]
  BY <1>5, ConcatProperties
<1>7. Len(u) = Len(t \o d)
  BY <1>1, <1>2, <1>4, <1>5, <1>6
<1>8. ASSUME NEW i \in 1..Len(u)
      PROVE  u[i] = (t \o d)[i]
  <2>1. i \in 1..(Len(sd) - p) /\ i \in 1..(Len(t) + Len(d)) /\ p + i \in 1..(Len(s) + Len(d))
    BY <1>1, <1>2, <1>4, <1>5
  <2>2. u[i] = IF p + i <= Len(s) THEN s[p + i] ELSE d[(p + i) - Len(s)]
    BY <1>1, <1>4, <2>1
  <2>3. CASE p + i <= Len(s)
    <3>1. i \in 1..(Len(s) - p) /\ i <= Len(t)
      BY <1>2, <1>5, <2>1, <2>3
    <3> QED
      BY <1>5, <1>6, <2>1, <2>2, <2>3, <3>1
  <2>4. CASE ~(p + i <= Len(s))
    <3>1. ~(i <= Len(t)) /\ (p + i) - Len(s) = i - Len(t)
      BY <1>2, <1>5, <2>1, <2>4
    <3> QED
      BY <1>6, <2>1, <2>2, <2>4, <3>1
  <2> QED
    BY <2>3, <2>4
<1>9. u = t \o d
  BY <1>4, <1>6, <1>7, <1>8, SeqEqual
<1> QED
  BY <1>9 DEF sd, t, u

\* Moving the position drops bytes from the front (Consume).
LEMMA UnsentOfUnsent ==
    ASSUME NEW s \in Seq(Byte), NEW p \in 0..Len(s), NEW n \in 0..(Len(s) - p)
    PROVE  Unsent(s, p + n) = Unsent(Unsent(s, p), n)
<1>1. Len(s) \in Nat
  BY LenProperties
<1>2. p + n \in 0..Len(s)
  BY <1>1
<1> DEFINE t == Unsent(s, p)
<1>3. /\ t \in Seq(Byte)
      /\ Len(t) = Len(s) - p
      /\ \A i \in 1..(Len(s) - p) : t[i] = s[p + i]
  BY UnsentIsSeq
<1> HIDE DEF t
<1>4. /\ Unsent(t, n) \in Seq(Byte)
      /\ Len(Unsent(t, n)) = Len(t) - n
      /\ \A i \in 1..(Len(t) - n) : Unsent(t, n)[i] = t[n + i]
  BY <1>3, UnsentIsSeq
<1>5. /\ Unsent(s, p + n) \in Seq(Byte)
      /\ Len(Unsent(s, p + n)) = Len(s) - (p + n)
      /\ \A i \in 1..(Len(s) - (p + n)) : Unsent(s, p + n)[i] = s[p + n + i]
  BY <1>2, UnsentIsSeq
<1>6. Len(Unsent(s, p + n)) = Len(Unsent(t, n))
  <2>1. Len(s) - (p + n) = (Len(s) - p) - n
    BY <1>1
  <2> QED
    BY <2>1, <1>3, <1>4, <1>5
<1>7. ASSUME NEW i \in 1..Len(Unsent(s, p + n))
      PROVE  Unsent(s, p + n)[i] = Unsent(t, n)[i]
  BY <1>1, <1>3, <1>4, <1>5
<1>8. Unsent(s, p + n) = Unsent(t, n)
  BY <1>4, <1>5, <1>6, <1>7, SeqEqual
<1> QED
  BY <1>8 DEF t

\* With nothing sent the unsent bytes are the storage; with all sent, none.
LEMMA UnsentEnds ==
    ASSUME NEW s \in Seq(Byte)
    PROVE  /\ Unsent(s, 0) = s
           /\ Unsent(s, Len(s)) = <<>>
<1>1. Len(s) \in Nat
  BY LenProperties
<1>2. SubSeq(s, 1, Len(s)) = s
  BY SubSeqFull
<1>3. SubSeq(s, Len(s) + 1, Len(s)) = <<>>
  BY <1>1, SubSeqEmpty
<1> QED
  BY <1>2, <1>3 DEF Unsent

\* CompactIfNeed keeps the unsent bytes and leaves little before them.
LEMMA CompactKeepsUnsent ==
    ASSUME NEW s \in Seq(Byte), NEW p \in 0..Len(s)
    PROVE  LET c == CompactIfNeed(s, p)
           IN  /\ c.storage \in Seq(Byte)
               /\ c.readPos \in 0..Len(c.storage)
               /\ Unsent(c.storage, c.readPos) = Unsent(s, p)
               /\ c.readPos < COMPACT_THRESHOLD \/ c.readPos < Len(c.storage) \div 2
               /\ p < Len(s) => c.readPos < Len(c.storage)
<1>1. Len(s) \in Nat
  BY LenProperties
<1>2. /\ Unsent(s, p) \in Seq(Byte)
      /\ Len(Unsent(s, p)) = Len(s) - p
  BY UnsentIsSeq
<1>3. CASE ShouldCompact(s, p)
  <2>1. CompactIfNeed(s, p) = [storage |-> Unsent(s, p), readPos |-> 0]
    BY <1>3 DEF CompactIfNeed, Unsent
  <2>2. Unsent(Unsent(s, p), 0) = Unsent(s, p)
    BY <1>2, UnsentEnds
  <2> QED
    BY <1>1, <1>2, <2>1, <2>2, OutputBufferAssumption
<1>4. CASE ~ShouldCompact(s, p)
  <2>1. CompactIfNeed(s, p) = [storage |-> s, readPos |-> p]
    BY <1>4 DEF CompactIfNeed
  <2>2. p < COMPACT_THRESHOLD \/ p < Len(s) \div 2
    BY <1>1, <1>4, OutputBufferAssumption DEF ShouldCompact
  <2> QED
    BY <2>1, <2>2
<1> QED
  BY <1>3, <1>4

-----------------------------------------------------------------------------
(***************************************************************************)
(* Invariance.                                                             *)
(***************************************************************************)
\* WasteBounded needs the types; nothing else is needed for induction.
IInv == TypeOK /\ WasteBounded

\* The empty buffer satisfies the invariant.
LEMMA EmptyOK == m_storage = <<>> /\ m_readPos = 0 /\ thrown \in BOOLEAN => IInv
  BY OutputBufferAssumption DEF IInv, TypeOK, WasteBounded

\* The same of the state after a step that leaves the buffer empty.
LEMMA EmptyNextOK ==
    ASSUME m_storage' = <<>>, m_readPos' = 0, thrown' = FALSE
    PROVE  IInv'
<1>1. <<>> \in Seq(Byte) /\ Len(<<>>) = 0
  OBVIOUS
<1>2. /\ m_storage' \in Seq(Byte)
      /\ m_readPos' \in 0..Len(m_storage')
      /\ m_readPos' < COMPACT_THRESHOLD
  BY <1>1, OutputBufferAssumption
<1>3. thrown' \in BOOLEAN
  OBVIOUS
<1> QED
  BY <1>2, <1>3 DEF IInv, TypeOK, WasteBounded

\* Append keeps the invariant: a longer storage only makes the prefix relatively
\* shorter.
LEMMA AppendKeepsIInv ==
    ASSUME IInv, NEW data \in Chunks, AppendData(data)
    PROVE  IInv'
<1>0. m_storage \in Seq(Byte) /\ m_readPos \in 0..Len(m_storage)
  BY DEF IInv, TypeOK
<1>1. data \in Seq(Byte)
  BY OutputBufferAssumption
<1>2. CASE data = <<>>
  BY <1>2 DEF AppendData, IInv, TypeOK, WasteBounded
<1>3. CASE data # <<>>
  <2> DEFINE s == CompactIfNeed(m_storage, m_readPos).storage
             p == CompactIfNeed(m_storage, m_readPos).readPos
  <2>1. /\ s \in Seq(Byte)
        /\ p \in 0..Len(s)
        /\ p < COMPACT_THRESHOLD \/ p < Len(s) \div 2
    BY <1>0, CompactKeepsUnsent
  <2>2. m_storage' = s \o data /\ m_readPos' = p
    BY <1>3 DEF AppendData
  <2> HIDE DEF s, p
  <2>3. s \o data \in Seq(Byte) /\ Len(s \o data) = Len(s) + Len(data)
    BY <1>1, <2>1, ConcatProperties
  <2>4. Len(data) \in Nat \ {0} /\ Len(s) \in Nat
    BY <1>1, <1>3, <2>1, LenProperties, EmptySeq
  <2>5. p < Len(s) + Len(data) /\ p \in 0..(Len(s) + Len(data))
    BY <2>1, <2>4
  <2>6. p < COMPACT_THRESHOLD \/ p < (Len(s) + Len(data)) \div 2
    BY <2>1, <2>4
  <2>7. p # Len(s) + Len(data)
    BY <2>4, <2>5
  <2>8. thrown' \in BOOLEAN
    BY DEF AppendData
  <2> QED
    BY <2>2, <2>3, <2>5, <2>6, <2>7, <2>8, Zenon DEF IInv, TypeOK, WasteBounded
<1> QED
  BY <1>2, <1>3

\* Consume keeps the invariant: it clears or compacts.
LEMMA ConsumeKeepsIInv ==
    ASSUME IInv, NEW bytes \in Sizes, Consume(bytes)
    PROVE  IInv'
<1>0. m_storage \in Seq(Byte) /\ m_readPos \in 0..Len(m_storage)
  BY DEF IInv, TypeOK
<1>1. bytes \in Nat /\ Len(m_storage) \in Nat
  BY <1>0, OutputBufferAssumption, LenProperties
<1>2. CASE m_readPos + bytes = Len(m_storage)
  <2>1. m_storage' = <<>> /\ m_readPos' = 0 /\ thrown' = FALSE
    BY <1>2 DEF Consume
  <2> QED
    BY <2>1, EmptyNextOK
<1>3. CASE m_readPos + bytes # Len(m_storage)
  <2> DEFINE q == m_readPos + bytes
             s == CompactIfNeed(m_storage, q).storage
             p == CompactIfNeed(m_storage, q).readPos
  <2>1. q \in 0..Len(m_storage) /\ q < Len(m_storage)
    BY <1>0, <1>1, <1>3 DEF Consume, Size
  <2>2. m_storage' = s /\ m_readPos' = p
    BY <1>3 DEF Consume
  <2> HIDE DEF q
  <2>3. /\ s \in Seq(Byte)
        /\ p \in 0..Len(s)
        /\ p < COMPACT_THRESHOLD \/ p < Len(s) \div 2
        /\ p < Len(s)
    BY <1>0, <2>1, CompactKeepsUnsent
  <2> HIDE DEF s, p
  <2>4. p # Len(s)
    BY <2>3, LenProperties
  <2>5. thrown' \in BOOLEAN
    BY DEF Consume
  <2> QED
    BY <2>2, <2>3, <2>4, <2>5, Zenon DEF IInv, TypeOK, WasteBounded
<1> QED
  BY <1>2, <1>3

\* Every reachable buffer satisfies the invariant.
THEOREM BufferInvariant == Spec => []IInv
<1>1. Init => IInv
  BY EmptyOK DEF Init
<1>2. IInv /\ [Next]_vars => IInv'
  <2> SUFFICES ASSUME IInv, [Next]_vars PROVE IInv'
    OBVIOUS
  <2>1. ASSUME NEW data \in Chunks, AppendData(data) PROVE IInv'
    BY <2>1, AppendKeepsIInv
  <2>2. ASSUME NEW bytes \in Sizes, Consume(bytes) PROVE IInv'
    BY <2>2, ConsumeKeepsIInv
  <2>3. ASSUME NEW bytes \in Sizes, ConsumeThrows(bytes) PROVE IInv'
    BY <2>3 DEF ConsumeThrows, IInv, TypeOK, WasteBounded
  <2>4. ASSUME Clear PROVE IInv'
    BY <2>4, EmptyNextOK DEF Clear
  <2>5. CASE UNCHANGED vars
    BY <2>5 DEF vars, IInv, TypeOK, WasteBounded
  <2> QED
    BY <2>1, <2>2, <2>3, <2>4, <2>5 DEF Next
<1> QED
  BY <1>1, <1>2, PTL DEF Spec

\* The read position never leaves the storage, so Size does not wrap.
THEOREM BufferTypeCorrect == Spec => []TypeOK
<1>1. IInv => TypeOK
  BY DEF IInv
<1> QED
  BY <1>1, BufferInvariant, PTL

\* The sent bytes kept in front are fewer than the threshold or than half.
THEOREM BufferWasteBounded == Spec => []WasteBounded
<1>1. IInv => WasteBounded
  BY DEF IInv
<1> QED
  BY <1>1, BufferInvariant, PTL

\* Both together, for every threshold and every pattern of appends and partial
\* writes.
THEOREM BufferAlwaysBounded == Spec => []BufferBounded
<1>1. IInv => BufferBounded
  BY DEF IInv, BufferBounded
<1> QED
  BY <1>1, BufferInvariant, PTL

-----------------------------------------------------------------------------
(***************************************************************************)
(* Refinement.                                                             *)
(***************************************************************************)
\* Append of the buffer is Enqueue of the queue.
LEMMA AppendEnqueues ==
    ASSUME IInv, NEW data \in Chunks, AppendData(data)
    PROVE  Queue!Enqueue(data)
<1> USE DEF IInv, TypeOK
<1>1. data \in Seq(Byte)
  BY OutputBufferAssumption
<1>2. thrown' = FALSE
  BY DEF AppendData
<1>3. CASE data = <<>>
  <2>1. m_storage' = m_storage /\ m_readPos' = m_readPos
    BY <1>3 DEF AppendData
  <2>2. Data \in Seq(Byte)
    BY UnsentIsSeq DEF Data, Unsent
  <2>3. Data \o data = Data
    BY <1>3, <2>2, ConcatEmptySeq
  <2>4. Data' = Data
    BY <2>1 DEF Data
  <2> QED
    BY <1>2, <2>3, <2>4 DEF Queue!Enqueue
<1>4. CASE data # <<>>
  <2> DEFINE c == CompactIfNeed(m_storage, m_readPos)
  <2>1. /\ c.storage \in Seq(Byte)
        /\ c.readPos \in 0..Len(c.storage)
        /\ Unsent(c.storage, c.readPos) = Unsent(m_storage, m_readPos)
    BY CompactKeepsUnsent
  <2>2. m_storage' = c.storage \o data /\ m_readPos' = c.readPos
    BY <1>4 DEF AppendData
  <2> HIDE DEF c
  <2>3. Unsent(c.storage \o data, c.readPos) = Unsent(c.storage, c.readPos) \o data
    BY <1>1, <2>1, UnsentOfConcat
  <2>4. Data' = Unsent(c.storage \o data, c.readPos)
    BY <2>2 DEF Data, Unsent
  <2>5. Data = Unsent(m_storage, m_readPos)
    BY DEF Data, Unsent
  <2> QED
    BY <1>2, <2>1, <2>3, <2>4, <2>5 DEF Queue!Enqueue
<1> QED
  BY <1>3, <1>4

\* Consume of the buffer is Consume of the queue, whether it clears, compacts or
\* only moves the position.
LEMMA ConsumeDequeues ==
    ASSUME IInv, NEW bytes \in Sizes, Consume(bytes)
    PROVE  Queue!Consume(bytes)
<1> USE DEF IInv, TypeOK
<1>1. bytes \in Nat /\ Len(m_storage) \in Nat
  BY OutputBufferAssumption, LenProperties
<1>2. bytes \in 0..(Len(m_storage) - m_readPos) /\ thrown' = FALSE
  BY <1>1 DEF Consume, Size
<1>3. Data = Unsent(m_storage, m_readPos)
  BY DEF Data, Unsent
<1>4. Len(Data) = Len(m_storage) - m_readPos
  BY <1>3, UnsentIsSeq
<1> DEFINE p == m_readPos + bytes
<1>5. Unsent(m_storage, p) = Unsent(Data, bytes)
  BY <1>2, <1>3, UnsentOfUnsent
<1>6. Data' = Unsent(m_storage, p)
  <2>1. CASE p = Len(m_storage)
    <3>1. m_storage' = <<>> /\ m_readPos' = 0
      BY <2>1 DEF Consume
    <3>2. Data' = <<>>
      <4>1. SubSeq(<<>>, 1, 0) = <<>>
        BY SubSeqEmpty
      <4> QED
        BY <3>1, <4>1 DEF Data
    <3> QED
      BY <2>1, <3>2, UnsentEnds
  <2>2. CASE p # Len(m_storage)
    <3> DEFINE c == CompactIfNeed(m_storage, p)
    <3>1. m_storage' = c.storage /\ m_readPos' = c.readPos
      BY <2>2 DEF Consume
    <3>2. p \in 0..Len(m_storage)
      BY <1>1, <1>2
    <3> HIDE DEF p
    <3>3. Unsent(c.storage, c.readPos) = Unsent(m_storage, p)
      BY <3>2, CompactKeepsUnsent
    <3> HIDE DEF c
    <3>4. Data' = Unsent(c.storage, c.readPos)
      BY <3>1 DEF Data, Unsent
    <3> QED
      BY <3>3, <3>4
  <2> QED
    BY <2>1, <2>2
<1>7. Data' = SubSeq(Data, bytes + 1, Len(Data))
  BY <1>5, <1>6 DEF Unsent
<1> QED
  BY <1>1, <1>2, <1>4, <1>7 DEF Queue!Consume

\* A Consume that throws throws in the queue too.
LEMMA ThrowsTogether ==
    ASSUME IInv, NEW bytes \in Sizes, ConsumeThrows(bytes)
    PROVE  Queue!Consume(bytes)
<1>1. Len(Data) = Len(m_storage) - m_readPos
  BY UnsentIsSeq DEF Data, Unsent, IInv, TypeOK
<1>2. bytes > Len(Data) /\ thrown' = TRUE
  BY <1>1 DEF ConsumeThrows, Size
<1>3. Data' = Data
  BY DEF ConsumeThrows, Data
<1> QED
  BY <1>2, <1>3 DEF Queue!Consume

\* The buffer implements the byte queue: no byte of a response is lost, repeated
\* or reordered by appends, partial writes and compactions.
THEOREM BufferIsByteQueue == Spec => RefinesByteQueue
<1>1. Init => Queue!Init
  <2> SUFFICES ASSUME Init PROVE Queue!Init
    OBVIOUS
  <2>1. SubSeq(<<>>, 1, 0) = <<>>
    BY SubSeqEmpty
  <2>2. Data = <<>>
    BY <2>1 DEF Data, Init
  <2> QED
    BY <2>2 DEF Init, Queue!Init
<1>2. IInv /\ [Next]_vars => [Queue!Next]_(Queue!vars)
  <2> SUFFICES ASSUME IInv, [Next]_vars PROVE [Queue!Next]_(Queue!vars)
    OBVIOUS
  <2>1. ASSUME NEW data \in Chunks, AppendData(data) PROVE Queue!Next
    BY <2>1, AppendEnqueues DEF Queue!Next
  <2>2. ASSUME NEW bytes \in Sizes, Consume(bytes) PROVE Queue!Next
    BY <2>2, ConsumeDequeues DEF Queue!Next
  <2>3. ASSUME NEW bytes \in Sizes, ConsumeThrows(bytes) PROVE Queue!Next
    BY <2>3, ThrowsTogether DEF Queue!Next
  <2>4. ASSUME Clear PROVE Queue!Next
    <3>1. SubSeq(<<>>, 1, 0) = <<>>
      BY SubSeqEmpty
    <3>2. Data' = <<>> /\ thrown' = FALSE
      BY <2>4, <3>1 DEF Clear, Data
    <3> QED
      BY <3>2 DEF Queue!Next, Queue!Clear
  <2>5. CASE UNCHANGED vars
    BY <2>5 DEF vars, Queue!vars, Data
  <2> QED
    BY <2>1, <2>2, <2>3, <2>4, <2>5 DEF Next
<1> QED
  BY <1>1, <1>2, BufferInvariant, PTL DEF Spec, RefinesByteQueue, Queue!Spec

-----------------------------------------------------------------------------
(* ScopedFd: the three invariants together are inductive *)

FdInv == FdTypeOK /\ OwnedOnce /\ NeverClosedTwice

USE FdAssumption DEF INVALID_FD

\* The first state: no object, no descriptor.
LEMMA FdInitInv == FdInit => FdInv
<1> SUFFICES ASSUME FdInit PROVE FdInv
  OBVIOUS
<1>1. m_fd \in [{} -> Fds \cup {INVALID_FD}] /\ {} \in SUBSET Objects
  BY DEF FdInit
<1>2. DOMAIN m_fd = {}
  BY DEF FdInit
<1> QED
  BY <1>1, <1>2 DEF FdInit, FdInv, FdTypeOK, OwnedOnce, NeverClosedTwice, Held, Valid

\* The types of m_fd in the form the steps use: an object has a number or none.
LEMMA FdFunction ==
    FdTypeOK => /\ m_fd \in [DOMAIN m_fd -> Fds \cup {INVALID_FD}]
              /\ DOMAIN m_fd \subseteq Objects
BY DEF FdTypeOK

\* Every operation preserves the invariant.
LEMMA FdNextInv == FdInv /\ [FdNext]_fdVars => FdInv'
<1> SUFFICES ASSUME FdInv, [FdNext]_fdVars PROVE FdInv'
  OBVIOUS
<1>f. m_fd \in [DOMAIN m_fd -> Fds \cup {-1}] /\ DOMAIN m_fd \subseteq Objects
  BY FdFunction DEF FdInv
<1>n. -1 \notin Fds
  OBVIOUS
<1> USE <1>f, <1>n DEF FdInv, FdTypeOK, OwnedOnce, NeverClosedTwice, Held, Valid, Exists, Bind, Close
<1>1. ASSUME NEW fd \in Fds, Open(fd) PROVE FdInv'
  BY <1>1 DEF Open
<1>2. ASSUME NEW fd \in Fds, CallerCloses(fd) PROVE FdInv'
  BY <1>2 DEF CallerCloses
<1>3. ASSUME NEW o \in Objects, NEW fd \in Fds \cup {-1}, Construct(o, fd) PROVE FdInv'
  BY <1>3 DEF Construct
<1>4. ASSUME NEW o \in Objects, NEW fd \in Fds \cup {-1}, Reset(o, fd) PROVE FdInv'
  BY <1>4 DEF Reset, fdVars
<1>5. ASSUME NEW o \in Objects, NEW other \in Objects, MoveConstruct(o, other) PROVE FdInv'
  BY <1>5 DEF MoveConstruct
<1>6. ASSUME NEW o \in Objects, NEW other \in Objects, MoveAssign(o, other) PROVE FdInv'
  <2>1. CASE o = other \/ m_fd[o] = m_fd[other]
    BY <1>6, <2>1 DEF MoveAssign, fdVars
  <2>2. CASE ~(o = other \/ m_fd[o] = m_fd[other])
    <3>a. o \in DOMAIN m_fd /\ other \in DOMAIN m_fd
      BY <1>6 DEF MoveAssign
    <3>b. Bind(m_fd, other, -1) = [m_fd EXCEPT ![other] = -1]
      BY <3>a
    <3>c. m_fd' = Bind(Bind(m_fd, other, -1), o, m_fd[other])
      BY <1>6, <2>2 DEF MoveAssign
    <3>d. raw' = raw /\ Close(Held(o))
      BY <1>6, <2>2 DEF MoveAssign
    <3>1. /\ m_fd' = [x \in DOMAIN m_fd |->
                         IF x = o THEN m_fd[other] ELSE IF x = other THEN -1 ELSE m_fd[x]]
          /\ DOMAIN m_fd' = DOMAIN m_fd /\ o \in DOMAIN m_fd /\ other \in DOMAIN m_fd
          /\ raw' = raw /\ open' = open \ ({m_fd[o]} \ {-1})
          /\ stray' = (stray \/ ~(({m_fd[o]} \ {-1}) \subseteq open))
      BY <3>a, <3>b, <3>c, <3>d
    <3>2. FdTypeOK'
      BY <2>2, <3>1
    <3>3. OwnedOnce'
      BY <2>2, <3>1
    <3>4. NeverClosedTwice'
      BY <3>1
    <3> QED
      BY <3>2, <3>3, <3>4
  <2> QED
    BY <2>1, <2>2
<1>7. ASSUME NEW o \in Objects, Release(o) PROVE FdInv'
  BY <1>7 DEF Release
<1>8. ASSUME NEW o \in Objects, Destroy(o) PROVE FdInv'
  BY <1>8 DEF Destroy
<1>9. CASE UNCHANGED fdVars
  BY <1>9 DEF fdVars
<1> QED
  BY <1>1, <1>2, <1>3, <1>4, <1>5, <1>6, <1>7, <1>8, <1>9 DEF FdNext

\* FdInv holds of every reachable state.
THEOREM FdInvariance == FdSpec => []FdInv
  BY FdInitInv, FdNextInv, PTL DEF FdSpec

\* No number held by an object or a caller is one that was closed.
THEOREM HeldAreOpen == FdSpec => []FdTypeOK
<1>1. FdInv => FdTypeOK
  BY DEF FdInv
<1> QED
  BY <1>1, FdInvariance, PTL

\* Moves, releases and resets leave every open descriptor with exactly one owner.
THEOREM OwnersUnique == FdSpec => []OwnedOnce
<1>1. FdInv => OwnedOnce
  BY DEF FdInv
<1> QED
  BY <1>1, FdInvariance, PTL

\* No sequence of operations closes a descriptor number twice.
THEOREM NoDoubleClose == FdSpec => []NeverClosedTwice
<1>1. FdInv => NeverClosedTwice
  BY DEF FdInv
<1> QED
  BY <1>1, FdInvariance, PTL

\* All of it together, for any number of ScopedFd objects and descriptors and any
\* order of moves, resets, releases and destructions.
THEOREM DescriptorsAlwaysOwned == FdSpec => []DescriptorsOwned
<1>1. FdInv => DescriptorsOwned
  BY DEF FdInv, DescriptorsOwned
<1> QED
  BY <1>1, FdInvariance, PTL

-----------------------------------------------------------------------------
(* Headers *)

\* Powers of the base.
LEMMA PowerRule ==
    /\ Power[0] = 1
    /\ \A k \in Nat : Power[k] \in Nat \ {0} /\ Power[k + 1] = Base * Power[k]
<1> DEFINE F == [x \in Nat \X (Nat \ {0}) |-> Base * x[2]]
           G(f) == [k \in Nat |-> IF k = 0 THEN 1 ELSE Base * f[k - 1]]
<1>1. Base \in Nat \ {0}
  BY CodecAssumption
<1>2. F \in [Nat \X (Nat \ {0}) -> Nat \ {0}]
  <2>1. \A m \in Nat \ {0} : Base * m \in Nat \ {0}
    BY <1>1
  <2> QED
    BY <2>1
<1>3. \A k \in Nat, m \in Nat \ {0} : F[<<k, m>>] = Base * m
  OBVIOUS
<1> HIDE DEF F
<1>4. PICK f : Recurs(f, 1, F)
  BY RecursionExists
<1>5. f \in [Nat -> Nat \ {0}]
  <2> DEFINE P == Nat \ {0}
  <2>1. 1 \in P /\ F \in [Nat \X P -> P]
    BY <1>2
  <2> HIDE DEF P
  <2>2. f \in [Nat -> P]
    BY <1>4, <2>1, RecursionTyped
  <2> QED
    BY <2>2 DEF P
<1>6. f = [k \in Nat |-> IF k = 0 THEN 1 ELSE F[<<k, f[k - 1]>>]]
  BY <1>4 DEF Recurs
<1>7. \A k \in Nat : f[k] = IF k = 0 THEN 1 ELSE Base * f[k - 1]
  <2> TAKE k \in Nat
  <2>1. CASE k = 0
    BY <1>6, <2>1
  <2>2. CASE k # 0
    <3>1. k - 1 \in Nat
      BY <2>2
    <3>2. f[k - 1] \in Nat \ {0}
      BY <1>5, <3>1
    <3> QED
      BY <1>3, <1>6, <2>2, <3>2
  <2> QED
    BY <2>1, <2>2
<1>8. f = G(f)
  BY <1>5, <1>7
<1>9. Power = CHOOSE g : g = G(g)
  BY DEF Power
<1> HIDE DEF G
<1>10. Power = G(Power)
  BY <1>8, <1>9, Zenon
<1>11. \A k \in Nat : Power[k] = IF k = 0 THEN 1 ELSE Base * Power[k - 1]
  BY <1>10 DEF G
<1>12. Power[0] = 1 /\ \A k \in Nat : Power[k + 1] = Base * Power[k]
  BY <1>11
<1>13. \A k \in Nat : Power[k] \in Nat \ {0}
  <2> DEFINE T == {k \in Nat : Power[k] \in Nat \ {0}}
  <2>1. T \in SUBSET Nat /\ 0 \in T
    BY <1>12
  <2>2. \A k \in Nat : k \in T => k + 1 \in T
    <3> SUFFICES ASSUME NEW k \in Nat, Power[k] \in Nat \ {0}
                 PROVE  Base * Power[k] \in Nat \ {0}
      BY <1>12
    <3> QED
      BY <1>1
  <2> HIDE DEF T
  <2>3. T = Nat
    BY <2>1, <2>2, SetInduction
  <2> QED
    BY <2>3 DEF T
<1> QED
  BY <1>12, <1>13

\* The values that ntohl runs through, digit by digit.
Runs(v, b) ==
    /\ v \in [0..HEADER_SIZE -> Nat]
    /\ v[0] = 0
    /\ \A n \in 1..HEADER_SIZE : v[n] = v[n - 1] * Base + b[n]

\* HeaderValue is the last of them.
LEMMA ValueRule ==
    ASSUME NEW b, \A n \in 1..HEADER_SIZE : b[n] \in Digit
    PROVE  \E v : Runs(v, b) /\ HeaderValue(b) = v[HEADER_SIZE]
<1> DEFINE D(n) == IF n \in 1..HEADER_SIZE THEN b[n] ELSE 0
           F == [x \in Nat \X Nat |-> x[2] * Base + D(x[1])]
           G(f) == [n \in 0..HEADER_SIZE |-> IF n = 0 THEN 0 ELSE f[n - 1] * Base + b[n]]
<1>1. Base \in Nat /\ HEADER_SIZE \in Nat /\ HEADER_SIZE # 0
  BY CodecAssumption
<1>2. \A n : D(n) \in Nat
  BY <1>1 DEF Digit
<1>3. \A n \in 1..HEADER_SIZE : D(n) = b[n]
  OBVIOUS
<1> HIDE DEF D
<1>4. \A m, d \in Nat : m * Base + d \in Nat
  BY <1>1
<1>5. F \in [Nat \X Nat -> Nat]
  BY <1>2, <1>4
<1>6. \A n, m \in Nat : F[<<n, m>>] = m * Base + D(n)
  OBVIOUS
<1> HIDE DEF F
<1>7. PICK f : Follows(f, HEADER_SIZE, 0, F)
  BY <1>1, FollowsExists
<1>8. f \in [0..HEADER_SIZE -> Nat]
  BY <1>1, <1>5, <1>7, FollowsTyped
<1>9. \A n \in 0..HEADER_SIZE : f[n] = IF n = 0 THEN 0 ELSE f[n - 1] * Base + b[n]
  <2> TAKE n \in 0..HEADER_SIZE
  <2>1. f[n] = IF n = 0 THEN 0 ELSE F[<<n, f[n - 1]>>]
    BY <1>7 DEF Follows
  <2>2. CASE n = 0
    BY <2>1, <2>2
  <2>3. CASE n # 0
    <3>1. n \in 1..HEADER_SIZE /\ n \in Nat /\ f[n - 1] \in Nat
      BY <1>1, <1>8, <2>3
    <3>2. F[<<n, f[n - 1]>>] = f[n - 1] * Base + D(n)
      BY <1>6, <3>1
    <3> QED
      BY <1>3, <2>1, <2>3, <3>1, <3>2
  <2> QED
    BY <2>2, <2>3
<1>10. f = G(f)
  BY <1>8, <1>9
<1>11. HeaderValue(b) = (CHOOSE g : g = G(g))[HEADER_SIZE]
  BY DEF HeaderValue
<1> HIDE DEF G
<1>12. PICK v : v = (CHOOSE g : g = G(g))
  OBVIOUS
<1>13. v = G(v) /\ HeaderValue(b) = v[HEADER_SIZE]
  BY <1>10, <1>11, <1>12, Zenon
<1>14. \A n \in 0..HEADER_SIZE : v[n] = IF n = 0 THEN 0 ELSE v[n - 1] * Base + b[n]
  BY <1>13 DEF G
<1>15. v[0] = 0 /\ \A n \in 1..HEADER_SIZE : v[n] = v[n - 1] * Base + b[n]
  BY <1>1, <1>14
<1>16. \A n \in 0..HEADER_SIZE : v[n] \in Nat
  <2> DEFINE T == {n \in Nat : n <= HEADER_SIZE => v[n] \in Nat}
  <2>1. T \in SUBSET Nat /\ 0 \in T
    BY <1>15
  <2>2. \A n \in Nat : n \in T => n + 1 \in T
    <3> SUFFICES ASSUME NEW n \in Nat, v[n] \in Nat, n + 1 <= HEADER_SIZE
                 PROVE  v[n + 1] \in Nat
      BY <1>1
    <3>1. n + 1 \in 1..HEADER_SIZE /\ (n + 1) - 1 = n
      BY <1>1
    <3>2. v[n + 1] = v[n] * Base + b[n + 1]
      BY <1>15, <3>1
    <3>3. b[n + 1] \in Nat
      BY <1>2, <1>3, <3>1
    <3> QED
      BY <1>4, <3>2, <3>3
  <2> HIDE DEF T
  <2>3. T = Nat
    BY <2>1, <2>2, SetInduction
  <2> QED
    BY <1>1, <2>3 DEF T
<1>17. v \in [0..HEADER_SIZE -> Nat]
  BY <1>13, <1>16 DEF G
<1> QED
  BY <1>13, <1>15, <1>17 DEF Runs

\* Only the first HEADER_SIZE bytes count.
LEMMA ValueOfPrefix ==
    ASSUME NEW b, NEW c, \A n \in 1..HEADER_SIZE : b[n] \in Digit /\ c[n] = b[n]
    PROVE  HeaderValue(b) = HeaderValue(c) /\ HeaderValue(b) \in Nat
<1>1. HEADER_SIZE \in Nat /\ HEADER_SIZE # 0
  BY CodecAssumption
<1>2. PICK v : Runs(v, b) /\ HeaderValue(b) = v[HEADER_SIZE]
  BY ValueRule
<1>3. PICK w : Runs(w, c) /\ HeaderValue(c) = w[HEADER_SIZE]
  BY ValueRule
<1> DEFINE T == {n \in Nat : n <= HEADER_SIZE => v[n] = w[n]}
<1>4. T \in SUBSET Nat /\ 0 \in T
  BY <1>2, <1>3 DEF Runs
<1>5. \A n \in Nat : n \in T => n + 1 \in T
  <2> SUFFICES ASSUME NEW n \in Nat, v[n] = w[n], n + 1 <= HEADER_SIZE
               PROVE  v[n + 1] = w[n + 1]
    BY <1>1
  <2>1. n + 1 \in 1..HEADER_SIZE /\ (n + 1) - 1 = n
    BY <1>1
  <2> QED
    BY <1>2, <1>3, <2>1 DEF Runs
<1> HIDE DEF T
<1>6. T = Nat
  BY <1>4, <1>5, SetInduction
<1>7. v[HEADER_SIZE] = w[HEADER_SIZE]
  BY <1>1, <1>6 DEF T
<1> QED
  BY <1>1, <1>2, <1>3, <1>7 DEF Runs

\* Dividing twice.
LEMMA DivideTwice ==
    ASSUME NEW d \in Nat \ {0}, NEW e \in Nat \ {0}, NEW n \in Nat
    PROVE  (n \div d) \div e = n \div (d * e)
OBVIOUS

\* A quotient and its remainder.
LEMMA DivideAgain ==
    ASSUME NEW m \in Nat, NEW d \in Nat \ {0}
    PROVE  /\ m \div d \in Nat /\ m % d \in 0..(d - 1)
           /\ (m \div d) * d + (m % d) = m
OBVIOUS

\* ntohl inverts htonl.
LEMMA HeaderInverse ==
    ASSUME NEW n \in Nat, n < HeaderLimit
    PROVE  /\ Header(n) \in Seq(Digit) /\ Len(Header(n)) = HEADER_SIZE
           /\ HeaderValue(Header(n)) = n
<1>1. Base \in Nat \ {0} /\ HEADER_SIZE \in Nat /\ HEADER_SIZE # 0
  BY CodecAssumption
<1> DEFINE h == Header(n)
<1>2. h = [j \in 1..HEADER_SIZE |-> (n \div Power[HEADER_SIZE - j]) % Base]
  BY DEF Header
<1>3. \A j \in 1..HEADER_SIZE : h[j] = (n \div Power[HEADER_SIZE - j]) % Base
  BY <1>2
<1>4. ASSUME NEW j \in 0..HEADER_SIZE
      PROVE  HEADER_SIZE - j \in Nat /\ Power[HEADER_SIZE - j] \in Nat \ {0}
             /\ n \div Power[HEADER_SIZE - j] \in Nat
  <2>1. HEADER_SIZE - j \in Nat
    BY <1>1
  <2>2. Power[HEADER_SIZE - j] \in Nat \ {0}
    BY <2>1, PowerRule
  <2> QED
    BY <2>1, <2>2, DivideAgain
<1>5. \A j \in 1..HEADER_SIZE : h[j] \in Digit
  <2> TAKE j \in 1..HEADER_SIZE
  <2>1. n \div Power[HEADER_SIZE - j] \in Nat
    BY <1>1, <1>4
  <2>2. (n \div Power[HEADER_SIZE - j]) % Base \in 0..(Base - 1)
    BY <1>1, <2>1, DivideAgain
  <2> QED
    BY <1>3, <2>2 DEF Digit
<1>6. h \in [1..HEADER_SIZE -> Digit]
  BY <1>2, <1>5
<1>7. h \in Seq(Digit) /\ Len(h) = HEADER_SIZE
  BY <1>1, <1>6
<1> HIDE DEF h
<1>8. PICK v : Runs(v, h) /\ HeaderValue(h) = v[HEADER_SIZE]
  BY <1>5, ValueRule
<1> DEFINE T == {j \in Nat : j <= HEADER_SIZE => v[j] = n \div Power[HEADER_SIZE - j]}
<1>9. 0 \in T
  <2>1. n \div Power[HEADER_SIZE] = 0
    <3>1. Power[HEADER_SIZE] \in Nat \ {0} /\ n < Power[HEADER_SIZE]
      BY <1>1, PowerRule DEF HeaderLimit
    <3> QED
      BY <3>1
  <2> QED
    BY <1>1, <1>8, <2>1 DEF Runs
<1>10. \A j \in Nat : j \in T => j + 1 \in T
  <2> SUFFICES ASSUME NEW j \in Nat, j + 1 <= HEADER_SIZE, v[j] = n \div Power[HEADER_SIZE - j]
               PROVE  v[j + 1] = n \div Power[HEADER_SIZE - (j + 1)]
    BY <1>1
  <2> DEFINE k == HEADER_SIZE - (j + 1)
             m == n \div Power[k]
  <2>1. k \in Nat /\ HEADER_SIZE - j = k + 1 /\ j + 1 \in 1..HEADER_SIZE /\ (j + 1) - 1 = j
    BY <1>1
  <2>2. v[j + 1] = v[j] * Base + (m % Base)
    <3>1. v[j + 1] = v[j] * Base + h[j + 1]
      BY <1>8, <2>1 DEF Runs
    <3>2. h[j + 1] = m % Base
      BY <1>3, <2>1
    <3> HIDE DEF m
    <3> QED
      BY <3>1, <3>2
  <2>3. Power[k] \in Nat \ {0} /\ Power[k + 1] = Base * Power[k] /\ m \in Nat
    BY <2>1, PowerRule, DivideAgain
  <2> HIDE DEF k
  <2>4. v[j] = n \div (Power[k] * Base)
    <3>1. Base * Power[k] = Power[k] * Base
      BY <1>1, <2>3
    <3> QED
      BY <2>1, <2>3, <3>1
  <2>5. v[j] = m \div Base
    BY <1>1, <2>3, <2>4, DivideTwice
  <2> HIDE DEF m
  <2>6. v[j + 1] = m
    BY <1>1, <2>2, <2>3, <2>5, DivideAgain
  <2> QED
    BY <2>6 DEF m, k
<1> HIDE DEF T
<1>11. T = Nat
  <2>1. T \in SUBSET Nat
    BY DEF T
  <2> QED
    BY <1>9, <1>10, <2>1, SetInduction
<1>12. v[HEADER_SIZE] = n \div Power[HEADER_SIZE - HEADER_SIZE]
  BY <1>1, <1>11 DEF T
<1>13. v[HEADER_SIZE] = n
  <2>1. HEADER_SIZE - HEADER_SIZE = 0 /\ n \div 1 = n
    BY <1>1
  <2> QED
    BY <1>12, <2>1, PowerRule
<1> QED
  BY <1>7, <1>8, <1>13 DEF h

-----------------------------------------------------------------------------
(* Frames *)

\* A payload whose length survives the cast to uint32_t, and that Encode accepts.
Sendable(p) == p \in Seq(Digit) /\ Len(p) < HeaderLimit /\ ~EncodeThrows(p)

\* The bytes of its frame.
LEMMA FrameBytes ==
    ASSUME NEW p, Sendable(p)
    PROVE  /\ Encode(p) \in Seq(Digit) /\ Len(p) \in 0..MAX_FRAME_SIZE
           /\ Len(Encode(p)) = HEADER_SIZE + Len(p)
           /\ \A n \in 1..HEADER_SIZE : Encode(p)[n] = Header(Len(p))[n]
           /\ \A n \in 1..Len(p) : Encode(p)[HEADER_SIZE + n] = p[n]
           /\ HeaderValue(Header(Len(p))) = Len(p)
           /\ \A n \in 1..HEADER_SIZE : Header(Len(p))[n] \in Digit
<1> DEFINE h == Header(Len(p))
<1>1. HEADER_SIZE \in Nat /\ p \in Seq(Digit) /\ Len(p) \in Nat /\ Len(p) < HeaderLimit
      /\ MAX_FRAME_SIZE \in Nat
  BY CodecAssumption, LenProperties DEF Sendable
<1>2. HeaderLimit \in Nat \ {0}
  BY <1>1, PowerRule DEF HeaderLimit
<1>3. PayloadLen(p) = Len(p)
  BY <1>1, <1>2 DEF PayloadLen
<1>4. Len(p) \in 0..MAX_FRAME_SIZE
  BY <1>1, <1>3 DEF Sendable, EncodeThrows
<1>5. h \in Seq(Digit) /\ Len(h) = HEADER_SIZE /\ HeaderValue(h) = Len(p)
  BY <1>1, HeaderInverse
<1>6. Encode(p) = h \o p
  BY <1>1, <1>3, SubSeqFull DEF Encode
<1> HIDE DEF h
<1>7. /\ h \o p \in Seq(Digit)
      /\ Len(h \o p) = Len(h) + Len(p)
      /\ \A n \in 1..(Len(h) + Len(p)) :
            (h \o p)[n] = IF n <= Len(h) THEN h[n] ELSE p[n - Len(h)]
  BY <1>1, <1>5, ConcatProperties
<1>8. \A n \in 1..HEADER_SIZE : (h \o p)[n] = h[n]
  BY <1>1, <1>5, <1>7
<1>9. \A n \in 1..Len(p) : (h \o p)[HEADER_SIZE + n] = p[n]
  BY <1>1, <1>5, <1>7
<1>10. \A n \in 1..HEADER_SIZE : h[n] \in Digit
  BY <1>5, LenProperties
<1> QED
  BY <1>4, <1>5, <1>6, <1>7, <1>8, <1>9, <1>10 DEF h

\* What of a sequence is left when another is taken from its front.
LEMMA Dropped ==
    ASSUME NEW S, NEW s \in Seq(S), NEW n \in 0..Len(s)
    PROVE  /\ SubSeq(s, n + 1, Len(s)) \in Seq(S)
           /\ Len(SubSeq(s, n + 1, Len(s))) = Len(s) - n
           /\ \A j \in 1..(Len(s) - n) : SubSeq(s, n + 1, Len(s))[j] = s[n + j]
           /\ SubSeq(s, 1, n) \in Seq(S) /\ Len(SubSeq(s, 1, n)) = n
           /\ \A j \in 1..n : SubSeq(s, 1, n)[j] = s[j]
           /\ SubSeq(s, 1, n) \o SubSeq(s, n + 1, Len(s)) = s
<1>1. Len(s) \in Nat /\ \A j \in 1..Len(s) : s[j] \in S
  BY LenProperties
<1>2. n + 1 \in Int /\ Len(s) \in Int /\ \A j \in (n + 1)..Len(s) : s[j] \in S
  BY <1>1
<1>3. /\ SubSeq(s, n + 1, Len(s)) \in Seq(S)
      /\ Len(SubSeq(s, n + 1, Len(s))) = IF n + 1 <= Len(s) THEN Len(s) - (n + 1) + 1 ELSE 0
      /\ \A j \in 1..(Len(s) - (n + 1) + 1) : SubSeq(s, n + 1, Len(s))[j] = s[(n + 1) + j - 1]
  BY <1>2, SubSeqProperties
<1>4. 1 \in Int /\ n \in Int /\ \A j \in 1..n : s[j] \in S
  BY <1>1
<1>5. /\ SubSeq(s, 1, n) \in Seq(S)
      /\ Len(SubSeq(s, 1, n)) = IF 1 <= n THEN n - 1 + 1 ELSE 0
      /\ \A j \in 1..(n - 1 + 1) : SubSeq(s, 1, n)[j] = s[1 + j - 1]
  BY <1>4, SubSeqProperties
<1>6. SubSeq(s, 1, n) \o SubSeq(s, n + 1, Len(s)) = s
  <2>1. 1 \in 1..(Len(s) + 1) /\ n \in (1 - 1)..Len(s) /\ Len(s) \in n..Len(s)
    BY <1>1
  <2>2. SubSeq(s, 1, n) \o SubSeq(s, n + 1, Len(s)) = SubSeq(s, 1, Len(s))
    BY <2>1, ConcatAdjacentSubSeq
  <2> QED
    BY <2>2, SubSeqFull
<1> DEFINE u == SubSeq(s, n + 1, Len(s))
           v == SubSeq(s, 1, n)
<1> HIDE DEF u, v
<1>7. Len(u) = Len(s) - n
  BY <1>1, <1>3 DEF u
<1>8. ASSUME NEW j \in 1..(Len(s) - n) PROVE u[j] = s[n + j]
  <2>1. j \in 1..(Len(s) - (n + 1) + 1) /\ (n + 1) + j - 1 = n + j
    BY <1>1
  <2>2. u[j] = s[(n + 1) + j - 1]
    BY <1>3, <2>1 DEF u
  <2> QED
    BY <2>1, <2>2
<1>9. Len(v) = n
  BY <1>1, <1>5 DEF v
<1>10. ASSUME NEW j \in 1..n PROVE v[j] = s[j]
  <2>1. j \in 1..(n - 1 + 1) /\ 1 + j - 1 = j
    BY <1>1
  <2>2. v[j] = s[1 + j - 1]
    BY <1>5, <2>1 DEF v
  <2> QED
    BY <2>1, <2>2
<1> QED
  BY <1>3, <1>5, <1>6, <1>7, <1>8, <1>9, <1>10 DEF u, v

\* The bytes w that have arrived and those that have not, r, are the frame of p and t.
Begins(w, r, p, t) ==
    /\ w \in Seq(Digit) /\ r \in Seq(Digit) /\ t \in Seq(Digit)
    /\ Sendable(p) /\ w \o r = Encode(p) \o t

\* The front of a stream that begins with a frame: it is never refused, holds a
\* frame as soon as all its bytes are there, and that frame is the payload.
LEMMA FrontOfFrame ==
    ASSUME NEW w, NEW r, NEW p, NEW t, Begins(w, r, p, t)
    PROVE  /\ ~TooLarge(w)
           /\ HasFrame(w) <=> Len(w) >= HEADER_SIZE + Len(p)
           /\ HasFrame(w) => /\ Payload(w) = p
                             /\ AfterFrame(w) \in Seq(Digit) /\ AfterFrame(w) \o r = t
                             /\ Len(AfterFrame(w)) = Len(w) - (HEADER_SIZE + Len(p))
<1> DEFINE e == Encode(p)
           H == HEADER_SIZE
<1>0. /\ w \in Seq(Digit) /\ r \in Seq(Digit) /\ t \in Seq(Digit)
      /\ Sendable(p) /\ w \o r = e \o t
  BY DEF Begins
<1>1. /\ e \in Seq(Digit) /\ Len(p) \in 0..MAX_FRAME_SIZE /\ Len(e) = H + Len(p)
      /\ \A n \in 1..H : e[n] = Header(Len(p))[n] /\ Header(Len(p))[n] \in Digit
      /\ \A n \in 1..Len(p) : e[H + n] = p[n]
      /\ HeaderValue(Header(Len(p))) = Len(p)
  BY <1>0, FrameBytes
<1>2. H \in Nat /\ MAX_FRAME_SIZE \in Nat
  BY CodecAssumption
<1>3. Len(w) \in Nat /\ Len(r) \in Nat /\ Len(t) \in Nat /\ p \in Seq(Digit) /\ Len(p) \in Nat
  BY <1>0, LenProperties DEF Sendable
<1> HIDE DEF e
<1>4. /\ Len(w \o r) = Len(w) + Len(r)
      /\ \A n \in 1..(Len(w) + Len(r)) : (w \o r)[n] = IF n <= Len(w) THEN w[n] ELSE r[n - Len(w)]
  BY <1>0, ConcatProperties
<1>5. /\ Len(e \o t) = Len(e) + Len(t)
      /\ \A n \in 1..(Len(e) + Len(t)) : (e \o t)[n] = IF n <= Len(e) THEN e[n] ELSE t[n - Len(e)]
  <2>1. e \in Seq(Digit)
    BY <1>1
  <2> QED
    BY <1>0, <2>1, ConcatProperties
<1>6. w \o r = e \o t /\ Len(w) + Len(r) = Len(e) + Len(t)
  BY <1>0, <1>4, <1>5
<1>7. \A n \in 1..Len(w) : n <= Len(e) => w[n] = e[n]
  BY <1>1, <1>2, <1>3, <1>4, <1>5, <1>6
<1>8. Len(w) >= H => HeaderValue(w) = Len(p)
  <2> SUFFICES ASSUME Len(w) >= H PROVE HeaderValue(w) = Len(p)
    OBVIOUS
  <2>1. \A n \in 1..H : Header(Len(p))[n] \in Digit /\ w[n] = Header(Len(p))[n]
    BY <1>1, <1>2, <1>3, <1>7
  <2> QED
    BY <1>1, <2>1, ValueOfPrefix
<1>9. ~TooLarge(w)
  BY <1>1, <1>2, <1>3, <1>8 DEF TooLarge, HasHeader
<1>10. HasFrame(w) <=> Len(w) >= H + Len(p)
  BY <1>2, <1>3, <1>8, <1>9 DEF HasFrame, HasHeader, TotalSize
<1>11. ASSUME HasFrame(w)
       PROVE  /\ Payload(w) = p /\ AfterFrame(w) \in Seq(Digit) /\ AfterFrame(w) \o r = t
              /\ Len(AfterFrame(w)) = Len(w) - (H + Len(p))
  <2>1. TotalSize(w) = H + Len(p) /\ H + Len(p) \in 0..Len(w)
    <3>1. Len(w) >= H + Len(p)
      BY <1>10, <1>11
    <3>2. HeaderValue(w) = Len(p)
      BY <1>2, <1>3, <1>8, <3>1
    <3> QED
      BY <1>2, <1>3, <3>1, <3>2 DEF TotalSize
  <2> DEFINE a == AfterFrame(w)
  <2>2. a = SubSeq(w, (H + Len(p)) + 1, Len(w))
    BY <2>1 DEF AfterFrame
  <2>3. /\ a \in Seq(Digit) /\ Len(a) = Len(w) - (H + Len(p))
        /\ \A n \in 1..(Len(w) - (H + Len(p))) : a[n] = w[(H + Len(p)) + n]
    BY <1>0, <2>1, <2>2, Dropped
  <2> HIDE DEF a
  <2>4. Payload(w) = p
    <3> DEFINE q == SubSeq(w, H + 1, H + Len(p))
    <3>1. \A n \in (H + 1)..(H + Len(p)) : w[n] \in Digit
      BY <1>0, <1>2, <1>3, <2>1, LenProperties
    <3>2. /\ q \in Seq(Digit) /\ Len(q) = IF H + 1 <= H + Len(p) THEN (H + Len(p)) - (H + 1) + 1 ELSE 0
          /\ \A n \in 1..((H + Len(p)) - (H + 1) + 1) : q[n] = w[(H + 1) + n - 1]
      <4>1. H + 1 \in Int /\ H + Len(p) \in Int
        BY <1>2, <1>3
      <4> QED
        BY <3>1, <4>1, SubSeqProperties
    <3> HIDE DEF q
    <3>3. Len(q) = Len(p)
      BY <1>2, <1>3, <3>2
    <3>4. \A n \in 1..Len(p) : q[n] = p[n]
      <4> TAKE n \in 1..Len(p)
      <4>1. n \in 1..((H + Len(p)) - (H + 1) + 1) /\ (H + 1) + n - 1 = H + n
            /\ H + n \in 1..Len(w) /\ H + n <= Len(e)
        BY <1>1, <1>2, <1>3, <2>1
      <4> QED
        BY <1>1, <1>7, <3>2, <4>1
    <3>5. q = p
      BY <1>3, <3>2, <3>3, <3>4, SeqEqual
    <3> QED
      BY <2>1, <3>5 DEF Payload, q
  <2>5. a \o r = t
    <3>1. /\ a \o r \in Seq(Digit) /\ Len(a \o r) = Len(a) + Len(r)
          /\ \A n \in 1..(Len(a) + Len(r)) : (a \o r)[n] = IF n <= Len(a) THEN a[n] ELSE r[n - Len(a)]
      BY <1>0, <2>3, ConcatProperties
    <3>2. Len(a \o r) = Len(t)
      BY <1>1, <1>2, <1>3, <1>6, <2>1, <2>3, <3>1
    <3>3. \A n \in 1..Len(t) : (a \o r)[n] = t[n]
      <4> TAKE n \in 1..Len(t)
      <4>1. (e \o t)[Len(e) + n] = t[n]
        <5>0. Len(e) \in Nat /\ Len(t) \in Nat
          BY <1>1, <1>2, <1>3
        <5>1. /\ Len(e) + n \in 1..(Len(e) + Len(t)) /\ ~(Len(e) + n <= Len(e))
              /\ (Len(e) + n) - Len(e) = n
          BY <5>0
        <5> QED
          BY <1>5, <5>1
      <4>2. CASE n <= Len(a)
        <5>0. n \in 1..(Len(a) + Len(r)) /\ n \in 1..(Len(w) - (H + Len(p)))
          BY <1>2, <1>3, <2>1, <2>3, <4>2
        <5>1. (a \o r)[n] = w[(H + Len(p)) + n]
          BY <2>3, <3>1, <4>2, <5>0
        <5>2. Len(e) + n \in 1..(Len(w) + Len(r)) /\ Len(e) + n <= Len(w)
          BY <1>1, <1>2, <1>3, <2>1, <2>3, <4>2
        <5>3. (w \o r)[Len(e) + n] = w[Len(e) + n]
          BY <1>4, <5>2
        <5> QED
          BY <1>1, <1>6, <4>1, <5>1, <5>3
      <4>3. CASE n > Len(a)
        <5>0. n \in 1..(Len(a) + Len(r)) /\ ~(n <= Len(a))
          <6>1. Len(a) + Len(r) = Len(t) /\ Len(a) \in Nat
            BY <2>3, <3>1, <3>2, LenProperties
          <6> QED
            BY <1>3, <4>3, <6>1
        <5>1. (a \o r)[n] = r[n - Len(a)]
          BY <3>1, <5>0
        <5>2. Len(e) + n \in 1..(Len(w) + Len(r)) /\ Len(e) + n > Len(w)
              /\ (Len(e) + n) - Len(w) = n - Len(a)
          <6>1. Len(e) \in Nat /\ Len(a) \in Nat /\ Len(a) = Len(w) - Len(e)
            BY <1>1, <1>2, <1>3, <2>3, LenProperties
          <6> QED
            BY <1>3, <1>6, <4>3, <6>1
        <5>3. (w \o r)[Len(e) + n] = r[n - Len(a)]
          BY <1>3, <1>4, <5>2
        <5> QED
          BY <1>6, <4>1, <5>1, <5>3
      <4>4. Len(a) \in Nat
        BY <2>3, LenProperties
      <4>5. n <= Len(a) \/ n > Len(a)
        BY <1>3, <4>4
      <4> QED
        BY <4>2, <4>3, <4>5
    <3> QED
      BY <1>0, <3>1, <3>2, <3>3, SeqEqual
  <2> QED
    BY <2>3, <2>4, <2>5 DEF a
<1> QED
  BY <1>9, <1>10, <1>11

\* Taking a frame out of a buffer shortens it.
LEMMA FrameTaken ==
    ASSUME NEW w \in Seq(Digit), HasFrame(w)
    PROVE  /\ AfterFrame(w) \in Seq(Digit) /\ Len(AfterFrame(w)) < Len(w)
           /\ Payload(w) \in Seq(Digit)
<1>1. HEADER_SIZE \in Nat /\ HEADER_SIZE > 0 /\ Len(w) \in Nat
  BY CodecAssumption, LenProperties
<1>2. HEADER_SIZE <= Len(w) /\ Len(w) >= TotalSize(w)
  BY <1>1 DEF HasFrame, HasHeader
<1>3. \A n \in 1..Len(w) : w[n] \in Digit
  BY LenProperties
<1>4. \A n \in 1..HEADER_SIZE : w[n] \in Digit
  BY <1>1, <1>2, <1>3
<1>5. HeaderValue(w) \in Nat
  BY <1>4, ValueOfPrefix
<1> DEFINE n == TotalSize(w)
<1>6. n \in 0..Len(w) /\ n > 0 /\ n \in Int /\ HEADER_SIZE + 1 \in Int
  BY <1>1, <1>2, <1>5 DEF TotalSize
<1> HIDE DEF n
<1>7. AfterFrame(w) \in Seq(Digit) /\ Len(AfterFrame(w)) = Len(w) - n
  BY <1>6, Dropped DEF AfterFrame, n
<1>8. \A j \in (HEADER_SIZE + 1)..n : w[j] \in Digit
  BY <1>1, <1>3, <1>6
<1>9. Payload(w) \in Seq(Digit)
  BY <1>6, <1>8, SubSeqProperties DEF Payload, n
<1> QED
  BY <1>1, <1>6, <1>7, <1>9

\* L[0], L[1], ... L[k] are the buffers that Decode's loop runs through.
Peels(L, k, w) ==
    /\ L[0] = w
    /\ \A j \in 0..k : L[j] \in Seq(Digit)
    /\ \A j \in 0..(k - 1) : HasFrame(L[j]) /\ L[j + 1] = AfterFrame(L[j])
    /\ ~HasFrame(L[k])

\* What Decode makes of them.
Outcome(L, k) ==
    [frames |-> IF TooLarge(L[k]) THEN <<>> ELSE [n \in 1..k |-> Payload(L[n - 1])],
     buffer |-> L[k],
     throws |-> TooLarge(L[k])]

\* Decode takes frames until there is none.
LEMMA DecodeRule ==
    ASSUME NEW w \in Seq(Digit)
    PROVE  \E k \in Nat : \E L : Peels(L, k, w) /\ Decode(w) = Outcome(L, k)
<1> DEFINE m == Len(w)
           Step(b) == IF HasFrame(b) THEN AfterFrame(b) ELSE b
           F == [x \in Nat \X Seq(Digit) |-> Step(x[2])]
           G(f) == [n \in 0..m |-> IF n = 0 THEN w ELSE Step(f[n - 1])]
<1>1. m \in Nat
  BY LenProperties
<1>2. \A b \in Seq(Digit) : Step(b) \in Seq(Digit)
  BY FrameTaken
<1>3. /\ F \in [Nat \X Seq(Digit) -> Seq(Digit)]
      /\ \A n \in Nat, b \in Seq(Digit) : F[<<n, b>>] = Step(b)
  <2> HIDE DEF Step
  <2> QED
    BY <1>2
<1> HIDE DEF F
<1>4. PICK f : Follows(f, m, w, F)
  BY <1>1, FollowsExists
<1>5. f \in [0..m -> Seq(Digit)]
  BY <1>1, <1>3, <1>4, FollowsTyped
<1>6. \A n \in 0..m : f[n] = IF n = 0 THEN w ELSE Step(f[n - 1])
  <2> HIDE DEF Step
  <2> TAKE n \in 0..m
  <2>1. f[n] = IF n = 0 THEN w ELSE F[<<n, f[n - 1]>>]
    BY <1>4 DEF Follows
  <2> HIDE DEF m
  <2>2. n = 0 \/ (n \in Nat /\ n - 1 \in 0..m)
    BY <1>1
  <2>3. n = 0 \/ (n \in Nat /\ f[n - 1] \in Seq(Digit))
    BY <1>5, <2>2
  <2> QED
    BY <1>3, <2>1, <2>3
<1>7. f = G(f)
  <2> HIDE DEF Step
  <2> QED
    BY <1>5, <1>6
<1> HIDE DEF Step
<1>8. PICK L : L = CHOOSE g : g = G(g)
  OBVIOUS
<1>9. L = G(L)
  <2> HIDE DEF G
  <2> QED
    BY <1>7, <1>8, Zenon
<1>10. L[0] = w /\ \A n \in 0..(m - 1) : L[n + 1] = Step(L[n])
  <2>1. \A n \in 0..m : L[n] = IF n = 0 THEN w ELSE Step(L[n - 1])
    BY <1>9
  <2> QED
    BY <1>1, <2>1
<1>11. \A n \in 0..m : L[n] \in Seq(Digit)
  <2> DEFINE T == {n \in Nat : n <= m => L[n] \in Seq(Digit)}
  <2>1. T \in SUBSET Nat /\ 0 \in T
    BY <1>10
  <2>2. \A n \in Nat : n \in T => n + 1 \in T
    <3> HIDE DEF m
    <3> SUFFICES ASSUME NEW n \in Nat, n + 1 <= m, L[n] \in Seq(Digit)
                 PROVE  L[n + 1] \in Seq(Digit)
      BY <1>1
    <3>1. n \in 0..(m - 1)
      BY <1>1
    <3> QED
      BY <1>2, <1>10, <3>1
  <2> HIDE DEF T
  <2>3. T = Nat
    BY <2>1, <2>2, SetInduction
  <2> QED
    BY <1>1, <2>3 DEF T
<1> DEFINE E == {n \in 0..m : ~HasFrame(L[n])}
<1>12. E # {}
  <2> SUFFICES ASSUME \A n \in 0..m : HasFrame(L[n]) PROVE FALSE
    OBVIOUS
  <2> DEFINE Z(n) == Len(L[n])
             T == {n \in Nat : n <= m => n <= m - Z(n)}
  <2>1. \A n \in 0..m : L[n] \in Seq(Digit) /\ HasFrame(L[n]) /\ Z(n) \in Nat
    BY <1>11, LenProperties
  <2>2. \A n \in 0..(m - 1) : Z(n + 1) < Z(n)
    <3> TAKE n \in 0..(m - 1)
    <3> HIDE DEF m
    <3>1. n \in 0..m
      BY <1>1
    <3>2. L[n + 1] = AfterFrame(L[n])
      BY <1>10, <2>1, <3>1 DEF Step
    <3> QED
      BY <2>1, <3>1, <3>2, FrameTaken
  <2>3. Z(0) = m
    BY <1>10
  <2>4. \A n \in 0..m : Z(n) > 0
    <3> TAKE n \in 0..m
    <3>1. AfterFrame(L[n]) \in Seq(Digit) /\ Len(AfterFrame(L[n])) < Z(n)
      BY <2>1, FrameTaken
    <3>2. Len(AfterFrame(L[n])) \in Nat /\ Z(n) \in Nat
      BY <2>1, <3>1, LenProperties
    <3> HIDE DEF Z
    <3> QED
      BY <3>1, <3>2
  <2> HIDE DEF Z, m
  <2>5. T \in SUBSET Nat /\ 0 \in T
    BY <1>1, <2>3
  <2>6. \A n \in Nat : n \in T => n + 1 \in T
    <3> TAKE n \in Nat
    <3> HAVE n \in T
    <3> SUFFICES ASSUME n + 1 <= m PROVE n + 1 <= m - Z(n + 1)
      OBVIOUS
    <3>1. n \in 0..(m - 1) /\ n \in 0..m /\ n + 1 \in 0..m /\ n <= m
      BY <1>1
    <3>2. n <= m - Z(n)
      BY <3>1
    <3>3. Z(n) \in Nat /\ Z(n + 1) \in Nat /\ Z(n + 1) < Z(n)
      BY <2>1, <2>2, <3>1
    <3> QED
      BY <1>1, <3>2, <3>3
  <2> HIDE DEF T
  <2>7. T = Nat
    BY <2>5, <2>6, SetInduction
  <2>8. m <= m - Z(m) /\ Z(m) \in Nat /\ Z(m) > 0
    BY <1>1, <2>1, <2>4, <2>7 DEF T
  <2> QED
    BY <1>1, <2>8
<1> DEFINE k == Min(E)
<1>13. k \in E /\ \A n \in E : k <= n
  <2>1. E \in SUBSET Nat
    BY <1>1
  <2> HIDE DEF E
  <2>2. \E x \in E : \A y \in E : x <= y
    BY <1>12, <2>1, LeastNat
  <2> QED
    BY <2>2 DEF Min
<1>14. Decode(w) = Outcome(L, k)
  <2>1. Decode(w) = [frames |-> IF TooLarge(L[k]) THEN <<>> ELSE [n \in 1..k |-> Payload(L[n - 1])],
                     buffer |-> L[k], throws |-> TooLarge(L[k])]
    BY <1>8 DEF Decode, Step
  <2> QED
    BY <2>1 DEF Outcome
<1> HIDE DEF m
<1>15. k \in 0..m /\ ~HasFrame(L[k])
  BY <1>13
<1>16. \A n \in 0..m : n < k => HasFrame(L[n])
  <2> TAKE n \in 0..m
  <2>1. n \in E => k <= n
    BY <1>13
  <2> HIDE DEF k
  <2>2. n < k => ~(k <= n)
    BY <1>1, <1>15
  <2> QED
    BY <2>1, <2>2
<1> HIDE DEF k
<1>17. \A n \in 0..(k - 1) : HasFrame(L[n]) /\ L[n + 1] = AfterFrame(L[n])
  <2> TAKE n \in 0..(k - 1)
  <2>1. n \in 0..m /\ n < k /\ n \in 0..(m - 1)
    BY <1>1, <1>15
  <2> QED
    BY <1>10, <1>16, <2>1 DEF Step
<1>18. Peels(L, k, w)
  BY <1>1, <1>10, <1>11, <1>15, <1>17 DEF Peels
<1> QED
  BY <1>1, <1>14, <1>15, <1>18

-----------------------------------------------------------------------------
(* Streams of frames *)

\* What may follow the last frame: nothing, or the header of a frame too large.
IsTail(t) ==
    \/ t = <<>>
    \/ \E n \in (MAX_FRAME_SIZE + 1)..(HeaderLimit - 1) : t = Header(n)

\* There is no frame in it.
LEMMA FrontOfTail ==
    ASSUME NEW t, IsTail(t), NEW w \in Seq(Digit), NEW r \in Seq(Digit), w \o r = t
    PROVE  t \in Seq(Digit) /\ ~HasFrame(w) /\ (t = <<>> => ~TooLarge(w) /\ w = <<>> /\ r = <<>>)
<1>1. HEADER_SIZE \in Nat /\ HEADER_SIZE > 0 /\ MAX_FRAME_SIZE \in Nat
  BY CodecAssumption
<1>2. Len(w) \in Nat /\ Len(r) \in Nat
  BY LenProperties
<1>3. /\ w \o r \in Seq(Digit) /\ Len(w \o r) = Len(w) + Len(r)
      /\ \A n \in 1..(Len(w) + Len(r)) : (w \o r)[n] = IF n <= Len(w) THEN w[n] ELSE r[n - Len(w)]
  BY ConcatProperties
<1>4. CASE t = <<>>
  <2>1. w = <<>> /\ r = <<>>
    BY <1>4, ConcatEqualIffEmpty
  <2>2. Len(w) = 0
    BY <2>1, EmptySeq
  <2> QED
    BY <1>1, <1>3, <1>4, <2>1, <2>2 DEF HasFrame, TooLarge, HasHeader
<1>5. CASE t # <<>>
  <2>1. PICK n \in (MAX_FRAME_SIZE + 1)..(HeaderLimit - 1) : t = Header(n)
    BY <1>5 DEF IsTail
  <2>2. HeaderLimit \in Nat
    BY <1>1, PowerRule DEF HeaderLimit
  <2>3. n \in Nat /\ n < HeaderLimit /\ n > MAX_FRAME_SIZE
    BY <1>1, <2>2
  <2>4. t \in Seq(Digit) /\ Len(t) = HEADER_SIZE /\ HeaderValue(t) = n
    BY <2>1, <2>3, HeaderInverse
  <2>5. ASSUME HasHeader(w) PROVE HeaderValue(w) = n
    <3>1. Len(w) = HEADER_SIZE
      BY <1>1, <1>2, <1>3, <2>4, <2>5 DEF HasHeader
    <3>2. \A j \in 1..HEADER_SIZE : t[j] \in Digit
      BY <2>4, LenProperties
    <3>3. \A j \in 1..HEADER_SIZE : w[j] = t[j]
      <4> TAKE j \in 1..HEADER_SIZE
      <4>1. j \in 1..(Len(w) + Len(r)) /\ j <= Len(w)
        BY <1>1, <1>2, <3>1
      <4> QED
        BY <1>3, <4>1
    <3> QED
      BY <2>4, <3>2, <3>3, ValueOfPrefix
  <2> QED
    BY <1>1, <1>5, <2>3, <2>4, <2>5 DEF HasFrame, TooLarge
<1> QED
  BY <1>4, <1>5

\* The stream w is the frames of the payloads q followed by t: B[j] is what is left
\* of it after j of them.
Streams(B, w, q, t) ==
    /\ B[0] = w /\ B[Len(q)] = t
    /\ \A j \in 0..Len(q) : B[j] \in Seq(Digit)
    /\ \A j \in 0..(Len(q) - 1) : B[j] = Encode(q[j + 1]) \o B[j + 1]

Stream(w, q, t) == \E B : Streams(B, w, q, t)

\* The payloads q are under way, and of their bytes w has arrived and r has not.
Underway(w, r, q, t) ==
    /\ w \in Seq(Digit) /\ r \in Seq(Digit) /\ q \in Seq(Seq(Digit)) /\ IsTail(t)
    /\ \A j \in 1..Len(q) : Sendable(q[j])
    /\ Stream(w \o r, q, t)

\* The buffers that Decode runs through keep in step with the stream.
LEMMA PeeledStream ==
    ASSUME NEW w, NEW r, NEW q, NEW t, Underway(w, r, q, t),
           NEW B, Streams(B, w \o r, q, t), NEW k \in Nat, NEW L, Peels(L, k, w)
    PROVE  /\ k <= Len(q)
           /\ \A j \in 0..k : L[j] \o r = B[j]
           /\ \A j \in 1..k : Payload(L[j - 1]) = q[j]
<1>0. /\ w \in Seq(Digit) /\ r \in Seq(Digit) /\ q \in Seq(Seq(Digit)) /\ IsTail(t)
      /\ \A j \in 1..Len(q) : Sendable(q[j])
  BY DEF Underway
<1>1. Len(q) \in Nat
  BY <1>0, LenProperties
<1> DEFINE T == {j \in Nat : j <= k => j <= Len(q) /\ L[j] \o r = B[j]}
<1>2. ASSUME NEW j \in 0..(k - 1), j <= Len(q), L[j] \o r = B[j]
      PROVE  /\ j + 1 <= Len(q) /\ L[j + 1] \o r = B[j + 1]
             /\ Payload(L[j]) = q[j + 1]
  <2>1. L[j] \in Seq(Digit) /\ HasFrame(L[j]) /\ L[j + 1] = AfterFrame(L[j])
    <3>1. j \in 0..k
      OBVIOUS
    <3> QED
      BY <3>1 DEF Peels
  <2>2. j # Len(q)
    <3> SUFFICES ASSUME j = Len(q) PROVE FALSE
      OBVIOUS
    <3>1. L[j] \o r = t
      BY <1>2 DEF Streams
    <3> QED
      BY <1>0, <2>1, <3>1, FrontOfTail
  <2>3. j \in 0..(Len(q) - 1) /\ j + 1 \in 1..Len(q) /\ j + 1 \in 0..Len(q)
    BY <1>1, <1>2, <2>2
  <2>4. Sendable(q[j + 1]) /\ B[j] = Encode(q[j + 1]) \o B[j + 1] /\ B[j + 1] \in Seq(Digit)
    BY <1>0, <2>3 DEF Streams
  <2>5. L[j] \o r = Encode(q[j + 1]) \o B[j + 1]
    BY <1>2, <2>4
  <2>6. Payload(L[j]) = q[j + 1] /\ AfterFrame(L[j]) \o r = B[j + 1]
    <3>1. Begins(L[j], r, q[j + 1], B[j + 1])
      BY <1>0, <2>1, <2>4, <2>5 DEF Begins
    <3> QED
      BY <2>1, <3>1, FrontOfFrame
  <2> QED
    BY <1>1, <2>1, <2>3, <2>6
<1>3. T \in SUBSET Nat /\ 0 \in T
  <2>1. L[0] \o r = B[0]
    BY DEF Peels, Streams
  <2>2. 0 \in Nat /\ 0 <= Len(q)
    BY <1>1
  <2> QED
    BY <2>1, <2>2, Zenon
<1>4. \A j \in Nat : j \in T => j + 1 \in T
  <2> TAKE j \in Nat
  <2> HAVE j \in T
  <2> SUFFICES ASSUME j + 1 <= k PROVE j + 1 <= Len(q) /\ L[j + 1] \o r = B[j + 1]
    OBVIOUS
  <2>1. j \in 0..(k - 1) /\ j <= k
    OBVIOUS
  <2>2. j <= Len(q) /\ L[j] \o r = B[j]
    BY <2>1
  <2> QED
    BY <1>2, <2>1, <2>2
<1> HIDE DEF T
<1>5. T = Nat
  BY <1>3, <1>4, SetInduction
<1>6. \A j \in 0..k : j <= Len(q) /\ L[j] \o r = B[j]
  <2> TAKE j \in 0..k
  <2>1. j \in Nat /\ j <= k
    OBVIOUS
  <2>2. j \in T
    BY <1>5, <2>1
  <2> QED
    BY <2>1, <2>2, Zenon DEF T
<1>7. \A j \in 1..k : Payload(L[j - 1]) = q[j]
  <2> TAKE j \in 1..k
  <2>1. j - 1 \in 0..(k - 1) /\ j - 1 \in 0..k /\ (j - 1) + 1 = j
    OBVIOUS
  <2>2. j - 1 <= Len(q) /\ L[j - 1] \o r = B[j - 1]
    BY <1>6, <2>1
  <2>3. Payload(L[j - 1]) = q[(j - 1) + 1]
    BY <1>2, <2>1, <2>2
  <2> QED
    BY <2>1, <2>3
<1> QED
  BY <1>6, <1>7

\* What is left of a stream is a stream.
LEMMA RestOfStream ==
    ASSUME NEW q \in Seq(Seq(Digit)), NEW t, NEW w, NEW B, Streams(B, w, q, t),
           NEW k \in 0..Len(q)
    PROVE  Stream(B[k], SubSeq(q, k + 1, Len(q)), t)
<1> DEFINE u == SubSeq(q, k + 1, Len(q))
           C == [j \in 0..(Len(q) - k) |-> B[k + j]]
<1>1. Len(q) \in Nat
  BY LenProperties
<1>2. Len(u) = Len(q) - k /\ \A j \in 1..(Len(q) - k) : u[j] = q[k + j]
  BY Dropped
<1> HIDE DEF u
<1>3. \A j \in 0..(Len(q) - k) : C[j] = B[k + j] /\ k + j \in 0..Len(q)
  BY <1>1
<1> HIDE DEF C
<1>4. C[0] = B[k] /\ C[Len(u)] = t
  <2>1. k + 0 = k /\ k + (Len(q) - k) = Len(q) /\ 0 \in 0..(Len(q) - k) /\ Len(q) - k \in 0..(Len(q) - k)
    BY <1>1
  <2> QED
    BY <1>2, <1>3, <2>1 DEF Streams
<1>5. \A j \in 0..Len(u) : C[j] \in Seq(Digit)
  BY <1>2, <1>3 DEF Streams
<1>6. \A j \in 0..(Len(u) - 1) : C[j] = Encode(u[j + 1]) \o C[j + 1]
  <2> TAKE j \in 0..(Len(u) - 1)
  <2>1. /\ j \in 0..(Len(q) - k) /\ j + 1 \in 0..(Len(q) - k) /\ j + 1 \in 1..(Len(q) - k)
        /\ k + j \in 0..(Len(q) - 1) /\ (k + j) + 1 = k + (j + 1)
    BY <1>1, <1>2
  <2>2. C[j] = B[k + j] /\ C[j + 1] = B[k + (j + 1)] /\ u[j + 1] = q[k + (j + 1)]
    BY <1>2, <1>3, <2>1
  <2>3. B[k + j] = Encode(q[(k + j) + 1]) \o B[(k + j) + 1]
    BY <2>1 DEF Streams
  <2> QED
    BY <2>1, <2>2, <2>3
<1>7. Streams(C, B[k], u, t)
  BY <1>4, <1>5, <1>6 DEF Streams
<1> QED
  BY <1>7 DEF Stream, u

\* A stream whose bytes have all arrived and hold no frame is empty.
LEMMA StreamRead ==
    ASSUME NEW q \in Seq(Seq(Digit)), \A j \in 1..Len(q) : Sendable(q[j]),
           NEW w \in Seq(Digit), Stream(w, q, <<>>), ~HasFrame(w)
    PROVE  q = <<>> /\ w = <<>>
<1>1. PICK B : Streams(B, w, q, <<>>)
  BY DEF Stream
<1>2. Len(q) \in Nat
  BY LenProperties
<1>3. Len(q) = 0
  <2> SUFFICES ASSUME Len(q) # 0 PROVE FALSE
    OBVIOUS
  <2>1. 0 \in 0..(Len(q) - 1) /\ 1 \in 0..Len(q) /\ 1 \in 1..Len(q) /\ 0 + 1 = 1
    BY <1>2
  <2>2. Sendable(q[1]) /\ w = Encode(q[1]) \o B[1] /\ B[1] \in Seq(Digit)
    BY <1>1, <2>1 DEF Streams
  <2>3. <<>> \in Seq(Digit) /\ w \o <<>> = w
    BY EmptySeq, ConcatEmptySeq
  <2>4. HasFrame(w) <=> Len(w) >= HEADER_SIZE + Len(q[1])
    <3>1. Begins(w, <<>>, q[1], B[1])
      BY <2>2, <2>3 DEF Begins
    <3> QED
      BY <3>1, FrontOfFrame
  <2>5. Encode(q[1]) \in Seq(Digit) /\ Len(Encode(q[1])) = HEADER_SIZE + Len(q[1])
    BY <2>2, FrameBytes
  <2>6. Len(w) = Len(Encode(q[1])) + Len(B[1])
    BY <2>2, <2>5, ConcatProperties
  <2>7. Len(B[1]) \in Nat /\ Len(Encode(q[1])) \in Nat
    BY <2>2, <2>5, LenProperties
  <2> QED
    BY <2>4, <2>5, <2>6, <2>7
<1> QED
  BY <1>1, <1>3, EmptySeq DEF Streams

\* d takes the first k payloads out of what has arrived.
Takes(d, k, r, q, t) ==
    /\ d.frames = SubSeq(q, 1, k)
    /\ Underway(d.buffer, r, SubSeq(q, k + 1, Len(q)), t)

\* The rest of the payloads, too, can be sent.
LEMMA SendableRest ==
    ASSUME NEW q \in Seq(Seq(Digit)), \A j \in 1..Len(q) : Sendable(q[j]), NEW k \in 0..Len(q)
    PROVE  /\ SubSeq(q, k + 1, Len(q)) \in Seq(Seq(Digit))
           /\ \A j \in 1..Len(SubSeq(q, k + 1, Len(q))) : Sendable(SubSeq(q, k + 1, Len(q))[j])
<1> DEFINE u == SubSeq(q, k + 1, Len(q))
<1>1. u \in Seq(Seq(Digit)) /\ Len(u) = Len(q) - k /\ \A j \in 1..(Len(q) - k) : u[j] = q[k + j]
  BY Dropped
<1> HIDE DEF u
<1>2. Len(q) \in Nat
  BY LenProperties
<1>3. \A j \in 1..(Len(q) - k) : k + j \in 1..Len(q)
  BY <1>2
<1>4. \A j \in 1..Len(u) : Sendable(u[j])
  BY <1>1, <1>3
<1> QED
  BY <1>1, <1>4 DEF u

\* Decode returns the payloads whose bytes have all arrived, in order, and throws
\* only when a header that is too large follows them.
LEMMA StreamDecode ==
    ASSUME NEW w, NEW r, NEW q, NEW t, Underway(w, r, q, t)
    PROVE  /\ Decode(w).buffer \in Seq(Digit) /\ ~HasFrame(Decode(w).buffer)
           /\ Decode(w).throws = TooLarge(Decode(w).buffer)
           /\ Decode(w).throws => t # <<>> /\ Decode(w).frames = <<>>
           /\ ~Decode(w).throws =>
                \E k \in 0..Len(q) : Takes(Decode(w), k, r, q, t) /\ (k = 0 => Decode(w).buffer = w)
<1>0. /\ w \in Seq(Digit) /\ r \in Seq(Digit) /\ q \in Seq(Seq(Digit)) /\ IsTail(t)
      /\ \A j \in 1..Len(q) : Sendable(q[j])
  BY DEF Underway
<1>1. PICK B : Streams(B, w \o r, q, t)
  BY DEF Underway, Stream
<1>k. PICK k \in Nat : \E L : Peels(L, k, w) /\ Decode(w) = Outcome(L, k)
  BY <1>0, DecodeRule
<1>2. PICK L : Peels(L, k, w) /\ Decode(w) = Outcome(L, k)
  BY <1>k
<1>3. k <= Len(q) /\ (\A j \in 0..k : L[j] \o r = B[j]) /\ (\A j \in 1..k : Payload(L[j - 1]) = q[j])
  BY <1>1, <1>2, PeeledStream
<1>4. Len(q) \in Nat
  BY <1>0, LenProperties
<1>5. k \in 0..Len(q) /\ k \in 0..k
  BY <1>3, <1>4
<1>6. L[k] \in Seq(Digit) /\ ~HasFrame(L[k]) /\ L[k] \o r = B[k] /\ L[0] = w
  BY <1>2, <1>3, <1>5 DEF Peels
<1>7. Decode(w).buffer = L[k] /\ Decode(w).throws = TooLarge(L[k])
  BY <1>2 DEF Outcome
<1>8. TooLarge(L[k]) => t # <<>> /\ Decode(w).frames = <<>>
  <2> SUFFICES ASSUME TooLarge(L[k]) PROVE t # <<>> /\ Decode(w).frames = <<>>
    OBVIOUS
  <2>1. Decode(w).frames = <<>>
    BY <1>2 DEF Outcome
  <2>2. k = Len(q)
    <3> SUFFICES ASSUME k # Len(q) PROVE FALSE
      OBVIOUS
    <3>1. k \in 0..(Len(q) - 1) /\ k + 1 \in 1..Len(q) /\ k + 1 \in 0..Len(q)
      BY <1>4, <1>5
    <3>2. B[k] = Encode(q[k + 1]) \o B[k + 1] /\ B[k + 1] \in Seq(Digit) /\ Sendable(q[k + 1])
      BY <1>0, <1>1, <3>1 DEF Streams
    <3>3. Begins(L[k], r, q[k + 1], B[k + 1])
      BY <1>0, <1>6, <3>2 DEF Begins
    <3> QED
      BY <3>3, FrontOfFrame
  <2>3. L[k] \o r = t
    BY <1>1, <1>6, <2>2 DEF Streams
  <2> QED
    BY <1>0, <1>6, <2>1, <2>3, FrontOfTail
<1>9. ASSUME ~TooLarge(L[k])
      PROVE  Takes(Decode(w), k, r, q, t)
  <2>1. Decode(w).frames = [n \in 1..k |-> Payload(L[n - 1])]
    BY <1>2, <1>9 DEF Outcome
  <2>2. SubSeq(q, 1, k) \in Seq(Seq(Digit)) /\ Len(SubSeq(q, 1, k)) = k
        /\ \A j \in 1..k : SubSeq(q, 1, k)[j] = q[j]
    BY <1>0, <1>5, Dropped
  <2>3. SubSeq(q, 1, k) = [n \in 1..k |-> q[n]]
    BY <2>2, LenProperties
  <2>4. Decode(w).frames = SubSeq(q, 1, k)
    BY <1>3, <2>1, <2>3
  <2>5. Stream(L[k] \o r, SubSeq(q, k + 1, Len(q)), t)
    BY <1>0, <1>1, <1>5, <1>6, RestOfStream
  <2>6. /\ SubSeq(q, k + 1, Len(q)) \in Seq(Seq(Digit))
        /\ \A j \in 1..Len(SubSeq(q, k + 1, Len(q))) : Sendable(SubSeq(q, k + 1, Len(q))[j])
    BY <1>0, <1>5, SendableRest
  <2>7. Underway(L[k], r, SubSeq(q, k + 1, Len(q)), t)
    BY <1>0, <1>6, <2>5, <2>6 DEF Underway
  <2> QED
    BY <1>7, <2>4, <2>7 DEF Takes
<1> QED
  BY <1>5, <1>6, <1>7, <1>8, <1>9

\* Concatenation of bytes is associative.
LEMMA Regroup ==
    \A a, b, c \in Seq(Digit) : (a \o b) \o c = a \o (b \o c)
<1> TAKE a, b, c \in Seq(Digit)
<1> QED
  BY ConcatAssociative

\* The bytes that are sent next follow every suffix of the stream.
LEMMA StreamExtended ==
    ASSUME NEW B, NEW w \in Seq(Digit), NEW q \in Seq(Seq(Digit)), NEW t \in Seq(Digit), Streams(B, w, q, t),
           \A j \in 1..Len(q) : Sendable(q[j]), NEW x \in Seq(Digit)
    PROVE  Streams([j \in 0..Len(q) |-> B[j] \o x], w \o x, q, t \o x)
<1> DEFINE C == [j \in 0..Len(q) |-> B[j] \o x]
<1>1. Len(q) \in Nat
  BY LenProperties
<1>2. 0 \in 0..Len(q) /\ Len(q) \in 0..Len(q)
  BY <1>1
<1>3. C[0] = w \o x /\ C[Len(q)] = t \o x
  BY <1>2 DEF Streams
<1>4. \A j \in 0..Len(q) : C[j] \in Seq(Digit)
  BY ConcatProperties DEF Streams
<1>5. ASSUME NEW j \in 0..(Len(q) - 1) PROVE C[j] = Encode(q[j + 1]) \o C[j + 1]
  <2>1. j \in 0..Len(q) /\ j + 1 \in 0..Len(q) /\ j + 1 \in 1..Len(q)
    BY <1>1
  <2>2. B[j] = Encode(q[j + 1]) \o B[j + 1] /\ B[j + 1] \in Seq(Digit) /\ Sendable(q[j + 1])
    BY <2>1 DEF Streams
  <2>3. Encode(q[j + 1]) \in Seq(Digit)
    BY <2>2, FrameBytes
  <2>4. (Encode(q[j + 1]) \o B[j + 1]) \o x = Encode(q[j + 1]) \o (B[j + 1] \o x)
    BY <2>2, <2>3, Regroup
  <2> QED
    BY <2>1, <2>2, <2>4
<1> HIDE DEF C
<1>6. Streams(C, w \o x, q, t \o x)
  BY <1>3, <1>4, <1>5 DEF Streams
<1> QED
  BY <1>6 DEF C

\* One more payload is sent.
LEMMA FrameSent ==
    ASSUME NEW w, NEW r, NEW q, Underway(w, r, q, <<>>), NEW p, Sendable(p)
    PROVE  Underway(w, r \o Encode(p), Append(q, p), <<>>)
<1> DEFINE e == Encode(p)
           u == Append(q, p)
<1>0. /\ w \in Seq(Digit) /\ r \in Seq(Digit) /\ q \in Seq(Seq(Digit))
      /\ \A j \in 1..Len(q) : Sendable(q[j])
  BY DEF Underway
<1>1. PICK B : Streams(B, w \o r, q, <<>>)
  BY DEF Underway, Stream
<1>2. e \in Seq(Digit) /\ p \in Seq(Digit) /\ Len(q) \in Nat
  BY <1>0, FrameBytes, LenProperties DEF Sendable
<1>3. /\ u \in Seq(Seq(Digit)) /\ Len(u) = Len(q) + 1
      /\ \A j \in 1..Len(q) : u[j] = q[j]
      /\ u[Len(q) + 1] = p
  BY <1>0, <1>2, AppendProperties
<1> HIDE DEF e, u
<1>4. w \o r \in Seq(Digit) /\ r \o e \in Seq(Digit) /\ (w \o r) \o e = w \o (r \o e)
      /\ <<>> \in Seq(Digit) /\ <<>> \o e = e /\ e \o <<>> = e
  BY <1>0, <1>2, ConcatProperties, ConcatAssociative, ConcatEmptySeq, EmptySeq
<1>5. PICK C : Streams(C, w \o (r \o e), q, e)
  <2>1. Streams([j \in 0..Len(q) |-> B[j] \o e], (w \o r) \o e, q, <<>> \o e)
    BY <1>0, <1>1, <1>2, <1>4, StreamExtended
  <2> QED
    BY <1>4, <2>1
<1> DEFINE D == [j \in 0..(Len(q) + 1) |-> IF j <= Len(q) THEN C[j] ELSE <<>>]
<1>6. /\ \A j \in 0..Len(q) : D[j] = C[j]
      /\ D[Len(q) + 1] = <<>>
  BY <1>2
<1> HIDE DEF D
<1>7. D[0] = w \o (r \o e)
  <2>1. 0 \in 0..Len(q)
    BY <1>2
  <2>2. C[0] = w \o (r \o e)
    BY <1>5 DEF Streams
  <2> QED
    BY <1>6, <2>1, <2>2
<1>8. \A j \in 0..(Len(q) + 1) : D[j] \in Seq(Digit)
  <2> TAKE j \in 0..(Len(q) + 1)
  <2>1. j \in 0..Len(q) \/ j = Len(q) + 1
    BY <1>2
  <2> QED
    BY <1>4, <1>5, <1>6, <2>1 DEF Streams
<1>9. ASSUME NEW j \in 0..Len(q) PROVE D[j] = Encode(u[j + 1]) \o D[j + 1]
  <2>1. CASE j = Len(q)
    <3>1. D[j] = e /\ D[j + 1] = <<>> /\ u[j + 1] = p
      BY <1>3, <1>5, <1>6, <2>1 DEF Streams
    <3> QED
      BY <1>4, <3>1 DEF e
  <2>2. CASE j # Len(q)
    <3>1. j \in 0..(Len(q) - 1) /\ j + 1 \in 0..Len(q) /\ j + 1 \in 1..Len(q)
      BY <1>2, <2>2
    <3>2. C[j] = Encode(q[j + 1]) \o C[j + 1]
      BY <1>5, <3>1 DEF Streams
    <3> QED
      BY <1>3, <1>6, <3>1, <3>2
  <2> QED
    BY <2>1, <2>2
<1>10. Streams(D, w \o (r \o e), u, <<>>)
  <2>1. Len(u) - 1 = Len(q)
    BY <1>2, <1>3
  <2> QED
    BY <1>3, <1>6, <1>7, <1>8, <1>9, <2>1 DEF Streams
<1>11. \A j \in 1..Len(u) : Sendable(u[j])
  <2> TAKE j \in 1..Len(u)
  <2>1. j \in 1..Len(q) \/ j = Len(q) + 1
    BY <1>2, <1>3
  <2> QED
    BY <1>0, <1>3, <2>1
<1>12. Underway(w, r \o e, u, <<>>)
  BY <1>0, <1>3, <1>4, <1>10, <1>11 DEF Underway, Stream, IsTail
<1> QED
  BY <1>12 DEF e, u

\* A header is sent that announces too much.
LEMMA TailSent ==
    ASSUME NEW w, NEW r, NEW q, Underway(w, r, q, <<>>),
           NEW n \in (MAX_FRAME_SIZE + 1)..(HeaderLimit - 1)
    PROVE  Underway(w, r \o Header(n), q, Header(n))
<1> DEFINE e == Header(n)
<1>0. /\ w \in Seq(Digit) /\ r \in Seq(Digit) /\ q \in Seq(Seq(Digit))
      /\ \A j \in 1..Len(q) : Sendable(q[j])
  BY DEF Underway
<1>1. PICK B : Streams(B, w \o r, q, <<>>)
  BY DEF Underway, Stream
<1>2. e \in Seq(Digit)
  <2>0. MAX_FRAME_SIZE \in Nat /\ HEADER_SIZE \in Nat
    BY CodecAssumption
  <2>1. MAX_FRAME_SIZE \in Nat /\ HeaderLimit \in Nat
    BY <2>0, PowerRule DEF HeaderLimit
  <2>2. n \in Nat /\ n < HeaderLimit
    BY <2>1
  <2> QED
    BY <2>2, HeaderInverse
<1>3. IsTail(e)
  BY DEF IsTail
<1> HIDE DEF e
<1>4. w \o r \in Seq(Digit) /\ r \o e \in Seq(Digit) /\ (w \o r) \o e = w \o (r \o e)
      /\ <<>> \in Seq(Digit) /\ <<>> \o e = e
  BY <1>0, <1>2, ConcatProperties, ConcatAssociative, ConcatEmptySeq, EmptySeq
<1>5. Streams([j \in 0..Len(q) |-> B[j] \o e], (w \o r) \o e, q, <<>> \o e)
  BY <1>0, <1>1, <1>2, <1>4, StreamExtended
<1>6. Stream(w \o (r \o e), q, e)
  BY <1>4, <1>5 DEF Stream
<1>7. Underway(w, r \o e, q, e)
  BY <1>0, <1>3, <1>4, <1>6 DEF Underway
<1> QED
  BY <1>7 DEF e

\* Bytes arrive.
LEMMA BytesArrive ==
    ASSUME NEW w, NEW r, NEW q, NEW t, Underway(w, r, q, t), NEW n \in 0..Len(r)
    PROVE  Underway(w \o SubSeq(r, 1, n), SubSeq(r, n + 1, Len(r)), q, t)
<1> DEFINE a == SubSeq(r, 1, n)
           b == SubSeq(r, n + 1, Len(r))
<1>1. w \in Seq(Digit) /\ r \in Seq(Digit)
  BY DEF Underway
<1>2. a \in Seq(Digit) /\ b \in Seq(Digit) /\ a \o b = r
  BY <1>1, Dropped
<1> HIDE DEF a, b
<1>3. w \o a \in Seq(Digit) /\ (w \o a) \o b = w \o r
  <2>1. w \o a \in Seq(Digit)
    BY <1>1, <1>2, ConcatProperties
  <2>2. (w \o a) \o b = w \o (a \o b)
    <3>1. w \in Seq(Digit) /\ a \in Seq(Digit) /\ b \in Seq(Digit)
      BY <1>1, <1>2
    <3> QED
      BY <3>1, ConcatAssociative
  <2> QED
    BY <1>2, <2>1, <2>2
<1>4. Underway(w \o a, b, q, t)
  BY <1>2, <1>3 DEF Underway
<1> QED
  BY <1>4 DEF a, b

-----------------------------------------------------------------------------
(* FrameStream *)

\* What follows the first n elements, when another is appended.
LEMMA DropAppend ==
    ASSUME NEW S, NEW s \in Seq(S), NEW x \in S, NEW n \in 0..Len(s)
    PROVE  SubSeq(Append(s, x), n + 1, Len(Append(s, x))) = Append(SubSeq(s, n + 1, Len(s)), x)
<1> DEFINE a == Append(s, x)
           u == SubSeq(a, n + 1, Len(a))
           v == SubSeq(s, n + 1, Len(s))
           z == Append(v, x)
<1>1. Len(s) \in Nat
  BY LenProperties
<1>2. /\ a \in Seq(S) /\ Len(a) = Len(s) + 1 /\ a[Len(s) + 1] = x
      /\ \A j \in 1..Len(s) : a[j] = s[j]
  BY AppendProperties
<1> HIDE DEF a
<1>3. n \in 0..Len(a)
  BY <1>1, <1>2
<1>4. u \in Seq(S) /\ Len(u) = Len(a) - n /\ \A j \in 1..(Len(a) - n) : u[j] = a[n + j]
  BY <1>2, <1>3, Dropped
<1>5. v \in Seq(S) /\ Len(v) = Len(s) - n /\ \A j \in 1..(Len(s) - n) : v[j] = s[n + j]
  BY Dropped
<1> HIDE DEF u, v
<1>6. z \in Seq(S) /\ Len(z) = Len(v) + 1 /\ z[Len(v) + 1] = x /\ \A j \in 1..Len(v) : z[j] = v[j]
  BY <1>5, AppendProperties
<1> HIDE DEF z
<1>7. Len(u) = Len(z)
  BY <1>1, <1>2, <1>4, <1>5, <1>6
<1>8. ASSUME NEW j \in 1..Len(u) PROVE u[j] = z[j]
  <2>1. CASE j = Len(v) + 1
    <3>1. n + j = Len(s) + 1 /\ j \in 1..(Len(a) - n)
      BY <1>1, <1>2, <1>4, <1>5, <2>1
    <3> QED
      BY <1>2, <1>4, <1>6, <2>1, <3>1
  <2>2. CASE j # Len(v) + 1
    <3>0. Len(v) = Len(s) - n /\ Len(a) = Len(s) + 1 /\ Len(u) = (Len(s) + 1) - n
      BY <1>2, <1>4, <1>5
    <3>1. j \in 1..(Len(s) - n) /\ j \in 1..Len(v) /\ j \in 1..(Len(a) - n) /\ n + j \in 1..Len(s)
      BY <1>1, <2>2, <3>0
    <3> QED
      BY <1>2, <1>4, <1>5, <1>6, <3>1
  <2> QED
    BY <2>1, <2>2
<1>9. u = z
  BY <1>4, <1>6, <1>7, <1>8, SeqEqual
<1> QED
  BY <1>9 DEF u, z, v, a

\* Two cuts of a sequence.
LEMMA TwoCuts ==
    ASSUME NEW S, NEW s \in Seq(S), NEW n \in 0..Len(s), NEW u, u = SubSeq(s, n + 1, Len(s)),
           NEW k \in 0..Len(u)
    PROVE  /\ n + k \in 0..Len(s)
           /\ SubSeq(s, 1, n) \o SubSeq(u, 1, k) = SubSeq(s, 1, n + k)
           /\ SubSeq(u, k + 1, Len(u)) = SubSeq(s, (n + k) + 1, Len(s))
<1>1. Len(s) \in Nat
  BY LenProperties
<1>2. /\ u \in Seq(S) /\ Len(u) = Len(s) - n /\ \A j \in 1..(Len(s) - n) : u[j] = s[n + j]
      /\ SubSeq(s, 1, n) \in Seq(S) /\ Len(SubSeq(s, 1, n)) = n
      /\ \A j \in 1..n : SubSeq(s, 1, n)[j] = s[j]
  BY Dropped
<1>3. n + k \in 0..Len(s) /\ n \in Nat /\ k \in Nat
  BY <1>1, <1>2
<1>4. /\ SubSeq(u, k + 1, Len(u)) \in Seq(S) /\ Len(SubSeq(u, k + 1, Len(u))) = Len(u) - k
      /\ \A j \in 1..(Len(u) - k) : SubSeq(u, k + 1, Len(u))[j] = u[k + j]
      /\ SubSeq(u, 1, k) \in Seq(S) /\ Len(SubSeq(u, 1, k)) = k
      /\ \A j \in 1..k : SubSeq(u, 1, k)[j] = u[j]
  BY <1>2, Dropped
<1>5. /\ SubSeq(s, (n + k) + 1, Len(s)) \in Seq(S)
      /\ Len(SubSeq(s, (n + k) + 1, Len(s))) = Len(s) - (n + k)
      /\ \A j \in 1..(Len(s) - (n + k)) : SubSeq(s, (n + k) + 1, Len(s))[j] = s[(n + k) + j]
      /\ SubSeq(s, 1, n + k) \in Seq(S) /\ Len(SubSeq(s, 1, n + k)) = n + k
      /\ \A j \in 1..(n + k) : SubSeq(s, 1, n + k)[j] = s[j]
  BY <1>3, Dropped
<1> DEFINE a == SubSeq(s, 1, n)
           b == SubSeq(u, 1, k)
           c == SubSeq(s, 1, n + k)
           d == SubSeq(u, k + 1, Len(u))
           e == SubSeq(s, (n + k) + 1, Len(s))
<1>6. /\ a \in Seq(S) /\ Len(a) = n /\ \A j \in 1..n : a[j] = s[j]
      /\ b \in Seq(S) /\ Len(b) = k /\ \A j \in 1..k : b[j] = u[j]
      /\ c \in Seq(S) /\ Len(c) = n + k /\ \A j \in 1..(n + k) : c[j] = s[j]
      /\ d \in Seq(S) /\ Len(d) = Len(u) - k /\ \A j \in 1..(Len(u) - k) : d[j] = u[k + j]
      /\ e \in Seq(S) /\ Len(e) = Len(s) - (n + k)
      /\ \A j \in 1..(Len(s) - (n + k)) : e[j] = s[(n + k) + j]
  BY <1>2, <1>4, <1>5
<1> HIDE DEF a, b, c, d, e
<1>7. a \o b = c
  <2>1. /\ a \o b \in Seq(S) /\ Len(a \o b) = Len(a) + Len(b)
        /\ \A j \in 1..(Len(a) + Len(b)) : (a \o b)[j] = IF j <= Len(a) THEN a[j] ELSE b[j - Len(a)]
    <3>1. a \in Seq(S) /\ b \in Seq(S)
      BY <1>6
    <3> QED
      BY <3>1, ConcatProperties
  <2>2. Len(a \o b) = Len(c)
    BY <1>6, <2>1
  <2>3. ASSUME NEW j \in 1..(n + k) PROVE (a \o b)[j] = c[j]
    <3>1. (a \o b)[j] = IF j <= n THEN a[j] ELSE b[j - n]
      BY <1>6, <2>1
    <3>2. CASE j <= n
      <4>1. j \in 1..n
        BY <1>3, <3>2
      <4> QED
        BY <1>6, <3>1, <4>1
    <3>3. CASE ~(j <= n)
      <4>1. j - n \in 1..k /\ j - n \in 1..(Len(s) - n) /\ n + (j - n) = j
        BY <1>1, <1>2, <1>3, <3>3
      <4>2. b[j - n] = u[j - n] /\ u[j - n] = s[n + (j - n)]
        BY <1>2, <1>6, <4>1
      <4> QED
        BY <1>6, <3>1, <3>3, <4>1, <4>2
    <3> QED
      BY <3>2, <3>3
  <2>4. Len(c) = n + k
    BY <1>6
  <2> QED
    BY <1>6, <2>1, <2>2, <2>3, <2>4, SeqEqual
<1>8. d = e
  <2>1. Len(d) = Len(e)
    BY <1>1, <1>2, <1>3, <1>6
  <2>2. ASSUME NEW j \in 1..Len(d) PROVE d[j] = e[j]
    <3>1. /\ j \in 1..(Len(u) - k) /\ j \in 1..(Len(s) - (n + k)) /\ k + j \in 1..(Len(s) - n)
          /\ n + (k + j) = (n + k) + j
      BY <1>1, <1>2, <1>3, <1>6
    <3>2. d[j] = u[k + j] /\ u[k + j] = s[n + (k + j)] /\ e[j] = s[(n + k) + j]
      BY <1>2, <1>6, <3>1
    <3> QED
      BY <3>1, <3>2
  <2> QED
    BY <1>6, <2>1, <2>2, SeqEqual
<1> QED
  BY <1>3, <1>7, <1>8 DEF a, b, c, d, e

\* The payloads sent and not received.
Waiting == SubSeq(sent, Len(received) + 1, Len(sent))

\* No payload is so long that the cast to uint32_t changes its length.
PayloadsFit == \A payload \in Payloads : Len(payload) < HeaderLimit

\* The bytes that have arrived and those on their way are the frames of the payloads
\* sent and not received.
StreamInv ==
    /\ StreamTypeOK /\ BrokenForACause
    /\ \A i \in 1..Len(sent) : Sendable(sent[i])
    /\ Len(received) <= Len(sent) /\ received = SubSeq(sent, 1, Len(received))
    /\ ~broken => /\ ~HasFrame(readBuffer)
                  /\ \E t : (t # <<>> => foreign) /\ Underway(readBuffer, wire, Waiting, t)

\* A buffer without a whole frame, whose header is not too large, is shorter than
\* the longest frame.
LEMMA ShortBuffer ==
    ASSUME NEW w \in Seq(Digit), ~HasFrame(w), ~TooLarge(w)
    PROVE  Len(w) < HEADER_SIZE + MAX_FRAME_SIZE
<1>1. HEADER_SIZE \in Nat /\ MAX_FRAME_SIZE \in Nat /\ Len(w) \in Nat
  BY CodecAssumption, LenProperties
<1>2. CASE ~HasHeader(w)
  BY <1>1, <1>2 DEF HasHeader
<1>3. CASE HasHeader(w)
  <2>1. \A n \in 1..Len(w) : w[n] \in Digit
    BY LenProperties
  <2>2. \A n \in 1..HEADER_SIZE : w[n] \in Digit
    BY <1>1, <1>3, <2>1 DEF HasHeader
  <2>3. HeaderValue(w) \in Nat
    BY <2>2, ValueOfPrefix
  <2>4. ~(HeaderValue(w) > MAX_FRAME_SIZE) /\ ~(Len(w) >= HEADER_SIZE + HeaderValue(w))
    BY <1>3 DEF HasFrame, TooLarge, TotalSize
  <2> QED
    BY <1>1, <2>3, <2>4
<1> QED
  BY <1>2, <1>3

\* The invariant holds at the start.
LEMMA StreamInvInit == StreamInit => StreamInv
<1> SUFFICES ASSUME StreamInit PROVE StreamInv
  OBVIOUS
<1>1. /\ wire = <<>> /\ readBuffer = <<>> /\ sent = <<>> /\ received = <<>>
      /\ broken = FALSE /\ foreign = FALSE
  BY DEF StreamInit
<1>2. HEADER_SIZE \in Nat /\ HEADER_SIZE > 0 /\ MAX_FRAME_SIZE \in Nat
  BY CodecAssumption
<1>3. <<>> \in Seq(Digit) /\ <<>> \in Seq(Payloads) /\ <<>> \in Seq(Seq(Digit)) /\ Len(<<>>) = 0
      /\ <<>> \o <<>> = <<>>
  OBVIOUS
<1>4. StreamTypeOK /\ BrokenForACause
  <2>1. Len(readBuffer) < HEADER_SIZE + MAX_FRAME_SIZE
    BY <1>1, <1>2, <1>3
  <2>2. broken \in BOOLEAN /\ foreign \in BOOLEAN /\ (broken => foreign)
    BY <1>1
  <2> QED
    BY <1>1, <1>3, <2>1, <2>2, Zenon DEF StreamTypeOK, BrokenForACause
<1>5. ~HasFrame(readBuffer)
  BY <1>1, <1>2, <1>3 DEF HasFrame, HasHeader
<1>6. SubSeq(sent, 1, Len(received)) = <<>> /\ Waiting = <<>>
  BY <1>1, <1>3, SubSeqEmpty DEF Waiting
<1>7. Streams([j \in {0} |-> <<>>], <<>>, <<>>, <<>>)
  BY <1>3 DEF Streams
<1>8. Underway(readBuffer, wire, Waiting, <<>>)
  BY <1>1, <1>3, <1>6, <1>7 DEF Underway, Stream, IsTail
<1> QED
  BY <1>1, <1>3, <1>4, <1>5, <1>6, <1>8 DEF StreamInv

\* It implies the property.
LEMMA StreamInvImplies == StreamInv => StreamDecoded
<1> SUFFICES ASSUME StreamInv PROVE StreamDecoded
  OBVIOUS
<1>1. StreamTypeOK /\ BrokenForACause
  BY DEF StreamInv
<1>2. ASSUME wire = <<>>, ~foreign PROVE received = sent /\ readBuffer = <<>>
  <2>1. ~broken /\ readBuffer \in Seq(Digit)
    BY <1>1, <1>2 DEF BrokenForACause, StreamTypeOK
  <2>2. Underway(readBuffer, <<>>, Waiting, <<>>) /\ ~HasFrame(readBuffer)
    BY <1>2, <2>1 DEF StreamInv
  <2>3. readBuffer \o <<>> = readBuffer
    BY <2>1, ConcatEmptySeq
  <2>4. /\ Waiting \in Seq(Seq(Digit)) /\ \A j \in 1..Len(Waiting) : Sendable(Waiting[j])
        /\ Stream(readBuffer, Waiting, <<>>)
    BY <2>2, <2>3 DEF Underway
  <2>5. Waiting = <<>> /\ readBuffer = <<>>
    BY <2>1, <2>2, <2>4, StreamRead
  <2>6. sent \in Seq(Payloads) /\ received \in Seq(Seq(Digit))
    BY <1>1 DEF StreamTypeOK
  <2>7. Len(sent) \in Nat /\ Len(received) \in Nat /\ Len(received) <= Len(sent)
        /\ received = SubSeq(sent, 1, Len(received))
    BY <2>6, LenProperties DEF StreamInv
  <2>8. Len(received) \in 0..Len(sent)
    BY <2>7
  <2>9. Len(Waiting) = Len(sent) - Len(received)
    BY <2>6, <2>8, Dropped DEF Waiting
  <2>10. Len(sent) = Len(received)
    BY <2>5, <2>7, <2>9, EmptySeq
  <2> QED
    BY <2>5, <2>6, <2>7, <2>10, SubSeqFull
<1> QED
  BY <1>1, <1>2 DEF StreamDecoded, NothingKeptBack

\* The lengths that the invariant relates.
LEMMA StreamLengths ==
    ASSUME StreamInv
    PROVE  /\ Len(sent) \in Nat /\ Len(received) \in 0..Len(sent) /\ sent \in Seq(Seq(Digit))
           /\ Waiting \in Seq(Seq(Digit)) /\ Len(Waiting) = Len(sent) - Len(received)
<1>1. sent \in Seq(Payloads) /\ received \in Seq(Seq(Digit)) /\ Len(received) <= Len(sent)
  BY DEF StreamInv, StreamTypeOK
<1>2. sent \in Seq(Seq(Digit))
  BY <1>1, StreamAssumption, SeqMonotonic
<1>3. Len(sent) \in Nat /\ Len(received) \in Nat
  BY <1>1, LenProperties
<1>4. Len(received) \in 0..Len(sent)
  BY <1>1, <1>3
<1> QED
  BY <1>2, <1>3, <1>4, Dropped DEF Waiting

\* Send extends the stream, and the channel's queue.
LEMMA StreamSend ==
    ASSUME PayloadsFit, StreamInv, NEW payload \in Payloads, Send(payload)
    PROVE  StreamInv' /\ Waiting' = Append(Waiting, payload)
<1>0. /\ ~foreign /\ ~EncodeThrows(payload)
      /\ wire' = wire \o Encode(payload) /\ sent' = Append(sent, payload)
      /\ readBuffer' = readBuffer /\ received' = received /\ broken' = broken /\ foreign' = foreign
  BY DEF Send
<1>1. /\ StreamTypeOK /\ BrokenForACause
      /\ wire \in Seq(Digit) /\ sent \in Seq(Payloads) /\ received \in Seq(Seq(Digit))
  BY DEF StreamInv, StreamTypeOK
<1>2. payload \in Seq(Digit) /\ Sendable(payload)
  BY <1>0, StreamAssumption DEF PayloadsFit, Sendable
<1>3. /\ Len(sent) \in Nat /\ Len(received) \in 0..Len(sent) /\ sent \in Seq(Seq(Digit))
      /\ Waiting \in Seq(Seq(Digit))
  BY StreamLengths
<1>4. Waiting' = Append(Waiting, payload)
  BY <1>0, <1>1, <1>3, DropAppend DEF Waiting
<1>5. /\ sent' \in Seq(Payloads) /\ Len(sent') = Len(sent) + 1
      /\ \A i \in 1..Len(sent) : sent'[i] = sent[i]
      /\ sent'[Len(sent) + 1] = payload
  BY <1>0, <1>1, AppendProperties
<1>6. wire' \in Seq(Digit)
  BY <1>0, <1>1, <1>2, FrameBytes, ConcatProperties
<1>7. StreamTypeOK'
  BY <1>0, <1>1, <1>5, <1>6, Zenon DEF StreamTypeOK
<1>8. BrokenForACause'
  BY <1>0, <1>1 DEF BrokenForACause
<1>9. \A i \in 1..Len(sent') : Sendable(sent'[i])
  <2> TAKE i \in 1..Len(sent')
  <2>1. i \in 1..Len(sent) \/ i = Len(sent) + 1
    BY <1>3, <1>5
  <2> QED
    BY <1>2, <1>5, <2>1 DEF StreamInv
<1>10. Len(received') <= Len(sent') /\ received' = SubSeq(sent', 1, Len(received'))
  <2>1. Len(received) <= Len(sent') /\ Len(received) \in 0..Len(sent')
    BY <1>3, <1>5
  <2>2. received = SubSeq(sent, 1, Len(received))
    BY DEF StreamInv
  <2> DEFINE n == Len(received)
             a == SubSeq(sent, 1, n)
             b == SubSeq(sent', 1, n)
  <2>3. /\ a \in Seq(Payloads) /\ Len(a) = n /\ \A j \in 1..n : a[j] = sent[j]
        /\ b \in Seq(Payloads) /\ Len(b) = n /\ \A j \in 1..n : b[j] = sent'[j]
    BY <1>1, <1>3, <1>5, <2>1, Dropped
  <2>4. \A j \in 1..n : j \in 1..Len(sent)
    BY <1>3
  <2> HIDE DEF a, b, n
  <2>5. a = b
    BY <1>5, <2>3, <2>4, SeqEqual
  <2> QED
    BY <1>0, <2>1, <2>2, <2>5 DEF a, b, n
<1>11. ASSUME ~broken'
       PROVE  /\ ~HasFrame(readBuffer')
              /\ \E t : (t # <<>> => foreign') /\ Underway(readBuffer', wire', Waiting', t)
  <2>1. Underway(readBuffer, wire, Waiting, <<>>) /\ ~HasFrame(readBuffer)
    BY <1>0, <1>11 DEF StreamInv
  <2>2. Underway(readBuffer, wire \o Encode(payload), Append(Waiting, payload), <<>>)
    BY <1>2, <2>1, FrameSent
  <2> QED
    BY <1>0, <1>4, <2>1, <2>2
<1> QED
  BY <1>4, <1>7, <1>8, <1>9, <1>10, <1>11 DEF StreamInv

\* An oversized header leaves the channel alone.
LEMMA StreamSendHeader ==
    ASSUME StreamInv, NEW n \in (MAX_FRAME_SIZE + 1)..(HeaderLimit - 1), SendOversizedHeader(n)
    PROVE  StreamInv' /\ UNCHANGED <<Waiting, received, broken>>
<1>0. /\ ~foreign /\ wire' = wire \o Header(n) /\ foreign' = TRUE
      /\ readBuffer' = readBuffer /\ sent' = sent /\ received' = received /\ broken' = broken
  BY DEF SendOversizedHeader
<1>1. StreamTypeOK /\ BrokenForACause /\ wire \in Seq(Digit)
  BY DEF StreamInv, StreamTypeOK
<1>2. Waiting' = Waiting
  BY <1>0 DEF Waiting
<1>3. ~broken
  BY <1>0, <1>1 DEF BrokenForACause
<1>4. Underway(readBuffer, wire, Waiting, <<>>) /\ ~HasFrame(readBuffer)
  BY <1>0, <1>3 DEF StreamInv
<1>5. Underway(readBuffer, wire', Waiting, Header(n))
  BY <1>0, <1>4, TailSent
<1>6. wire' \in Seq(Digit)
  BY <1>5 DEF Underway
<1>7. foreign' \in BOOLEAN
  BY <1>0
<1>8. StreamTypeOK'
  BY <1>0, <1>1, <1>6, <1>7, Zenon DEF StreamTypeOK
<1>9. BrokenForACause'
  BY <1>0 DEF BrokenForACause
<1>10. \E t : (t # <<>> => foreign') /\ Underway(readBuffer', wire', Waiting', t)
  BY <1>0, <1>2, <1>5
<1>11. StreamInv'
  BY <1>0, <1>4, <1>8, <1>9, <1>10 DEF StreamInv
<1> QED
  BY <1>0, <1>2, <1>11

\* A call of Decode delivers the payloads whose bytes have all arrived, or breaks the
\* connection and delivers none.
LEMMA StreamReceive ==
    ASSUME StreamInv, NEW n \in 1..Len(wire), Receive(n)
    PROVE  /\ StreamInv'
           /\ \/ broken' = TRUE /\ UNCHANGED <<Waiting, received>>
              \/ /\ UNCHANGED broken
                 /\ \E k \in 0..Len(Waiting) :
                       /\ received' = received \o SubSeq(Waiting, 1, k)
                       /\ Waiting' = SubSeq(Waiting, k + 1, Len(Waiting))
<1> DEFINE d == Decode(Appended(n))
           r == SubSeq(wire, n + 1, Len(wire))
<1>0. /\ ~broken /\ wire' = r /\ readBuffer' = d.buffer
      /\ received' = received \o d.frames /\ broken' = d.throws
      /\ sent' = sent /\ foreign' = foreign
  BY DEF Receive
<1>1. /\ StreamTypeOK /\ BrokenForACause /\ wire \in Seq(Digit) /\ sent \in Seq(Payloads)
      /\ received \in Seq(Seq(Digit)) /\ foreign \in BOOLEAN /\ broken \in BOOLEAN
  BY DEF StreamInv, StreamTypeOK
<1>2. PICK t : (t # <<>> => foreign) /\ Underway(readBuffer, wire, Waiting, t)
  BY <1>0 DEF StreamInv
<1>3. n \in 0..Len(wire)
  BY <1>1, LenProperties
<1>4. Underway(Appended(n), r, Waiting, t)
  BY <1>2, <1>3, BytesArrive DEF Appended
<1>5. /\ d.buffer \in Seq(Digit) /\ ~HasFrame(d.buffer)
      /\ d.throws = TooLarge(d.buffer)
      /\ d.throws => t # <<>> /\ d.frames = <<>>
      /\ ~d.throws =>
           \E k \in 0..Len(Waiting) : Takes(d, k, r, Waiting, t) /\ (k = 0 => d.buffer = Appended(n))
  BY <1>4, StreamDecode
<1>6. r \in Seq(Digit)
  BY <1>4 DEF Underway
<1> HIDE DEF d, r
<1>7. d.throws \in BOOLEAN
  BY <1>5 DEF TooLarge, HasHeader
<1>8. /\ Len(sent) \in Nat /\ Len(received) \in 0..Len(sent) /\ sent \in Seq(Seq(Digit))
      /\ Waiting \in Seq(Seq(Digit)) /\ received = SubSeq(sent, 1, Len(received))
      /\ Len(Waiting) = Len(sent) - Len(received)
      /\ \A i \in 1..Len(sent) : Sendable(sent[i])
  BY StreamLengths DEF StreamInv
<1>9. CASE d.throws
  <2>1. received' = received
    BY <1>0, <1>1, <1>5, <1>9, ConcatEmptySeq
  <2>2. Waiting' = Waiting /\ broken' = TRUE
    BY <1>0, <1>7, <1>9, <2>1 DEF Waiting
  <2>3. foreign
    BY <1>2, <1>5, <1>9
  <2>4. StreamTypeOK'
    BY <1>0, <1>1, <1>5, <1>6, <2>1, <2>2, Zenon DEF StreamTypeOK
  <2>5. BrokenForACause'
    BY <1>0, <2>3 DEF BrokenForACause
  <2>6. Len(received') <= Len(sent')
    BY <1>0, <1>8, <2>1
  <2>7. StreamInv'
    BY <1>0, <1>8, <2>1, <2>2, <2>4, <2>5, <2>6 DEF StreamInv
  <2> QED
    BY <2>1, <2>2, <2>7
<1>10. CASE ~d.throws
  <2>1. PICK k \in 0..Len(Waiting) : Takes(d, k, r, Waiting, t)
    BY <1>5, <1>10
  <2>2. /\ received' = received \o SubSeq(Waiting, 1, k)
        /\ Underway(readBuffer', wire', SubSeq(Waiting, k + 1, Len(Waiting)), t)
    BY <1>0, <2>1 DEF Takes
  <2> DEFINE m == Len(received)
  <2>3. /\ m + k \in 0..Len(sent)
        /\ SubSeq(sent, 1, m) \o SubSeq(Waiting, 1, k) = SubSeq(sent, 1, m + k)
        /\ SubSeq(Waiting, k + 1, Len(Waiting)) = SubSeq(sent, (m + k) + 1, Len(sent))
    BY <1>8, TwoCuts DEF Waiting
  <2>4. received' = SubSeq(sent, 1, m + k)
    BY <1>8, <2>2, <2>3
  <2>5. SubSeq(sent, 1, m + k) \in Seq(Seq(Digit)) /\ Len(SubSeq(sent, 1, m + k)) = m + k
    BY <1>8, <2>3, Dropped
  <2>6. received' \in Seq(Seq(Digit)) /\ Len(received') = m + k
    BY <2>4, <2>5
  <2>7. Waiting' = SubSeq(Waiting, k + 1, Len(Waiting))
    BY <1>0, <2>3, <2>6 DEF Waiting
  <2>8. broken' = FALSE
    BY <1>0, <1>7, <1>10
  <2>9. Len(readBuffer') < HEADER_SIZE + MAX_FRAME_SIZE
    BY <1>0, <1>5, <1>10, ShortBuffer
  <2>10. broken' \in BOOLEAN
    BY <2>8
  <2>11. StreamTypeOK'
    BY <1>0, <1>1, <1>5, <1>6, <2>6, <2>9, <2>10, Zenon DEF StreamTypeOK
  <2>12. BrokenForACause'
    BY <2>8 DEF BrokenForACause
  <2>13. \E z : (z # <<>> => foreign') /\ Underway(readBuffer', wire', Waiting', z)
    BY <1>0, <1>2, <2>2, <2>7
  <2>14. Len(received') <= Len(sent') /\ received' = SubSeq(sent', 1, Len(received'))
    BY <1>0, <1>8, <2>3, <2>4, <2>6
  <2>15. StreamInv'
    BY <1>0, <1>5, <1>8, <2>11, <2>12, <2>13, <2>14 DEF StreamInv
  <2>16. broken' = broken
    BY <1>0, <1>1, <2>8
  <2> QED
    BY <2>2, <2>7, <2>15, <2>16
<1> QED
  BY <1>9, <1>10

\* Nothing happens.
LEMMA StreamStutter ==
    ASSUME StreamInv, UNCHANGED streamVars
    PROVE  StreamInv' /\ UNCHANGED <<Waiting, received, broken>>
<1>0. /\ wire' = wire /\ readBuffer' = readBuffer /\ sent' = sent /\ received' = received
      /\ broken' = broken /\ foreign' = foreign
  BY DEF streamVars
<1>1. Waiting' = Waiting
  BY <1>0 DEF Waiting
<1> QED
  BY <1>0, <1>1 DEF StreamInv, StreamTypeOK, BrokenForACause

\* The framing of module FrameCodec: as long as no payload is so long that the cast
\* to uint32_t changes its length, no complete frame waits in the buffer, nothing is
\* kept back once all bytes are there, and only bytes that Encode did not write break
\* the connection, however the stream is cut into reads.
THEOREM StreamIsDecoded ==
    PayloadsFit => (StreamSpec => []StreamDecoded)
<1> SUFFICES ASSUME PayloadsFit PROVE StreamSpec => []StreamDecoded
  OBVIOUS
<1>1. StreamInit => StreamInv
  BY StreamInvInit
<1>2. StreamInv /\ [StreamNext]_streamVars => StreamInv'
  <2> SUFFICES ASSUME StreamInv, [StreamNext]_streamVars PROVE StreamInv'
    OBVIOUS
  <2>1. ASSUME NEW payload \in Payloads, Send(payload) PROVE StreamInv'
    BY <2>1, StreamSend
  <2>2. ASSUME NEW n \in (MAX_FRAME_SIZE + 1)..(HeaderLimit - 1), SendOversizedHeader(n)
        PROVE  StreamInv'
    BY <2>2, StreamSendHeader
  <2>3. ASSUME NEW n \in 1..Len(wire), Receive(n) PROVE StreamInv'
    BY <2>3, StreamReceive
  <2>4. CASE UNCHANGED streamVars
    BY <2>4, StreamStutter
  <2> QED
    BY <2>1, <2>2, <2>3, <2>4 DEF StreamNext
<1>3. StreamInv => StreamDecoded
  BY StreamInvImplies
<1> QED
  BY <1>1, <1>2, <1>3, PTL DEF StreamSpec

\* Framing implements the channel of payloads: every step of the two sides is a step
\* of module PayloadChannel or none.
THEOREM StreamIsAChannel ==
    PayloadsFit => (StreamSpec => ImplementsChannel)
<1> SUFFICES ASSUME PayloadsFit PROVE StreamSpec => ImplementsChannel
  OBVIOUS
<1>1. StreamInit => StreamInv /\ Channel!Init
  <2> SUFFICES ASSUME StreamInit PROVE Channel!Init
    BY StreamInvInit
  <2>1. sent = <<>> /\ received = <<>> /\ broken = FALSE
    BY DEF StreamInit
  <2>2. SubSeq(sent, Len(received) + 1, Len(sent)) = <<>>
    BY <2>1, SubSeqEmpty
  <2> QED
    BY <2>1, <2>2 DEF Channel!Init
<1>2. StreamInv /\ [StreamNext]_streamVars => StreamInv' /\ [Channel!Next]_(Channel!channelVars)
  <2> SUFFICES ASSUME StreamInv, [StreamNext]_streamVars
               PROVE  StreamInv' /\ [Channel!Next]_(Channel!channelVars)
    OBVIOUS
  <2>1. ASSUME NEW payload \in Payloads, Send(payload)
        PROVE  StreamInv' /\ Channel!Send(payload)
    <3>1. StreamInv' /\ Waiting' = Append(Waiting, payload)
      BY <2>1, StreamSend
    <3> QED
      BY <2>1, <3>1 DEF Channel!Send, Waiting, Send
  <2>2. ASSUME NEW n \in (MAX_FRAME_SIZE + 1)..(HeaderLimit - 1), SendOversizedHeader(n)
        PROVE  StreamInv' /\ UNCHANGED Channel!channelVars
    <3>1. StreamInv' /\ UNCHANGED <<Waiting, received, broken>>
      BY <2>2, StreamSendHeader
    <3> QED
      BY <3>1 DEF Channel!channelVars, Waiting
  <2>3. ASSUME NEW n \in 1..Len(wire), Receive(n)
        PROVE  StreamInv' /\ (Channel!Next \/ UNCHANGED Channel!channelVars)
    <3>1. StreamInv'
      BY <2>3, StreamReceive
    <3>2. CASE broken' = TRUE /\ UNCHANGED <<Waiting, received>>
      <4>1. Channel!Break
        BY <3>2 DEF Channel!Break, Waiting
      <4> QED
        BY <3>1, <4>1 DEF Channel!Next
    <3>3. ASSUME UNCHANGED broken, NEW k \in 0..Len(Waiting),
                 received' = received \o SubSeq(Waiting, 1, k),
                 Waiting' = SubSeq(Waiting, k + 1, Len(Waiting))
          PROVE  Channel!Next \/ UNCHANGED Channel!channelVars
      <4>0. Waiting \in Seq(Seq(Digit)) /\ received \in Seq(Seq(Digit)) /\ Len(Waiting) \in Nat
        BY StreamLengths, LenProperties DEF StreamInv, StreamTypeOK
      <4>1. CASE k = 0
        <5>1. SubSeq(Waiting, 1, k) = <<>>
          BY <4>1, SubSeqEmpty
        <5>2. received' = received
          BY <3>3, <4>0, <5>1, ConcatEmptySeq
        <5>3. Waiting' = Waiting
          BY <3>3, <4>0, <4>1, SubSeqFull
        <5> QED
          BY <3>3, <5>2, <5>3 DEF Channel!channelVars, Waiting
      <4>2. CASE k # 0
        <5>1. k \in 1..Len(Waiting)
          BY <4>0, <4>2
        <5>2. ~broken
          BY <2>3 DEF Receive
        <5>3. Channel!Deliver(k)
          BY <3>3, <5>2 DEF Channel!Deliver, Waiting
        <5> QED
          BY <5>1, <5>3 DEF Channel!Next, Waiting
      <4> QED
        BY <4>1, <4>2
    <3> QED
      BY <2>3, <3>1, <3>2, <3>3, StreamReceive
  <2>4. CASE UNCHANGED streamVars
    <3>1. StreamInv' /\ UNCHANGED <<Waiting, received, broken>>
      BY <2>4, StreamStutter
    <3> QED
      BY <3>1 DEF Channel!channelVars, Waiting
  <2> QED
    BY <2>1, <2>2, <2>3, <2>4 DEF StreamNext, Channel!Next
<1> QED
  BY <1>1, <1>2, PTL DEF StreamSpec, ImplementsChannel, Channel!Spec

-----------------------------------------------------------------------------
(* Client *)

\* One frame is under way: Decode has it when its last byte has arrived, and
\* nothing before.
LEMMA DecodeOne ==
    ASSUME NEW w, NEW r, NEW p \in Seq(Digit), Underway(w, r, <<p>>, <<>>)
    PROVE  /\ Decode(w).throws = FALSE
           /\ Decode(w).buffer \in Seq(Digit) /\ Len(Decode(w).buffer) < HEADER_SIZE + MAX_FRAME_SIZE
           /\ \/ Decode(w).frames = <<>> /\ Underway(Decode(w).buffer, r, <<p>>, <<>>)
              \/ Decode(w).frames = <<p>> /\ Decode(w).buffer = <<>> /\ r = <<>>
<1> DEFINE d == Decode(w)
           q == <<p>>
<1>1. q \in Seq(Seq(Digit)) /\ Len(q) = 1 /\ q[1] = p
  OBVIOUS
<1> HIDE DEF q
<1>2. /\ d.buffer \in Seq(Digit) /\ ~HasFrame(d.buffer) /\ d.throws = TooLarge(d.buffer)
      /\ ~d.throws
      /\ \E k \in 0..Len(q) : Takes(d, k, r, q, <<>>)
  BY StreamDecode DEF q
<1> HIDE DEF d
<1>3. d.throws = FALSE /\ Len(d.buffer) < HEADER_SIZE + MAX_FRAME_SIZE
  <2>1. TooLarge(d.buffer) \in BOOLEAN
    BY DEF TooLarge, HasHeader
  <2>2. ~TooLarge(d.buffer)
    BY <1>2
  <2> QED
    BY <1>2, <2>1, <2>2, ShortBuffer
<1>4. PICK k \in 0..Len(q) : Takes(d, k, r, q, <<>>)
  BY <1>2
<1>5. d.frames = SubSeq(q, 1, k) /\ Underway(d.buffer, r, SubSeq(q, k + 1, Len(q)), <<>>)
  BY <1>4 DEF Takes
<1>6. CASE k = 0
  <2>1. SubSeq(q, 1, k) = <<>>
    BY <1>6, SubSeqEmpty
  <2>2. SubSeq(q, k + 1, Len(q)) = q
    BY <1>1, <1>6, SubSeqFull
  <2> QED
    BY <1>2, <1>3, <1>5, <2>1, <2>2 DEF d, q
<1>7. CASE k = 1
  <2>1. SubSeq(q, 1, k) = q
    BY <1>1, <1>7, SubSeqFull
  <2>2. SubSeq(q, k + 1, Len(q)) = <<>>
    BY <1>1, <1>7, SubSeqEmpty
  <2>3. Stream(d.buffer \o r, <<>>, <<>>) /\ r \in Seq(Digit)
    BY <1>5, <2>2 DEF Underway
  <2>4. PICK B : Streams(B, d.buffer \o r, <<>>, <<>>)
    BY <2>3 DEF Stream
  <2>5. d.buffer \o r = <<>>
    BY <2>4, EmptySeq DEF Streams
  <2>6. d.buffer = <<>> /\ r = <<>>
    BY <1>2, <2>3, <2>5, ConcatEqualIffEmpty
  <2> QED
    BY <1>2, <1>3, <1>5, <2>1, <2>6 DEF d, q
<1>8. k = 0 \/ k = 1
  BY <1>1
<1> QED
  BY <1>6, <1>7, <1>8

\* A frame is about to be sent.
LEMMA OneFrame ==
    ASSUME NEW p, Sendable(p)
    PROVE  Underway(<<>>, Encode(p), <<p>>, <<>>) /\ Encode(p) \in Seq(Digit) /\ Encode(p) # <<>>
<1>1. <<>> \in Seq(Digit) /\ <<>> \in Seq(Seq(Digit)) /\ Len(<<>>) = 0 /\ <<>> \o <<>> = <<>>
  OBVIOUS
<1>2. Streams([j \in {0} |-> <<>>], <<>>, <<>>, <<>>)
  BY <1>1 DEF Streams
<1>3. Underway(<<>>, <<>>, <<>>, <<>>)
  BY <1>1, <1>2 DEF Underway, Stream, IsTail
<1>4. Underway(<<>>, <<>> \o Encode(p), Append(<<>>, p), <<>>)
  BY <1>3, FrameSent
<1>5. Encode(p) \in Seq(Digit) /\ Len(Encode(p)) = HEADER_SIZE + Len(p) /\ Len(p) \in Nat
      /\ HEADER_SIZE \in Nat \ {0}
  BY FrameBytes, CodecAssumption
<1>6. <<>> \o Encode(p) = Encode(p) /\ Append(<<>>, p) = <<p>>
  BY <1>5, ConcatEmptySeq
<1>7. Encode(p) # <<>>
  BY <1>1, <1>5
<1> QED
  BY <1>4, <1>5, <1>6, <1>7

\* The first n of the bytes r arrive; x follows them.
LEMMA SomeArrive ==
    ASSUME NEW w, NEW r \in Seq(Digit), NEW x \in Seq(Digit), NEW q, NEW t,
           Underway(w, r \o x, q, t), NEW n \in 0..Len(r)
    PROVE  /\ SubSeq(r, 1, n) \in Seq(Digit) /\ SubSeq(r, n + 1, Len(r)) \in Seq(Digit)
           /\ Underway(w \o SubSeq(r, 1, n), SubSeq(r, n + 1, Len(r)) \o x, q, t)
<1> DEFINE a == SubSeq(r, 1, n)
           b == SubSeq(r, n + 1, Len(r))
<1>1. a \in Seq(Digit) /\ b \in Seq(Digit) /\ a \o b = r
  BY Dropped
<1> HIDE DEF a, b
<1>2. w \in Seq(Digit)
  BY DEF Underway
<1>3. w \o a \in Seq(Digit) /\ b \o x \in Seq(Digit)
  BY <1>1, <1>2, ConcatProperties
<1>4. (w \o a) \o (b \o x) = w \o (r \o x)
  <2>1. (w \o a) \o (b \o x) = w \o (a \o (b \o x))
    BY <1>1, <1>2, <1>3, Regroup
  <2>2. (a \o b) \o x = a \o (b \o x)
    BY <1>1, Regroup
  <2> QED
    BY <1>1, <2>1, <2>2
<1>5. Underway(w \o a, b \o x, q, t)
  BY <1>3, <1>4 DEF Underway
<1> QED
  BY <1>1, <1>5 DEF a, b

\* The answers to no line, and to one.
LEMMA FlattenNone ==
    ASSUME NEW s, Len(s) = 0
    PROVE  FlattenSeq(s) = s
BY DEF FlattenSeq

LEMMA FlattenOne ==
    ASSUME NEW x
    PROVE  FlattenSeq(<<x>>) = x
<1> DEFINE s == <<x>>
           G(f) == [i \in 1..Len(s) |-> IF i = 1 THEN s[i] ELSE f[i - 1] \o s[i]]
           g == [i \in 1..1 |-> x]
<1>1. Len(s) = 1 /\ s[1] = x
  OBVIOUS
<1>2. FlattenSeq(s) = (CHOOSE f : f = G(f))[Len(s)]
  BY <1>1 DEF FlattenSeq
<1> HIDE DEF s
<1>3. \A i \in 1..1 : i = 1
  OBVIOUS
<1>4. g = G(g)
  BY <1>1, <1>3
<1> HIDE DEF G, g
<1>5. PICK h : h = (CHOOSE f : f = G(f))
  OBVIOUS
<1>6. h = G(h)
  BY <1>4, <1>5, Zenon
<1>7. h[1] = x
  BY <1>1, <1>6 DEF G
<1> QED
  BY <1>1, <1>2, <1>5, <1>7 DEF s

\* No line and no answer is so long that the cast to uint32_t changes its length.
LinesFit == \A l \in Inputs : Len(Text[l]) < HeaderLimit /\ Len(Answer[l]) < HeaderLimit

\* The server has had nothing since its last answer.
Idle == server.open => server.buffer = <<>> /\ toServer = <<>>

\* The client waits for the answer to the line typed last.
Asking ==
    /\ input \in Inputs /\ Sendable(Text[input])
    /\ Len(typed) = Len(printed) + 1 /\ typed[Len(typed)] = input

\* The line is on its way to the server; there is nothing on the way back.
Unanswered ==
    /\ server.open => Underway(server.buffer, toServer \o unsent, <<Text[input]>>, <<>>)
    /\ server.answered = Len(printed) /\ toClient = <<>> /\ buffer = <<>>

\* The answer is on its way to the client, less what a stop of the server has lost.
Answered ==
    /\ Idle /\ server.answered = Len(printed) + 1
    /\ \E x \in Seq(Digit) :
          /\ server.open => x = <<>>
          /\ Underway(buffer, toClient \o x, <<Answer[input]>>, <<>>)

\* At any time at most one line, or the answer to it, is under way.
ClientInv ==
    /\ ClientTypeOK /\ AnswersInOrder /\ Len(typed) <= MaxLines
    /\ pc = "input" => /\ Idle /\ Len(typed) = Len(printed) /\ server.answered = Len(printed)
                       /\ toClient = <<>> /\ buffer = <<>>
    /\ pc = "send" => Asking /\ Unanswered /\ unsent # <<>>
    /\ pc = "recv" => Asking /\ unsent = <<>> /\ (Unanswered \/ Answered)
    /\ pc \in {"done", "error", "killed"} => Idle

\* It holds at the start.
LEMMA ClientInvInit == ClientInit => ClientInv
<1> SUFFICES ASSUME ClientInit PROVE ClientInv
  OBVIOUS
<1>1. HEADER_SIZE \in Nat \ {0} /\ MAX_FRAME_SIZE \in Nat /\ MaxLines \in Nat
  BY CodecAssumption, ClientAssumption
<1>2. <<>> \in Seq(Digit) /\ <<>> \in Seq(Seq(Digit)) /\ <<>> \in Seq(Inputs) /\ Len(<<>>) = 0
  OBVIOUS
<1>3. /\ pc = "input" /\ input = EmptyLine /\ unsent = <<>> /\ buffer = <<>>
      /\ toServer = <<>> /\ toClient = <<>> /\ typed = <<>> /\ printed = <<>>
      /\ server = [open |-> TRUE, buffer |-> <<>>, answered |-> 0]
  BY DEF ClientInit
<1>4. server \in [open : BOOLEAN, buffer : Seq(Digit), answered : 0..MaxLines]
      /\ server.buffer = <<>> /\ server.answered = 0
  BY <1>1, <1>2, <1>3
<1>5. Len(buffer) < HEADER_SIZE + MAX_FRAME_SIZE
  BY <1>1, <1>2, <1>3
<1>6. ClientTypeOK
  BY <1>2, <1>3, <1>4, <1>5 DEF ClientTypeOK
<1>7. AnswersInOrder
  BY <1>2, <1>3 DEF AnswersInOrder
<1> QED
  BY <1>1, <1>2, <1>3, <1>4, <1>6, <1>7 DEF ClientInv, Idle

\* It implies the property.
LEMMA ClientInvImplies == ClientInv => ClientInStep
BY DEF ClientInv, ClientInStep, NothingUnderWay, Idle

\* The types, conjunct by conjunct.
LEMMA ClientTypes ==
    ASSUME ClientTypeOK
    PROVE  /\ unsent \in Seq(Digit) /\ toServer \in Seq(Digit) /\ toClient \in Seq(Digit)
           /\ buffer \in Seq(Digit) /\ typed \in Seq(Inputs) /\ printed \in Seq(Seq(Digit))
           /\ server.open \in BOOLEAN /\ server.buffer \in Seq(Digit) /\ server.answered \in 0..MaxLines
           /\ server = [open |-> server.open, buffer |-> server.buffer, answered |-> server.answered]
           /\ Len(typed) \in Nat /\ Len(printed) \in Nat /\ Len(unsent) \in Nat
           /\ Len(toServer) \in Nat /\ Len(toClient) \in Nat
<1>1. /\ unsent \in Seq(Digit) /\ toServer \in Seq(Digit) /\ toClient \in Seq(Digit)
      /\ buffer \in Seq(Digit) /\ typed \in Seq(Inputs) /\ printed \in Seq(Seq(Digit))
      /\ server \in [open : BOOLEAN, buffer : Seq(Digit), answered : 0..MaxLines]
  BY DEF ClientTypeOK
<1>2. Len(typed) \in Nat /\ Len(printed) \in Nat /\ Len(unsent) \in Nat
      /\ Len(toServer) \in Nat /\ Len(toClient) \in Nat
  BY <1>1, LenProperties
<1> QED
  BY <1>1, <1>2

\* A line is read: it becomes the frame that SendAll is to send.
LEMMA ClientTypeLine ==
    ASSUME LinesFit, ClientInv, NEW l \in Inputs, TypeLine(l)
    PROVE  ClientInv'
<1>0. /\ pc = "input" /\ Len(typed) < MaxLines /\ input' = l /\ typed' = Append(typed, l)
      /\ unsent' = IF EncodeThrows(Text[l]) THEN <<>> ELSE Encode(Text[l])
      /\ pc' = IF EncodeThrows(Text[l]) THEN "error" ELSE "send"
      /\ buffer' = buffer /\ toServer' = toServer /\ toClient' = toClient /\ server' = server
      /\ printed' = printed
  BY DEF TypeLine
<1>1. /\ ClientTypeOK /\ AnswersInOrder /\ Idle /\ Len(typed) = Len(printed)
      /\ server.answered = Len(printed) /\ toClient = <<>> /\ buffer = <<>>
  BY <1>0 DEF ClientInv
<1>2. /\ typed \in Seq(Inputs) /\ printed \in Seq(Seq(Digit)) /\ Len(typed) \in Nat /\ Len(printed) \in Nat
      /\ toServer \in Seq(Digit) /\ MaxLines \in Nat
  BY <1>1, ClientTypes, ClientAssumption
<1>3. /\ typed' \in Seq(Inputs) /\ Len(typed') = Len(typed) + 1 /\ typed'[Len(typed) + 1] = l
      /\ \A i \in 1..Len(typed) : typed'[i] = typed[i]
  BY <1>0, <1>2, AppendProperties
<1>4. Text[l] \in Seq(Digit) /\ Len(Text[l]) < HeaderLimit /\ <<>> \in Seq(Digit)
  BY ClientAssumption, EmptySeq DEF LinesFit
<1>5. AnswersInOrder'
  <2>1. Len(printed') <= Len(typed')
    BY <1>0, <1>1, <1>2, <1>3
  <2>2. \A i \in 1..Len(printed') : printed'[i] = Answer[typed'[i]]
    BY <1>0, <1>1, <1>3 DEF AnswersInOrder
  <2> QED
    BY <2>1, <2>2 DEF AnswersInOrder
<1>6. Len(typed') <= MaxLines
  BY <1>0, <1>2, <1>3
<1>7. Idle'
  BY <1>0, <1>1 DEF Idle
<1>8. ASSUME unsent' \in Seq(Digit), pc' \in {"error", "send"} PROVE ClientTypeOK'
  BY <1>0, <1>1, <1>3, <1>8 DEF ClientTypeOK
<1>9. CASE EncodeThrows(Text[l])
  <2>1. unsent' = <<>> /\ pc' = "error"
    BY <1>0, <1>9
  <2>2. ClientTypeOK'
    BY <1>4, <1>8, <2>1
  <2> QED
    BY <1>5, <1>6, <1>7, <2>1, <2>2 DEF ClientInv
<1>10. CASE ~EncodeThrows(Text[l])
  <2>1. unsent' = Encode(Text[l]) /\ pc' = "send"
    BY <1>0, <1>10
  <2>2. Sendable(Text[l])
    BY <1>4, <1>10 DEF Sendable
  <2>3. Underway(<<>>, Encode(Text[l]), <<Text[l]>>, <<>>) /\ Encode(Text[l]) \in Seq(Digit)
        /\ Encode(Text[l]) # <<>>
    BY <2>2, OneFrame
  <2>4. ClientTypeOK'
    BY <1>8, <2>1, <2>3
  <2>5. Asking'
    BY <1>0, <1>1, <1>3, <2>2 DEF Asking
  <2>6. server.open => Underway(server.buffer, toServer \o Encode(Text[l]), <<Text[l]>>, <<>>)
    <3>1. <<>> \o Encode(Text[l]) = Encode(Text[l])
      BY <2>3, ConcatEmptySeq
    <3> QED
      BY <1>1, <2>3, <3>1 DEF Idle
  <2>7. Unanswered'
    BY <1>0, <1>1, <2>1, <2>6 DEF Unanswered
  <2> QED
    BY <1>5, <1>6, <2>1, <2>3, <2>4, <2>5, <2>7 DEF ClientInv
<1> QED
  BY <1>9, <1>10

\* An empty line is ignored; the input ends.
LEMMA ClientNoLine ==
    ASSUME ClientInv, TypeEmptyLine \/ EndOfInput
    PROVE  ClientInv'
<1>0. /\ pc = "input" /\ input' \in {input, EmptyLine} /\ pc' \in {"input", "done"}
      /\ unsent' = unsent /\ buffer' = buffer /\ toServer' = toServer /\ toClient' = toClient
      /\ server' = server /\ typed' = typed /\ printed' = printed
  BY DEF TypeEmptyLine, EndOfInput
<1>1. /\ ClientTypeOK /\ AnswersInOrder /\ Idle /\ Len(typed) = Len(printed) /\ Len(typed) <= MaxLines
      /\ server.answered = Len(printed) /\ toClient = <<>> /\ buffer = <<>>
  BY <1>0 DEF ClientInv
<1>2. input' \in Inputs \cup {EmptyLine}
  BY <1>0, <1>1 DEF ClientTypeOK
<1>3. ClientTypeOK'
  BY <1>0, <1>1, <1>2 DEF ClientTypeOK
<1>4. AnswersInOrder' /\ Idle'
  BY <1>0, <1>1 DEF AnswersInOrder, Idle
<1> QED
  BY <1>0, <1>1, <1>3, <1>4 DEF ClientInv

\* One send of SendAll.
LEMMA ClientSendSome ==
    ASSUME ClientInv, NEW n \in 1..Len(unsent), SendSome(n)
    PROVE  ClientInv'
<1> DEFINE a == SubSeq(unsent, 1, n)
           b == SubSeq(unsent, n + 1, Len(unsent))
<1>0. /\ pc = "send" /\ unsent' = b
      /\ toServer' = IF server.open THEN toServer \o a ELSE toServer
      /\ pc' = IF b = <<>> THEN "recv" ELSE "send"
      /\ buffer' = <<>> /\ input' = input /\ toClient' = toClient /\ server' = server
      /\ typed' = typed /\ printed' = printed
  BY DEF SendSome, SentAll
<1>1. /\ ClientTypeOK /\ AnswersInOrder /\ Asking /\ Unanswered /\ Len(typed) <= MaxLines
  BY <1>0 DEF ClientInv
<1>2. /\ unsent \in Seq(Digit) /\ toServer \in Seq(Digit) /\ Len(unsent) \in Nat
      /\ n \in 0..Len(unsent)
  BY <1>1, ClientTypes
<1>3. a \in Seq(Digit) /\ b \in Seq(Digit) /\ a \o b = unsent
  BY <1>2, Dropped
<1> HIDE DEF a, b
<1>4. toServer \o a \in Seq(Digit) /\ (toServer \o a) \o b = toServer \o unsent
  <2>1. (toServer \o a) \o b = toServer \o (a \o b)
    BY <1>2, <1>3, Regroup
  <2> QED
    BY <1>2, <1>3, <2>1, ConcatProperties
<1>5. toServer' \in Seq(Digit) /\ unsent' \in Seq(Digit) /\ pc' \in {"send", "recv"} /\ buffer' = buffer
  BY <1>0, <1>1, <1>2, <1>3, <1>4 DEF Unanswered
<1>6. ClientTypeOK'
  BY <1>0, <1>1, <1>5 DEF ClientTypeOK
<1>7. AnswersInOrder' /\ Asking'
  BY <1>0, <1>1 DEF AnswersInOrder, Asking
<1>8. Unanswered'
  <2>1. server.open => toServer' \o unsent' = toServer \o unsent
    BY <1>0, <1>4
  <2> QED
    BY <1>0, <1>1, <2>1 DEF Unanswered
<1>9. (pc' = "send" => unsent' # <<>>) /\ (pc' = "recv" => unsent' = <<>>)
  BY <1>0
<1> QED
  BY <1>0, <1>1, <1>5, <1>6, <1>7, <1>8, <1>9 DEF ClientInv

\* send or recv fails: the server has closed.
LEMMA ClientFails ==
    ASSUME ClientInv, SendFails \/ ReceiveFails
    PROVE  ClientInv'
<1>0. /\ pc \in {"send", "recv"} /\ ~server.open /\ pc' \in {"error", "killed"} /\ input' = input
      /\ unsent' = unsent /\ buffer' = buffer /\ toServer' = toServer /\ toClient' = toClient
      /\ server' = server /\ typed' = typed /\ printed' = printed
  BY DEF SendFails, ReceiveFails
<1>1. ClientTypeOK /\ AnswersInOrder /\ Len(typed) <= MaxLines
  BY DEF ClientInv
<1>2. ClientTypeOK'
  BY <1>0, <1>1 DEF ClientTypeOK
<1>3. AnswersInOrder' /\ Idle'
  BY <1>0, <1>1 DEF AnswersInOrder, Idle
<1> QED
  BY <1>0, <1>1, <1>2, <1>3 DEF ClientInv

\* One recv of RecvFrame: with the last byte of the answer it is printed, and there is
\* nothing behind it.
LEMMA ClientReceiveSome ==
    ASSUME LinesFit, ClientInv, NEW n \in 1..Len(toClient), ReceiveSome(n)
    PROVE  ClientInv'
<1> DEFINE d == Decode(buffer \o SubSeq(toClient, 1, n))
           rest == SubSeq(toClient, n + 1, Len(toClient))
           p == Answer[input]
           whole == ~d.throws /\ d.frames # <<>>
<1>0. /\ pc = "recv" /\ toClient' = rest
      /\ buffer' = IF whole THEN <<>> ELSE d.buffer
      /\ printed' = IF whole THEN Append(printed, Head(d.frames)) ELSE printed
      /\ pc' = IF d.throws THEN "error" ELSE IF whole THEN NextPc(input) ELSE "recv"
      /\ input' = input /\ unsent' = unsent /\ toServer' = toServer /\ server' = server
      /\ typed' = typed
  BY DEF ReceiveSome, RecvFrame
<1>1. /\ ClientTypeOK /\ AnswersInOrder /\ Asking /\ Len(typed) <= MaxLines /\ unsent = <<>>
      /\ Unanswered \/ Answered
  BY <1>0 DEF ClientInv
<1>2. /\ toClient \in Seq(Digit) /\ Len(toClient) \in Nat /\ n \in 0..Len(toClient)
      /\ printed \in Seq(Seq(Digit)) /\ Len(printed) \in Nat /\ typed \in Seq(Inputs) /\ Len(typed) \in Nat
  BY <1>1, ClientTypes
<1>3. Answered
  <2>1. Len(toClient) # 0
    BY <1>2
  <2>2. toClient # <<>>
    BY <2>1, EmptySeq
  <2> QED
    BY <1>1, <2>2 DEF Unanswered
<1>4. p \in Seq(Digit)
  BY <1>1, ClientAssumption DEF Asking
<1>5. PICK x \in Seq(Digit) : (server.open => x = <<>>) /\ Underway(buffer, toClient \o x, <<p>>, <<>>)
  BY <1>3 DEF Answered
<1>6. rest \in Seq(Digit) /\ Underway(buffer \o SubSeq(toClient, 1, n), rest \o x, <<p>>, <<>>)
  BY <1>2, <1>5, SomeArrive
<1>7. /\ d.throws = FALSE /\ d.buffer \in Seq(Digit) /\ Len(d.buffer) < HEADER_SIZE + MAX_FRAME_SIZE
      /\ \/ d.frames = <<>> /\ Underway(d.buffer, rest \o x, <<p>>, <<>>)
         \/ d.frames = <<p>> /\ d.buffer = <<>> /\ rest \o x = <<>>
  BY <1>4, <1>6, DecodeOne
<1> HIDE DEF d, rest, p
<1>8. CASE d.frames = <<>> /\ Underway(d.buffer, rest \o x, <<p>>, <<>>)
  <2>1. buffer' = d.buffer /\ printed' = printed /\ pc' = "recv"
    BY <1>0, <1>7, <1>8
  <2>2. ClientTypeOK'
    BY <1>0, <1>1, <1>6, <1>7, <2>1 DEF ClientTypeOK
  <2>3. AnswersInOrder' /\ Asking' /\ Idle'
    BY <1>0, <1>1, <1>3, <2>1 DEF AnswersInOrder, Asking, Answered, Idle
  <2>4. Answered'
    <3>1. server'.answered = Len(printed') + 1
      BY <1>0, <1>3, <2>1 DEF Answered
    <3>2. (server'.open => x = <<>>) /\ Underway(buffer', toClient' \o x, <<Answer[input']>>, <<>>)
      BY <1>0, <1>5, <1>8, <2>1 DEF p
    <3> QED
      BY <2>3, <3>1, <3>2 DEF Answered
  <2> QED
    BY <1>0, <1>1, <2>1, <2>2, <2>3, <2>4 DEF ClientInv
<1>9. CASE d.frames = <<p>> /\ d.buffer = <<>> /\ rest \o x = <<>>
  <2>1. d.frames # <<>> /\ Head(d.frames) = p
    BY <1>9
  <2>2. buffer' = <<>> /\ printed' = Append(printed, p) /\ pc' = NextPc(input)
    BY <1>0, <1>7, <2>1
  <2>3. rest = <<>>
    BY <1>6, <1>9, ConcatEqualIffEmpty
  <2>4. /\ printed' \in Seq(Seq(Digit)) /\ Len(printed') = Len(printed) + 1
        /\ printed'[Len(printed) + 1] = p /\ \A i \in 1..Len(printed) : printed'[i] = printed[i]
    BY <1>2, <1>4, <2>2, AppendProperties
  <2>5. pc' \in {"input", "done"}
    BY <2>2 DEF NextPc
  <2>6. buffer' \in Seq(Digit) /\ Len(buffer') < HEADER_SIZE + MAX_FRAME_SIZE
    BY <1>7, <1>9, <2>2
  <2>7. ClientTypeOK'
    BY <1>0, <1>1, <1>6, <2>4, <2>5, <2>6 DEF ClientTypeOK
  <2>8. AnswersInOrder'
    <3>1. Len(typed) = Len(printed) + 1 /\ typed[Len(printed) + 1] = input
      BY <1>1 DEF Asking
    <3>2. Len(printed') <= Len(typed')
      BY <1>0, <1>2, <2>4, <3>1
    <3>3. \A i \in 1..Len(printed') : printed'[i] = Answer[typed'[i]]
      <4> TAKE i \in 1..Len(printed')
      <4>1. i \in 1..Len(printed) \/ i = Len(printed) + 1
        BY <1>2, <2>4
      <4>2. CASE i \in 1..Len(printed)
        BY <1>0, <1>1, <2>4, <4>2 DEF AnswersInOrder
      <4>3. CASE i = Len(printed) + 1
        BY <1>0, <2>4, <3>1, <4>3 DEF p
      <4> QED
        BY <4>1, <4>2, <4>3
    <3> QED
      BY <3>2, <3>3 DEF AnswersInOrder
  <2>9. Idle'
    BY <1>0, <1>3 DEF Answered, Idle
  <2>10. Len(typed') = Len(printed') /\ server'.answered = Len(printed')
    BY <1>0, <1>1, <1>3, <2>4 DEF Asking, Answered
  <2> QED
    BY <1>0, <1>1, <2>2, <2>3, <2>5, <2>7, <2>8, <2>9, <2>10 DEF ClientInv
<1> QED
  BY <1>7, <1>8, <1>9

\* The line of a payload.
LEMMA LineOfText ==
    ASSUME NEW l \in Inputs
    PROVE  LineOf(Text[l]) = l
<1>1. Text \in [Inputs -> Seq(Digit)] /\ IsInjective(Text)
  BY ClientAssumption
<1>2. \A k \in Inputs : Text[k] = Text[l] => k = l
  BY <1>1 DEF IsInjective
<1> QED
  BY <1>2 DEF LineOf

\* The server reads.
LEMMA ClientServe ==
    ASSUME LinesFit, ClientInv, NEW n \in 1..Len(toServer), Serve(n)
    PROVE  ClientInv'
<1> DEFINE d == Decode(server.buffer \o SubSeq(toServer, 1, n))
           rest == SubSeq(toServer, n + 1, Len(toServer))
           asked == [i \in 1..Len(d.frames) |-> LineOf(d.frames[i])]
           quits == {i \in 1..Len(asked) : asked[i] \in ServerQuits}
           last == IF quits # {} THEN Min(quits) ELSE 0
           served == IF last = 0 THEN asked ELSE SubSeq(asked, 1, last)
           answers == [i \in 1..Len(served) |-> Encode(Answer[served[i]])]
           p == Text[input]
<1>0. /\ server.open /\ toServer' = rest
      /\ toClient' = toClient \o FlattenSeq(answers)
      /\ server' = [open |-> last = 0, buffer |-> d.buffer, answered |-> server.answered + Len(served)]
      /\ pc' = pc /\ input' = input /\ unsent' = unsent /\ buffer' = buffer /\ typed' = typed
      /\ printed' = printed
  BY DEF Serve, SelectInSeq
<1>1. ClientTypeOK /\ AnswersInOrder /\ Len(typed) <= MaxLines
  BY DEF ClientInv
<1>2. /\ toServer \in Seq(Digit) /\ Len(toServer) \in Nat /\ n \in 0..Len(toServer)
      /\ toServer # <<>> /\ unsent \in Seq(Digit) /\ toClient \in Seq(Digit)
      /\ Len(printed) \in Nat /\ server.answered \in Nat /\ MaxLines \in Nat
  <2>1. /\ toServer \in Seq(Digit) /\ Len(toServer) \in Nat /\ unsent \in Seq(Digit)
        /\ toClient \in Seq(Digit) /\ Len(printed) \in Nat
        /\ server.answered \in 0..MaxLines
    BY <1>1, ClientTypes
  <2>2. MaxLines \in Nat
    BY ClientAssumption
  <2>3. toServer # <<>>
    BY <2>1, EmptySeq
  <2> QED
    BY <2>1, <2>2, <2>3
<1>3. /\ pc \in {"send", "recv"} /\ Asking /\ Unanswered
      /\ pc = "send" => unsent # <<>>
      /\ pc = "recv" => unsent = <<>>
  <2>1. ~Idle
    BY <1>0, <1>2 DEF Idle
  <2>2. pc \in {"input", "send", "recv", "done", "error", "killed"}
    BY <1>1 DEF ClientTypeOK
  <2> QED
    BY <2>1, <2>2 DEF ClientInv, Answered
<1>4. Underway(server.buffer, toServer \o unsent, <<p>>, <<>>)
  BY <1>0, <1>3 DEF Unanswered
<1>5. input \in Inputs /\ p \in Seq(Digit) /\ LineOf(p) = input
  BY <1>3, LineOfText, ClientAssumption DEF Asking
<1>6. rest \in Seq(Digit) /\ Underway(server.buffer \o SubSeq(toServer, 1, n), rest \o unsent, <<p>>, <<>>)
  BY <1>2, <1>4, SomeArrive
<1>7. /\ d.throws = FALSE /\ d.buffer \in Seq(Digit)
      /\ \/ d.frames = <<>> /\ Underway(d.buffer, rest \o unsent, <<p>>, <<>>)
         \/ d.frames = <<p>> /\ d.buffer = <<>> /\ rest \o unsent = <<>>
  BY <1>5, <1>6, DecodeOne
<1>8. AnswersInOrder' /\ Asking'
  BY <1>0, <1>1, <1>3 DEF AnswersInOrder, Asking
<1>9. server.answered = Len(printed) /\ toClient = <<>> /\ buffer = <<>>
  BY <1>3 DEF Unanswered
<1> HIDE DEF d, rest
<1>10. CASE d.frames = <<>> /\ Underway(d.buffer, rest \o unsent, <<p>>, <<>>)
  <2>1. asked = <<>> /\ Len(asked) = 0
    BY <1>10
  <2> HIDE DEF asked
  <2>2. quits = {}
    BY <2>1
  <2> HIDE DEF quits
  <2>3. last = 0
    BY <2>2
  <2> HIDE DEF last
  <2>4. served = <<>> /\ Len(served) = 0
    BY <2>1, <2>3
  <2> HIDE DEF served
  <2>5. answers = <<>> /\ Len(answers) = 0
    BY <2>4
  <2> HIDE DEF answers
  <2>6. toClient' = toClient
    BY <1>0, <1>2, <2>5, FlattenNone, ConcatEmptySeq
  <2>0. server' = [open |-> TRUE, buffer |-> d.buffer, answered |-> server.answered]
    <3>1. (last = 0) = TRUE /\ server.answered + Len(served) = server.answered
      BY <1>2, <2>3, <2>4
    <3>2. server' = [open |-> last = 0, buffer |-> d.buffer, answered |-> server.answered + Len(served)]
      BY <1>0
    <3> QED
      BY <3>1, <3>2, Zenon
  <2>7. server'.open = TRUE /\ server'.buffer = d.buffer /\ server'.answered = server.answered
    BY <2>0
  <2>8. server' \in [open : BOOLEAN, buffer : Seq(Digit), answered : 0..MaxLines]
    <3>1. server.answered \in 0..MaxLines
      BY <1>1, ClientTypes
    <3> QED
      BY <1>7, <2>0, <3>1
  <2>9. ClientTypeOK'
    BY <1>0, <1>1, <1>6, <2>6, <2>8 DEF ClientTypeOK
  <2>10. Unanswered'
    BY <1>0, <1>9, <1>10, <2>6, <2>7 DEF Unanswered
  <2> QED
    BY <1>0, <1>1, <1>3, <1>8, <2>9, <2>10 DEF ClientInv
<1>11. CASE d.frames = <<p>> /\ d.buffer = <<>> /\ rest \o unsent = <<>>
  <2>1. rest = <<>> /\ unsent = <<>>
    BY <1>2, <1>6, <1>11, ConcatEqualIffEmpty
  <2>2. pc = "recv"
    BY <1>3, <2>1
  <2>3. asked = <<input>>
    BY <1>5, <1>11
  <2> HIDE DEF asked
  <2>4. Len(asked) = 1 /\ asked[1] = input
    BY <2>3
  <2>5. quits \in {{}, {1}}
    BY <2>4
  <2>6. last \in {0, 1}
    BY <2>5 DEF Min
  <2> HIDE DEF last
  <2>7. served = <<input>>
    <3>1. SubSeq(asked, 1, 1) = asked
      <4>1. asked \in Seq(Inputs)
        BY <1>5, <2>3
      <4> QED
        BY <2>4, <4>1, SubSeqFull
    <3> QED
      BY <2>3, <2>6, <3>1
  <2> HIDE DEF served
  <2>8. answers = <<Encode(Answer[input])>>
    BY <2>7
  <2> HIDE DEF answers
  <2>9. FlattenSeq(answers) = Encode(Answer[input])
    BY <2>8, FlattenOne
  <2>10. Sendable(Answer[input])
    BY <1>5, ClientAssumption DEF Sendable, LinesFit
  <2>11. /\ Underway(<<>>, Encode(Answer[input]), <<Answer[input]>>, <<>>)
         /\ Encode(Answer[input]) \in Seq(Digit)
    BY <2>10, OneFrame
  <2>12. toClient' = Encode(Answer[input])
    BY <1>0, <1>9, <2>9, <2>11, ConcatEmptySeq
  <2>13. server' = [open |-> last = 0, buffer |-> <<>>, answered |-> Len(printed) + 1]
    BY <1>0, <1>9, <1>11, <2>7
  <2>14. server'.buffer = <<>> /\ server'.answered = Len(printed) + 1
    BY <2>13
  <2>15. Len(printed) + 1 \in 0..MaxLines
    BY <1>1, <1>2, <1>3 DEF Asking
  <2>16. server' \in [open : BOOLEAN, buffer : Seq(Digit), answered : 0..MaxLines]
    <3>1. (last = 0) \in BOOLEAN /\ <<>> \in Seq(Digit)
      BY EmptySeq
    <3> QED
      BY <2>13, <2>15, <3>1
  <2>17. ClientTypeOK'
    BY <1>0, <1>1, <1>6, <2>11, <2>12, <2>16 DEF ClientTypeOK
  <2>18. Idle'
    BY <1>0, <2>1, <2>14 DEF Idle
  <2>19. Answered'
    <3>1. <<>> \in Seq(Digit) /\ toClient' \o <<>> = toClient'
      BY <2>11, <2>12, EmptySeq, ConcatEmptySeq
    <3>2. Underway(buffer', toClient' \o <<>>, <<Answer[input']>>, <<>>)
      BY <1>0, <1>9, <2>11, <2>12, <3>1
    <3>3. server'.answered = Len(printed') + 1
      BY <1>0, <2>14
    <3> QED
      BY <2>18, <3>1, <3>2, <3>3 DEF Answered
  <2> QED
    BY <1>0, <1>1, <1>8, <2>1, <2>2, <2>17, <2>19 DEF ClientInv
<1> QED
  BY <1>7, <1>10, <1>11

\* The server stops, and some of what it has sent is lost.
LEMMA ClientServerStops ==
    ASSUME ClientInv, NEW n \in 0..Len(toClient), ServerStops(n)
    PROVE  ClientInv'
<1> DEFINE a == SubSeq(toClient, 1, n)
           b == SubSeq(toClient, n + 1, Len(toClient))
<1>0. /\ server' = [server EXCEPT !.open = FALSE] /\ toClient' = a
      /\ pc' = pc /\ input' = input /\ unsent' = unsent /\ buffer' = buffer
      /\ toServer' = toServer /\ typed' = typed /\ printed' = printed
  BY DEF ServerStops
<1>1. ClientTypeOK /\ AnswersInOrder /\ Len(typed) <= MaxLines
  BY DEF ClientInv
<1>2. toClient \in Seq(Digit) /\ Len(toClient) \in Nat
  BY <1>1, ClientTypes
<1>3. a \in Seq(Digit) /\ b \in Seq(Digit) /\ a \o b = toClient
  BY <1>2, Dropped
<1>4. toClient = <<>> => a = <<>>
  BY <1>2, SubSeqEmpty, EmptySeq
<1> HIDE DEF a, b
<1>5. /\ server' \in [open : BOOLEAN, buffer : Seq(Digit), answered : 0..MaxLines]
      /\ server'.open = FALSE /\ server'.answered = server.answered
  BY <1>0, <1>1 DEF ClientTypeOK
<1>6. ClientTypeOK'
  BY <1>0, <1>1, <1>3, <1>5 DEF ClientTypeOK
<1>7. AnswersInOrder' /\ Idle' /\ (Asking => Asking')
  BY <1>0, <1>1, <1>5 DEF AnswersInOrder, Idle, Asking
<1>8. Unanswered => Unanswered'
  BY <1>0, <1>4, <1>5 DEF Unanswered
<1>9. Answered => Answered'
  <2> SUFFICES ASSUME Answered PROVE Answered'
    OBVIOUS
  <2>1. PICK x \in Seq(Digit) : Underway(buffer, toClient \o x, <<Answer[input]>>, <<>>)
    BY DEF Answered
  <2>2. b \o x \in Seq(Digit) /\ a \o (b \o x) = toClient \o x
    <3>1. (a \o b) \o x = a \o (b \o x)
      BY <1>3, <2>1, Regroup
    <3> QED
      BY <1>3, <2>1, <3>1, ConcatProperties
  <2>3. Underway(buffer', toClient' \o (b \o x), <<Answer[input']>>, <<>>)
    BY <1>0, <2>1, <2>2
  <2>4. server'.answered = Len(printed') + 1
    BY <1>0, <1>5 DEF Answered
  <2> QED
    BY <1>5, <1>7, <2>2, <2>3, <2>4 DEF Answered
<1> QED
  BY <1>0, <1>1, <1>4, <1>5, <1>6, <1>7, <1>8, <1>9 DEF ClientInv

\* The client stays in step with the server, as long as no line and no answer is so
\* long that the cast to uint32_t changes its length: answers are printed in the order
\* of the lines, and none is on its way while the prompt waits.
THEOREM ClientStaysInStep ==
    LinesFit => (ClientSpec => []ClientInStep)
<1> SUFFICES ASSUME LinesFit PROVE ClientSpec => []ClientInStep
  OBVIOUS
<1>1. ClientInit => ClientInv
  BY ClientInvInit
<1>2. ClientInv /\ [ClientNext]_clientVars => ClientInv'
  <2> SUFFICES ASSUME ClientInv, [ClientNext]_clientVars PROVE ClientInv'
    OBVIOUS
  <2>1. CASE User
    BY <2>1, ClientTypeLine, ClientNoLine DEF User
  <2>2. CASE Sends
    BY <2>2, ClientSendSome, ClientFails DEF Sends
  <2>3. CASE Receives
    BY <2>3, ClientReceiveSome, ClientFails DEF Receives
  <2>4. CASE Serves
    BY <2>4, ClientServe DEF Serves
  <2>5. CASE Stops
    BY <2>5, ClientServerStops DEF Stops
  <2>6. CASE UNCHANGED clientVars
    <3>1. /\ pc' = pc /\ input' = input /\ unsent' = unsent /\ buffer' = buffer
          /\ toServer' = toServer /\ toClient' = toClient /\ server' = server
          /\ typed' = typed /\ printed' = printed
      BY <2>6 DEF clientVars
    <3>2. ClientTypeOK' /\ AnswersInOrder'
      BY <3>1 DEF ClientInv, ClientTypeOK, AnswersInOrder
    <3>3. (Idle => Idle') /\ (Asking => Asking') /\ (Unanswered => Unanswered') /\ (Answered => Answered')
      BY <3>1 DEF Idle, Asking, Unanswered, Answered
    <3> QED
      BY <3>1, <3>2, <3>3 DEF ClientInv
  <2> QED
    BY <2>1, <2>2, <2>3, <2>4, <2>5, <2>6 DEF ClientNext
<1>3. ClientInv => ClientInStep
  BY ClientInvImplies
<1> QED
  BY <1>1, <1>2, <1>3, PTL DEF ClientSpec

-----------------------------------------------------------------------------
(* CommandParser *)

\* A text is made of these.
Tokens == Words \cup {Space}

\* w[i] are the words among the first i tokens of t.
Split(w, t) ==
    /\ w \in [0..Len(t) -> Seq(Words)]
    /\ w[0] = <<>>
    /\ \A i \in 1..Len(t) :
          w[i] = IF t[i] = Space THEN w[i - 1] ELSE Append(w[i - 1], t[i])

\* What SplitWords goes through.
LEMMA SplitRule ==
    ASSUME NEW t \in Seq(Tokens)
    PROVE  \E w : Split(w, t) /\ SplitWords(t) = w[Len(t)]
<1> DEFINE N == Len(t)
           S == Seq(Words)
           Step(x) == IF x[1] \in 1..N /\ t[x[1]] # Space THEN Append(x[2], t[x[1]]) ELSE x[2]
           F == [x \in Nat \X S |-> Step(x)]
           G(f) == [i \in 0..N |-> IF i = 0 THEN <<>>
                                   ELSE IF t[i] = Space THEN f[i - 1]
                                   ELSE Append(f[i - 1], t[i])]
<1>1. N \in Nat /\ \A i \in 1..N : t[i] \in Words \cup {Space}
  BY LenProperties DEF Tokens
<1>2. <<>> \in S
  BY EmptySeq
<1>3. \A p \in S, e \in Words : Append(p, e) \in S
  BY AppendProperties
<1> HIDE DEF S, N
<1>4. ASSUME NEW n \in Nat, NEW p \in S
      PROVE  /\ F[<<n, p>>] = IF n \in 1..N /\ t[n] # Space THEN Append(p, t[n]) ELSE p
             /\ F[<<n, p>>] \in S
  <2>1. F[<<n, p>>] = IF n \in 1..N /\ t[n] # Space THEN Append(p, t[n]) ELSE p
    BY <1>4
  <2>2. n \in 1..N /\ t[n] # Space => t[n] \in Words
    BY <1>1
  <2> QED
    BY <1>3, <2>1, <2>2
<1>5. F \in [Nat \X S -> S]
  <2>1. ASSUME NEW x \in Nat \X S PROVE Step(x) \in S
    <3>1. PICK n \in Nat, p \in S : x = <<n, p>>
      OBVIOUS
    <3>2. Step(x) = IF n \in 1..N /\ t[n] # Space THEN Append(p, t[n]) ELSE p
      BY <3>1
    <3>3. n \in 1..N /\ t[n] # Space => t[n] \in Words
      BY <1>1
    <3> QED
      BY <1>3, <3>2, <3>3
  <2> HIDE DEF Step
  <2> QED
    BY <2>1
<1> HIDE DEF F
<1>6. PICK f : Follows(f, N, <<>>, F)
  BY <1>1, FollowsExists
<1>7. f \in [0..N -> S]
  BY <1>1, <1>2, <1>5, <1>6, FollowsTyped
<1>8. \A i \in 0..N : f[i] = IF i = 0 THEN <<>>
                             ELSE IF t[i] = Space THEN f[i - 1] ELSE Append(f[i - 1], t[i])
  <2> TAKE i \in 0..N
  <2>1. f[i] = IF i = 0 THEN <<>> ELSE F[<<i, f[i - 1]>>]
    BY <1>6 DEF Follows
  <2>2. CASE i = 0
    BY <2>1, <2>2
  <2>3. CASE i # 0
    <3>1. i \in 1..N /\ i \in Nat /\ f[i - 1] \in S
      BY <1>1, <1>7, <2>3
    <3>2. PICK p \in S : p = f[i - 1]
      BY <3>1
    <3>3. F[<<i, p>>] = IF i \in 1..N /\ t[i] # Space THEN Append(p, t[i]) ELSE p
      BY <1>4, <3>1
    <3> QED
      BY <2>1, <2>3, <3>1, <3>2, <3>3
  <2> QED
    BY <2>2, <2>3
<1>9. f = G(f)
  BY <1>7, <1>8
<1>10. SplitWords(t) = (CHOOSE g : g = G(g))[N]
  BY DEF SplitWords, N
<1> HIDE DEF G
<1>11. PICK w : w = (CHOOSE g : g = G(g))
  OBVIOUS
<1>12. w = G(w) /\ SplitWords(t) = w[N]
  BY <1>9, <1>10, <1>11, Zenon
<1>13. \A i \in 0..N : w[i] = IF i = 0 THEN <<>>
                              ELSE IF t[i] = Space THEN w[i - 1] ELSE Append(w[i - 1], t[i])
  BY <1>12 DEF G
<1>14. w[0] = <<>>
  BY <1>1, <1>13
<1>15. \A i \in 1..N : w[i] = IF t[i] = Space THEN w[i - 1] ELSE Append(w[i - 1], t[i])
  BY <1>1, <1>13
<1>16. \A i \in 0..N : w[i] \in S
  <2> DEFINE T == {i \in Nat : i <= N => w[i] \in S}
  <2>1. T \in SUBSET Nat /\ 0 \in T
    BY <1>2, <1>14
  <2>2. \A i \in Nat : i \in T => i + 1 \in T
    <3> SUFFICES ASSUME NEW i \in Nat, w[i] \in S, i + 1 <= N
                 PROVE  w[i + 1] \in S
      BY <1>1
    <3>1. i + 1 \in 1..N /\ (i + 1) - 1 = i
      BY <1>1
    <3>2. w[i + 1] = IF t[i + 1] = Space THEN w[i] ELSE Append(w[i], t[i + 1])
      BY <1>15, <3>1
    <3>3. t[i + 1] # Space => t[i + 1] \in Words
      BY <1>1, <3>1
    <3> QED
      BY <1>3, <3>2, <3>3
  <2> HIDE DEF T
  <2>3. T = Nat
    BY <2>1, <2>2, SetInduction
  <2> QED
    BY <1>1, <2>3 DEF T
<1>17. w \in [0..N -> S]
  BY <1>12, <1>16 DEF G
<1> QED
  BY <1>12, <1>14, <1>15, <1>17 DEF Split, N, S

\* The words found so far only grow: they stay over blanks, and a word that is
\* not blank is the next one.
LEMMA SplitGrows ==
    ASSUME NEW t \in Seq(Tokens), NEW w, Split(w, t),
           NEW i \in 0..Len(t), NEW j \in i..Len(t)
    PROVE  /\ w[i] \in Seq(Words) /\ w[j] \in Seq(Words)
           /\ Len(w[i]) \in Nat /\ Len(w[j]) \in Nat /\ Len(w[i]) <= Len(w[j])
           /\ \A k \in 1..Len(w[i]) : w[j][k] = w[i][k]
<1> DEFINE N == Len(t)
           Good(m) == /\ Len(w[i]) <= Len(w[m])
                      /\ \A k \in 1..Len(w[i]) : w[m][k] = w[i][k]
           T == {d \in Nat : i + d <= N => Good(i + d)}
<1>1. N \in Nat
  BY LenProperties
<1>2. \A m \in 0..N : w[m] \in Seq(Words)
  BY DEF Split
<1>3. \A m \in 0..N : Len(w[m]) \in Nat
  BY <1>2, LenProperties
<1>4. T \in SUBSET Nat /\ 0 \in T
  <2>1. i + 0 = i /\ Len(w[i]) \in Nat
    BY <1>1, <1>3
  <2>2. Good(i + 0)
    BY <2>1
  <2> QED
    BY <2>2
<1>5. ASSUME NEW d \in Nat, d \in T PROVE d + 1 \in T
  <2> SUFFICES ASSUME i + (d + 1) <= N PROVE Good(i + (d + 1))
    OBVIOUS
  <2>1. PICK m \in 0..N : m = i + d
    BY <1>1
  <2>2. Good(m)
    <3>1. Good(i + d)
      BY <1>1, <1>5
    <3> QED
      BY <2>1, <3>1
  <2>3. m + 1 = i + (d + 1) /\ m + 1 \in 1..N /\ (m + 1) - 1 = m
    BY <1>1, <2>1
  <2>4. w[m + 1] = IF t[m + 1] = Space THEN w[m] ELSE Append(w[m], t[m + 1])
    BY <2>3 DEF Split
  <2>5. t[m + 1] \in Words \cup {Space}
    BY <2>3, ElementOfSeq DEF Tokens
  <2>6. Good(m + 1)
    <3>1. CASE t[m + 1] = Space
      BY <2>2, <2>4, <3>1
    <3>2. CASE t[m + 1] # Space
      <4>1. t[m + 1] \in Words
        BY <2>5, <3>2
      <4>2. PICK p \in Seq(Words) : p = w[m]
        BY <1>2
      <4>3. PICK e \in Words : e = t[m + 1]
        BY <4>1
      <4>4. /\ Len(Append(p, e)) = Len(p) + 1
            /\ \A k \in 1..Len(p) : Append(p, e)[k] = p[k]
        BY AppendProperties
      <4>5. w[m + 1] = Append(p, e)
        BY <2>4, <3>2, <4>2, <4>3
      <4>6. Len(p) \in Nat /\ Len(w[i]) \in Nat
        BY <1>3, <4>2
      <4>7. Len(w[i]) <= Len(p) /\ \A k \in 1..Len(w[i]) : p[k] = w[i][k]
        BY <2>2, <4>2
      <4> QED
        BY <4>4, <4>5, <4>6, <4>7
    <3> QED
      BY <3>1, <3>2
  <2> HIDE DEF Good
  <2> QED
    BY <2>3, <2>6
<1> HIDE DEF T
<1>6. T = Nat
  BY <1>4, <1>5, SetInduction
<1>7. j - i \in T /\ i + (j - i) = j /\ j <= N
  BY <1>1, <1>6
<1>8. Good(j)
  <2>1. Good(i + (j - i))
    BY <1>7 DEF T
  <2> QED
    BY <1>7, <2>1
<1> QED
  BY <1>1, <1>2, <1>3, <1>8

\* A word is the last one of the words up to it, and no shorter list ends there.
LEMMA SplitAtWord ==
    ASSUME NEW t \in Seq(Tokens), NEW w, Split(w, t),
           NEW j \in 1..Len(t), t[j] # Space, NEW i \in 0..(j - 1)
    PROVE  /\ t[j] \in Words
           /\ Len(w[j]) \in Nat /\ Len(w[i]) < Len(w[j]) /\ w[j][Len(w[j])] = t[j]
<1>1. Len(t) \in Nat
  BY LenProperties
<1>2. j - 1 \in 0..Len(t) /\ j - 1 \in i..Len(t) /\ i \in 0..Len(t)
  BY <1>1
<1>3. w[j] = Append(w[j - 1], t[j])
  BY DEF Split
<1>4. t[j] \in Words
  BY ElementOfSeq DEF Tokens
<1>5. /\ w[j - 1] \in Seq(Words) /\ Len(w[i]) \in Nat /\ Len(w[j - 1]) \in Nat
      /\ Len(w[i]) <= Len(w[j - 1])
  BY <1>2, SplitGrows
<1>6. PICK p \in Seq(Words) : p = w[j - 1]
  BY <1>5
<1>7. PICK e \in Words : e = t[j]
  BY <1>4
<1>8. Len(Append(p, e)) = Len(p) + 1 /\ Append(p, e)[Len(p) + 1] = e
  BY AppendProperties
<1>9. w[j] = Append(p, e)
  BY <1>3, <1>6, <1>7
<1> QED
  BY <1>4, <1>5, <1>6, <1>7, <1>8, <1>9

\* Blanks add nothing.
LEMMA SplitOverBlanks ==
    ASSUME NEW t \in Seq(Tokens), NEW w, Split(w, t),
           NEW i \in 0..Len(t), NEW j \in i..Len(t),
           \A k \in (i + 1)..j : t[k] = Space
    PROVE  w[j] = w[i]
<1> DEFINE T == {d \in Nat : i + d <= j => w[i + d] = w[i]}
<1>1. Len(t) \in Nat
  BY LenProperties
<1>2. T \in SUBSET Nat /\ 0 \in T
  <2>1. i + 0 = i
    BY <1>1
  <2> QED
    BY <2>1
<1>3. ASSUME NEW d \in Nat, d \in T PROVE d + 1 \in T
  <2> SUFFICES ASSUME i + (d + 1) <= j PROVE w[i + (d + 1)] = w[i]
    OBVIOUS
  <2>1. PICK m \in 0..Len(t) : m = i + d
    BY <1>1
  <2>2. m + 1 = i + (d + 1) /\ m + 1 \in 1..Len(t) /\ (m + 1) - 1 = m /\ m + 1 \in (i + 1)..j
    BY <1>1, <2>1
  <2>3. w[m] = w[i]
    BY <1>1, <1>3, <2>1
  <2>4. w[m + 1] = w[m]
    BY <2>2 DEF Split
  <2> QED
    BY <2>2, <2>3, <2>4
<1> HIDE DEF T
<1>4. T = Nat
  BY <1>2, <1>3, SetInduction
<1>5. j - i \in T /\ i + (j - i) = j
  BY <1>1, <1>4
<1> QED
  BY <1>1, <1>5 DEF T

\* A part of a text, as a text.
LEMMA PartOfText ==
    ASSUME NEW t \in Seq(Tokens), NEW a \in 1..(Len(t) + 1), NEW b \in (a - 1)..Len(t)
    PROVE  /\ SubSeq(t, a, b) \in Seq(Tokens)
           /\ Len(SubSeq(t, a, b)) = b - a + 1
           /\ \A i \in 1..(b - a + 1) : SubSeq(t, a, b)[i] = t[a + i - 1]
<1>1. Len(t) \in Nat
  BY LenProperties
<1>2. a \in Int /\ b \in Int /\ \A i \in a..b : t[i] \in Tokens
  BY <1>1, ElementOfSeq
<1>3. /\ SubSeq(t, a, b) \in Seq(Tokens)
      /\ Len(SubSeq(t, a, b)) = IF a <= b THEN b - a + 1 ELSE 0
      /\ \A i \in 1..(b - a + 1) : SubSeq(t, a, b)[i] = t[a + i - 1]
  BY <1>2, SubSeqProperties
<1> QED
  BY <1>1, <1>3

\* Splitting a part that only blanks precede gives the words up to its end.
LEMMA SplitOfPart ==
    ASSUME NEW t \in Seq(Tokens), NEW w, Split(w, t),
           NEW a \in 1..(Len(t) + 1), NEW b \in (a - 1)..Len(t),
           \A k \in 1..(a - 1) : t[k] = Space
    PROVE  SplitWords(SubSeq(t, a, b)) = w[b]
<1>1. Len(t) \in Nat
  BY LenProperties
<1>2. /\ SubSeq(t, a, b) \in Seq(Tokens)
      /\ Len(SubSeq(t, a, b)) = b - a + 1
      /\ \A i \in 1..(b - a + 1) : SubSeq(t, a, b)[i] = t[a + i - 1]
  BY PartOfText
<1>3. PICK s \in Seq(Tokens) : s = SubSeq(t, a, b)
  BY <1>2
<1>4. Len(s) = b - a + 1 /\ \A i \in 1..(b - a + 1) : s[i] = t[a + i - 1]
  BY <1>2, <1>3
<1>5. PICK v : Split(v, s) /\ SplitWords(s) = v[Len(s)]
  BY SplitRule
<1>6. w[a - 1] = <<>>
  <2>1. 0 \in 0..Len(t) /\ a - 1 \in 0..Len(t) /\ (0 + 1)..(a - 1) = 1..(a - 1)
    BY <1>1
  <2>2. PICK c \in 0..Len(t) : c = a - 1
    BY <2>1
  <2>3. \A k \in (0 + 1)..c : t[k] = Space
    BY <1>1, <2>2
  <2>4. w[c] = w[0]
    BY <2>1, <2>3, SplitOverBlanks
  <2> QED
    BY <2>2, <2>4 DEF Split
<1> DEFINE T == {i \in Nat : i <= b - a + 1 => v[i] = w[a - 1 + i]}
<1>7. T \in SUBSET Nat /\ 0 \in T
  <2>1. a - 1 + 0 = a - 1
    BY <1>1
  <2> QED
    BY <1>5, <1>6, <2>1 DEF Split
<1>8. ASSUME NEW i \in Nat, i \in T PROVE i + 1 \in T
  <2> SUFFICES ASSUME i + 1 <= b - a + 1 PROVE v[i + 1] = w[a - 1 + (i + 1)]
    OBVIOUS
  <2>1. i + 1 \in 1..Len(s) /\ (i + 1) - 1 = i /\ i + 1 \in 1..(b - a + 1)
    BY <1>1, <1>4
  <2>2. v[i + 1] = IF s[i + 1] = Space THEN v[i] ELSE Append(v[i], s[i + 1])
    BY <1>5, <2>1 DEF Split
  <2>3. PICK m \in 1..Len(t) : m = a + i
    BY <1>1, <1>8
  <2>4. a - 1 + (i + 1) = m /\ m - 1 = a - 1 + i /\ a + (i + 1) - 1 = m
    BY <1>1, <2>3
  <2>5. w[m] = IF t[m] = Space THEN w[m - 1] ELSE Append(w[m - 1], t[m])
    BY DEF Split
  <2>6. s[i + 1] = t[m]
    BY <1>4, <2>1, <2>4
  <2>7. v[i] = w[m - 1]
    BY <1>1, <1>8, <2>4
  <2> QED
    BY <2>2, <2>4, <2>5, <2>6, <2>7
<1> HIDE DEF T
<1>9. T = Nat
  BY <1>7, <1>8, SetInduction
<1>10. b - a + 1 \in T /\ a - 1 + (b - a + 1) = b
  BY <1>1, <1>9
<1>11. v[b - a + 1] = w[b]
  BY <1>10 DEF T
<1> QED
  BY <1>3, <1>4, <1>5, <1>11

\* Every word that is found stands somewhere, as the k-th.
LEMMA WordAt ==
    ASSUME NEW t \in Seq(Tokens), NEW w, Split(w, t),
           NEW n \in 0..Len(t), NEW k \in 1..Len(w[n])
    PROVE  \E i \in 1..n : t[i] # Space /\ Len(w[i]) = k /\ w[n][k] = t[i]
<1> DEFINE T == {i \in 0..n : k <= Len(w[i])}
<1>1. Len(t) \in Nat /\ n \in Nat
  BY LenProperties
<1>2. \A i \in 0..n : Len(w[i]) \in Nat /\ Len(w[i]) <= Len(w[n])
  BY <1>1, SplitGrows
<1>3. n \in T /\ T \in SUBSET Nat
  BY <1>1
<1>4. PICK i \in T : \A y \in T : i <= y
  BY <1>3, LeastNat
<1>5. i \in 1..n /\ i - 1 \in 0..n
  <2>1. Len(w[0]) = 0
    BY EmptySeq DEF Split
  <2> QED
    BY <1>1, <1>2, <2>1
<1>6. ~(k <= Len(w[i - 1]))
  BY <1>4, <1>5
<1>7. i \in 1..Len(t) /\ w[i] = IF t[i] = Space THEN w[i - 1] ELSE Append(w[i - 1], t[i])
  BY <1>1, <1>5 DEF Split
<1>8. t[i] # Space
  BY <1>6, <1>7
<1>9. w[i - 1] \in Seq(Words) /\ t[i] \in Words
  <2>1. t[i] \in Words
    BY <1>7, <1>8, ElementOfSeq DEF Tokens
  <2>2. i - 1 \in 0..Len(t)
    BY <1>1, <1>5
  <2>3. w[i - 1] \in Seq(Words)
    BY <2>2 DEF Split
  <2> QED
    BY <2>1, <2>3
<1>10. Len(w[i]) = Len(w[i - 1]) + 1 /\ w[i][Len(w[i - 1]) + 1] = t[i]
  <2>1. PICK p \in Seq(Words) : p = w[i - 1]
    BY <1>9
  <2>2. PICK e \in Words : e = t[i]
    BY <1>9
  <2>3. Len(Append(p, e)) = Len(p) + 1 /\ Append(p, e)[Len(p) + 1] = e
    BY AppendProperties
  <2> QED
    BY <1>7, <1>8, <2>1, <2>2, <2>3
<1>11. Len(w[i]) = k /\ w[i][k] = t[i]
  BY <1>2, <1>4, <1>5, <1>6, <1>10
<1>12. \A m \in 1..Len(w[i]) : w[n][m] = w[i][m]
  <2>1. i \in 0..Len(t) /\ n \in i..Len(t)
    BY <1>1, <1>5
  <2> QED
    BY <2>1, SplitGrows
<1>13. k \in 1..Len(w[i])
  BY <1>2, <1>5, <1>11
<1> QED
  BY <1>5, <1>8, <1>11, <1>12, <1>13

\* Trim cuts at the first and at the last word.
LEMMA TrimIs ==
    ASSUME NEW t \in Seq(Tokens), NEW a \in 1..Len(t), NEW b \in a..Len(t),
           t[a] # Space, t[b] # Space,
           \A k \in 1..(a - 1) : t[k] = Space,
           \A k \in (b + 1)..Len(t) : t[k] = Space
    PROVE  Trim(t) = SubSeq(t, a, b)
<1>1. Len(t) \in Nat
  BY LenProperties
<1>2. a \in WordsAt(t) /\ b \in WordsAt(t) /\ WordsAt(t) \subseteq 1..Len(t)
  BY <1>1 DEF WordsAt
<1>3. \A y \in WordsAt(t) : a <= y /\ y <= b
  BY <1>1 DEF WordsAt
<1>4. Min(WordsAt(t)) = a
  <2>1. \A x \in WordsAt(t) : (\A y \in WordsAt(t) : x <= y) <=> x = a
    BY <1>1, <1>2, <1>3
  <2> QED
    BY <1>2, <2>1 DEF Min
<1>5. Max(WordsAt(t)) = b
  <2>1. \A x \in WordsAt(t) : (\A y \in WordsAt(t) : x >= y) <=> x = b
    BY <1>1, <1>2, <1>3
  <2> QED
    BY <1>2, <2>1 DEF Max
<1> QED
  BY <1>2, <1>4, <1>5 DEF Trim

\* A text that is not blank has a first and a last word.
LEMMA TrimExists ==
    ASSUME NEW t \in Seq(Tokens), WordsAt(t) # {}
    PROVE  \E a \in 1..Len(t) : \E b \in a..Len(t) :
              /\ t[a] # Space /\ t[b] # Space
              /\ \A k \in 1..(a - 1) : t[k] = Space
              /\ \A k \in (b + 1)..Len(t) : t[k] = Space
<1>1. Len(t) \in Nat
  BY LenProperties
<1>2. WordsAt(t) \in SUBSET Nat
  BY <1>1 DEF WordsAt
<1>3. PICK a \in WordsAt(t) : \A y \in WordsAt(t) : a <= y
  BY <1>2, LeastNat
<1> DEFINE D == {Len(t) - i : i \in WordsAt(t)}
<1>4. D \in SUBSET Nat /\ D # {}
  BY <1>1 DEF WordsAt
<1>5. PICK d \in D : \A y \in D : d <= y
  BY <1>4, LeastNat
<1>6. PICK b \in WordsAt(t) : d = Len(t) - b
  OBVIOUS
<1>7. \A y \in WordsAt(t) : y <= b
  <2> TAKE y \in WordsAt(t)
  <2>1. d <= Len(t) - y
    BY <1>5
  <2> QED
    BY <1>1, <1>6, <2>1 DEF WordsAt
<1>8. a \in 1..Len(t) /\ b \in a..Len(t) /\ t[a] # Space /\ t[b] # Space
  BY <1>1, <1>3 DEF WordsAt
<1>9. /\ \A k \in 1..(a - 1) : t[k] = Space
      /\ \A k \in (b + 1)..Len(t) : t[k] = Space
  BY <1>1, <1>3, <1>7, <1>8 DEF WordsAt
<1> QED
  BY <1>8, <1>9

\* Trimming loses no word.
LEMMA SplitOfTrim ==
    ASSUME NEW t \in Seq(Tokens)
    PROVE  SplitWords(Trim(t)) = SplitWords(t)
<1>1. Len(t) \in Nat
  BY LenProperties
<1>2. PICK w : Split(w, t) /\ SplitWords(t) = w[Len(t)]
  BY SplitRule
<1>3. CASE WordsAt(t) = {}
  <2>1. \A k \in 1..Len(t) : t[k] = Space
    BY <1>3 DEF WordsAt
  <2>2. SplitWords(t) = <<>>
    <3>1. 0 \in 0..Len(t) /\ Len(t) \in 0..Len(t) /\ \A k \in (0 + 1)..Len(t) : t[k] = Space
      BY <1>1, <2>1
    <3>2. w[Len(t)] = w[0]
      BY <1>2, <3>1, SplitOverBlanks
    <3> QED
      BY <1>2, <3>2 DEF Split
  <2>3. SplitWords(<<>>) = <<>>
    <3>1. <<>> \in Seq(Tokens) /\ Len(<<>>) = 0
      BY EmptySeq
    <3>2. PICK e \in Seq(Tokens) : e = <<>>
      BY <3>1
    <3>3. PICK v : Split(v, e) /\ SplitWords(e) = v[Len(e)]
      BY SplitRule
    <3> QED
      BY <3>1, <3>2, <3>3 DEF Split
  <2> QED
    BY <1>3, <2>2, <2>3 DEF Trim
<1>4. CASE WordsAt(t) # {}
  <2>1. PICK a \in 1..Len(t) : \E b \in a..Len(t) :
              /\ t[a] # Space /\ t[b] # Space
              /\ \A k \in 1..(a - 1) : t[k] = Space
              /\ \A k \in (b + 1)..Len(t) : t[k] = Space
    BY <1>4, TrimExists
  <2>2. PICK b \in a..Len(t) :
              /\ t[a] # Space /\ t[b] # Space
              /\ \A k \in 1..(a - 1) : t[k] = Space
              /\ \A k \in (b + 1)..Len(t) : t[k] = Space
    BY <2>1
  <2>3. Trim(t) = SubSeq(t, a, b)
    BY <2>2, TrimIs
  <2>4. a \in 1..(Len(t) + 1) /\ b \in (a - 1)..Len(t) /\ b \in 0..Len(t) /\ Len(t) \in b..Len(t)
    BY <1>1
  <2>5. SplitWords(SubSeq(t, a, b)) = w[b]
    BY <1>2, <2>2, <2>4, SplitOfPart
  <2>6. w[Len(t)] = w[b]
    BY <1>2, <2>2, <2>4, SplitOverBlanks
  <2> QED
    BY <1>2, <2>3, <2>5, <2>6
<1> QED
  BY <1>3, <1>4

\* What follows the n-th word, if it stands at j.
LEMMA RestIs ==
    ASSUME NEW t \in Seq(Tokens), NEW w, Split(w, t),
           NEW j \in 1..Len(t), t[j] # Space
    PROVE  RestAfterNWords(t, Len(w[j])) = Trim(SubSeq(t, j + 1, Len(t)))
<1>1. Len(t) \in Nat
  BY LenProperties
<1>2. \A i \in 1..Len(t) : SplitWords(SubSeq(t, 1, i)) = w[i]
  <2> TAKE i \in 1..Len(t)
  <2>1. 1 \in 1..(Len(t) + 1) /\ i \in (1 - 1)..Len(t) /\ \A k \in 1..(1 - 1) : t[k] = Space
    BY <1>1
  <2> QED
    BY <2>1, SplitOfPart
<1> DEFINE n == Len(w[j])
           ends == {i \in WordsAt(t) : Len(SplitWords(SubSeq(t, 1, i))) = n}
<1>3. \A i \in WordsAt(t) : Len(w[i]) = n => i = j
  <2> SUFFICES ASSUME NEW i \in 1..Len(t), t[i] # Space, Len(w[i]) = n, i # j
               PROVE  FALSE
    BY DEF WordsAt
  <2>1. CASE i < j
    <3>1. i \in 0..(j - 1)
      BY <1>1, <2>1
    <3>2. Len(w[i]) < Len(w[j]) /\ Len(w[j]) \in Nat
      BY <3>1, SplitAtWord
    <3> QED
      BY <3>2
  <2>2. CASE j < i
    <3>1. j \in 0..(i - 1)
      BY <1>1, <2>2
    <3>2. Len(w[j]) < Len(w[i]) /\ Len(w[i]) \in Nat
      BY <3>1, SplitAtWord
    <3> QED
      BY <3>2
  <2> QED
    BY <1>1, <2>1, <2>2
<1>4. j \in WordsAt(t) /\ WordsAt(t) \subseteq 1..Len(t)
  BY DEF WordsAt
<1>5. ends = {j}
  BY <1>2, <1>3, <1>4
<1>6. RestAfterNWords(t, n) =
        IF ends = {} THEN <<>> ELSE Trim(SubSeq(t, Min(ends) + 1, Len(t)))
  BY DEF RestAfterNWords
<1>7. Min({j}) = j
  BY <1>1 DEF Min
<1> HIDE DEF ends, n
<1>8. Min(ends) = j /\ ends # {}
  BY <1>5, <1>7, Zenon
<1>9. RestAfterNWords(t, n) = Trim(SubSeq(t, j + 1, Len(t)))
  BY <1>6, <1>8, Zenon
<1> QED
  BY <1>9 DEF n

\* Where the two first words and the rest of a line stand.
Laid(l, i, j, m, n) ==
    /\ i \in 1..Len(l) /\ j \in (i + 1)..Len(l) /\ m \in (j + 1)..Len(l) /\ n \in m..Len(l)
    /\ l[i] # Space /\ l[j] # Space /\ l[m] # Space /\ l[n] # Space
    /\ \A k \in 1..(i - 1) : l[k] = Space
    /\ \A k \in (i + 1)..(j - 1) : l[k] = Space
    /\ \A k \in (j + 1)..(m - 1) : l[k] = Space
    /\ \A k \in (n + 1)..Len(l) : l[k] = Space

\* The trimmed line is split after its two first words, and the rest is trimmed.
LEMMA LaidIsParsed ==
    ASSUME NEW l \in Seq(Tokens), NEW i, NEW j, NEW m, NEW n, Laid(l, i, j, m, n)
    PROVE  /\ Len(SplitWords(Trim(l))) \in Nat /\ Len(SplitWords(Trim(l))) >= 3
           /\ SplitWords(Trim(l)) \in Seq(Words)
           /\ SplitWords(Trim(l))[1] = l[i] /\ SplitWords(Trim(l))[2] = l[j]
           /\ RestAfterNWords(Trim(l), 2) = SubSeq(l, m, n)
<1>1. Len(l) \in Nat
  BY LenProperties
<1>2. /\ i \in 1..Len(l) /\ j \in (i + 1)..Len(l) /\ m \in (j + 1)..Len(l) /\ n \in m..Len(l)
      /\ l[i] # Space /\ l[j] # Space /\ l[m] # Space /\ l[n] # Space
      /\ \A k \in 1..(i - 1) : l[k] = Space
      /\ \A k \in (i + 1)..(j - 1) : l[k] = Space
      /\ \A k \in (j + 1)..(m - 1) : l[k] = Space
      /\ \A k \in (n + 1)..Len(l) : l[k] = Space
  BY DEF Laid
<1>3. /\ i \in Int /\ j \in Int /\ m \in Int /\ n \in Int
      /\ 1 <= i /\ i < j /\ j < m /\ m <= n /\ n <= Len(l)
  BY <1>1, <1>2
<1>4. Trim(l) = SubSeq(l, i, n)
  <2>1. n \in i..Len(l)
    BY <1>1, <1>3
  <2> QED
    BY <1>2, <2>1, TrimIs
<1>5. /\ SubSeq(l, i, n) \in Seq(Tokens)
      /\ Len(SubSeq(l, i, n)) = n - i + 1
      /\ \A k \in 1..(n - i + 1) : SubSeq(l, i, n)[k] = l[i + k - 1]
  <2>1. i \in 1..(Len(l) + 1) /\ n \in (i - 1)..Len(l)
    BY <1>1, <1>3
  <2> QED
    BY <2>1, PartOfText
<1>6. PICK t \in Seq(Tokens) : t = Trim(l)
  BY <1>4, <1>5
<1>7. Len(t) = n - i + 1 /\ \A k \in 1..(n - i + 1) : t[k] = l[i + k - 1]
  BY <1>4, <1>5, <1>6
<1>8. PICK w : Split(w, t) /\ SplitWords(t) = w[Len(t)]
  BY SplitRule
<1>9. PICK J, M : J = j - i + 1 /\ M = m - i + 1
  OBVIOUS
<1>10. /\ J \in 2..Len(t) /\ M \in (J + 1)..Len(t) /\ Len(t) \in Nat /\ M \in Int /\ J \in Int
       /\ t[1] = l[i] /\ t[J] = l[j] /\ t[M] = l[m] /\ t[Len(t)] = l[n]
  <2>1. J \in 2..Len(t) /\ M \in (J + 1)..Len(t) /\ Len(t) \in Nat /\ M \in Int /\ J \in Int
    BY <1>1, <1>3, <1>7, <1>9
  <2>2. /\ 1 \in 1..(n - i + 1) /\ J \in 1..(n - i + 1)
        /\ M \in 1..(n - i + 1) /\ n - i + 1 \in 1..(n - i + 1)
    BY <1>3, <1>9
  <2>3. i + 1 - 1 = i /\ i + J - 1 = j /\ i + M - 1 = m /\ i + (n - i + 1) - 1 = n
    BY <1>3, <1>9
  <2> QED
    BY <1>7, <2>1, <2>2, <2>3
<1>11. /\ \A k \in 2..(J - 1) : t[k] = Space
       /\ \A k \in (J + 1)..(M - 1) : t[k] = Space
  <2>1. ASSUME NEW k \in 2..(J - 1) PROVE t[k] = Space
    <3>1. k \in 1..(n - i + 1) /\ i + k - 1 \in (i + 1)..(j - 1)
      BY <1>3, <1>9
    <3> QED
      BY <1>2, <1>7, <3>1
  <2>2. ASSUME NEW k \in (J + 1)..(M - 1) PROVE t[k] = Space
    <3>1. k \in 1..(n - i + 1) /\ i + k - 1 \in (j + 1)..(m - 1)
      BY <1>3, <1>9
    <3> QED
      BY <1>2, <1>7, <3>1
  <2> QED
    BY <2>1, <2>2
<1>12. w[1] = <<t[1]>> /\ t[1] \in Words
  <2>1. 1 \in 1..Len(t) /\ 1 - 1 = 0
    BY <1>10
  <2>2. t[1] \in Words /\ t[1] # Space
    BY <1>2, <1>10, <2>1, ElementOfSeq DEF Tokens
  <2>3. w[1] = Append(<<>>, t[1])
    BY <1>8, <2>1, <2>2 DEF Split
  <2> QED
    BY <2>2, <2>3
<1>13. Len(w[J]) = 2 /\ w[J][1] = t[1] /\ w[J][2] = t[J]
  <2>1. J \in 1..Len(t) /\ J - 1 \in 0..Len(t) /\ 1 \in 0..Len(t) /\ J - 1 \in 1..Len(t)
    BY <1>10
  <2>2. t[J] \in Words /\ t[J] # Space
    BY <1>2, <1>10, <2>1, ElementOfSeq DEF Tokens
  <2>3. \A k \in (1 + 1)..(J - 1) : t[k] = Space
    BY <1>11
  <2>4. w[J - 1] = w[1]
    BY <1>8, <2>1, <2>3, SplitOverBlanks
  <2>5. PICK e \in Words : e = t[J]
    BY <2>2
  <2>6. PICK p \in Seq(Words) : p = w[1]
    BY <1>8, <2>1 DEF Split
  <2>7. w[J] = Append(p, e)
    BY <1>8, <2>1, <2>2, <2>4, <2>5, <2>6 DEF Split
  <2>8. Len(p) = 1 /\ p[1] = t[1]
    BY <1>12, <2>6
  <2>9. /\ Len(Append(p, e)) = Len(p) + 1
        /\ \A k \in 1..Len(p) : Append(p, e)[k] = p[k]
        /\ Append(p, e)[Len(p) + 1] = e
    BY AppendProperties
  <2> QED
    BY <2>5, <2>7, <2>8, <2>9
<1>14. /\ w[Len(t)] \in Seq(Words)
       /\ Len(w[Len(t)]) \in Nat /\ Len(w[Len(t)]) >= 3
       /\ w[Len(t)][1] = t[1] /\ w[Len(t)][2] = t[J]
  <2>1. /\ M \in 1..Len(t) /\ J \in 0..(M - 1) /\ t[M] # Space
        /\ M \in 0..Len(t) /\ Len(t) \in M..Len(t)
        /\ J \in 0..Len(t) /\ Len(t) \in J..Len(t)
    BY <1>2, <1>10
  <2>2. Len(w[J]) = 2 /\ w[J][1] = t[1] /\ w[J][2] = t[J]
    BY <1>13
  <2>3. Len(w[J]) < Len(w[M]) /\ Len(w[M]) \in Nat
    BY <1>8, <2>1, SplitAtWord
  <2>4. /\ Len(w[M]) <= Len(w[Len(t)]) /\ Len(w[Len(t)]) \in Nat /\ w[Len(t)] \in Seq(Words)
    BY <1>8, <2>1, SplitGrows
  <2>5. \A k \in 1..Len(w[J]) : w[Len(t)][k] = w[J][k]
    BY <1>8, <2>1, SplitGrows
  <2> QED
    BY <2>2, <2>3, <2>4, <2>5
<1>15. RestAfterNWords(t, 2) = SubSeq(l, m, n)
  <2>1. J \in 1..Len(t) /\ t[J] # Space /\ Len(w[J]) = 2
    BY <1>2, <1>10, <1>13
  <2>2. RestAfterNWords(t, 2) = Trim(SubSeq(t, J + 1, Len(t)))
    BY <1>8, <2>1, RestIs
  <2>3. /\ SubSeq(t, J + 1, Len(t)) \in Seq(Tokens)
        /\ Len(SubSeq(t, J + 1, Len(t))) = Len(t) - J
        /\ \A k \in 1..(Len(t) - J) : SubSeq(t, J + 1, Len(t))[k] = t[J + k]
    <3>1. J + 1 \in 1..(Len(t) + 1) /\ Len(t) \in ((J + 1) - 1)..Len(t)
      BY <1>10
    <3>2. /\ SubSeq(t, J + 1, Len(t)) \in Seq(Tokens)
          /\ Len(SubSeq(t, J + 1, Len(t))) = Len(t) - (J + 1) + 1
          /\ \A k \in 1..(Len(t) - (J + 1) + 1) : SubSeq(t, J + 1, Len(t))[k] = t[(J + 1) + k - 1]
      BY <3>1, PartOfText
    <3> QED
      BY <1>10, <3>2
  <2>4. PICK r \in Seq(Tokens) : r = SubSeq(t, J + 1, Len(t))
    BY <2>3
  <2>5. /\ Len(r) = n - j
        /\ \A k \in 1..(n - j) : r[k] = l[j + k]
    <3>1. Len(t) - J = n - j
      BY <1>3, <1>7, <1>9
    <3>2. ASSUME NEW k \in 1..(n - j) PROVE r[k] = l[j + k]
      <4>1. J + k \in 1..(n - i + 1) /\ i + (J + k) - 1 = j + k
        BY <1>3, <1>9
      <4>2. t[J + k] = l[j + k]
        BY <1>7, <4>1
      <4> QED
        BY <2>3, <2>4, <3>1, <4>2
    <3> QED
      BY <2>3, <2>4, <3>1, <3>2
  <2>6. Trim(r) = SubSeq(r, m - j, n - j)
    <3>1. /\ m - j \in 1..Len(r) /\ n - j \in (m - j)..Len(r)
          /\ m - j \in 1..(n - j) /\ n - j \in 1..(n - j)
          /\ j + (m - j) = m /\ j + (n - j) = n
      BY <1>3, <2>5
    <3>2. r[m - j] # Space /\ r[n - j] # Space
      BY <1>2, <2>5, <3>1
    <3>3. \A k \in 1..((m - j) - 1) : r[k] = Space
      <4> TAKE k \in 1..((m - j) - 1)
      <4>1. k \in 1..(n - j) /\ j + k \in (j + 1)..(m - 1)
        BY <1>3
      <4> QED
        BY <1>2, <2>5, <4>1
    <3>4. \A k \in ((n - j) + 1)..Len(r) : r[k] = Space
      BY <1>3, <2>5
    <3>5. PICK a \in 1..Len(r) : a = m - j
      BY <3>1
    <3>6. PICK b \in a..Len(r) : b = n - j
      BY <3>1, <3>5
    <3>7. /\ r[a] # Space /\ r[b] # Space
          /\ \A k \in 1..(a - 1) : r[k] = Space
          /\ \A k \in (b + 1)..Len(r) : r[k] = Space
      BY <3>2, <3>3, <3>4, <3>5, <3>6
    <3>8. Trim(r) = SubSeq(r, a, b)
      BY <3>7, TrimIs
    <3> QED
      BY <3>5, <3>6, <3>8
  <2>7. SubSeq(r, m - j, n - j) = SubSeq(l, m, n)
    <3>1. /\ SubSeq(r, m - j, n - j) \in Seq(Tokens)
          /\ Len(SubSeq(r, m - j, n - j)) = n - m + 1
          /\ \A k \in 1..(n - m + 1) : SubSeq(r, m - j, n - j)[k] = l[m + k - 1]
      <4>1. m - j \in 1..(Len(r) + 1) /\ n - j \in ((m - j) - 1)..Len(r)
        BY <1>3, <2>5
      <4>2. /\ SubSeq(r, m - j, n - j) \in Seq(Tokens)
            /\ Len(SubSeq(r, m - j, n - j)) = (n - j) - (m - j) + 1
            /\ \A k \in 1..((n - j) - (m - j) + 1) : SubSeq(r, m - j, n - j)[k] = r[(m - j) + k - 1]
        BY <4>1, PartOfText
      <4>3. (n - j) - (m - j) + 1 = n - m + 1
        BY <1>3
      <4>4. ASSUME NEW k \in 1..(n - m + 1) PROVE SubSeq(r, m - j, n - j)[k] = l[m + k - 1]
        <5>1. (m - j) + k - 1 \in 1..(n - j) /\ j + ((m - j) + k - 1) = m + k - 1
          BY <1>3
        <5>2. r[(m - j) + k - 1] = l[m + k - 1]
          BY <2>5, <5>1
        <5> QED
          BY <4>2, <4>3, <5>2
      <4> QED
        BY <4>2, <4>3, <4>4
    <3>2. /\ SubSeq(l, m, n) \in Seq(Tokens)
          /\ Len(SubSeq(l, m, n)) = n - m + 1
          /\ \A k \in 1..(n - m + 1) : SubSeq(l, m, n)[k] = l[m + k - 1]
      <4>1. m \in 1..(Len(l) + 1) /\ n \in (m - 1)..Len(l)
        BY <1>1, <1>3
      <4> QED
        BY <4>1, PartOfText
    <3>3. PICK p \in Seq(Tokens) : p = SubSeq(r, m - j, n - j)
      BY <3>1
    <3>4. PICK q \in Seq(Tokens) : q = SubSeq(l, m, n)
      BY <3>2
    <3>5. Len(p) = Len(q) /\ \A k \in 1..Len(p) : p[k] = q[k]
      BY <3>1, <3>2, <3>3, <3>4
    <3>6. p = q
      BY <3>5, SeqEqual
    <3> QED
      BY <3>3, <3>4, <3>6
  <2> QED
    BY <2>2, <2>4, <2>6, <2>7
<1> QED
  BY <1>6, <1>8, <1>10, <1>14, <1>15

\* A part of a text is blank if its tokens are.
LEMMA BlankIs ==
    ASSUME NEW t \in Seq(Tokens), NEW a \in 1..(Len(t) + 1), NEW b \in (a - 1)..Len(t)
    PROVE  Blank(SubSeq(t, a, b)) <=> \A k \in a..b : t[k] = Space
<1>1. Len(t) \in Nat
  BY LenProperties
<1>2. /\ Len(SubSeq(t, a, b)) = b - a + 1
      /\ \A i \in 1..(b - a + 1) : SubSeq(t, a, b)[i] = t[a + i - 1]
  BY PartOfText
<1>3. Blank(SubSeq(t, a, b)) <=> \A i \in 1..(b - a + 1) : t[a + i - 1] = Space
  BY <1>2 DEF Blank
<1>4. ASSUME \A i \in 1..(b - a + 1) : t[a + i - 1] = Space, NEW k \in a..b PROVE t[k] = Space
  <2>1. k - a + 1 \in 1..(b - a + 1) /\ a + (k - a + 1) - 1 = k
    BY <1>1
  <2>2. PICK d \in 1..(b - a + 1) : d = k - a + 1
    BY <2>1
  <2>3. t[a + d - 1] = Space
    BY <1>4
  <2>4. a + d - 1 = k
    BY <1>1, <2>2
  <2> QED
    BY <2>3, <2>4
<1>5. ASSUME \A k \in a..b : t[k] = Space, NEW i \in 1..(b - a + 1) PROVE t[a + i - 1] = Space
  <2>1. a + i - 1 \in a..b
    BY <1>1
  <2> QED
    BY <1>5, <2>1
<1> QED
  BY <1>3, <1>4, <1>5

\* The grammar of SET and where the words stand.
LEMMA SpelledIsLaid ==
    ASSUME NEW l \in Seq(Tokens), NEW key \in Words, NEW n \in 1..Len(l), NEW m \in 1..n
    PROVE  SpellsSet(l, key, m, n) <=>
              \E i, j : Laid(l, i, j, m, n) /\ Upper[l[i]] = "SET" /\ l[j] = key
<1>1. Len(l) \in Nat /\ n \in Nat /\ m \in Nat
  BY LenProperties
<1>2. Space \notin Words
  BY ParserAssumption
<1>3. \A k \in 1..Len(l) : l[k] # Space <=> l[k] \in Words
  BY <1>2, ElementOfSeq DEF Tokens
<1>4. Blank(SubSeq(l, n + 1, Len(l))) <=> \A k \in (n + 1)..Len(l) : l[k] = Space
  <2>1. n + 1 \in 1..(Len(l) + 1) /\ Len(l) \in ((n + 1) - 1)..Len(l)
    BY <1>1
  <2> QED
    BY <2>1, BlankIs
<1>5. ASSUME NEW i \in 1..(m - 1)
      PROVE  Blank(SubSeq(l, 1, i - 1)) <=> \A k \in 1..(i - 1) : l[k] = Space
  <2>1. 1 \in 1..(Len(l) + 1) /\ i - 1 \in (1 - 1)..Len(l)
    BY <1>1
  <2> QED
    BY <2>1, BlankIs
<1>6. ASSUME NEW i \in 1..(m - 1), NEW j \in (i + 1)..(m - 1)
      PROVE  /\ Blank(SubSeq(l, i + 1, j - 1)) <=> \A k \in (i + 1)..(j - 1) : l[k] = Space
             /\ Blank(SubSeq(l, j + 1, m - 1)) <=> \A k \in (j + 1)..(m - 1) : l[k] = Space
  <2>1. i + 1 \in 1..(Len(l) + 1) /\ j - 1 \in ((i + 1) - 1)..Len(l)
    BY <1>1
  <2>2. j + 1 \in 1..(Len(l) + 1) /\ m - 1 \in ((j + 1) - 1)..Len(l)
    BY <1>1
  <2>3. Blank(SubSeq(l, i + 1, j - 1)) <=> \A k \in (i + 1)..(j - 1) : l[k] = Space
    BY <2>1, BlankIs
  <2>4. Blank(SubSeq(l, j + 1, m - 1)) <=> \A k \in (j + 1)..(m - 1) : l[k] = Space
    BY <2>2, BlankIs
  <2> QED
    BY <2>3, <2>4
<1>7. ASSUME SpellsSet(l, key, m, n)
      PROVE  \E i, j : Laid(l, i, j, m, n) /\ Upper[l[i]] = "SET" /\ l[j] = key
  <2>1. PICK i \in 1..(m - 1) :
          /\ Blank(SubSeq(l, 1, i - 1)) /\ l[i] \in Words /\ Upper[l[i]] = "SET"
          /\ \E j \in (i + 1)..(m - 1) :
                /\ l[j] = key
                /\ Blank(SubSeq(l, i + 1, j - 1)) /\ Blank(SubSeq(l, j + 1, m - 1))
    BY <1>7 DEF SpellsSet
  <2>2. PICK j \in (i + 1)..(m - 1) :
                /\ l[j] = key
                /\ Blank(SubSeq(l, i + 1, j - 1)) /\ Blank(SubSeq(l, j + 1, m - 1))
    BY <2>1
  <2>3. l[m] # Space /\ l[n] # Space /\ \A k \in (n + 1)..Len(l) : l[k] = Space
    BY <1>4, <1>7 DEF SpellsSet
  <2>4. /\ \A k \in 1..(i - 1) : l[k] = Space
        /\ \A k \in (i + 1)..(j - 1) : l[k] = Space
        /\ \A k \in (j + 1)..(m - 1) : l[k] = Space
    BY <1>5, <1>6, <2>1, <2>2
  <2>5. l[i] # Space /\ l[j] # Space
    BY <1>2, <2>1, <2>2
  <2>6. i \in 1..Len(l) /\ j \in (i + 1)..Len(l) /\ m \in (j + 1)..Len(l) /\ n \in m..Len(l)
    BY <1>1
  <2>7. Laid(l, i, j, m, n)
    BY <2>3, <2>4, <2>5, <2>6 DEF Laid
  <2> QED
    BY <2>1, <2>2, <2>7
<1>8. ASSUME NEW i, NEW j, Laid(l, i, j, m, n), Upper[l[i]] = "SET", l[j] = key
      PROVE  SpellsSet(l, key, m, n)
  <2>1. /\ i \in 1..Len(l) /\ j \in (i + 1)..Len(l) /\ m \in (j + 1)..Len(l) /\ n \in m..Len(l)
        /\ l[i] # Space /\ l[j] # Space /\ l[m] # Space /\ l[n] # Space
        /\ \A k \in 1..(i - 1) : l[k] = Space
        /\ \A k \in (i + 1)..(j - 1) : l[k] = Space
        /\ \A k \in (j + 1)..(m - 1) : l[k] = Space
        /\ \A k \in (n + 1)..Len(l) : l[k] = Space
    BY <1>8 DEF Laid
  <2>2. i \in 1..(m - 1) /\ j \in (i + 1)..(m - 1)
    BY <1>1, <2>1
  <2>3. l[i] \in Words
    BY <1>3, <2>1
  <2>4. Blank(SubSeq(l, 1, i - 1)) /\ Blank(SubSeq(l, n + 1, Len(l)))
    BY <1>4, <1>5, <2>1, <2>2
  <2>5. Blank(SubSeq(l, i + 1, j - 1)) /\ Blank(SubSeq(l, j + 1, m - 1))
    BY <1>6, <2>1, <2>2
  <2>6. \E jj \in (i + 1)..(m - 1) :
                /\ l[jj] = key
                /\ Blank(SubSeq(l, i + 1, jj - 1)) /\ Blank(SubSeq(l, jj + 1, m - 1))
    BY <1>8, <2>2, <2>5
  <2>7. \E ii \in 1..(m - 1) :
          /\ Blank(SubSeq(l, 1, ii - 1)) /\ l[ii] \in Words /\ Upper[l[ii]] = "SET"
          /\ \E jj \in (ii + 1)..(m - 1) :
                /\ l[jj] = key
                /\ Blank(SubSeq(l, ii + 1, jj - 1)) /\ Blank(SubSeq(l, jj + 1, m - 1))
    BY <1>8, <2>2, <2>3, <2>4, <2>6
  <2> QED
    BY <2>1, <2>4, <2>7 DEF SpellsSet
<1> QED
  BY <1>7, <1>8

\* The command SET.
SetCommand(key, value) == [type |-> "SET", key |-> key, value |-> value, seconds |-> 0]

\* A line of SET, key and value is taken for that SET.
LEMMA LaidIsSet ==
    ASSUME NEW l \in Seq(Tokens), NEW i, NEW j, NEW m, NEW n, Laid(l, i, j, m, n),
           Upper[l[i]] = "SET"
    PROVE  ParseCommand(l) = SetCommand(l[j], SubSeq(l, m, n))
<1>1. PICK text, parts : text = Trim(l) /\ parts = SplitWords(text)
  OBVIOUS
<1>2. /\ Len(parts) \in Nat /\ Len(parts) >= 3 /\ parts \in Seq(Words)
      /\ parts[1] = l[i] /\ parts[2] = l[j]
      /\ RestAfterNWords(text, 2) = SubSeq(l, m, n)
  BY <1>1, LaidIsParsed
<1>3. parts # <<>>
  BY <1>2
<1>4. ~("SET" \in DOMAIN BasicCommands)
  BY DEF BasicCommands
<1>5. ParseCommand(l) = ParseSet(text, parts)
  BY <1>1, <1>2, <1>3, <1>4 DEF ParseCommand
<1>6. ParseSet(text, parts) = [Unknown EXCEPT !.type = "SET", !.key = parts[2],
                                              !.value = RestAfterNWords(text, 2)]
  BY <1>2 DEF ParseSet
<1>7. PICK k, v : k = parts[2] /\ v = RestAfterNWords(text, 2)
  OBVIOUS
<1>8. ParseSet(text, parts) = [Unknown EXCEPT !.type = "SET", !.key = k, !.value = v]
  BY <1>6, <1>7
<1>9. ParseSet(text, parts) = SetCommand(k, v)
  BY <1>8 DEF Unknown, SetCommand
<1> QED
  BY <1>2, <1>5, <1>7, <1>9

\* Three words and more stand somewhere.
LEMMA ThreeAreLaid ==
    ASSUME NEW l \in Seq(Tokens), Len(SplitWords(l)) >= 3
    PROVE  \E i, j, m, n : Laid(l, i, j, m, n)
                           /\ SplitWords(l)[1] = l[i] /\ SplitWords(l)[2] = l[j]
<1>1. PICK w : Split(w, l) /\ SplitWords(l) = w[Len(l)]
  BY SplitRule
<1>2. Len(l) \in Nat
  BY LenProperties
<1>3. PICK N \in 0..Len(l) : N = Len(l)
  BY <1>2
<1>4. w[N] \in Seq(Words) /\ Len(w[N]) \in Nat /\ Len(w[N]) >= 3
  <2>1. N \in N..Len(l)
    BY <1>2, <1>3
  <2> QED
    BY <1>1, <1>3, <2>1, SplitGrows
<1> DEFINE c == [k \in 0..N |-> Len(w[k])]
<1>5. \A k \in 1..N : Len(w[k]) = c[k]
  BY <1>2, <1>3
<1>6. c[0] = 0
  BY <1>1, <1>2, <1>3, EmptySeq DEF Split
<1>7. \A k \in 0..N : c[k] \in Nat
  <2> SUFFICES ASSUME NEW k \in 0..N PROVE Len(w[k]) \in Nat
    OBVIOUS
  <2>1. k \in 0..Len(l) /\ k \in k..Len(l)
    BY <1>2, <1>3
  <2> QED
    BY <1>1, <2>1, SplitGrows
<1>8. \A a \in 0..N, b \in 1..N : l[b] # Space /\ a < b => c[a] < c[b]
  <2> SUFFICES ASSUME NEW a \in 0..N, NEW b \in 1..N, l[b] # Space, a < b
               PROVE  Len(w[a]) < Len(w[b])
    OBVIOUS
  <2>1. b \in 1..Len(l) /\ a \in 0..(b - 1)
    BY <1>2, <1>3
  <2> QED
    BY <1>1, <2>1, SplitAtWord
<1>9. ASSUME NEW k \in 1..3
      PROVE  \E i \in 1..N : l[i] # Space /\ c[i] = k /\ w[N][k] = l[i]
  <2>1. k \in 1..Len(w[N])
    BY <1>4
  <2>2. PICK i \in 1..N : l[i] # Space /\ Len(w[i]) = k /\ w[N][k] = l[i]
    BY <1>1, <2>1, WordAt
  <2> QED
    BY <1>5, <2>2
<1> HIDE DEF c
<1>10. PICK i \in 1..N, j \in 1..N, m \in 1..N :
          /\ l[i] # Space /\ c[i] = 1 /\ w[N][1] = l[i]
          /\ l[j] # Space /\ c[j] = 2 /\ w[N][2] = l[j]
          /\ l[m] # Space /\ c[m] = 3
  <2>1. 1 \in 1..3 /\ 2 \in 1..3 /\ 3 \in 1..3
    OBVIOUS
  <2>2. PICK i \in 1..N : l[i] # Space /\ c[i] = 1 /\ w[N][1] = l[i]
    BY <1>9, <2>1, Zenon
  <2>3. PICK j \in 1..N : l[j] # Space /\ c[j] = 2 /\ w[N][2] = l[j]
    BY <1>9, <2>1, Zenon
  <2>4. PICK m \in 1..N : l[m] # Space /\ c[m] = 3 /\ w[N][3] = l[m]
    BY <1>9, <2>1, Zenon
  <2> QED
    BY <2>2, <2>3, <2>4, Zenon
<1>11. i < j /\ j < m
  <2>1. i # j /\ j # m
    BY <1>10
  <2>2. ~(j < i)
    BY <1>8, <1>10
  <2>3. ~(m < j)
    BY <1>8, <1>10
  <2> QED
    BY <1>2, <1>3, <2>1, <2>2, <2>3
<1>12. WordsAt(l) # {}
  BY <1>3, <1>10 DEF WordsAt
<1>13. PICK a \in 1..Len(l) : \E b \in a..Len(l) :
              /\ l[a] # Space /\ l[b] # Space
              /\ \A k \in 1..(a - 1) : l[k] = Space
              /\ \A k \in (b + 1)..Len(l) : l[k] = Space
  BY <1>12, TrimExists
<1>14. PICK n \in a..Len(l) : l[n] # Space /\ \A k \in (n + 1)..Len(l) : l[k] = Space
  BY <1>13
<1>15. m <= n
  BY <1>2, <1>3, <1>10, <1>14
<1>16. \A k \in 1..(i - 1) : l[k] = Space
  <2> SUFFICES ASSUME NEW k \in 1..(i - 1), l[k] # Space PROVE FALSE
    OBVIOUS
  <2>1. k \in 1..N /\ 0 \in 0..N /\ k \in 0..N /\ 0 < k /\ k < i
    BY <1>2, <1>3
  <2>2. c[0] < c[k] /\ c[k] < c[i] /\ c[k] \in Nat
    BY <1>7, <1>8, <1>10, <2>1
  <2> QED
    BY <1>6, <1>10, <2>2
<1>17. \A k \in (i + 1)..(j - 1) : l[k] = Space
  <2> SUFFICES ASSUME NEW k \in (i + 1)..(j - 1), l[k] # Space PROVE FALSE
    OBVIOUS
  <2>1. k \in 1..N /\ k \in 0..N /\ i \in 0..N /\ i < k /\ k < j
    BY <1>2, <1>3
  <2>2. c[i] < c[k] /\ c[k] < c[j] /\ c[k] \in Nat
    BY <1>7, <1>8, <1>10, <2>1
  <2> QED
    BY <1>10, <2>2
<1>18. \A k \in (j + 1)..(m - 1) : l[k] = Space
  <2> SUFFICES ASSUME NEW k \in (j + 1)..(m - 1), l[k] # Space PROVE FALSE
    OBVIOUS
  <2>1. k \in 1..N /\ k \in 0..N /\ j \in 0..N /\ j < k /\ k < m
    BY <1>2, <1>3
  <2>2. c[j] < c[k] /\ c[k] < c[m] /\ c[k] \in Nat
    BY <1>7, <1>8, <1>10, <2>1
  <2> QED
    BY <1>10, <2>2
<1>19. /\ i \in 1..Len(l) /\ j \in (i + 1)..Len(l) /\ m \in (j + 1)..Len(l) /\ n \in m..Len(l)
  BY <1>2, <1>3, <1>11, <1>15
<1>20. Laid(l, i, j, m, n)
  BY <1>10, <1>14, <1>16, <1>17, <1>18, <1>19 DEF Laid
<1>21. SplitWords(l)[1] = l[i] /\ SplitWords(l)[2] = l[j]
  BY <1>1, <1>3, <1>10
<1> QED
  BY <1>20, <1>21

\* What ParsePositiveInt goes through, digit by digit.
LEMMA ResultRule ==
    ASSUME NEW word \in Words
    PROVE  \E r : /\ r[0] = 0
                  /\ \A i \in 1..Len(Digits[word]) : r[i] = AddDigit(r[i - 1], Digits[word][i])
                  /\ ParsePositiveInt(word) =
                        IF r[Len(Digits[word])] <= 0 THEN NotPositive ELSE r[Len(Digits[word])]
<1>1. Digits[word] \in Seq(Nat) /\ IntMax \in Nat
  BY ParserAssumption
<1> DEFINE d == Digits[word]
           N == Len(d)
           D(n) == IF n \in 1..N THEN d[n] ELSE 0
           F == [x \in Nat \X Int |-> AddDigit(x[2], D(x[1]))]
           G(f) == [i \in 0..N |-> IF i = 0 THEN 0 ELSE AddDigit(f[i - 1], d[i])]
<1>2. d \in Seq(Nat)
  BY <1>1
<1> HIDE DEF d
<1>3. N \in Nat /\ \A i \in 1..N : d[i] \in Nat
  BY <1>2, LenProperties
<1>4. \A n : D(n) \in Nat
  BY <1>3
<1>5. \A n \in 1..N : D(n) = d[n]
  OBVIOUS
<1> HIDE DEF D, N
<1>6. \A a \in Int, e \in Nat : AddDigit(a, e) \in Int
  BY DEF AddDigit, NotPositive
<1>7. F \in [Nat \X Int -> Int]
  BY <1>4, <1>6
<1>8. \A n \in Nat, a \in Int : F[<<n, a>>] = AddDigit(a, D(n))
  OBVIOUS
<1> HIDE DEF F
<1>9. PICK f : Follows(f, N, 0, F)
  BY <1>3, FollowsExists
<1>10. f \in [0..N -> Int]
  <2> DEFINE V == Int
  <2>1. 0 \in V /\ F \in [Nat \X V -> V]
    BY <1>7
  <2> HIDE DEF V
  <2>2. f \in [0..N -> V]
    BY <1>3, <1>9, <2>1, FollowsTyped
  <2> QED
    BY <2>2 DEF V
<1>11. \A i \in 0..N : f[i] = IF i = 0 THEN 0 ELSE AddDigit(f[i - 1], d[i])
  <2> TAKE i \in 0..N
  <2>1. f[i] = IF i = 0 THEN 0 ELSE F[<<i, f[i - 1]>>]
    BY <1>9 DEF Follows
  <2>2. CASE i = 0
    BY <2>1, <2>2
  <2>3. CASE i # 0
    <3>1. i \in 1..N /\ i \in Nat /\ f[i - 1] \in Int
      BY <1>3, <1>10, <2>3
    <3>2. F[<<i, f[i - 1]>>] = AddDigit(f[i - 1], D(i))
      BY <1>8, <3>1
    <3>3. D(i) = d[i]
      BY <1>5, <3>1
    <3> QED
      BY <2>1, <2>3, <3>2, <3>3
  <2> QED
    BY <2>2, <2>3
<1>12. f = G(f)
  BY <1>10, <1>11
<1>13. ParsePositiveInt(word) =
          IF (CHOOSE g : g = G(g))[N] <= 0 THEN NotPositive ELSE (CHOOSE g : g = G(g))[N]
  BY DEF ParsePositiveInt, N, d
<1> HIDE DEF G
<1>14. PICK r : r = (CHOOSE g : g = G(g))
  OBVIOUS
<1>15. r = G(r) /\ ParsePositiveInt(word) = IF r[N] <= 0 THEN NotPositive ELSE r[N]
  BY <1>12, <1>13, <1>14, Zenon
<1>16. \A i \in 0..N : r[i] = IF i = 0 THEN 0 ELSE AddDigit(r[i - 1], d[i])
  BY <1>15 DEF G
<1>17. r[0] = 0 /\ \A i \in 1..N : r[i] = AddDigit(r[i - 1], d[i])
  BY <1>3, <1>16
<1> QED
  BY <1>15, <1>17 DEF N, d

\* And the number that the word spells.
LEMMA NumeralRule ==
    ASSUME NEW word \in Words
    PROVE  \E v : /\ v[0] = 0
                  /\ \A i \in 0..Len(Digits[word]) : v[i] \in Nat
                  /\ \A i \in 1..Len(Digits[word]) : v[i] = 10 * v[i - 1] + Digits[word][i]
                  /\ Numeral(word) = v[Len(Digits[word])]
<1>1. Digits[word] \in Seq(Nat)
  BY ParserAssumption
<1>2. PICK d \in Seq(Nat) : d = Digits[word]
  BY <1>1
<1> DEFINE N == Len(d)
           D(n) == IF n \in 1..N THEN d[n] ELSE 0
           F == [x \in Nat \X Nat |-> 10 * x[2] + D(x[1])]
           G(f) == [i \in 0..N |-> IF i = 0 THEN 0 ELSE 10 * f[i - 1] + d[i]]
<1>3. N \in Nat /\ \A i \in 1..N : d[i] \in Nat
  BY LenProperties
<1>4. \A n : D(n) \in Nat
  BY <1>3
<1>5. \A n \in 1..N : D(n) = d[n]
  OBVIOUS
<1> HIDE DEF D, N
<1>6. F \in [Nat \X Nat -> Nat]
  BY <1>4
<1>7. \A n \in Nat, a \in Nat : F[<<n, a>>] = 10 * a + D(n)
  OBVIOUS
<1> HIDE DEF F
<1>8. PICK f : Follows(f, N, 0, F)
  BY <1>3, FollowsExists
<1>9. f \in [0..N -> Nat]
  BY <1>3, <1>6, <1>8, FollowsTyped
<1>10. \A i \in 0..N : f[i] = IF i = 0 THEN 0 ELSE 10 * f[i - 1] + d[i]
  <2> TAKE i \in 0..N
  <2>1. f[i] = IF i = 0 THEN 0 ELSE F[<<i, f[i - 1]>>]
    BY <1>8 DEF Follows
  <2>2. CASE i = 0
    BY <2>1, <2>2
  <2>3. CASE i # 0
    <3>1. i \in 1..N /\ i \in Nat /\ f[i - 1] \in Nat
      BY <1>3, <1>9, <2>3
    <3>2. F[<<i, f[i - 1]>>] = 10 * f[i - 1] + D(i)
      BY <1>7, <3>1
    <3>3. D(i) = d[i]
      BY <1>5, <3>1
    <3> QED
      BY <2>1, <2>3, <3>2, <3>3
  <2> QED
    BY <2>2, <2>3
<1>11. f = G(f)
  BY <1>9, <1>10
<1>12. Numeral(word) = (CHOOSE g : g = G(g))[N]
  BY <1>2, Zenon DEF Numeral, N
<1> HIDE DEF G
<1>13. PICK v : v = (CHOOSE g : g = G(g))
  OBVIOUS
<1>14. v = G(v) /\ Numeral(word) = v[N]
  BY <1>11, <1>12, <1>13, Zenon
<1>15. \A i \in 0..N : v[i] = IF i = 0 THEN 0 ELSE 10 * v[i - 1] + d[i]
  BY <1>14 DEF G
<1>16. v[0] = 0 /\ \A i \in 1..N : v[i] = 10 * v[i - 1] + d[i]
  BY <1>3, <1>15
<1>17. \A i \in 0..N : v[i] \in Nat
  <2> DEFINE T == {i \in Nat : i <= N => v[i] \in Nat}
  <2>1. T \in SUBSET Nat /\ 0 \in T
    BY <1>16
  <2>2. \A i \in Nat : i \in T => i + 1 \in T
    <3> SUFFICES ASSUME NEW i \in Nat, v[i] \in Nat, i + 1 <= N
                 PROVE  v[i + 1] \in Nat
      BY <1>3
    <3>1. i + 1 \in 1..N /\ (i + 1) - 1 = i
      BY <1>3
    <3>2. v[i + 1] = 10 * v[i] + d[i + 1]
      BY <1>16, <3>1
    <3>3. d[i + 1] \in Nat
      BY <1>3, <3>1
    <3> QED
      BY <3>2, <3>3
  <2> HIDE DEF T
  <2>3. T = Nat
    BY <2>1, <2>2, SetInduction
  <2> QED
    BY <1>3, <2>3 DEF T
<1> QED
  BY <1>2, <1>14, <1>16, <1>17 DEF N

\* ParsePositiveInt takes the numbers from 1 to the greatest int for what they
\* are, and nothing else.
LEMMA NumberParsed ==
    ASSUME NEW word \in Words
    PROVE  /\ ParsePositiveInt(word) =
                 IF HasOnlyDigits(word) /\ Numeral(word) \in 1..IntMax
                 THEN Numeral(word) ELSE NotPositive
           /\ Numeral(word) \in Nat
<1>1. Digits[word] \in Seq(Nat) /\ IntMax \in Nat
  BY ParserAssumption
<1>2. PICK d \in Seq(Nat) : d = Digits[word]
  BY <1>1
<1>3. PICK N \in Nat : N = Len(d)
  BY LenProperties
<1>4. DOMAIN d = 1..N /\ \A i \in 1..N : d[i] \in Nat
  BY <1>3, LenProperties
<1>5. PICK r : /\ r[0] = 0
               /\ \A i \in 1..N : r[i] = AddDigit(r[i - 1], d[i])
               /\ ParsePositiveInt(word) = IF r[N] <= 0 THEN NotPositive ELSE r[N]
  BY <1>2, <1>3, ResultRule
<1>6. PICK v : /\ v[0] = 0
               /\ \A i \in 0..N : v[i] \in Nat
               /\ \A i \in 1..N : v[i] = 10 * v[i - 1] + d[i]
               /\ Numeral(word) = v[N]
  BY <1>2, <1>3, NumeralRule
<1> DEFINE Fits(i) == v[i] <= IntMax /\ \A k \in 1..i : d[k] \in 0..9
           T == {i \in Nat : i <= N => IF Fits(i) THEN r[i] = v[i] ELSE r[i] = -1}
<1>7. T \in SUBSET Nat /\ 0 \in T
  BY <1>1, <1>5, <1>6
<1>8. ASSUME NEW i \in Nat, i \in T PROVE i + 1 \in T
  <2> SUFFICES ASSUME i + 1 <= N
               PROVE  IF Fits(i + 1) THEN r[i + 1] = v[i + 1] ELSE r[i + 1] = -1
    OBVIOUS
  <2>1. i + 1 \in 1..N /\ (i + 1) - 1 = i /\ i \in 0..N /\ i + 1 \in 0..N
    OBVIOUS
  <2>2. PICK a \in Nat, b \in Nat, e \in Nat : a = v[i] /\ b = v[i + 1] /\ e = d[i + 1]
    BY <1>4, <1>6, <2>1
  <2>3. b = 10 * a + e
    BY <1>6, <2>1, <2>2
  <2>4. r[i + 1] = AddDigit(r[i], e)
    BY <1>5, <2>1, <2>2
  <2>5. IF Fits(i) THEN r[i] = a ELSE r[i] = -1
    BY <1>8, <2>1, <2>2
  <2>6. Fits(i + 1) <=> Fits(i) /\ e \in 0..9 /\ b <= IntMax
    <3>1. (\A k \in 1..(i + 1) : d[k] \in 0..9)
             <=> (\A k \in 1..i : d[k] \in 0..9) /\ d[i + 1] \in 0..9
      <4>1. 1..(i + 1) = (1..i) \cup {i + 1}
        BY <1>8
      <4> QED
        BY <4>1
    <3>2. b <= IntMax => a <= IntMax
      BY <1>1, <2>3
    <3> QED
      BY <2>2, <3>1, <3>2
  <2> HIDE DEF Fits
  <2>7. CASE Fits(i)
    <3>1. r[i + 1] = IF e \notin 0..9 \/ b > IntMax THEN -1 ELSE b
      <4>1. r[i] = a
        BY <2>5, <2>7
      <4>2. r[i + 1] = AddDigit(a, e)
        BY <2>4, <4>1
      <4> QED
        BY <2>3, <4>2 DEF AddDigit, NotPositive
    <3> QED
      BY <1>1, <2>2, <2>6, <2>7, <3>1
  <2>8. CASE ~Fits(i)
    <3>1. r[i] = -1
      BY <2>5, <2>8
    <3>2. r[i + 1] = -1
      BY <2>4, <3>1 DEF AddDigit, NotPositive
    <3> QED
      BY <2>6, <2>8, <3>2
  <2> QED
    BY <2>7, <2>8
<1> HIDE DEF T
<1>9. T = Nat
  BY <1>7, <1>8, SetInduction
<1>10. IF Fits(N) THEN r[N] = v[N] ELSE r[N] = -1
  <2>1. N \in T
    BY <1>9
  <2> HIDE DEF Fits
  <2>2. N <= N
    OBVIOUS
  <2> QED
    BY <2>1, <2>2 DEF T
<1>11. HasOnlyDigits(word) <=> \A k \in 1..N : d[k] \in 0..9
  BY <1>2, <1>4 DEF HasOnlyDigits
<1>12. PICK b \in Nat : b = v[N]
  BY <1>3, <1>6
<1>13. Fits(N) <=> HasOnlyDigits(word) /\ b <= IntMax
  BY <1>11, <1>12
<1> HIDE DEF Fits
<1>14. CASE Fits(N)
  <2>1. r[N] = b
    BY <1>10, <1>12, <1>14
  <2>2. ParsePositiveInt(word) = IF b <= 0 THEN NotPositive ELSE b
    BY <1>5, <2>1
  <2> QED
    BY <1>1, <1>6, <1>12, <1>13, <1>14, <2>2
<1>15. CASE ~Fits(N)
  <2>1. r[N] = -1
    BY <1>10, <1>15
  <2>2. ParsePositiveInt(word) = NotPositive
    BY <1>5, <2>1
  <2> QED
    BY <1>1, <1>6, <1>12, <1>13, <1>15, <2>2
<1> QED
  BY <1>14, <1>15

\* A command without a value.
PlainCommand(type, key, seconds) ==
    [type |-> type, key |-> key, value |-> <<>>, seconds |-> seconds]

\* The words of a text, found with or without trimming.
LEMMA PartsOfText ==
    ASSUME NEW l \in Seq(Tokens)
    PROVE  /\ SplitWords(l) \in Seq(Words) /\ Len(SplitWords(l)) \in Nat
           /\ \A k \in 1..Len(SplitWords(l)) : SplitWords(l)[k] \in Words
<1>1. PICK w : Split(w, l) /\ SplitWords(l) = w[Len(l)]
  BY SplitRule
<1>2. Len(l) \in 0..Len(l)
  BY LenProperties
<1>3. SplitWords(l) \in Seq(Words)
  BY <1>1, <1>2 DEF Split
<1>4. PICK p \in Seq(Words) : p = SplitWords(l)
  BY <1>3
<1>5. Len(p) \in Nat /\ \A k \in 1..Len(p) : p[k] \in Words
  BY LenProperties
<1> QED
  BY <1>3, <1>4, <1>5

\* A SET, with the parts that the line spells.
IsSet(l, c) ==
    \E i, j, m, n : /\ Laid(l, i, j, m, n) /\ Upper[l[i]] = "SET"
                    /\ c = SetCommand(l[j], SubSeq(l, m, n))

\* What the command of a line can be.
IsParsed(l, c) ==
    \/ c = Unknown
    \/ \E op \in {"PING", "STATS", "QUIT", "HELP"} : c = PlainCommand(op, NoWord, 0)
    \/ \E op \in {"GET", "DEL", "TTL"} : \E k \in Words : c = PlainCommand(op, k, 0)
    \/ \E k \in Words, s \in 1..IntMax : c = PlainCommand("EXPIRE", k, s)
    \/ IsSet(l, c)

\* Commands of a fixed number of words.
LEMMA BasicForms ==
    ASSUME NEW l, NEW op \in DOMAIN BasicCommands, NEW parts \in Seq(Words)
    PROVE  IsParsed(l, FillBasicCmd(op, parts))
<1>1. \/ op \in {"PING", "STATS", "QUIT", "HELP"} /\ BasicCommands[op] = 1
      \/ op \in {"GET", "DEL", "TTL"} /\ BasicCommands[op] = 2
  BY DEF BasicCommands
<1>2. CASE Len(parts) # BasicCommands[op]
  BY <1>2 DEF FillBasicCmd, IsParsed
<1>3. CASE Len(parts) = 1 /\ BasicCommands[op] = 1
  <2>1. FillBasicCmd(op, parts) = [Unknown EXCEPT !.type = op, !.key = @]
    BY <1>3 DEF FillBasicCmd
  <2>2. FillBasicCmd(op, parts) = PlainCommand(op, NoWord, 0)
    BY <1>3, <2>1 DEF Unknown, PlainCommand
  <2> QED
    BY <1>1, <1>3, <2>2 DEF IsParsed
<1>4. CASE Len(parts) = 2 /\ BasicCommands[op] = 2
  <2>1. PICK k \in Words : k = parts[2]
    <3>1. 2 \in 1..Len(parts)
      BY <1>4
    <3> QED
      BY <3>1, ElementOfSeq
  <2>2. FillBasicCmd(op, parts) =
          [Unknown EXCEPT !.type = op, !.key = IF Len(parts) = 2 THEN k ELSE @]
    BY <1>4, <2>1 DEF FillBasicCmd
  <2>3. FillBasicCmd(op, parts) = PlainCommand(op, k, 0)
    BY <1>4, <2>2 DEF Unknown, PlainCommand
  <2> QED
    BY <1>1, <1>4, <2>3 DEF IsParsed
<1> QED
  BY <1>1, <1>2, <1>3, <1>4

\* EXPIRE: three words, the last of which is a number that fits.
LEMMA ExpireForms ==
    ASSUME NEW l, NEW parts \in Seq(Words)
    PROVE  /\ IsParsed(l, ParseExpire(parts))
           /\ Len(parts) = 3 =>
                IF HasOnlyDigits(parts[3]) /\ Numeral(parts[3]) \in 1..IntMax
                THEN ParseExpire(parts) = PlainCommand("EXPIRE", parts[2], Numeral(parts[3]))
                ELSE ParseExpire(parts) = Unknown
<1>1. CASE Len(parts) # 3
  BY <1>1 DEF ParseExpire, IsParsed
<1>2. CASE Len(parts) = 3
  <2>1. 2 \in 1..Len(parts) /\ 3 \in 1..Len(parts)
    BY <1>2
  <2>2. PICK k \in Words : k = parts[2]
    BY <2>1, ElementOfSeq
  <2>3. PICK word \in Words : word = parts[3]
    BY <2>1, ElementOfSeq
  <2>4. /\ ParsePositiveInt(word) =
                 IF HasOnlyDigits(word) /\ Numeral(word) \in 1..IntMax
                 THEN Numeral(word) ELSE NotPositive
        /\ Numeral(word) \in Nat
    BY NumberParsed
  <2>5. ParseExpire(parts) =
           IF ParsePositiveInt(word) = NotPositive THEN Unknown
           ELSE [Unknown EXCEPT !.type = "EXPIRE", !.key = k,
                                !.seconds = ParsePositiveInt(word)]
    BY <1>2, <2>2, <2>3 DEF ParseExpire
  <2>6. CASE HasOnlyDigits(word) /\ Numeral(word) \in 1..IntMax
    <3>1. PICK s \in 1..IntMax : s = Numeral(word)
      BY <2>6
    <3>2. ParsePositiveInt(word) = s
      BY <2>4, <2>6, <3>1
    <3>3. s # NotPositive
      BY DEF NotPositive
    <3>4. ParseExpire(parts) = [Unknown EXCEPT !.type = "EXPIRE", !.key = k, !.seconds = s]
      BY <2>5, <3>2, <3>3
    <3>5. ParseExpire(parts) = PlainCommand("EXPIRE", k, s)
      BY <3>4 DEF Unknown, PlainCommand
    <3>6. IsParsed(l, ParseExpire(parts))
      BY <3>5 DEF IsParsed
    <3> QED
      BY <2>2, <2>3, <2>6, <3>1, <3>5, <3>6
  <2>7. CASE ~(HasOnlyDigits(word) /\ Numeral(word) \in 1..IntMax)
    <3>1. ParseExpire(parts) = Unknown
      BY <2>4, <2>5, <2>7
    <3> QED
      BY <2>3, <2>7, <3>1 DEF IsParsed
  <2> QED
    BY <2>6, <2>7
<1> QED
  BY <1>1, <1>2

\* ParseCommand on the words of the line.
LEMMA ParseIs ==
    ASSUME NEW l \in Seq(Tokens), NEW parts, parts = SplitWords(l)
    PROVE  /\ parts = <<>> => ParseCommand(l) = Unknown
           /\ parts # <<>> /\ Upper[parts[1]] \in DOMAIN BasicCommands =>
                 ParseCommand(l) = FillBasicCmd(Upper[parts[1]], parts)
           /\ parts # <<>> /\ Upper[parts[1]] = "SET" =>
                 ParseCommand(l) = ParseSet(Trim(l), parts)
           /\ parts # <<>> /\ Upper[parts[1]] = "EXPIRE" => ParseCommand(l) = ParseExpire(parts)
           /\ parts # <<>> /\ Upper[parts[1]] \notin DOMAIN BasicCommands \cup {"SET", "EXPIRE"} =>
                 ParseCommand(l) = Unknown
<1>1. SplitWords(Trim(l)) = parts
  BY SplitOfTrim
<1>2. ParseCommand(l) =
        IF parts = <<>> THEN Unknown
        ELSE IF Upper[parts[1]] \in DOMAIN BasicCommands THEN FillBasicCmd(Upper[parts[1]], parts)
        ELSE IF Upper[parts[1]] = "SET" THEN ParseSet(Trim(l), parts)
        ELSE IF Upper[parts[1]] = "EXPIRE" THEN ParseExpire(parts)
        ELSE Unknown
  BY <1>1 DEF ParseCommand
<1>3. "SET" \notin DOMAIN BasicCommands /\ "EXPIRE" \notin DOMAIN BasicCommands
  BY DEF BasicCommands
<1> QED
  BY <1>2, <1>3

\* Every command that ParseCommand returns is one of those.
LEMMA ParseForms ==
    ASSUME NEW l \in Seq(Tokens)
    PROVE  IsParsed(l, ParseCommand(l))
<1>1. PICK parts \in Seq(Words) : parts = SplitWords(l)
  BY PartsOfText
<1>2. CASE parts = <<>>
  BY <1>1, <1>2, ParseIs DEF IsParsed
<1>3. CASE parts # <<>> /\ Upper[parts[1]] \in DOMAIN BasicCommands
  <2>1. ParseCommand(l) = FillBasicCmd(Upper[parts[1]], parts)
    BY <1>1, <1>3, ParseIs
  <2>2. IsParsed(l, FillBasicCmd(Upper[parts[1]], parts))
    BY <1>3, BasicForms
  <2> QED
    BY <2>1, <2>2
<1>4. CASE parts # <<>> /\ Upper[parts[1]] = "EXPIRE"
  <2>1. ParseCommand(l) = ParseExpire(parts)
    BY <1>1, <1>4, ParseIs
  <2>2. IsParsed(l, ParseExpire(parts))
    BY ExpireForms
  <2> QED
    BY <2>1, <2>2
<1>5. CASE parts # <<>> /\ Upper[parts[1]] = "SET"
  <2>1. ParseCommand(l) = ParseSet(Trim(l), parts)
    BY <1>1, <1>5, ParseIs
  <2>2. Len(parts) \in Nat
    BY LenProperties
  <2>3. CASE Len(parts) < 3
    BY <2>1, <2>3 DEF ParseSet, IsParsed
  <2>4. CASE Len(parts) >= 3
    <3>1. Len(SplitWords(l)) >= 3
      BY <1>1, <2>4
    <3>2. PICK i, j, m, n : Laid(l, i, j, m, n)
                           /\ SplitWords(l)[1] = l[i] /\ SplitWords(l)[2] = l[j]
      BY <3>1, ThreeAreLaid
    <3>3. Upper[l[i]] = "SET"
      BY <1>1, <1>5, <3>2
    <3>4. ParseCommand(l) = SetCommand(l[j], SubSeq(l, m, n))
      BY <3>2, <3>3, LaidIsSet
    <3> QED
      BY <3>2, <3>3, <3>4 DEF IsParsed, IsSet
  <2> QED
    BY <2>2, <2>3, <2>4
<1>6. CASE parts # <<>> /\ Upper[parts[1]] \notin DOMAIN BasicCommands \cup {"SET", "EXPIRE"}
  <2>1. ParseCommand(l) = Unknown
    BY <1>1, <1>6, ParseIs
  <2> QED
    BY <2>1 DEF IsParsed
<1> QED
  BY <1>2, <1>3, <1>4, <1>5, <1>6

\* The value of a SET is a text between two words.
IsValue(v) ==
    v \in Seq(Tokens) /\ Len(v) > 0 /\ v[1] # Space /\ v[Len(v)] # Space

\* So is what stands from m to n, and the key is a word.
LEMMA LaidValue ==
    ASSUME NEW l \in Seq(Tokens), NEW i, NEW j, NEW m, NEW n, Laid(l, i, j, m, n)
    PROVE  IsValue(SubSeq(l, m, n)) /\ l[j] \in Words
<1>1. Len(l) \in Nat
  BY LenProperties
<1>2. /\ i \in 1..Len(l) /\ j \in (i + 1)..Len(l) /\ m \in (j + 1)..Len(l) /\ n \in m..Len(l)
      /\ l[j] # Space /\ l[m] # Space /\ l[n] # Space
  BY DEF Laid
<1>3. j \in 1..Len(l) /\ m \in 1..(Len(l) + 1) /\ n \in (m - 1)..Len(l) /\ n - m + 1 > 0
      /\ 1 \in 1..(n - m + 1) /\ n - m + 1 \in 1..(n - m + 1)
      /\ m + 1 - 1 = m /\ m + (n - m + 1) - 1 = n
  BY <1>1, <1>2
<1>4. /\ SubSeq(l, m, n) \in Seq(Tokens)
      /\ Len(SubSeq(l, m, n)) = n - m + 1
      /\ \A k \in 1..(n - m + 1) : SubSeq(l, m, n)[k] = l[m + k - 1]
  BY <1>3, PartOfText
<1>5. l[j] \in Words
  BY <1>2, <1>3, ElementOfSeq DEF Tokens
<1>6. SubSeq(l, m, n)[1] = l[m] /\ SubSeq(l, m, n)[n - m + 1] = l[n]
  BY <1>3, <1>4
<1> QED
  BY <1>2, <1>3, <1>4, <1>5, <1>6 DEF IsValue

\* The inductive invariant: the command is the one of the line.
ParserInv ==
    /\ line \in Seq(Tokens)
    /\ cmd = ParseCommand(line)

\* A key, a value and a number are there exactly for the commands that have one.
LEMMA ParserTypes == ParserInv => ParserTypeOK
<1> SUFFICES ASSUME ParserInv PROVE ParserTypeOK
  OBVIOUS
<1> USE DEF ParserInv
<1>1. IsParsed(line, cmd)
  BY ParseForms
<1>2. NoWord \notin Words /\ IntMax \in Nat \ {0}
  BY ParserAssumption
<1>3. DOMAIN BasicCommands = {"PING", "STATS", "QUIT", "HELP", "GET", "DEL", "TTL"}
  BY DEF BasicCommands
<1>4. CASE cmd = Unknown
  BY <1>2, <1>4 DEF Unknown, ParserTypeOK
<1>5. CASE \E op \in {"PING", "STATS", "QUIT", "HELP"} : cmd = PlainCommand(op, NoWord, 0)
  <2>1. PICK op \in {"PING", "STATS", "QUIT", "HELP"} : cmd = PlainCommand(op, NoWord, 0)
    BY <1>5
  <2>2. cmd.type = op /\ cmd.key = NoWord /\ cmd.value = <<>> /\ cmd.seconds = 0
    BY <2>1 DEF PlainCommand
  <2> QED
    BY <1>2, <1>3, <2>2 DEF ParserTypeOK
<1>6. CASE \E op \in {"GET", "DEL", "TTL"} : \E k \in Words : cmd = PlainCommand(op, k, 0)
  <2>1. PICK op \in {"GET", "DEL", "TTL"} : \E k \in Words : cmd = PlainCommand(op, k, 0)
    BY <1>6
  <2>2. PICK k \in Words : cmd = PlainCommand(op, k, 0)
    BY <2>1
  <2>3. cmd.type = op /\ cmd.key = k /\ cmd.value = <<>> /\ cmd.seconds = 0
    BY <2>2 DEF PlainCommand
  <2> QED
    BY <1>2, <1>3, <2>3 DEF ParserTypeOK
<1>7. CASE \E k \in Words, s \in 1..IntMax : cmd = PlainCommand("EXPIRE", k, s)
  <2>1. PICK k \in Words, s \in 1..IntMax : cmd = PlainCommand("EXPIRE", k, s)
    BY <1>7
  <2>2. cmd.type = "EXPIRE" /\ cmd.key = k /\ cmd.value = <<>> /\ cmd.seconds = s
    BY <2>1 DEF PlainCommand
  <2> QED
    BY <1>2, <1>3, <2>2 DEF ParserTypeOK
<1>8. CASE IsSet(line, cmd)
  <2>1. PICK i, j, m, n : Laid(line, i, j, m, n) /\ cmd = SetCommand(line[j], SubSeq(line, m, n))
    BY <1>8 DEF IsSet
  <2>2. PICK k, v : k = line[j] /\ v = SubSeq(line, m, n)
    OBVIOUS
  <2>3. IsValue(v) /\ k \in Words
    BY <2>1, <2>2, LaidValue
  <2>4. v # <<>>
    BY <2>3, EmptySeq DEF IsValue
  <2>5. cmd.type = "SET" /\ cmd.key = k /\ cmd.value = v /\ cmd.seconds = 0
    <3>1. cmd = SetCommand(k, v)
      BY <2>1, <2>2
    <3> QED
      BY <3>1 DEF SetCommand
  <2> QED
    BY <1>2, <1>3, <2>3, <2>4, <2>5 DEF ParserTypeOK
<1> QED
  BY <1>1, <1>4, <1>5, <1>6, <1>7, <1>8 DEF IsParsed

\* SET is recognised exactly where the grammar has it.
LEMMA ParserSets == ParserInv => SetExact
<1> SUFFICES ASSUME ParserInv PROVE SetExact
  OBVIOUS
<1> USE DEF ParserInv
<1>1. Len(line) \in Nat
  BY LenProperties
<1>2. ASSUME NEW key \in Words, NEW n \in 1..Len(line), NEW m \in 1..n,
             SpellsSet(line, key, m, n)
      PROVE  cmd = [type |-> "SET", key |-> key, value |-> SubSeq(line, m, n), seconds |-> 0]
  <2>1. PICK i, j : Laid(line, i, j, m, n) /\ Upper[line[i]] = "SET" /\ line[j] = key
    BY <1>2, SpelledIsLaid
  <2>2. cmd = SetCommand(key, SubSeq(line, m, n))
    BY <2>1, LaidIsSet
  <2> QED
    BY <2>2 DEF SetCommand
<1>3. ASSUME cmd.type = "SET"
      PROVE  \E n \in 1..Len(line) : \E m \in 1..n : SpellsSet(line, cmd.key, m, n)
  <2>1. IsParsed(line, cmd)
    BY ParseForms
  <2>2. IsSet(line, cmd)
    <3>1. cmd # Unknown
      BY <1>3 DEF Unknown
    <3>2. \A op, k, s : cmd = PlainCommand(op, k, s) => op = "SET"
      BY <1>3 DEF PlainCommand
    <3> QED
      BY <2>1, <3>1, <3>2 DEF IsParsed
  <2>3. PICK i, j, m, n : /\ Laid(line, i, j, m, n) /\ Upper[line[i]] = "SET"
                          /\ cmd = SetCommand(line[j], SubSeq(line, m, n))
    BY <2>2 DEF IsSet
  <2>4. PICK k, v : k = line[j] /\ v = SubSeq(line, m, n)
    OBVIOUS
  <2>5. cmd.key = k /\ k \in Words
    <3>1. k \in Words
      BY <2>3, <2>4, LaidValue
    <3> QED
      BY <2>3, <2>4, <3>1 DEF SetCommand
  <2>6. n \in 1..Len(line) /\ m \in 1..n
    BY <1>1, <2>3 DEF Laid
  <2>7. SpellsSet(line, k, m, n)
    BY <2>3, <2>4, <2>5, <2>6, SpelledIsLaid
  <2> QED
    BY <2>5, <2>6, <2>7
<1> QED
  BY <1>2, <1>3 DEF SetExact

\* EXPIRE takes the numbers that fit an int.
LEMMA ParserExpires == ParserInv => ExpireExact
<1> SUFFICES ASSUME ParserInv PROVE ExpireExact
  OBVIOUS
<1> USE DEF ParserInv
<1>1. PICK parts \in Seq(Words) : parts = SplitWords(line)
  BY PartsOfText
<1> SUFFICES ASSUME Len(parts) = 3, Upper[parts[1]] = "EXPIRE"
             PROVE  IF HasOnlyDigits(parts[3]) /\ Numeral(parts[3]) \in 1..IntMax
                    THEN cmd.type = "EXPIRE" /\ cmd.seconds = Numeral(parts[3])
                    ELSE cmd = Unknown
  BY <1>1 DEF ExpireExact
<1>2. parts # <<>>
  <2>1. Len(<<>>) = 0 /\ 0 # 3
    BY EmptySeq
  <2> QED
    BY <2>1, Zenon
<1>3. cmd = ParseExpire(parts)
  BY <1>1, <1>2, ParseIs
<1>4. IF HasOnlyDigits(parts[3]) /\ Numeral(parts[3]) \in 1..IntMax
      THEN ParseExpire(parts) = PlainCommand("EXPIRE", parts[2], Numeral(parts[3]))
      ELSE ParseExpire(parts) = Unknown
  BY ExpireForms
<1>5. \A k, s : /\ PlainCommand("EXPIRE", k, s).type = "EXPIRE"
                /\ PlainCommand("EXPIRE", k, s).seconds = s
  BY DEF PlainCommand
<1>6. CASE HasOnlyDigits(parts[3]) /\ Numeral(parts[3]) \in 1..IntMax
  <2>1. cmd = PlainCommand("EXPIRE", parts[2], Numeral(parts[3]))
    BY <1>3, <1>4, <1>6
  <2> QED
    BY <1>5, <1>6, <2>1
<1>7. CASE ~(HasOnlyDigits(parts[3]) /\ Numeral(parts[3]) \in 1..IntMax)
  BY <1>3, <1>4, <1>7
<1> QED
  BY <1>6, <1>7

\* The empty text is no command.
LEMMA ParserInvInit == ParserInit => ParserInv
<1> SUFFICES ASSUME line = <<>>, cmd = Unknown PROVE ParserInv
  BY DEF ParserInit
<1>1. <<>> \in Seq(Tokens) /\ Len(<<>>) = 0
  BY EmptySeq
<1>2. PICK e \in Seq(Tokens) : e = <<>>
  BY <1>1
<1>3. PICK w : Split(w, e) /\ SplitWords(e) = w[Len(e)]
  BY SplitRule
<1>4. SplitWords(e) = <<>>
  BY <1>1, <1>2, <1>3 DEF Split
<1>5. ParseCommand(e) = Unknown
  BY <1>4, ParseIs
<1> QED
  BY <1>2, <1>5 DEF ParserInv

\* One call of ParseCommand.
LEMMA ParseKeeps ==
    ASSUME NEW payload \in Lines, Parse(payload)
    PROVE  ParserInv'
<1>1. payload \in Seq(Tokens)
  BY ParserAssumption DEF Tokens
<1>2. line' = payload /\ cmd' = ParseCommand(payload)
  BY DEF Parse
<1>3. PICK a, b : a = line' /\ b = cmd'
  OBVIOUS
<1>4. a \in Seq(Tokens) /\ b = ParseCommand(a)
  BY <1>1, <1>2, <1>3
<1> QED
  BY <1>3, <1>4 DEF ParserInv

\* For all words, numbers and texts, of any length and with any blanks: a line is
\* a SET exactly if it spells one, with the key and the value it spells, and
\* EXPIRE takes exactly the numbers from 1 to the greatest int (ParseCommand).
THEOREM ParserAlwaysExact == ParserSpec => []ParserExact
<1>1. ParserInv /\ [ParserNext]_<<line, cmd>> => ParserInv'
  <2>1. ParserNext => ParserInv'
    BY ParseKeeps DEF ParserNext
  <2>2. ParserInv /\ UNCHANGED <<line, cmd>> => ParserInv'
    BY DEF ParserInv
  <2> QED
    BY <2>1, <2>2
<1>2. ParserInv => ParserExact
  BY ParserTypes, ParserSets, ParserExpires DEF ParserExact
<1> QED
  BY <1>1, <1>2, ParserInvInit, PTL DEF ParserSpec

\* A value, typed again after SET and a key, is parsed to itself.
LEMMA ValueCopied ==
    ASSUME NEW v, IsValue(v), NEW k \in Words, NEW op \in Words, Upper[op] = "SET"
    PROVE  ParseCommand(<<op, Space, k, Space>> \o v) = SetCommand(k, v)
<1>1. v \in Seq(Tokens) /\ Len(v) \in Nat /\ Len(v) > 0 /\ v[1] # Space /\ v[Len(v)] # Space
  BY LenProperties DEF IsValue
<1>2. Space \notin Words /\ op \in Tokens /\ k \in Tokens /\ Space \in Tokens
  BY ParserAssumption DEF Tokens
<1>3. PICK h : h = <<op, Space, k, Space>>
  OBVIOUS
<1>4. h \in Seq(Tokens) /\ Len(h) = 4 /\ h[1] = op /\ h[2] = Space /\ h[3] = k /\ h[4] = Space
  BY <1>2, <1>3
<1>5. /\ h \o v \in Seq(Tokens)
      /\ Len(h \o v) = Len(h) + Len(v)
      /\ \A i \in 1..(Len(h) + Len(v)) : (h \o v)[i] = IF i <= Len(h) THEN h[i] ELSE v[i - Len(h)]
  BY <1>1, <1>4, ConcatProperties
<1>6. PICK l \in Seq(Tokens) : l = h \o v
  BY <1>5
<1>7. PICK N \in Nat : N = Len(v)
  BY <1>1
<1>8. /\ Len(l) = 4 + N
      /\ \A i \in 1..(4 + N) : l[i] = IF i <= 4 THEN h[i] ELSE v[i - 4]
  BY <1>4, <1>5, <1>6, <1>7
<1>9. /\ l[1] = op /\ l[2] = Space /\ l[3] = k /\ l[4] = Space
      /\ \A i \in 1..N : l[4 + i] = v[i]
  <2>1. 1 \in 1..(4 + N) /\ 2 \in 1..(4 + N) /\ 3 \in 1..(4 + N) /\ 4 \in 1..(4 + N)
    OBVIOUS
  <2>2. l[1] = h[1] /\ l[2] = h[2] /\ l[3] = h[3] /\ l[4] = h[4]
    BY <1>8, <2>1
  <2>3. ASSUME NEW i \in 1..N PROVE l[4 + i] = v[i]
    <3>1. 4 + i \in 1..(4 + N) /\ ~(4 + i <= 4) /\ (4 + i) - 4 = i
      OBVIOUS
    <3> QED
      BY <1>8, <3>1
  <2> QED
    BY <1>4, <2>2, <2>3
<1>10. Laid(l, 1, 3, 5, 4 + N)
  <2>1. N > 0 /\ 1 \in 1..N /\ N \in 1..N
    BY <1>1, <1>7
  <2>2. l[5] = v[1] /\ l[4 + N] = v[N]
    <3>1. l[4 + 1] = v[1] /\ l[4 + N] = v[N]
      BY <1>9, <2>1
    <3>2. 4 + 1 = 5
      OBVIOUS
    <3> QED
      BY <3>1, <3>2
  <2>3. l[1] # Space /\ l[3] # Space /\ l[5] # Space /\ l[4 + N] # Space
    BY <1>1, <1>2, <1>7, <1>9, <2>2
  <2>4. 1 \in 1..Len(l) /\ 3 \in (1 + 1)..Len(l) /\ 5 \in (3 + 1)..Len(l) /\ 4 + N \in 5..Len(l)
    BY <1>8, <2>1
  <2>5. /\ \A i \in 1..(1 - 1) : l[i] = Space
        /\ \A i \in (1 + 1)..(3 - 1) : l[i] = Space
        /\ \A i \in (3 + 1)..(5 - 1) : l[i] = Space
        /\ \A i \in ((4 + N) + 1)..Len(l) : l[i] = Space
    <3>1. /\ \A i \in 1..(1 - 1) : FALSE
          /\ \A i \in (1 + 1)..(3 - 1) : i = 2
          /\ \A i \in (3 + 1)..(5 - 1) : i = 4
          /\ \A i \in ((4 + N) + 1)..Len(l) : FALSE
      BY <1>8
    <3> QED
      BY <1>9, <3>1
  <2> QED
    BY <2>3, <2>4, <2>5 DEF Laid
<1>11. Upper[l[1]] = "SET"
  BY <1>9
<1>12. ParseCommand(l) = SetCommand(l[3], SubSeq(l, 5, 4 + N))
  BY <1>10, <1>11, LaidIsSet
<1>13. SubSeq(l, 5, 4 + N) = v
  <2>1. 5 \in 1..(Len(l) + 1) /\ 4 + N \in (5 - 1)..Len(l)
    BY <1>8
  <2>2. /\ SubSeq(l, 5, 4 + N) \in Seq(Tokens)
        /\ Len(SubSeq(l, 5, 4 + N)) = (4 + N) - 5 + 1
        /\ \A i \in 1..((4 + N) - 5 + 1) : SubSeq(l, 5, 4 + N)[i] = l[5 + i - 1]
    BY <2>1, PartOfText
  <2>3. PICK q \in Seq(Tokens) : q = SubSeq(l, 5, 4 + N)
    BY <2>2
  <2>4. Len(q) = N /\ \A i \in 1..N : q[i] = l[4 + i]
    BY <2>2, <2>3
  <2>5. Len(q) = Len(v) /\ \A i \in 1..Len(q) : q[i] = v[i]
    BY <1>7, <1>9, <2>4
  <2>6. q = v
    BY <1>1, <2>5, SeqEqual
  <2> QED
    BY <2>3, <2>6
<1> QED
  BY <1>3, <1>6, <1>9, <1>12, <1>13

-----------------------------------------------------------------------------
(* Commands *)

\* What is stored under a key: a value that SET can have been given.
IsEntry(e) == \E v, x : e = [value |-> v, expireAt |-> x] /\ IsValue(v)

\* The keys are words and the values such values.
MapOK ==
    /\ map = [k \in DOMAIN map |-> map[k]]
    /\ \A k \in DOMAIN map : k \in Words /\ IsEntry(map[k])

\* The inductive invariant.  That a value can be typed again is a matter of its
\* two ends, which only the SET that stored it can show.
CommandsInv ==
    /\ ParserInv
    /\ MapOK
    /\ Len(response) > 0
    /\ ExpireNilMeansAbsent

\* It implies what a client relies on.
LEMMA CommandsInvImplies == CommandsInv => ResponsesTrue
<1> SUFFICES ASSUME CommandsInv PROVE ResponsesTrue
  OBVIOUS
<1>1. ASSUME NEW k \in DOMAIN map PROVE k \in Words /\ IsValue(map[k].value)
  <2>1. k \in Words /\ IsEntry(map[k])
    BY DEF CommandsInv, MapOK
  <2>2. PICK v, x : map[k] = [value |-> v, expireAt |-> x] /\ IsValue(v)
    BY <2>1 DEF IsEntry
  <2> QED
    BY <2>1, <2>2
<1>2. ValuesCopyable
  <2> SUFFICES ASSUME NEW k \in DOMAIN map, NEW op \in Words, Upper[op] = "SET"
               PROVE  ParseCommand(<<op, Space, k, Space>> \o map[k].value)
                        = [type |-> "SET", key |-> k, value |-> map[k].value, seconds |-> 0]
    BY DEF ValuesCopyable
  <2>1. PICK v : v = map[k].value
    OBVIOUS
  <2>2. ParseCommand(<<op, Space, k, Space>> \o v) = SetCommand(k, v)
    BY <1>1, <2>1, ValueCopied
  <2> QED
    BY <2>1, <2>2 DEF SetCommand
<1>3. CommandsTypeOK
  <2>1. \A k \in DOMAIN map : map[k].value \in Seq(Words \cup {Space}) \ {<<>>}
    <3> TAKE k \in DOMAIN map
    <3>1. PICK v : v = map[k].value
      OBVIOUS
    <3>2. IsValue(v)
      BY <1>1, <3>1
    <3>3. v \in Seq(Words \cup {Space}) /\ v # <<>>
      BY <3>2, EmptySeq DEF IsValue, Tokens
    <3> QED
      BY <3>1, <3>3
  <2> QED
    BY <1>1, <2>1, ParserTypes DEF CommandsInv, CommandsTypeOK
<1> QED
  BY <1>2, <1>3 DEF CommandsInv, ResponsesTrue

\* Nothing is stored at first.
LEMMA CommandsInvInit == CommandsInit => CommandsInv
<1> SUFFICES ASSUME CommandsInit PROVE CommandsInv
  OBVIOUS
<1>1. map = [k \in {} |-> Nil]
  BY DEF CommandsInit, Store!Init
<1>2. DOMAIN map = {}
  BY <1>1
<1>3. MapOK
  BY <1>1, <1>2 DEF MapOK
<1>4. Len(response) > 0
  BY DEF CommandsInit
<1>5. ExpireNilMeansAbsent
  BY <1>2 DEF ExpireNilMeansAbsent
<1> QED
  BY <1>3, <1>4, <1>5, ParserInvInit DEF CommandsInv, CommandsInit

\* What every command keeps.
Answers == MapOK' /\ Len(response') > 0

\* A command that only reads.
LEMMA MapStays ==
    ASSUME MapOK, UNCHANGED map
    PROVE  MapOK'
BY DEF MapOK

\* PING, QUIT, HELP and what is no command.
LEMMA ExecuteFixed ==
    ASSUME MapOK, NEW c, c.type \in DOMAIN FixedResponse,
           response' = FixedResponse[c.type], UNCHANGED storeVars
    PROVE  Answers
<1>1. c.type \in {"PING", "QUIT", "Unknown", "HELP"}
  BY DEF FixedResponse
<1>2. Len(response') > 0
  <2>1. CASE c.type = "PING"
    BY <2>1 DEF FixedResponse
  <2>2. CASE c.type = "QUIT"
    BY <2>2 DEF FixedResponse
  <2>3. CASE c.type = "Unknown"
    BY <2>3 DEF FixedResponse
  <2>4. CASE c.type = "HELP"
    <3>1. FixedResponse["HELP"] = <<"Supported commands">>
      BY Zenon DEF FixedResponse
    <3>2. \E a : response' = <<a>>
      BY <2>4, <3>1, Zenon
    <3> QED
      BY <3>2
  <2> QED
    BY <1>1, <2>1, <2>2, <2>3, <2>4
<1>3. MapOK'
  BY MapStays DEF storeVars
<1> QED
  BY <1>2, <1>3 DEF Answers

\* SET.
LEMMA ExecuteSet ==
    ASSUME MapOK, NEW k \in Words, NEW v, IsValue(v), Store!Set(k, v), response' = Ok
    PROVE  Answers
<1> DEFINE e == [value |-> v, expireAt |-> NoExpiry]
           new == [x \in DOMAIN map \cup {k} |-> IF x = k THEN e ELSE map[x]]
<1>1. IsEntry(e)
  BY DEF IsEntry
<1>2. map' = new
  BY DEF Store!Set, Store!With
<1> HIDE DEF e
<1>3. DOMAIN map' = DOMAIN map \cup {k} /\ map' = [x \in DOMAIN map' |-> map'[x]]
  BY <1>2
<1>4. ASSUME NEW x \in DOMAIN map' PROVE x \in Words /\ IsEntry(map'[x])
  <2>1. CASE x = k
    BY <1>1, <1>2, <2>1
  <2>2. CASE x # k
    <3>1. x \in DOMAIN map /\ map'[x] = map[x]
      BY <1>2, <1>3, <1>4, <2>2
    <3> QED
      BY <3>1 DEF MapOK
  <2> QED
    BY <2>1, <2>2
<1>5. MapOK'
  BY <1>3, <1>4 DEF MapOK
<1>6. Len(response') > 0
  BY DEF Ok
<1> QED
  BY <1>5, <1>6 DEF Answers

\* GET.
LEMMA ExecuteGet ==
    ASSUME MapOK, NEW k, Store!Get(k), response' = GetResponse(ret')
    PROVE  Answers
<1>1. MapOK'
  BY MapStays DEF Store!Get
<1>2. CASE k \in DOMAIN map
  <2>1. PICK v, x : map[k] = [value |-> v, expireAt |-> x] /\ IsValue(v)
    BY <1>2 DEF MapOK, IsEntry
  <2>2. ret' = Store!GetReply(k, TRUE, v)
    BY <1>2, <2>1 DEF Store!Get
  <2>3. response' = <<"$">> \o v
    BY <2>2 DEF GetResponse, Store!GetReply
  <2>4. Len(<<"$">> \o v) > 0
    <3>1. PICK S : S = Tokens \cup {"$"}
      OBVIOUS
    <3>2. v \in Seq(S)
      BY <2>1, <3>1, SeqMonotonic DEF IsValue
    <3>3. <<"$">> \in Seq(S) /\ Len(<<"$">>) = 1
      BY <3>1
    <3>4. PICK h \in Seq(S) : h = <<"$">>
      BY <3>3
    <3>5. Len(h \o v) = Len(h) + Len(v) /\ Len(v) \in Nat
      BY <3>2, ConcatProperties, LenProperties
    <3> QED
      BY <3>3, <3>4, <3>5
  <2> QED
    BY <1>1, <2>3, <2>4 DEF Answers
<1>3. CASE k \notin DOMAIN map
  <2>1. ret' = Store!GetReply(k, FALSE, Nil)
    BY <1>3 DEF Store!Get
  <2>2. response' = NilResponse
    BY <2>1 DEF GetResponse, Store!GetReply
  <2> QED
    BY <1>1, <2>2 DEF Answers, NilResponse
<1> QED
  BY <1>2, <1>3

\* DEL.
LEMMA ExecuteDel ==
    ASSUME MapOK, NEW k, Store!Del(k), response' = DoneResponse(ret')
    PROVE  Answers
<1>1. map' = [x \in DOMAIN map \ {k} |-> map[x]]
  BY DEF Store!Del, Store!Restrict
<1>2. MapOK'
  BY <1>1 DEF MapOK
<1>3. Len(response') > 0
  BY DEF DoneResponse, Ok, NilResponse
<1> QED
  BY <1>2, <1>3 DEF Answers

\* EXPIRE, whose time is positive: only a missing key makes it fail.
LEMMA ExecuteExpire ==
    ASSUME MapOK, NEW k, NEW s \in Nat \ {0}, Store!Expire(k, s), response' = DoneResponse(ret')
    PROVE  Answers /\ (response' = NilResponse => k \notin DOMAIN map')
<1>1. Len(response') > 0
  BY DEF DoneResponse, Ok, NilResponse
<1>2. ret'.ok = (k \in DOMAIN map)
  BY DEF Store!Expire, Store!ExpireReply
<1>3. response' = NilResponse => k \notin DOMAIN map
  <2>1. Ok # NilResponse
    BY DEF Ok, NilResponse
  <2> QED
    BY <1>2, <2>1 DEF DoneResponse
<1>4. CASE k \in DOMAIN map
  <2>1. PICK y : y = clock + s * TicksPerSecond
    OBVIOUS
  <2>2. map' = [map EXCEPT ![k].expireAt = y]
    BY <1>4, <2>1 DEF Store!Expire
  <2>3. DOMAIN map' = DOMAIN map /\ map' = [x \in DOMAIN map' |-> map'[x]]
    BY <2>2 DEF MapOK
  <2>4. PICK v, z : map[k] = [value |-> v, expireAt |-> z] /\ IsValue(v)
    BY <1>4 DEF MapOK, IsEntry
  <2>5. map'[k] = [value |-> v, expireAt |-> y]
    BY <1>4, <2>2, <2>4 DEF MapOK
  <2>6. ASSUME NEW x \in DOMAIN map' PROVE x \in Words /\ IsEntry(map'[x])
    <3>1. CASE x = k
      BY <1>4, <2>4, <2>5, <3>1 DEF MapOK, IsEntry
    <3>2. CASE x # k
      <4>1. map'[x] = map[x] /\ x \in DOMAIN map
        BY <2>2, <2>3, <2>6, <3>2 DEF MapOK
      <4> QED
        BY <4>1 DEF MapOK
    <3> QED
      BY <3>1, <3>2
  <2>7. MapOK'
    BY <2>3, <2>6 DEF MapOK
  <2> QED
    BY <1>1, <1>3, <1>4, <2>7 DEF Answers
<1>5. CASE k \notin DOMAIN map
  <2>1. UNCHANGED map
    BY <1>5 DEF Store!Expire
  <2>2. MapOK'
    BY <2>1, MapStays
  <2> QED
    BY <1>1, <1>5, <2>1, <2>2 DEF Answers
<1> QED
  BY <1>4, <1>5

\* TTL and STATS.
LEMMA ExecuteReads ==
    ASSUME MapOK, NEW k,
           \/ Store!Ttl(k) /\ response' = <<"$", ToString(ret'.secs)>>
           \/ Store!Stats /\ response' = StatsResponse(ret')
    PROVE  Answers
<1>1. UNCHANGED map
  BY DEF Store!Ttl, Store!Stats
<1>2. Len(response') > 0
  <2>1. \A a, b, c, d : Len(<<a, b, c, d>>) > 0 /\ Len(<<a, b>>) > 0
    OBVIOUS
  <2> QED
    BY <2>1 DEF StatsResponse
<1> QED
  BY <1>1, <1>2, MapStays DEF Answers

\* One request and its answer.
LEMMA ExecuteKeeps ==
    ASSUME MapOK, NEW l \in Seq(Tokens), Execute(ParseCommand(l))
    PROVE  /\ Answers
           /\ ParseCommand(l).type = "EXPIRE" /\ response' = NilResponse =>
                 ParseCommand(l).key \notin DOMAIN map'
<1>1. PICK c : c = ParseCommand(l)
  OBVIOUS
<1>2. IsParsed(l, c) /\ Execute(c)
  BY <1>1, ParseForms
<1>3. IntMax \in Nat \ {0}
  BY ParserAssumption
<1>4. c.type = "SET" => c.key \in Words /\ IsValue(c.value)
  <2> SUFFICES ASSUME c.type = "SET" PROVE c.key \in Words /\ IsValue(c.value)
    OBVIOUS
  <2>1. c # Unknown /\ \A op, k, s : c = PlainCommand(op, k, s) => op = "SET"
    BY DEF Unknown, PlainCommand
  <2>2. IsSet(l, c)
    BY <1>2, <2>1 DEF IsParsed
  <2>3. PICK i, j, m, n : Laid(l, i, j, m, n) /\ c = SetCommand(l[j], SubSeq(l, m, n))
    BY <2>2 DEF IsSet
  <2>4. PICK k, v : k = l[j] /\ v = SubSeq(l, m, n)
    OBVIOUS
  <2>5. IsValue(v) /\ k \in Words
    BY <2>3, <2>4, LaidValue
  <2>6. c = SetCommand(k, v)
    BY <2>3, <2>4
  <2>7. c.key = k /\ c.value = v
    BY <2>6 DEF SetCommand
  <2> QED
    BY <2>5, <2>7
<1>5. c.type = "EXPIRE" => c.seconds \in Nat \ {0}
  <2> SUFFICES ASSUME c.type = "EXPIRE" PROVE c.seconds \in Nat \ {0}
    OBVIOUS
  <2>1. c # Unknown /\ \A op, k, s : c = PlainCommand(op, k, s) => op = "EXPIRE"
    BY DEF Unknown, PlainCommand
  <2>2. ~IsSet(l, c)
    <3>1. \A k, v : c # SetCommand(k, v)
      BY DEF SetCommand
    <3> QED
      BY <3>1 DEF IsSet
  <2>3. PICK k \in Words, s \in 1..IntMax : c = PlainCommand("EXPIRE", k, s)
    BY <1>2, <2>1, <2>2 DEF IsParsed
  <2>4. c.seconds = s
    BY <2>3 DEF PlainCommand
  <2> QED
    BY <1>3, <2>4
<1>6. CASE /\ c.type \in DOMAIN FixedResponse
           /\ response' = FixedResponse[c.type] /\ UNCHANGED storeVars
  <2>1. "EXPIRE" \notin DOMAIN FixedResponse
    BY DEF FixedResponse
  <2>2. Answers
    BY <1>6, ExecuteFixed
  <2> QED
    BY <1>1, <1>6, <2>1, <2>2
<1>7. CASE c.type = "SET" /\ Store!Set(c.key, c.value) /\ response' = Ok
  <2>1. Answers
    BY <1>4, <1>7, ExecuteSet
  <2> QED
    BY <1>1, <1>7, <2>1
<1>8. CASE c.type = "GET" /\ Store!Get(c.key) /\ response' = GetResponse(ret')
  <2>1. Answers
    BY <1>8, ExecuteGet
  <2> QED
    BY <1>1, <1>8, <2>1
<1>9. CASE c.type = "DEL" /\ Store!Del(c.key) /\ response' = DoneResponse(ret')
  <2>1. Answers
    BY <1>9, ExecuteDel
  <2> QED
    BY <1>1, <1>9, <2>1
<1>10. CASE c.type = "EXPIRE" /\ Store!Expire(c.key, c.seconds) /\ response' = DoneResponse(ret')
  <2>1. Answers /\ (response' = NilResponse => c.key \notin DOMAIN map')
    BY <1>5, <1>10, ExecuteExpire
  <2> QED
    BY <1>1, <2>1
<1>11. CASE \/ c.type = "TTL" /\ Store!Ttl(c.key) /\ response' = <<"$", ToString(ret'.secs)>>
            \/ c.type = "STATS" /\ Store!Stats /\ response' = StatsResponse(ret')
  <2>1. Answers
    BY <1>11, ExecuteReads
  <2>2. c.type # "EXPIRE"
    BY <1>11
  <2> QED
    BY <1>1, <2>1, <2>2
<1> QED
  BY <1>2, <1>6, <1>7, <1>8, <1>9, <1>10, <1>11 DEF Execute

\* ProcessPayload.
LEMMA PayloadKeeps ==
    ASSUME CommandsInv, NEW payload \in Requests, ProcessPayload(payload)
    PROVE  CommandsInv'
<1>1. payload \in Lines /\ payload \in Seq(Tokens)
  BY CommandsAssumption, ParserAssumption DEF Tokens
<1>2. Parse(payload) /\ Execute(ParseCommand(payload)) /\ MapOK
  BY DEF ProcessPayload, CommandsInv
<1>3. ParserInv'
  BY <1>1, <1>2, ParseKeeps
<1>4. /\ Answers
      /\ ParseCommand(payload).type = "EXPIRE" /\ response' = NilResponse =>
            ParseCommand(payload).key \notin DOMAIN map'
  BY <1>1, <1>2, ExecuteKeeps
<1>5. cmd' = ParseCommand(payload)
  BY <1>2 DEF Parse
<1>6. ExpireNilMeansAbsent'
  BY <1>4, <1>5 DEF ExpireNilMeansAbsent, NilResponse
<1> QED
  BY <1>3, <1>4, <1>6 DEF Answers, CommandsInv

\* Keys whose time has come are gone; the others keep their values.
LEMMA TickKeeps ==
    ASSUME CommandsInv, Tick
    PROVE  CommandsInv'
<1>1. UNCHANGED <<line, cmd, response>>
  BY DEF Tick
<1>2. PICK S : S \subseteq DOMAIN map /\ map' = [x \in S |-> map[x]]
  <2> DEFINE S == {x \in DOMAIN map : map[x].expireAt = NoExpiry \/ clock + 1 < map[x].expireAt}
  <2>1. map' = [x \in S |-> map[x]]
    BY DEF Tick, Store!Tick, Store!RestrictValues, Store!Restrict
  <2>2. S \subseteq DOMAIN map
    OBVIOUS
  <2> QED
    BY <2>1, <2>2
<1>3. DOMAIN map' = S /\ \A x \in S : map'[x] = map[x]
  BY <1>2
<1>4. MapOK'
  BY <1>2, <1>3 DEF CommandsInv, MapOK
<1>5. ParserInv'
  BY <1>1 DEF CommandsInv, ParserInv
<1>6. ExpireNilMeansAbsent'
  BY <1>1, <1>2, <1>3 DEF CommandsInv, ExpireNilMeansAbsent
<1> QED
  BY <1>1, <1>4, <1>5, <1>6 DEF CommandsInv

\* For all requests, in any order and at any time: what GET returns can be SET
\* again under any key and is then stored unchanged, and EXPIRE answers nil only
\* for a key that does not exist (ParseCommand, CommandExecutor::Execute).
THEOREM ResponsesAlwaysTrue == CommandsSpec => []ResponsesTrue
<1>1. CommandsInv /\ [CommandsNext]_commandVars => CommandsInv'
  <2> SUFFICES ASSUME CommandsInv, [CommandsNext]_commandVars PROVE CommandsInv'
    OBVIOUS
  <2>1. CASE \E payload \in Requests : ProcessPayload(payload)
    BY <2>1, PayloadKeeps
  <2>2. CASE Tick
    BY <2>2, TickKeeps
  <2>3. CASE UNCHANGED commandVars
    <3>1. UNCHANGED <<line, cmd, map, response>>
      BY <2>3 DEF commandVars
    <3>2. MapOK'
      BY <3>1, MapStays DEF CommandsInv
    <3>3. ParserInv' /\ ExpireNilMeansAbsent' /\ Len(response') > 0
      BY <3>1 DEF CommandsInv, ParserInv, ExpireNilMeansAbsent
    <3> QED
      BY <3>2, <3>3 DEF CommandsInv
  <2> QED
    BY <2>1, <2>2, <2>3 DEF CommandsNext
<1> QED
  BY <1>1, CommandsInvInit, CommandsInvImplies, PTL DEF CommandsSpec

=============================================================================
