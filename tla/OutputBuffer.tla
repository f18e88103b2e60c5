----------------------------- MODULE OutputBuffer ------------------------------
(***************************************************************************)
(* The write buffer of a connection: a string and the position of its      *)
(* first byte not sent.  Sent bytes stay in front until compaction.        *)
(***************************************************************************)
EXTENDS Integers, Sequences

CONSTANTS
    Byte,
    Chunks,              \* the strings appended
    Sizes,               \* the arguments of Consume
    COMPACT_THRESHOLD,
    MaxStorage           \* bound: the length to which Append lets m_storage grow

ASSUME OutputBufferAssumption ==
    /\ Chunks \subseteq Seq(Byte)
    /\ Sizes \subseteq Nat
    /\ COMPACT_THRESHOLD \in Nat \ {0}
    /\ MaxStorage \in Nat

VARIABLES m_storage, m_readPos,
          thrown   \* whether the latest call threw

vars == <<m_storage, m_readPos, thrown>>

Init ==
    /\ m_storage = <<>>
    /\ m_readPos = 0
    /\ thrown = FALSE

Size == Len(m_storage) - m_readPos

\* Data and Size: what HandleClientWrite passes to send.
Data == SubSeq(m_storage, m_readPos + 1, Len(m_storage))

ShouldCompact(storage, readPos) ==
    /\ readPos >= COMPACT_THRESHOLD
    /\ readPos >= Len(storage) \div 2

\* Mutant: the position is not reset.
CompactsKeepingPosition(storage, readPos) ==
    IF ShouldCompact(storage, readPos)
    THEN [storage |-> SubSeq(storage, readPos + 1, Len(storage)), readPos |-> readPos]
    ELSE [storage |-> storage, readPos |-> readPos]

CompactIfNeed(storage, readPos) ==
    IF ShouldCompact(storage, readPos)
    THEN [storage |-> SubSeq(storage, readPos + 1, Len(storage)), readPos |-> 0]
    ELSE [storage |-> storage, readPos |-> readPos]

\* Append.  (The name belongs to module Sequences.)
AppendData(data) ==
    /\ Len(m_storage) + Len(data) <= MaxStorage
    /\ \/ /\ data = <<>>
          /\ UNCHANGED <<m_storage, m_readPos>>
       \/ /\ data # <<>>
          /\ LET compacted == CompactIfNeed(m_storage, m_readPos)
             IN  /\ m_storage' = compacted.storage \o data
                 /\ m_readPos' = compacted.readPos
    /\ thrown' = FALSE

\* Consume with more bytes than there are throws.
ConsumeThrows(bytes) ==
    /\ bytes > Size
    /\ thrown' = TRUE
    /\ UNCHANGED <<m_storage, m_readPos>>

\* Mutant: the test for the end of the storage is missing, and so is Clear.
ConsumeWithoutClear(bytes) ==
    /\ bytes <= Size
    /\ LET compacted == CompactIfNeed(m_storage, m_readPos + bytes)
       IN  /\ m_storage' = compacted.storage
           /\ m_readPos' = compacted.readPos
    /\ thrown' = FALSE

Consume(bytes) ==
    /\ bytes <= Size
    /\ \/ /\ m_readPos + bytes = Len(m_storage)
          /\ m_storage' = <<>>
          /\ m_readPos' = 0
       \/ /\ m_readPos + bytes # Len(m_storage)
          /\ LET compacted == CompactIfNeed(m_storage, m_readPos + bytes)
             IN  /\ m_storage' = compacted.storage
                 /\ m_readPos' = compacted.readPos
    /\ thrown' = FALSE

Clear ==
    /\ m_storage' = <<>>
    /\ m_readPos' = 0
    /\ thrown' = FALSE

Next ==
    \/ \E data \in Chunks : AppendData(data)
    \/ \E bytes \in Sizes : Consume(bytes) \/ ConsumeThrows(bytes)
    \/ Clear

Spec == Init /\ [][Next]_vars

-----------------------------------------------------------------------------
\* The position stays within the storage: Data never points behind it and Size,
\* a subtraction of two size_t, never wraps.
TypeOK ==
    /\ m_storage \in Seq(Byte)
    /\ m_readPos \in 0..Len(m_storage)
    /\ thrown \in BOOLEAN

\* Sent bytes are not kept for ever: the consumed prefix is shorter than the
\* threshold or than half of the storage, and an emptied buffer keeps nothing,
\* whatever the sizes of the writes and appends that led there.
WasteBounded ==
    /\ m_readPos < COMPACT_THRESHOLD \/ m_readPos < Len(m_storage) \div 2
    /\ m_readPos = Len(m_storage) => m_storage = <<>>

\* The read position stays within the storage, and the sent bytes that are still
\* stored are fewer than the threshold or than half of the storage.
BufferBounded == TypeOK /\ WasteBounded

Queue == INSTANCE ByteQueue WITH pending <- Data

\* The buffer is a byte queue: no sequence of appends, partial writes and
\* compactions loses, repeats or reorders a byte of a response.
RefinesByteQueue == Queue!Spec

=============================================================================
