------------------------------- MODULE ByteQueue -------------------------------
(***************************************************************************)
(* What OutputBuffer promises: a queue of bytes.                           *)
(***************************************************************************)
EXTENDS Integers, Sequences

CONSTANTS
    Chunks,   \* the strings appended
    Sizes     \* the numbers of bytes consumed at once

VARIABLES
    pending,   \* the bytes not sent yet, in order
    thrown     \* whether the latest call threw

vars == <<pending, thrown>>

Init == pending = <<>> /\ thrown = FALSE

Enqueue(data) ==
    /\ pending' = pending \o data
    /\ thrown' = FALSE

Consume(bytes) ==
    \/ /\ bytes <= Len(pending)
       /\ pending' = SubSeq(pending, bytes + 1, Len(pending))
       /\ thrown' = FALSE
    \/ /\ bytes > Len(pending)
       /\ pending' = pending
       /\ thrown' = TRUE

Clear ==
    /\ pending' = <<>>
    /\ thrown' = FALSE

Next ==
    \/ \E data \in Chunks : Enqueue(data)
    \/ \E bytes \in Sizes : Consume(bytes)
    \/ Clear

Spec == Init /\ [][Next]_vars

=============================================================================
