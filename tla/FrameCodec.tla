------------------------------ MODULE FrameCodec ------------------------------
(***************************************************************************)
(* class FrameCodec: a payload travels as a header with its length, most   *)
(* significant byte first, followed by its bytes.  A byte is a digit of    *)
(* base Base (256 in the code), a header has HEADER_SIZE of them (4).      *)
(***************************************************************************)
EXTENDS Integers, Sequences, SequencesExt

CONSTANTS Base, HEADER_SIZE, MAX_FRAME_SIZE

Power[k \in Nat] == IF k = 0 THEN 1 ELSE Base * Power[k - 1]

\* 2^32: a header says less than this.
HeaderLimit == Power[HEADER_SIZE]

\* A header can say more than is allowed.
ASSUME CodecAssumption ==
    /\ Base \in Nat \ {0, 1} /\ HEADER_SIZE \in Nat \ {0}
    /\ MAX_FRAME_SIZE \in 0..(HeaderLimit - 1)

Digit == 0..(Base - 1)

\* htonl and ntohl.
Header(n) == [i \in 1..HEADER_SIZE |-> (n \div Power[HEADER_SIZE - i]) % Base]

HeaderValue(buffer) ==
    LET value[i \in 0..HEADER_SIZE] ==
            IF i = 0 THEN 0 ELSE value[i - 1] * Base + buffer[i]
    IN  value[HEADER_SIZE]

-----------------------------------------------------------------------------
\* The cast to uint32_t.
PayloadLen(payload) == Len(payload) % HeaderLimit

EncodeThrows(payload) == PayloadLen(payload) > MAX_FRAME_SIZE

\* The frame has room for PayloadLen bytes, and that is what is sent of it; the
\* copy of a longer payload goes on past its end (undefined behaviour, of which
\* the model keeps the outcome that the program survives).
Encode(payload) == Header(PayloadLen(payload)) \o SubSeq(payload, 1, PayloadLen(payload))

-----------------------------------------------------------------------------
HasHeader(buffer) == Len(buffer) >= HEADER_SIZE

TooLarge(buffer) == HasHeader(buffer) /\ HeaderValue(buffer) > MAX_FRAME_SIZE

TotalSize(buffer) == HEADER_SIZE + HeaderValue(buffer)

\* Not half of a frame, for which Decode waits until the next read.
HasFrame(buffer) ==
    HasHeader(buffer) /\ ~TooLarge(buffer) /\ Len(buffer) >= TotalSize(buffer)

\* buffer.substr(HEADER_SIZE, payloadLen)
Payload(buffer) == SubSeq(buffer, HEADER_SIZE + 1, TotalSize(buffer))

\* Mutant: the rest of the buffer goes with the frame.
AfterFrame_Empty(buffer) == <<>>

\* buffer.erase(0, totalSize)
AfterFrame(buffer) == SubSeq(buffer, TotalSize(buffer) + 1, Len(buffer))

\* Decode: the payloads it returns, what it leaves in the buffer and whether it
\* throws, which loses the payloads it has taken out.  left[n] is the buffer after
\* n frames have been taken out of it.
Decode(whole) ==
    LET left[n \in 0..Len(whole)] ==
            IF n = 0 THEN whole
            ELSE LET buffer == left[n - 1]
                 IN  IF HasFrame(buffer) THEN AfterFrame(buffer) ELSE buffer
        rounds == Min({n \in 0..Len(whole) : ~HasFrame(left[n])})
        throws == TooLarge(left[rounds])
    IN  [frames |-> IF throws THEN <<>> ELSE [n \in 1..rounds |-> Payload(left[n - 1])],
         buffer |-> left[rounds],
         throws |-> throws]

=============================================================================
