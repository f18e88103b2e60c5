----------------------------- MODULE FrameStream ------------------------------
(***************************************************************************)
(* A sender that encodes payloads, TCP, which may cut its bytes anywhere,  *)
(* and a receiver that appends what it gets to the buffer of its           *)
(* connection and decodes it.  The sender may also be a program that       *)
(* announces a frame longer than the receiver allows.                      *)
(***************************************************************************)
EXTENDS FrameCodec

CONSTANTS
    Payloads,    \* what the sender is asked to send
    ReadChunk,   \* the most one recv returns
    MaxFrames    \* bound: frames sent

ASSUME StreamAssumption ==
    /\ Payloads \subseteq Seq(Digit) /\ ReadChunk \in Nat \ {0} /\ MaxFrames \in Nat

VARIABLES
    wire,       \* bytes on their way
    readBuffer, \* the connection's readBuffer
    sent,       \* history: the payloads Encode has accepted
    received,   \* the payloads Decode has returned
    broken,     \* Decode has thrown; its caller reads no more
    foreign     \* history: an oversized header has been sent

streamVars == <<wire, readBuffer, sent, received, broken, foreign>>

StreamInit ==
    /\ wire = <<>> /\ readBuffer = <<>> /\ sent = <<>> /\ received = <<>>
    /\ broken = FALSE /\ foreign = FALSE

Send(payload) ==
    /\ Len(sent) < MaxFrames /\ ~foreign
    /\ ~EncodeThrows(payload)
    /\ wire' = wire \o Encode(payload)
    /\ sent' = Append(sent, payload)
    /\ UNCHANGED <<readBuffer, received, broken, foreign>>

SendOversizedHeader(n) ==
    /\ ~foreign
    /\ wire' = wire \o Header(n)
    /\ foreign' = TRUE
    /\ UNCHANGED <<readBuffer, sent, received, broken>>

\* Mutant: what an earlier call has left in the buffer is overwritten.
Appended_Overwrites(n) == SubSeq(wire, 1, n)

\* Decode(buffer, data, size) appends the data first.
Appended(n) == readBuffer \o SubSeq(wire, 1, n)

Receive(n) ==
    LET decoded == Decode(Appended(n))
    IN  /\ ~broken
        /\ wire' = SubSeq(wire, n + 1, Len(wire))
        /\ readBuffer' = decoded.buffer
        /\ received' = received \o decoded.frames
        /\ broken' = decoded.throws
        /\ UNCHANGED <<sent, foreign>>

StreamNext ==
    \/ \E payload \in Payloads : Send(payload)
    \/ \E n \in (MAX_FRAME_SIZE + 1)..(HeaderLimit - 1) : SendOversizedHeader(n)
    \/ \E n \in 1..Len(wire) : n <= ReadChunk /\ Receive(n)

StreamSpec == StreamInit /\ [][StreamNext]_streamVars

-----------------------------------------------------------------------------
\* Types; the buffer never holds a whole frame between two calls, which bounds
\* it by one frame.
StreamTypeOK ==
    /\ wire \in Seq(Digit) /\ readBuffer \in Seq(Digit)
    /\ sent \in Seq(Payloads) /\ received \in Seq(Seq(Digit))
    /\ broken \in BOOLEAN /\ foreign \in BOOLEAN
    /\ ~broken => Len(readBuffer) < HEADER_SIZE + MAX_FRAME_SIZE

\* However TCP cuts the stream, the receiver gets the payloads of the sender,
\* whole and in order (also the empty one).
Channel == INSTANCE PayloadChannel WITH
    queue <- SubSeq(sent, Len(received) + 1, Len(sent)), delivered <- received

ImplementsChannel == Channel!Spec

\* Decode waits for no byte more than it needs: once all has arrived nothing is
\* kept back.
NothingKeptBack ==
    wire = <<>> /\ ~foreign => received = sent /\ readBuffer = <<>>

\* Decode refuses only what the sender had no right to send.
BrokenForACause == broken => foreign

\* However the stream is cut into reads, a complete frame never waits in the buffer
\* and only bytes that Encode did not write break the connection.
StreamDecoded == StreamTypeOK /\ NothingKeptBack /\ BrokenForACause

\* frame_codec.cpp:28: a payload is not longer than the longest frame allowed.
LongPayloadsRefused == \A i \in 1..Len(sent) : Len(sent[i]) <= MAX_FRAME_SIZE

=============================================================================
