------------------------------ MODULE Connection -------------------------------
(***************************************************************************)
(* One connection of a sub reactor, from AddClientInLoop to its removal:   *)
(* reading and decoding requests, queueing and writing responses, the      *)
(* watermarks, hangup, QUIT, protocol errors and draining.                 *)
(*                                                                         *)
(* Buffers are counted in bytes.  What a request is matters only by its    *)
(* kind: a command, QUIT, a frame whose header announces more than         *)
(* MAX_FRAME_SIZE, or a legal frame too long for the read buffer.          *)
(***************************************************************************)
EXTENDS Integers, Sequences, FiniteSetsExt

CONSTANTS
    RequestSize,         \* kind of request |-> bytes of its frame
    ResponseSize,        \* kind of request |-> bytes of the frame that answers it
    HeaderSize,          \* HEADER_SIZE
    ErrorSize,           \* bytes of the two error responses
    ReadChunk,           \* the size of HandleClientRead's array
    MaxReadBufferBytes,
    WriteLowWatermarkBytes,
    WriteHighWatermarkBytes,
    WriteHardLimitBytes,
    MaxWriteBytesPerEvent,
    SendRoom,            \* bytes the kernel takes from send before EAGAIN
    MaxRequests          \* bound: the peer sends this many requests

Kinds == {"command", "quit", "oversized", "long"}

ASSUME ConnectionAssumption ==
    /\ RequestSize \in [Kinds -> Nat \ {0}]
    /\ ResponseSize \in [Kinds -> Nat \ {0}]
    /\ HeaderSize \in Nat \ {0} /\ ErrorSize \in Nat \ {0} /\ ReadChunk \in Nat \ {0}
    /\ \A kind \in Kinds : RequestSize[kind] >= HeaderSize
    /\ RequestSize["long"] > MaxReadBufferBytes
    /\ \A kind \in {"command", "quit"} : RequestSize[kind] <= MaxReadBufferBytes
    \* What the constructor of TcpServer checks:
    /\ MaxReadBufferBytes \in Nat /\ MaxReadBufferBytes >= HeaderSize
    /\ WriteLowWatermarkBytes \in 0..WriteHighWatermarkBytes
    /\ WriteHighWatermarkBytes \in 0..WriteHardLimitBytes
    /\ WriteHardLimitBytes \in Nat
    /\ MaxWriteBytesPerEvent \in Nat \ {0}
    /\ SendRoom \in Nat \ {0} /\ MaxRequests \in Nat

VARIABLES
    conn,      \* the Connection
    m_poller,  \* the back end, "epoll" or "poll"
    m_state,   \* the sub reactor's: "Running", "Draining" or "Stopped"
    ready,     \* the events Wait has reported and the loop has yet to handle
    peer,      \* the other end, and what the kernel holds for it
    asked      \* history: the kinds of all requests sent

vars == <<conn, m_poller, m_state, ready, peer, asked>>

\* input: the requests sent and not decoded, the first readBytes bytes of
\* which are in readBuffer and the rest in the kernel.  Five fields are there
\* for the properties: the commands executed, the bytes MarkClosed threw away,
\* whether recv has returned 0, and two counters of ServerMetrics (as flags).
Init ==
    /\ conn = [input |-> <<>>, readBytes |-> 0, pending |-> 0,
               readPaused |-> FALSE, closeAfterWrite |-> FALSE, closed |-> FALSE,
               registered |-> {"Read"}, executed |-> 0, dropped |-> 0,
               inputEnded |-> FALSE, slowClient |-> FALSE, protocolError |-> FALSE]
    /\ m_poller \in {"epoll", "poll"}
    /\ m_state = "Running"
    /\ ready = {}
    /\ peer = [eof |-> FALSE, reset |-> FALSE, room |-> SendRoom]
    /\ asked = <<>>

-----------------------------------------------------------------------------
(***************************************************************************)
(* The handlers, as functions from a Connection to a Connection.           *)
(***************************************************************************)
MarkClosed(c) ==
    [c EXCEPT !.closed = TRUE, !.readPaused = FALSE, !.closeAfterWrite = FALSE,
              !.input = <<>>, !.readBytes = 0, !.pending = 0,
              !.dropped = @ + c.pending]

UpdateReadBackPressure(c) ==
    IF c.closeAfterWrite \/ c.closed THEN c
    ELSE [c EXCEPT !.readPaused = IF @ THEN c.pending > WriteLowWatermarkBytes
                                       ELSE c.pending >= WriteHighWatermarkBytes]

\* Mutant: the new frame is not counted.
LimitReached(c, size) == c.pending > WriteHardLimitBytes

ExceedsHardLimit(c, size) ==
    \/ c.pending > WriteHardLimitBytes
    \/ size > WriteHardLimitBytes - c.pending

\* QueueResponse; its result is false exactly when it closes the connection.
\* (No response is longer than MAX_FRAME_SIZE: Encode does not throw.)
QueueResponse(c, size) ==
    IF ExceedsHardLimit(c, size) THEN [MarkClosed(c) EXCEPT !.slowClient = TRUE]
    ELSE UpdateReadBackPressure([c EXCEPT !.pending = @ + size])

\* A last response, after which the connection is closed.
LastResponse(c, size) ==
    LET queued == QueueResponse(c, size)
    IN  IF queued.closed THEN queued ELSE [queued EXCEPT !.closeAfterWrite = TRUE]

\* Mutant: QUIT closes at once.
ProcessQuitAtOnce(c, kind) ==
    LET running == [c EXCEPT !.executed = @ + 1]
    IN  IF c.closed \/ c.closeAfterWrite THEN c
        ELSE IF kind = "quit" THEN MarkClosed(QueueResponse(running, ResponseSize[kind]))
        ELSE QueueResponse(running, ResponseSize[kind])

\* ProcessPayload; once it has returned false the loop over the payloads ends.
ProcessPayload(c, kind) ==
    LET running == [c EXCEPT !.executed = @ + 1]
    IN  IF c.closed \/ c.closeAfterWrite THEN c
        ELSE IF kind = "quit" THEN LastResponse(running, ResponseSize[kind])
        ELSE QueueResponse(running, ResponseSize[kind])

\* The loop over the first n payloads of a sequence.
ProcessPayloads(c, requests, n) ==
    LET after[i \in 0..n] == IF i = 0 THEN c ELSE ProcessPayload(after[i - 1], requests[i])
    IN  after[n]

\* The bytes of the first n requests of a sequence.
BytesOf(requests, n) ==
    LET sum[i \in 0..n] == IF i = 0 THEN 0 ELSE sum[i - 1] + RequestSize[requests[i]]
    IN  sum[n]

\* FrameCodec::Decode: the number of whole frames at the front of readBuffer;
\* an oversized header ends them, and throws once it is complete.
WholeFrames(c) ==
    Max({n \in 0..Len(c.input) :
            /\ BytesOf(c.input, n) <= c.readBytes
            /\ \A i \in 1..n : c.input[i] # "oversized"})

DecodeThrows(c) ==
    LET n == WholeFrames(c)
    IN  /\ n < Len(c.input) /\ c.input[n + 1] = "oversized"
        /\ c.readBytes - BytesOf(c.input, n) >= HeaderSize

\* The decoded frames leave readBuffer, also when Decode throws after them.
Decoded(c) ==
    LET n == WholeFrames(c)
    IN  [c EXCEPT !.input = SubSeq(@, n + 1, Len(@)),
                  !.readBytes = @ - BytesOf(c.input, n)]

\* What HandleClientRead does with received bytes.
Received(c, bytes) ==
    LET got == [c EXCEPT !.readBytes = @ + bytes]
    IN  IF DecodeThrows(got)
        THEN LastResponse([Decoded(got) EXCEPT !.protocolError = TRUE], ErrorSize)
        ELSE ProcessPayloads(Decoded(got), got.input, WholeFrames(got))

ReadSize(c) == Min({ReadChunk, MaxReadBufferBytes - c.readBytes})

\* Bytes the kernel holds for the connection.
Available(c) == BytesOf(c.input, Len(c.input)) - c.readBytes

\* recv returns 0.  The first statement of that branch is MarkClosed, which clears
\* writeBuffer: the flags that would let pending output go out first come too late,
\* and the second MarkClosed finds the buffer empty.
InputEnds(c) == MarkClosed([c EXCEPT !.inputEnded = TRUE])

\* HandleClientRead: the possible results of its one recv.
HandleClientRead(c) ==
    IF c.closed \/ c.readPaused \/ c.closeAfterWrite THEN {c}
    ELSE IF c.readBytes >= MaxReadBufferBytes THEN {LastResponse(c, ErrorSize)}
    ELSE {Received(c, bytes) : bytes \in 1..Min({ReadSize(c), Available(c)})}
         \cup (IF peer.reset THEN {MarkClosed(c)} ELSE {})
         \cup (IF peer.eof /\ Available(c) = 0 THEN {InputEnds(c)} ELSE {})
         \cup (IF Available(c) = 0 /\ ~peer.eof /\ ~peer.reset THEN {c} ELSE {})

CloseIfDone(c) ==
    IF c.closeAfterWrite /\ c.pending = 0 THEN MarkClosed(c) ELSE c

\* The bytes one send takes.
WriteSize(c) == Min({c.pending, MaxWriteBytesPerEvent, peer.room})

\* HandleClientWrite, when send takes what the kernel has room for.
HandleClientWrite(c) ==
    IF c.closed THEN c
    ELSE IF c.pending > 0 /\ peer.reset THEN MarkClosed(c)
    ELSE IF c.pending > 0 /\ peer.room = 0 THEN c
    ELSE CloseIfDone(UpdateReadBackPressure([c EXCEPT !.pending = @ - WriteSize(c)]))

HandleHangup(c) ==
    IF c.closed THEN c
    ELSE CloseIfDone([c EXCEPT !.readPaused = TRUE, !.closeAfterWrite = TRUE])

DesiredEvents(c) ==
    {event \in {"Read", "Write"} :
        /\ ~c.closed
        /\ event = "Read" => ~c.readPaused /\ ~c.closeAfterWrite
        /\ event = "Write" => c.pending > 0}

\* Mutant: Modity is called only when the interest in reading changes.
RefreshReadOnly(c) ==
    LET u == CloseIfDone(UpdateReadBackPressure(c))
    IN  IF u.closed THEN u
        ELSE IF DesiredEvents(u) = {} THEN MarkClosed(u)
        ELSE IF "Read" \in DesiredEvents(u) <=> "Read" \in u.registered THEN u
        ELSE [u EXCEPT !.registered = DesiredEvents(u)]

\* Mutant: an interest in reading, once given up, is not registered again.
RefreshNeverResumes(c) ==
    LET u == CloseIfDone(UpdateReadBackPressure(c))
    IN  IF u.closed THEN u
        ELSE IF DesiredEvents(u) = {} THEN MarkClosed(u)
        ELSE [u EXCEPT !.registered = DesiredEvents(u) \cap (@ \cup {"Write"})]

\* RefreshConnectionInterest.  (A Modity that throws ends the reactor: SubFails
\* of module Server.)
RefreshConnectionInterest(c) ==
    LET u == CloseIfDone(UpdateReadBackPressure(c))
    IN  IF u.closed THEN u
        ELSE IF DesiredEvents(u) = {} THEN MarkClosed(u)
        ELSE [u EXCEPT !.registered = DesiredEvents(u)]

-----------------------------------------------------------------------------
(***************************************************************************)
(* The sub reactor's steps on this connection.                             *)
(***************************************************************************)
\* Mutant: poll asks for POLLRDHUP as well and takes it for a hangup.
PollEvents_RdHup ==
    (IF peer.reset THEN {"Error"} ELSE {})
    \cup (IF peer.reset \/ peer.eof THEN {"Hangup"} ELSE {})
    \cup (IF Available(conn) > 0 \/ peer.eof \/ peer.reset
          THEN conn.registered \cap {"Read"} ELSE {})
    \cup (IF peer.room > 0 \/ peer.reset
          THEN conn.registered \cap {"Write"} ELSE {})

\* What poll has to report; both back ends are level-triggered.
PollEvents ==
    (IF peer.reset THEN {"Error", "Hangup"} ELSE {})
    \cup (IF Available(conn) > 0 \/ peer.eof \/ peer.reset
          THEN conn.registered \cap {"Read"} ELSE {})
    \cup (IF peer.room > 0 \/ peer.reset
          THEN conn.registered \cap {"Write"} ELSE {})

\* epoll reports a half close too, whatever is registered (EPOLLRDHUP).
EpollEvents == PollEvents \cup (IF peer.eof THEN {"Hangup"} ELSE {})

Pollable == IF m_poller = "epoll" THEN EpollEvents ELSE PollEvents

\* Poller::Wait.
Wait ==
    /\ ~conn.closed /\ ready = {}
    /\ Pollable # {}
    /\ ready' = Pollable
    /\ UNCHANGED <<m_poller, conn, m_state, peer, asked>>

\* The body of the loop over the ready events, then CleanupClosedConnections:
\* a closed connection takes part in nothing more.
HandleEvents ==
    /\ ready # {} /\ ~conn.closed
    /\ \E c \in IF m_state = "Running" /\ "Read" \in ready
                THEN HandleClientRead(conn) ELSE {conn} :
          LET written == IF "Write" \in ready THEN HandleClientWrite(c) ELSE c
              hungUp  == IF "Hangup" \in ready THEN HandleHangup(written) ELSE written
          IN  /\ conn' = IF "Error" \in ready THEN MarkClosed(conn)
                         ELSE RefreshConnectionInterest(hungUp)
              /\ peer' = IF \/ "Error" \in ready \/ "Write" \notin ready
                            \/ c.closed \/ peer.reset
                         THEN peer
                         ELSE [peer EXCEPT !.room = @ - WriteSize(c)]
    /\ ready' = {}
    /\ UNCHANGED <<m_poller, m_state, asked>>

\* BeginGracefulShutdown reaches this connection: after Wait and before the
\* events it has reported.
BeginGracefulShutdown ==
    /\ m_state = "Running" /\ ~conn.closed
    /\ m_state' = "Draining"
    /\ conn' = RefreshConnectionInterest(HandleHangup(conn))
    /\ ready' = IF conn'.closed THEN {} ELSE ready
    /\ UNCHANGED <<m_poller, peer, asked>>

\* ForceCloseAllConnections: on a ForceStop request, before the events Wait has
\* reported, or at the deadline of a drain, after them.
ForceClose ==
    /\ m_state # "Stopped" /\ ~conn.closed
    /\ m_state' = "Stopped"
    /\ conn' = MarkClosed(conn)
    /\ ready' = {}
    /\ UNCHANGED <<m_poller, peer, asked>>

-----------------------------------------------------------------------------
(***************************************************************************)
(* The peer.                                                               *)
(***************************************************************************)
PeerSends(kind) ==
    /\ ~peer.eof /\ ~peer.reset /\ Len(asked) < MaxRequests
    /\ asked' = Append(asked, kind)
    /\ conn' = IF conn.closed THEN conn ELSE [conn EXCEPT !.input = Append(@, kind)]
    /\ UNCHANGED <<m_poller, m_state, ready, peer>>

\* It sends no more, and may go on reading.
PeerShutsDown ==
    /\ ~peer.eof /\ ~peer.reset
    /\ peer' = [peer EXCEPT !.eof = TRUE]
    /\ UNCHANGED <<m_poller, conn, m_state, ready, asked>>

PeerResets ==
    /\ ~peer.reset
    /\ peer' = [peer EXCEPT !.reset = TRUE]
    /\ UNCHANGED <<m_poller, conn, m_state, ready, asked>>

\* It takes what the kernel has for it.
PeerReads ==
    /\ ~peer.reset /\ peer.room < SendRoom
    /\ peer' = [peer EXCEPT !.room = SendRoom]
    /\ UNCHANGED <<m_poller, conn, m_state, ready, asked>>

Next ==
    \/ Wait \/ HandleEvents \/ BeginGracefulShutdown \/ ForceClose
    \/ \E kind \in Kinds : PeerSends(kind)
    \/ PeerShutsDown \/ PeerResets \/ PeerReads

Spec == Init /\ [][Next]_vars

\* The loop deals with the events it was given: HandleEvents, unless a stop comes
\* first.  (HandleEvents is enabled whenever ready # {}.)
BatchEnds == ready # {} /\ ready' = {}

\* The reactor's thread runs, and the peer reads what it is sent.
FairSpec ==
    Spec /\ WF_vars(Wait) /\ WF_ready(BatchEnds) /\ WF_vars(PeerReads)

-----------------------------------------------------------------------------
(***************************************************************************)
(* Properties.                                                             *)
(***************************************************************************)
\* Types; no count of bytes goes below zero (Consume would throw).
TypeOK ==
    /\ conn \in [input : Seq(Kinds), readBytes : Nat, pending : Nat,
                 readPaused : BOOLEAN, closeAfterWrite : BOOLEAN,
                 closed : BOOLEAN, registered : SUBSET {"Read", "Write"},
                 executed : Nat, dropped : Nat, inputEnded : BOOLEAN,
                 slowClient : BOOLEAN, protocolError : BOOLEAN]
    /\ m_poller \in {"epoll", "poll"}
    /\ m_state \in {"Running", "Draining", "Stopped"}
    /\ ready \subseteq {"Read", "Write", "Hangup", "Error"}
    /\ peer \in [eof : BOOLEAN, reset : BOOLEAN, room : 0..SendRoom]
    /\ asked \in Seq(Kinds)

\* A peer cannot make the server buffer more than configured, however it cuts
\* and pipelines its requests and however little it reads.
MemoryBounded ==
    /\ conn.readBytes <= MaxReadBufferBytes
    /\ conn.pending <= WriteHardLimitBytes

\* Between batches the poller watches for exactly what the flags ask for, and
\* an open connection is watched for something.
InterestsRegistered ==
    ~conn.closed => /\ conn.registered = DesiredEvents(conn)
                    /\ conn.registered # {}

\* Between two batches the flags of the connection and what the poller was told
\* about it agree: a reactor never waits for an event it did not ask for.
FlagsConsistent == TypeOK /\ InterestsRegistered

\* QUIT is the last command executed, even with others pipelined behind it in
\* the same read.
QuitIsLast == \A i \in 1..(conn.executed - 1) : asked[i] # "quit"

\* The peer has stopped sending or is gone, or did not read for too long.
PeerAtFault == peer.eof \/ peer.reset \/ conn.slowClient

\* The causes to throw queued responses away, the end of the input apart: the
\* peer is gone or does not read, or the stop is a forced one.
OutputLost == peer.reset \/ conn.slowClient \/ m_state = "Stopped"

\* Queued responses are thrown away for one of those, or by the read that finds
\* the end of the input: never by QUIT, a protocol error, a hangup, a pause or a
\* drain, even of a peer that has shut down its sending side.
DroppedForACause == conn.dropped > 0 => OutputLost \/ conn.inputEnded

\* A peer that shuts down its sending side and reads on gets the responses that
\* were queued for it.  That is what the branch for recv = 0 sets out to do (it
\* closes at once only if writeBuffer is empty); it fails, because the branch
\* begins with MarkClosed.
HalfCloseAnswered == conn.dropped > 0 => OutputLost

\* The reasons to close a connection that the code and the documentation name: a
\* fault of the peer, its request, a frame that is not accepted, the stop of the
\* server.
CauseToClose ==
    \/ PeerAtFault
    \/ m_state # "Running"
    \/ conn.protocolError
    \/ \E i \in 1..(conn.executed + 1) : i <= Len(asked) /\
          asked[i] = IF i <= conn.executed THEN "quit" ELSE "long"

\* The server closes a connection for one of them only.  This fails with a high
\* watermark of zero, which the constructor accepts: an idle connection is then
\* paused with nothing left to write, and DesiredEvents has nothing to wait for.
ClosedAsDocumented == conn.closed => CauseToClose

\* With any other watermarks it holds.
ClosedForACause == WriteHighWatermarkBytes > 0 => ClosedAsDocumented

\* A connection ends in order: nothing is executed after QUIT, and output is
\* dropped and the descriptor closed only for one of the reasons the code names.
OrderlyEnd == QuitIsLast /\ DroppedForACause /\ ClosedForACause

\* Backpressure: while the pending output is at the high watermark nothing is
\* read and executed for this client, unless that is the low one as well.  (What
\* one read has decoded is executed to the end.)
BackpressureHolds ==
    [][conn'.executed > conn.executed =>
          \/ conn.pending < WriteHighWatermarkBytes
          \/ conn.pending <= WriteLowWatermarkBytes]_vars

\* Every command is executed, behind any number of others and through any
\* number of pauses, unless the connection ends first.
CommandsExecuted ==
    \A n \in 1..MaxRequests :
        (Len(asked) >= n) ~>
            (conn.executed >= n \/ conn.closed \/ conn.closeAfterWrite)

\* Queued output does not stay behind: it is sent, or the connection ends.
OutputSent == (conn.pending > 0) ~> (conn.pending = 0)

\* Backpressure stops a connection and never strands it: nothing is executed at the
\* high watermark, and while the peer reads, every request is executed and every
\* response sent.
Backpressure == BackpressureHolds /\ CommandsExecuted /\ OutputSent

\* README.md:24, requests sent together are handled correctly: what precedes a
\* faulty frame is executed, whether it arrives with it or before it.
PipelinedExecuted ==
    conn.protocolError =>
        \A i \in (conn.executed + 1)..Len(asked) :
            \E j \in 1..i : asked[j] = "oversized"

\* A peer that sends its requests, shuts down its sending side and reads the
\* responses has them all executed before the server closes the connection.
HalfCloseExecuted ==
    /\ conn.closed /\ peer.eof
    /\ ~peer.reset /\ ~conn.slowClient /\ m_state = "Running"
    /\ WriteHighWatermarkBytes > 0
    /\ \A i \in 1..Len(asked) : asked[i] = "command"
    => conn.executed = Len(asked)

\* With poll that is so.  (With epoll the hangup overtakes the requests that one
\* read has not taken.)
PollHalfCloseExecuted == m_poller = "poll" => HalfCloseExecuted

=============================================================================
