--------------------------- MODULE ConnectionProofs ---------------------------
(***************************************************************************)
(* One connection of a sub reactor, proved for every size of its requests, *)
(* its responses, its buffers and its watermarks that the constructor of   *)
(* TcpServer accepts.                                                      *)
(***************************************************************************)
EXTENDS Connection, RecursionLemmas

ConnType ==
    [input : Seq(Kinds), readBytes : Nat, pending : Nat,
     readPaused : BOOLEAN, closeAfterWrite : BOOLEAN,
     closed : BOOLEAN, registered : SUBSET {"Read", "Write"},
     executed : Nat, dropped : Nat, inputEnded : BOOLEAN,
     slowClient : BOOLEAN, protocolError : BOOLEAN]

-----------------------------------------------------------------------------
(* What the properties need to know of the rest of the system *)

Worlds == [asked : Seq(Kinds), state : {"Running", "Draining", "Stopped"},
           eof : BOOLEAN, reset : BOOLEAN, poller : {"epoll", "poll"}]

World == [asked |-> asked, state |-> m_state, eof |-> peer.eof,
          reset |-> peer.reset, poller |-> m_poller]

-----------------------------------------------------------------------------
(* The inductive invariant *)

Open(c) == ~c.closed /\ ~c.closeAfterWrite

\* The reasons for which a connection ends; once there, a reason stays.
HangupReason(w) == w.reset \/ w.state # "Running" \/ (w.eof /\ w.poller = "epoll")

Ended(c, w) ==
    \/ HangupReason(w) \/ c.slowClient \/ WriteHighWatermarkBytes = 0
    \/ c.protocolError
    \/ w.eof /\ c.executed = Len(w.asked)
    \/ c.executed \in 1 .. Len(w.asked) /\ w.asked[c.executed] = "quit"
    \/ c.executed + 1 \in 1 .. Len(w.asked) /\ w.asked[c.executed + 1] = "long"

DropReason(c, w) == w.reset \/ w.state = "Stopped" \/ c.slowClient \/ c.inputEnded

Bounded(c) ==
    /\ c.readBytes <= MaxReadBufferBytes
    /\ c.pending <= WriteHardLimitBytes

History(c, w) ==
    /\ c.executed <= Len(w.asked)
    /\ \A i \in 1 .. (c.executed - 1) : w.asked[i] # "quit"
    /\ c.protocolError => \E i \in 1 .. Len(w.asked) : w.asked[i] = "oversized"

\* What holds of a connection between any two steps of its handlers.
Sound(c, w) ==
    /\ c \in ConnType
    /\ Bounded(c)
    /\ History(c, w)
    /\ c.dropped > 0 => DropReason(c, w)
    /\ ~Open(c) => Ended(c, w)

\* The requests not decoded are those sent and not executed; no QUIT was
\* executed; and readBuffer holds no whole frame.
Aligned(c, w) ==
    /\ c.executed + Len(c.input) = Len(w.asked)
    /\ \A i \in 1 .. Len(c.input) : c.input[i] = w.asked[c.executed + i]

NoQuit(c, w) == \A i \in 1 .. c.executed : w.asked[i] # "quit"

Needed(kind) == IF kind = "oversized" THEN HeaderSize ELSE RequestSize[kind]

Undecoded(c) ==
    /\ Len(c.input) = 0 => c.readBytes = 0
    /\ Len(c.input) > 0 => c.readBytes < Needed(c.input[1])

\* What holds of it between any two handlers.
Steady(c, w) ==
    /\ Sound(c, w)
    /\ Open(c) => Aligned(c, w) /\ NoQuit(c, w) /\ Undecoded(c)

\* An open connection is paused from the high watermark on.
Watermark(c) ==
    Open(c) /\ ~c.readPaused =>
        c.pending < WriteHighWatermarkBytes \/ c.pending <= WriteLowWatermarkBytes

\* The poller reports an error or a hangup only for what the peer did.
ReadyForACause ==
    /\ "Error" \in ready => peer.reset
    /\ "Hangup" \in ready => peer.reset \/ (peer.eof /\ m_poller = "epoll")

IInv ==
    /\ TypeOK
    /\ Steady(conn, World)
    /\ InterestsRegistered
    /\ Watermark(conn)
    /\ ReadyForACause

-----------------------------------------------------------------------------
(* The small handlers, field by field *)

\* The fields of a connection have their types.
LEMMA ConnFields ==
    ASSUME NEW c \in ConnType
    PROVE  /\ c.input \in Seq(Kinds) /\ c.readBytes \in Nat /\ c.pending \in Nat
           /\ c.readPaused \in BOOLEAN /\ c.closeAfterWrite \in BOOLEAN
           /\ c.closed \in BOOLEAN /\ c.registered \subseteq {"Read", "Write"}
           /\ c.executed \in Nat /\ c.dropped \in Nat /\ c.inputEnded \in BOOLEAN
           /\ c.slowClient \in BOOLEAN /\ c.protocolError \in BOOLEAN
  BY DEF ConnType

\* MarkClosed empties the buffers, counts what it drops and touches no more.
LEMMA MarkClosedFields ==
    ASSUME NEW c \in ConnType
    PROVE  /\ MarkClosed(c) \in ConnType
           /\ MarkClosed(c).closed
           /\ MarkClosed(c).readBytes = 0 /\ MarkClosed(c).pending = 0
           /\ MarkClosed(c).dropped = c.dropped + c.pending
           /\ MarkClosed(c).executed = c.executed
           /\ MarkClosed(c).slowClient = c.slowClient
           /\ MarkClosed(c).inputEnded = c.inputEnded
           /\ MarkClosed(c).protocolError = c.protocolError
<1>1. <<>> \in Seq(Kinds) /\ c.pending \in Nat /\ c.dropped \in Nat
  BY ConnFields
<1>2. c.dropped + c.pending \in Nat
  BY <1>1
<1> QED
  BY <1>1, <1>2 DEF MarkClosed, ConnType

\* The same for a peer that does not read (the hard limit in QueueResponse).
LEMMA MarkClosedSlowFields ==
    ASSUME NEW c \in ConnType
    PROVE  LET d == [MarkClosed(c) EXCEPT !.slowClient = TRUE]
           IN  /\ d \in ConnType
               /\ d.closed /\ d.slowClient
               /\ d.readBytes = 0 /\ d.pending = 0
               /\ d.executed = c.executed
               /\ d.protocolError = c.protocolError
  BY MarkClosedFields DEF ConnType

\* UpdateReadBackPressure decides readPaused and nothing else.
LEMMA UpdateFields ==
    ASSUME NEW c \in ConnType
    PROVE  LET u == UpdateReadBackPressure(c)
           IN  /\ u \in ConnType
               /\ u.input = c.input /\ u.readBytes = c.readBytes /\ u.pending = c.pending
               /\ u.closeAfterWrite = c.closeAfterWrite /\ u.closed = c.closed
               /\ u.registered = c.registered /\ u.executed = c.executed
               /\ u.dropped = c.dropped /\ u.slowClient = c.slowClient
               /\ u.inputEnded = c.inputEnded /\ u.protocolError = c.protocolError
               /\ Watermark(u)
               /\ Open(u) /\ u.readPaused =>
                     u.pending > WriteLowWatermarkBytes \/ u.pending >= WriteHighWatermarkBytes
<1>1. CASE Open(c)
  <2> DEFINE paused == IF c.readPaused THEN c.pending > WriteLowWatermarkBytes
                                       ELSE c.pending >= WriteHighWatermarkBytes
  <2>1. paused \in BOOLEAN
    <3>1. CASE c.readPaused
      BY <3>1
    <3>2. CASE ~c.readPaused
      BY <3>2
    <3> QED
      BY <3>1, <3>2
  <2>2. UpdateReadBackPressure(c) = [c EXCEPT !.readPaused = paused]
    BY <1>1 DEF UpdateReadBackPressure, Open
  <2>3. paused => c.pending > WriteLowWatermarkBytes \/ c.pending >= WriteHighWatermarkBytes
    OBVIOUS
  <2>4. ~paused => c.pending < WriteHighWatermarkBytes \/ c.pending <= WriteLowWatermarkBytes
    BY ConnectionAssumption, ConnFields
  <2> HIDE DEF paused
  <2> QED
    BY <2>1, <2>2, <2>3, <2>4 DEF ConnType, Watermark
<1>2. CASE ~Open(c)
  BY <1>2 DEF UpdateReadBackPressure, Open, Watermark
<1> QED
  BY <1>1, <1>2

-----------------------------------------------------------------------------
(* Queueing responses *)

\* Ending for a reason: MarkClosed keeps a connection sound when there is a reason
\* to end it and, if output is lost, one to lose it.
LEMMA MarkClosedSound ==
    ASSUME NEW w \in Worlds, NEW c, Sound(c, w), Ended(c, w),
           c.pending > 0 => DropReason(c, w)
    PROVE  /\ Steady(MarkClosed(c), w)
           /\ MarkClosed(c).closed
           /\ MarkClosed(c).executed = c.executed
<1> DEFINE d == MarkClosed(c)
<1>1. /\ c \in ConnType
      /\ d \in ConnType /\ d.closed /\ d.readBytes = 0 /\ d.pending = 0
      /\ d.dropped = c.dropped + c.pending /\ d.executed = c.executed
      /\ d.slowClient = c.slowClient /\ d.inputEnded = c.inputEnded
      /\ d.protocolError = c.protocolError
  BY MarkClosedFields DEF Sound
<1> HIDE DEF d
<1>2. Bounded(d)
  BY <1>1, ConnectionAssumption DEF Bounded
<1>3. History(d, w)
  BY <1>1 DEF History, Sound
<1>4. d.dropped > 0 => DropReason(d, w)
  <2>1. c.dropped \in Nat /\ c.pending \in Nat
    BY <1>1, ConnFields
  <2>2. d.dropped > 0 => c.dropped > 0 \/ c.pending > 0
    BY <1>1, <2>1
  <2> QED
    BY <1>1, <2>2 DEF Sound, DropReason
<1>5. Ended(d, w)
  BY <1>1 DEF Ended
<1>6. ~Open(d)
  BY <1>1 DEF Open
<1>7. Steady(d, w)
  BY <1>1, <1>2, <1>3, <1>4, <1>5, <1>6 DEF Steady, Sound
<1> QED
  BY <1>1, <1>7 DEF d

\* The end of the input is a cause of its own to drop what is pending.
LEMMA InputEndsSound ==
    ASSUME NEW w \in Worlds, NEW c, Sound(c, w), Ended(c, w)
    PROVE  Steady(InputEnds(c), w)
<1> DEFINE e == [c EXCEPT !.inputEnded = TRUE]
<1>1. /\ c \in ConnType /\ e \in ConnType /\ e.inputEnded
      /\ e.readBytes = c.readBytes /\ e.pending = c.pending
      /\ e.executed = c.executed /\ e.slowClient = c.slowClient
      /\ e.protocolError = c.protocolError
  BY DEF Sound, ConnType
<1>2. InputEnds(c) = MarkClosed(e)
  BY DEF InputEnds
<1> HIDE DEF e
<1>3. Bounded(e) /\ History(e, w)
  BY <1>1 DEF Sound, Bounded, History
<1>4. Ended(e, w) /\ DropReason(e, w)
  BY <1>1 DEF Ended, DropReason
<1>5. Sound(e, w)
  BY <1>1, <1>3, <1>4 DEF Sound
<1> QED
  BY <1>2, <1>4, <1>5, MarkClosedSound

\* A response fits under the hard limit, or closes the connection of a peer that
\* does not read.
LEMMA QueueResponseSound ==
    ASSUME NEW w \in Worlds, NEW c, Sound(c, w), Open(c), NEW size \in Nat
    PROVE  LET q == QueueResponse(c, size)
           IN  /\ Sound(q, w)
               /\ q.executed = c.executed /\ q.protocolError = c.protocolError
               /\ q.closed => q.slowClient
               /\ ~q.closed => /\ Open(q)
                               /\ q.input = c.input /\ q.readBytes = c.readBytes
                               /\ q.slowClient = c.slowClient /\ q.inputEnded = c.inputEnded
<1> DEFINE q == QueueResponse(c, size)
<1>0. c \in ConnType /\ c.pending \in Nat /\ ~c.closed /\ ~c.closeAfterWrite
  BY ConnFields DEF Sound, Open
<1>1. CASE ExceedsHardLimit(c, size)
  <2>1. /\ q \in ConnType /\ q.closed /\ q.slowClient /\ q.readBytes = 0 /\ q.pending = 0
        /\ q.executed = c.executed /\ q.protocolError = c.protocolError
    BY <1>0, <1>1, MarkClosedSlowFields DEF QueueResponse
  <2> HIDE DEF q
  <2>2. Bounded(q) /\ History(q, w)
    BY <2>1, ConnectionAssumption DEF Bounded, History, Sound
  <2>3. Ended(q, w) /\ DropReason(q, w)
    BY <2>1 DEF Ended, DropReason
  <2> QED
    BY <2>1, <2>2, <2>3 DEF Sound, q
<1>2. CASE ~ExceedsHardLimit(c, size)
  <2> DEFINE d == [c EXCEPT !.pending = c.pending + size]
  <2>1. /\ d \in ConnType /\ d.pending = c.pending + size
        /\ d.input = c.input /\ d.readBytes = c.readBytes
        /\ d.closeAfterWrite = c.closeAfterWrite /\ d.closed = c.closed
        /\ d.executed = c.executed /\ d.dropped = c.dropped
        /\ d.slowClient = c.slowClient /\ d.inputEnded = c.inputEnded
        /\ d.protocolError = c.protocolError
    <3>1. c.pending + size \in Nat
      BY <1>0
    <3> QED
      BY <1>0, <3>1 DEF ConnType
  <2>2. q = UpdateReadBackPressure(d)
    BY <1>2 DEF QueueResponse
  <2>3. c.pending + size <= WriteHardLimitBytes
    BY <1>0, <1>2, ConnectionAssumption DEF ExceedsHardLimit
  <2> HIDE DEF d
  <2>4. /\ q \in ConnType /\ q.pending = c.pending + size
        /\ q.input = c.input /\ q.readBytes = c.readBytes
        /\ q.closeAfterWrite = c.closeAfterWrite /\ q.closed = c.closed
        /\ q.executed = c.executed /\ q.dropped = c.dropped
        /\ q.slowClient = c.slowClient /\ q.inputEnded = c.inputEnded
        /\ q.protocolError = c.protocolError
    BY <2>1, <2>2, UpdateFields
  <2> HIDE DEF q
  <2>5. Bounded(q) /\ History(q, w) /\ Open(q)
    BY <1>0, <2>3, <2>4 DEF Bounded, History, Sound, Open
  <2>6. q.dropped > 0 => DropReason(q, w)
    BY <2>4 DEF Sound, DropReason
  <2> QED
    BY <1>0, <2>4, <2>5, <2>6 DEF Sound, q
<1> QED
  BY <1>1, <1>2

\* A last response needs a reason.
LEMMA LastResponseSound ==
    ASSUME NEW w \in Worlds, NEW c, Sound(c, w), Open(c), Ended(c, w), NEW size \in Nat
    PROVE  Sound(LastResponse(c, size), w) /\ ~Open(LastResponse(c, size))
<1> DEFINE q == QueueResponse(c, size)
           l == LastResponse(c, size)
<1>1. /\ Sound(q, w)
      /\ q.executed = c.executed /\ q.protocolError = c.protocolError
      /\ q.closed => q.slowClient
      /\ ~q.closed => q.slowClient = c.slowClient /\ q.inputEnded = c.inputEnded
  BY QueueResponseSound
<1>2. l = IF q.closed THEN q ELSE [q EXCEPT !.closeAfterWrite = TRUE]
  BY DEF LastResponse
<1> HIDE DEF q, l
<1>3. CASE q.closed
  BY <1>1, <1>2, <1>3 DEF Open, l
<1>4. CASE ~q.closed
  <2>1. q \in ConnType
    BY <1>1 DEF Sound
  <2>2. /\ l \in ConnType /\ l.closeAfterWrite
        /\ l.readBytes = q.readBytes /\ l.pending = q.pending
        /\ l.executed = q.executed /\ l.protocolError = q.protocolError
        /\ l.slowClient = q.slowClient /\ l.inputEnded = q.inputEnded
        /\ l.dropped = q.dropped
    BY <1>2, <1>4, <2>1 DEF ConnType
  <2>3. Bounded(l) /\ History(l, w)
    BY <1>1, <2>2 DEF Bounded, History, Sound
  <2>4. l.dropped > 0 => DropReason(l, w)
    BY <1>1, <2>2 DEF Sound, DropReason
  <2>5. Ended(l, w)
    BY <1>1, <1>4, <2>2 DEF Ended
  <2> QED
    BY <2>2, <2>3, <2>4, <2>5 DEF Sound, Open, l
<1> QED
  BY <1>3, <1>4

-----------------------------------------------------------------------------
(* The loop over the payloads *)

\* ProcessPayload returns a connection.
LEMMA ProcessPayloadType ==
    ASSUME NEW c \in ConnType, NEW kind \in Kinds
    PROVE  ProcessPayload(c, kind) \in ConnType
<1> DEFINE running == [c EXCEPT !.executed = c.executed + 1]
           size == ResponseSize[kind]
           q == QueueResponse(running, size)
<1>1. running \in ConnType /\ running.pending \in Nat
  <2>1. c.executed + 1 \in Nat
    BY ConnFields
  <2>2. running \in ConnType
    BY <2>1 DEF ConnType
  <2> QED
    BY <2>2, ConnFields
<1>2. size \in Nat
  BY ConnectionAssumption
<1>3. ProcessPayload(c, kind) =
          IF c.closed \/ c.closeAfterWrite THEN c
          ELSE IF kind = "quit" THEN LastResponse(running, size) ELSE q
  BY DEF ProcessPayload
<1> HIDE DEF running, size
<1>4. q \in ConnType
  <2> DEFINE d == [running EXCEPT !.pending = running.pending + size]
  <2>1. d \in ConnType
    <3>1. running.pending + size \in Nat
      BY <1>1, <1>2
    <3> QED
      BY <1>1, <3>1 DEF ConnType
  <2>2. UpdateReadBackPressure(d) \in ConnType
    <3> HIDE DEF d
    <3> QED
      BY <2>1, UpdateFields
  <2>3. [MarkClosed(running) EXCEPT !.slowClient = TRUE] \in ConnType
    BY <1>1, MarkClosedSlowFields
  <2> QED
    BY <2>2, <2>3 DEF QueueResponse
<1>5. LastResponse(running, size) \in ConnType
  <2>1. LastResponse(running, size) = IF q.closed THEN q ELSE [q EXCEPT !.closeAfterWrite = TRUE]
    BY DEF LastResponse
  <2> HIDE DEF q
  <2>2. [q EXCEPT !.closeAfterWrite = TRUE] \in ConnType
    BY <1>4 DEF ConnType
  <2> QED
    BY <1>4, <2>1, <2>2
<1> QED
  BY <1>3, <1>4, <1>5

\* One payload, the next one of those sent, is executed in an open connection.
LEMMA ProcessPayloadSound ==
    ASSUME NEW w \in Worlds, NEW c, Sound(c, w), NEW kind \in Kinds,
           Open(c) => /\ NoQuit(c, w)
                      /\ c.executed + 1 \in 1 .. Len(w.asked)
                      /\ w.asked[c.executed + 1] = kind
    PROVE  LET d == ProcessPayload(c, kind)
           IN  /\ Sound(d, w)
               /\ Open(d) => /\ Open(c) /\ NoQuit(d, w)
                             /\ d.executed = c.executed + 1
                             /\ d.input = c.input /\ d.readBytes = c.readBytes
<1> DEFINE running == [c EXCEPT !.executed = c.executed + 1]
           size == ResponseSize[kind]
           q == QueueResponse(running, size)
           l == LastResponse(running, size)
           d == ProcessPayload(c, kind)
<1>0. c \in ConnType /\ c.executed \in Nat
  BY ConnFields DEF Sound
<1>1. d = IF ~Open(c) THEN c ELSE IF kind = "quit" THEN l ELSE q
  BY DEF ProcessPayload, Open
<1>2. size \in Nat
  BY ConnectionAssumption
<1>3. /\ running \in ConnType /\ running.executed = c.executed + 1
      /\ running.input = c.input /\ running.readBytes = c.readBytes
      /\ running.pending = c.pending /\ running.dropped = c.dropped
      /\ running.slowClient = c.slowClient /\ running.inputEnded = c.inputEnded
      /\ running.protocolError = c.protocolError
      /\ running.closed = c.closed /\ running.closeAfterWrite = c.closeAfterWrite
  <2>1. c.executed + 1 \in Nat
    BY <1>0
  <2> QED
    BY <1>0, <2>1 DEF ConnType
<1> HIDE DEF running, size
<1>4. CASE ~Open(c)
  BY <1>1, <1>4
<1>5. CASE Open(c)
  <2>1. Sound(running, w) /\ Open(running)
    <3>1. Bounded(running) /\ Open(running)
      BY <1>3, <1>5 DEF Sound, Bounded, Open
    <3>2. History(running, w)
      <4>1. running.executed <= Len(w.asked)
        BY <1>3, <1>5
      <4>2. \A i \in 1 .. (running.executed - 1) : w.asked[i] # "quit"
        BY <1>0, <1>3, <1>5 DEF NoQuit
      <4> QED
        BY <1>3, <4>1, <4>2 DEF History, Sound
    <3>3. running.dropped > 0 => DropReason(running, w)
      BY <1>3 DEF Sound, DropReason
    <3> QED
      BY <1>3, <3>1, <3>2, <3>3 DEF Sound
  <2>2. CASE kind = "quit"
    <3>1. Ended(running, w)
      BY <1>3, <1>5, <2>2 DEF Ended
    <3>2. Sound(l, w) /\ ~Open(l)
      BY <1>2, <2>1, <3>1, LastResponseSound
    <3> QED
      BY <1>1, <1>5, <2>2, <3>2
  <2>3. CASE kind # "quit"
    <3>1. /\ Sound(q, w) /\ q.executed = running.executed
          /\ ~q.closed => q.input = running.input /\ q.readBytes = running.readBytes
      BY <1>2, <2>1, QueueResponseSound
    <3>2. d = q
      BY <1>1, <1>5, <2>3
    <3>3. d.executed = c.executed + 1
      BY <1>3, <3>1, <3>2
    <3> HIDE DEF d, q
    <3>4. NoQuit(d, w)
      <4>1. \A i \in 1 .. (c.executed + 1) : i \in 1 .. c.executed \/ i = c.executed + 1
        BY <1>0
      <4> QED
        BY <1>5, <2>3, <3>3, <4>1 DEF NoQuit
    <3> QED
      BY <1>3, <1>5, <3>1, <3>2, <3>3, <3>4 DEF Open, d
  <2> QED
    BY <2>2, <2>3
<1> QED
  BY <1>4, <1>5

\* The loop runs as its recursion says: there is a sequence of connections, one
\* for each number of payloads processed.
LEMMA ProcessPayloadsEquation ==
    ASSUME NEW c \in ConnType, NEW requests \in Seq(Kinds), NEW n \in 0 .. Len(requests)
    PROVE  \E g : /\ g[0] = c
                  /\ \A i \in 1 .. n : g[i] = ProcessPayload(g[i - 1], requests[i])
                  /\ ProcessPayloads(c, requests, n) = g[n]
<1> DEFINE V == ConnType
           F == [p \in Nat \X V |->
                   IF p[1] \in 1 .. n THEN ProcessPayload(p[2], requests[p[1]]) ELSE p[2]]
           Eq(g) == g = [i \in 0 .. n |->
                            IF i = 0 THEN c ELSE ProcessPayload(g[i - 1], requests[i])]
<1>0. n \in Nat /\ \A i \in 1 .. n : requests[i] \in Kinds
  OBVIOUS
<1>1. F \in [Nat \X V -> V]
  <2>1. ASSUME NEW p \in Nat \X V
        PROVE  (IF p[1] \in 1 .. n THEN ProcessPayload(p[2], requests[p[1]]) ELSE p[2]) \in V
    <3>1. p[2] \in V
      OBVIOUS
    <3> QED
      BY <1>0, <3>1, ProcessPayloadType
  <2> QED
    BY <2>1
<1>3. PICK f : Follows(f, n, c, F)
  BY <1>0, FollowsExists
<1>4. f \in [0 .. n -> V]
  <2> HIDE DEF F, V
  <2> QED
    BY <1>0, <1>1, <1>3, FollowsTyped DEF V
<1>5. Eq(f)
  <2>1. ASSUME NEW i \in 0 .. n
        PROVE  f[i] = IF i = 0 THEN c ELSE ProcessPayload(f[i - 1], requests[i])
    <3>1. f[i] = IF i = 0 THEN c ELSE F[<<i, f[i - 1]>>]
      <4> HIDE DEF F
      <4> QED
        BY <1>3 DEF Follows
    <3>2. CASE i # 0
      <4>1. i \in 1 .. n /\ i \in Nat /\ f[i - 1] \in V
        BY <1>0, <1>4, <3>2
      <4>2. <<i, f[i - 1]>> \in Nat \X V
        BY <4>1
      <4>3. F[<<i, f[i - 1]>>] = ProcessPayload(f[i - 1], requests[i])
        BY <4>1, <4>2
      <4> QED
        BY <3>1, <3>2, <4>3
    <3> QED
      BY <3>1, <3>2
  <2>2. f = [i \in 0 .. n |-> f[i]]
    BY <1>4
  <2> QED
    BY <2>1, <2>2
<1> DEFINE G == CHOOSE g : Eq(g)
<1>6. Eq(G)
  <2> HIDE DEF Eq
  <2> QED
    BY <1>5
<1>7. ProcessPayloads(c, requests, n) = G[n]
  BY Zenon DEF ProcessPayloads
<1>8. G[0] = c /\ \A i \in 1 .. n : G[i] = ProcessPayload(G[i - 1], requests[i])
  <2>1. 0 \in 0 .. n /\ \A i \in 1 .. n : i \in 0 .. n /\ i # 0
    BY <1>0
  <2> HIDE DEF G
  <2> QED
    BY <1>6, <2>1, Zenon
<1> QED
  BY <1>7, <1>8, Zenon

\* Payloads that come next in what was sent are executed one after the other, as
\* long as the connection is open.
LEMMA ProcessPayloadsSound ==
    ASSUME NEW w \in Worlds, NEW c, Sound(c, w), Open(c), NoQuit(c, w),
           NEW requests \in Seq(Kinds), NEW n \in 0 .. Len(requests),
           c.executed + n <= Len(w.asked),
           \A i \in 1 .. n : requests[i] = w.asked[c.executed + i]
    PROVE  LET d == ProcessPayloads(c, requests, n)
           IN  /\ Sound(d, w)
               /\ Open(d) => /\ NoQuit(d, w)
                             /\ d.executed = c.executed + n
                             /\ d.input = c.input /\ d.readBytes = c.readBytes
<1>0. /\ c \in ConnType /\ c.executed \in Nat /\ n \in Nat
      /\ \A i \in 1 .. n : requests[i] \in Kinds
      /\ Len(w.asked) \in Nat
  BY ConnFields DEF Sound, Worlds
<1>1. PICK g : /\ g[0] = c
               /\ \A i \in 1 .. n : g[i] = ProcessPayload(g[i - 1], requests[i])
               /\ ProcessPayloads(c, requests, n) = g[n]
  BY <1>0, ProcessPayloadsEquation
<1> DEFINE Good(i) == /\ Sound(g[i], w)
                      /\ Open(g[i]) => /\ NoQuit(g[i], w)
                                       /\ g[i].executed = c.executed + i
                                       /\ g[i].input = c.input /\ g[i].readBytes = c.readBytes
           T == {i \in Nat : i <= n => Good(i)}
<1>2. 0 \in T
  <2>1. Good(0)
    BY <1>0, <1>1
  <2> QED
    BY <2>1
<1>3. ASSUME NEW i \in Nat, i \in T, i + 1 <= n
      PROVE  Good(i + 1)
  <2>1. Good(i)
    BY <1>0, <1>3
  <2>2. /\ i + 1 \in 1 .. n /\ requests[i + 1] \in Kinds
        /\ g[i + 1] = ProcessPayload(g[i], requests[i + 1])
        /\ requests[i + 1] = w.asked[c.executed + (i + 1)]
    <3>1. i + 1 \in 1 .. n /\ (i + 1) - 1 = i
      BY <1>0, <1>3
    <3>2. g[i + 1] = ProcessPayload(g[(i + 1) - 1], requests[i + 1])
      BY <1>1, <3>1
    <3> QED
      BY <1>0, <3>1, <3>2
  <2>3. Open(g[i]) => /\ g[i].executed + 1 = c.executed + (i + 1)
                      /\ g[i].executed + 1 \in 1 .. Len(w.asked)
    <3>0. PICK x, y : x = c.executed /\ y = Len(w.asked)
      OBVIOUS
    <3>1. x \in Nat /\ y \in Nat /\ x + n <= y
      BY <1>0, <3>0
    <3>2. (x + i) + 1 = x + (i + 1) /\ (x + i) + 1 \in 1 .. y
      BY <1>0, <1>3, <3>1
    <3>3. Open(g[i]) => g[i].executed = x + i
      BY <2>1, <3>0
    <3> QED
      BY <3>0, <3>2, <3>3
  <2>4. /\ Sound(g[i + 1], w)
        /\ Open(g[i + 1]) => /\ Open(g[i]) /\ NoQuit(g[i + 1], w)
                             /\ g[i + 1].executed = g[i].executed + 1
                             /\ g[i + 1].input = g[i].input
                             /\ g[i + 1].readBytes = g[i].readBytes
    BY <2>1, <2>2, <2>3, ProcessPayloadSound
  <2> QED
    BY <2>1, <2>3, <2>4
<1>4. T = Nat
  <2>1. T \in SUBSET Nat /\ \A i \in Nat : i \in T => i + 1 \in T
    BY <1>3
  <2> HIDE DEF T
  <2> QED
    BY <1>2, <2>1, SetInduction
<1>5. Good(n)
  BY <1>0, <1>4
<1> QED
  BY <1>1, <1>5

-----------------------------------------------------------------------------
(* Decoding *)

\* The sum of the sizes, as its recursion says.
LEMMA BytesOfEquation ==
    ASSUME NEW requests \in Seq(Kinds), NEW n \in 0 .. Len(requests)
    PROVE  /\ BytesOf(requests, n) \in Nat
           /\ n = 0 => BytesOf(requests, n) = 0
           /\ n > 0 => BytesOf(requests, n) =
                           BytesOf(requests, n - 1) + RequestSize[requests[n]]
<1> DEFINE F == [p \in Nat \X Nat |->
                   IF p[1] \in 1 .. Len(requests) THEN p[2] + RequestSize[requests[p[1]]] ELSE p[2]]
           Eq(g, m) == g = [i \in 0 .. m |->
                               IF i = 0 THEN 0 ELSE g[i - 1] + RequestSize[requests[i]]]
           G(m) == CHOOSE g : Eq(g, m)
<1>0. /\ n \in Nat /\ Len(requests) \in Nat
      /\ \A i \in 1 .. Len(requests) : RequestSize[requests[i]] \in Nat
  BY ConnectionAssumption
<1>1. F \in [Nat \X Nat -> Nat]
  <2>1. ASSUME NEW p \in Nat \X Nat
        PROVE  (IF p[1] \in 1 .. Len(requests) THEN p[2] + RequestSize[requests[p[1]]] ELSE p[2]) \in Nat
    <3>1. p[2] \in Nat
      OBVIOUS
    <3> QED
      BY <1>0, <3>1
  <2> QED
    BY <2>1
<1>2. ASSUME NEW m \in 0 .. Len(requests)
      PROVE  Eq(G(m), m) /\ Follows(G(m), m, 0, F) /\ G(m) \in [0 .. m -> Nat]
  <2>0. m \in Nat /\ 0 \in Nat
    BY <1>0
  <2>1. PICK f : Follows(f, m, 0, F)
    BY <2>0, FollowsExists
  <2>2. ASSUME NEW h, h \in [0 .. m -> Nat] PROVE Eq(h, m) <=> Follows(h, m, 0, F)
    <3>1. ASSUME NEW i \in 0 .. m, i # 0
          PROVE  F[<<i, h[i - 1]>>] = h[i - 1] + RequestSize[requests[i]]
      <4>1. i \in 1 .. Len(requests) /\ i \in Nat /\ h[i - 1] \in Nat
        BY <1>0, <2>0, <2>2, <3>1
      <4>2. <<i, h[i - 1]>> \in Nat \X Nat
        BY <4>1
      <4> QED
        BY <4>1, <4>2
    <3>2. ASSUME NEW i \in 0 .. m
          PROVE  (IF i = 0 THEN 0 ELSE F[<<i, h[i - 1]>>])
                    = (IF i = 0 THEN 0 ELSE h[i - 1] + RequestSize[requests[i]])
      <4> HIDE DEF F
      <4> QED
        BY <3>1
    <3> HIDE DEF F
    <3> QED
      BY <3>2, Zenon DEF Follows
  <2>3. f \in [0 .. m -> Nat]
    <3> HIDE DEF F
    <3> QED
      BY <1>1, <2>0, <2>1, FollowsTyped
  <2>4. Eq(f, m)
    BY <2>1, <2>2, <2>3
  <2>5. Eq(G(m), m)
    <3> HIDE DEF Eq
    <3> QED
      BY <2>4
  <2>6. G(m) \in [0 .. m -> Nat]
    <3> DEFINE T == {i \in Nat : i <= m => G(m)[i] \in Nat}
    <3>0. PICK h : h = G(m)
      OBVIOUS
    <3>1. h[0] = 0 /\ \A i \in 1 .. m : h[i] = h[i - 1] + RequestSize[requests[i]]
      <4>1. 0 \in 0 .. m /\ \A i \in 1 .. m : i \in 0 .. m /\ i # 0
        BY <2>0
      <4>2. Eq(h, m)
        BY <2>5, <3>0
      <4> QED
        BY <4>1, <4>2, Zenon
    <3>2. 0 \in T
      BY <3>0, <3>1
    <3>3. ASSUME NEW i \in Nat, i \in T PROVE i + 1 \in T
      <4> SUFFICES ASSUME i + 1 <= m PROVE h[i + 1] \in Nat
        BY <3>0
      <4>1. h[i] \in Nat
        BY <2>0, <3>0, <3>3
      <4>2. i + 1 \in 1 .. m /\ (i + 1) - 1 = i /\ i + 1 \in 1 .. Len(requests)
        BY <1>0, <2>0
      <4>3. h[i + 1] = h[i] + RequestSize[requests[i + 1]]
        BY <3>1, <4>2
      <4> QED
        BY <1>0, <4>1, <4>2, <4>3
    <3>4. T = Nat
      <4>1. T \in SUBSET Nat
        OBVIOUS
      <4> HIDE DEF T
      <4> QED
        BY <3>2, <3>3, <4>1, SetInduction
    <3>5. \A i \in 0 .. m : h[i] \in Nat
      BY <2>0, <3>0, <3>4
    <3>6. h = [i \in 0 .. m |-> IF i = 0 THEN 0 ELSE h[i - 1] + RequestSize[requests[i]]]
      BY <2>5, <3>0
    <3> HIDE DEF G
    <3> QED
      BY <3>0, <3>5, <3>6
  <2> HIDE DEF G
  <2> QED
    BY <2>2, <2>5, <2>6
<1>3. \A m \in 0 .. Len(requests) : BytesOf(requests, m) = G(m)[m]
  BY Zenon DEF BytesOf
<1> HIDE DEF G, F
<1>4. BytesOf(requests, n) \in Nat
  BY <1>0, <1>2, <1>3
<1>5. ASSUME n = 0 PROVE BytesOf(requests, n) = 0
  BY <1>0, <1>2, <1>3, <1>5
<1>6. ASSUME n > 0
      PROVE  BytesOf(requests, n) = BytesOf(requests, n - 1) + RequestSize[requests[n]]
  <2>1. n - 1 \in 0 .. Len(requests) /\ n - 1 \in Nat /\ n \in 0 .. n /\ n # 0 /\ n - 1 <= n
    BY <1>0, <1>6
  <2>2. G(n)[n] = G(n)[n - 1] + RequestSize[requests[n]]
    BY <1>2, <2>1, Zenon
  <2>3. G(n)[n - 1] = G(n - 1)[n - 1]
    <3>1. Follows(G(n), n, 0, F) /\ Follows(G(n - 1), n - 1, 0, F)
      BY <1>2, <2>1
    <3>2. \A i \in Nat : i <= n /\ i <= n - 1 => G(n)[i] = G(n - 1)[i]
      BY <1>0, <2>1, <3>1, FollowsUnique
    <3> QED
      BY <2>1, <3>2
  <2> QED
    BY <1>3, <2>1, <2>2, <2>3
<1> QED
  BY <1>4, <1>5, <1>6

\* The sizes add up: the first request is part of any longer prefix.
LEMMA BytesOfFirst ==
    ASSUME NEW requests \in Seq(Kinds), NEW n \in 1 .. Len(requests)
    PROVE  BytesOf(requests, n) >= RequestSize[requests[1]]
<1> DEFINE T == {i \in Nat : i + 1 <= Len(requests) =>
                                BytesOf(requests, i + 1) >= RequestSize[requests[1]]}
<1>0. /\ Len(requests) \in Nat /\ n \in Nat
      /\ \A i \in 1 .. Len(requests) : RequestSize[requests[i]] \in Nat
  BY ConnectionAssumption
<1>1. 0 \in T
  <2>1. ASSUME 1 <= Len(requests)
        PROVE  BytesOf(requests, 1) = 0 + RequestSize[requests[1]]
    <3>1. 1 \in 0 .. Len(requests) /\ 0 \in 0 .. Len(requests) /\ 1 - 1 = 0
      BY <1>0, <2>1
    <3>2. BytesOf(requests, 1) = BytesOf(requests, 1 - 1) + RequestSize[requests[1]]
      BY <3>1, BytesOfEquation
    <3>3. BytesOf(requests, 0) = 0
      BY <3>1, BytesOfEquation
    <3> QED
      BY <3>1, <3>2, <3>3
  <2> QED
    BY <1>0, <2>1
<1>2. ASSUME NEW i \in Nat, i \in T PROVE i + 1 \in T
  <2> SUFFICES ASSUME (i + 1) + 1 <= Len(requests)
               PROVE  BytesOf(requests, (i + 1) + 1) >= RequestSize[requests[1]]
    BY DEF T
  <2>1. /\ (i + 1) + 1 \in 0 .. Len(requests) /\ i + 1 \in 0 .. Len(requests)
        /\ ((i + 1) + 1) - 1 = i + 1
        /\ (i + 1) + 1 \in 1 .. Len(requests) /\ 1 \in 1 .. Len(requests)
    BY <1>0
  <2>2. /\ BytesOf(requests, (i + 1) + 1)
             = BytesOf(requests, i + 1) + RequestSize[requests[(i + 1) + 1]]
        /\ BytesOf(requests, i + 1) \in Nat
    <3>1. (i + 1) + 1 > 0
      OBVIOUS
    <3> QED
      BY <2>1, <3>1, BytesOfEquation
  <2>3. BytesOf(requests, i + 1) >= RequestSize[requests[1]]
    BY <1>0, <1>2, <2>1
  <2>4. RequestSize[requests[(i + 1) + 1]] \in Nat /\ RequestSize[requests[1]] \in Nat
    BY <1>0, <2>1
  <2>5. ASSUME NEW x \in Nat, NEW y \in Nat, NEW z \in Nat, x >= z PROVE x + y >= z
    BY <2>5
  <2> QED
    BY <2>2, <2>3, <2>4, <2>5
<1>3. T = Nat
  <2>1. T \in SUBSET Nat
    OBVIOUS
  <2> HIDE DEF T
  <2> QED
    BY <1>1, <1>2, <2>1, SetInduction
<1>4. PICK k \in Nat : k + 1 = n
  <2>1. n - 1 \in Nat /\ (n - 1) + 1 = n
    BY <1>0
  <2> QED
    BY <2>1
<1>5. k \in T
  BY <1>3, <1>4
<1>6. k + 1 <= Len(requests)
  BY <1>0, <1>4
<1>7. BytesOf(requests, k + 1) >= RequestSize[requests[1]]
  BY <1>5, <1>6
<1> QED
  BY <1>4, <1>7

\* A nonempty set of naturals with a bound has a greatest member, and Max is it.
LEMMA MaxFacts ==
    ASSUME NEW S \in SUBSET Nat, S # {}, NEW bound \in Nat, \A x \in S : x <= bound
    PROVE  Max(S) \in S /\ \A x \in S : x <= Max(S)
<1> DEFINE R == {y \in Nat : \E x \in S : y = bound - x}
<1>1. R \in SUBSET Nat /\ R # {}
  <2>1. PICK x \in S : TRUE
    OBVIOUS
  <2>2. bound - x \in R
    BY <2>1
  <2> QED
    BY <2>2
<1>2. PICK y \in R : \A z \in R : y <= z
  BY <1>1, LeastNat
<1>3. PICK m \in S : y = bound - m
  BY <1>2
<1>4. \A x \in S : m >= x
  <2> TAKE x \in S
  <2>1. bound - x \in R
    OBVIOUS
  <2>2. y <= bound - x
    BY <1>2, <2>1
  <2> QED
    BY <1>3, <2>2
<1>5. Max(S) \in S /\ \A x \in S : Max(S) >= x
  BY <1>4 DEF Max
<1> QED
  BY <1>5

\* Decode takes whole frames, and stops at an oversized header or at the first
\* frame that is not whole.
LEMMA WholeFramesFacts ==
    ASSUME NEW c \in ConnType
    PROVE  LET n == WholeFrames(c)
           IN  /\ n \in 0 .. Len(c.input)
               /\ BytesOf(c.input, n) \in Nat
               /\ BytesOf(c.input, n) <= c.readBytes
               /\ \A i \in 1 .. n : c.input[i] # "oversized"
               /\ n < Len(c.input) =>
                     \/ c.input[n + 1] = "oversized"
                     \/ c.readBytes - BytesOf(c.input, n) < RequestSize[c.input[n + 1]]
<1> DEFINE Whole(m) == /\ BytesOf(c.input, m) <= c.readBytes
                       /\ \A i \in 1 .. m : c.input[i] # "oversized"
           S == {m \in 0 .. Len(c.input) : Whole(m)}
           n == WholeFrames(c)
<1>0. /\ c.input \in Seq(Kinds) /\ Len(c.input) \in Nat /\ c.readBytes \in Nat
      /\ \A i \in 1 .. Len(c.input) : RequestSize[c.input[i]] \in Nat
  BY ConnFields, ConnectionAssumption
<1>1. 0 \in S
  <2>1. 0 \in 0 .. Len(c.input) /\ BytesOf(c.input, 0) = 0
    BY <1>0, BytesOfEquation
  <2> QED
    BY <1>0, <2>1
<1>2. n = Max(S)
  BY DEF WholeFrames
<1>3. n \in S /\ \A m \in S : m <= n
  <2>1. S \in SUBSET Nat /\ S # {} /\ \A m \in S : m <= Len(c.input)
    BY <1>0, <1>1
  <2> HIDE DEF S, n
  <2> QED
    BY <1>0, <1>2, <2>1, MaxFacts
<1> HIDE DEF n
<1>4. n \in 0 .. Len(c.input) /\ n \in Nat /\ Whole(n)
  BY <1>0, <1>3
<1>5. BytesOf(c.input, n) \in Nat
  BY <1>0, <1>4, BytesOfEquation
<1>6. ASSUME n < Len(c.input), c.input[n + 1] # "oversized"
      PROVE  c.readBytes - BytesOf(c.input, n) < RequestSize[c.input[n + 1]]
  <2>1. n + 1 \in 0 .. Len(c.input) /\ n + 1 \in 1 .. Len(c.input) /\ (n + 1) - 1 = n /\ n + 1 > 0
    BY <1>0, <1>4, <1>6
  <2>2. n + 1 \notin S
    BY <1>3, <1>4
  <2>3. \A i \in 1 .. (n + 1) : c.input[i] # "oversized"
    <3>1. \A i \in 1 .. (n + 1) : i \in 1 .. n \/ i = n + 1
      BY <1>4
    <3> QED
      BY <1>4, <1>6, <3>1
  <2>4. ~(BytesOf(c.input, n + 1) <= c.readBytes)
    BY <2>1, <2>2, <2>3
  <2>5. BytesOf(c.input, n + 1) = BytesOf(c.input, n) + RequestSize[c.input[n + 1]]
    BY <1>0, <2>1, BytesOfEquation
  <2>6. ASSUME NEW x \in Nat, NEW y \in Nat, NEW z \in Nat, ~(x + y <= z) PROVE z - x < y
    BY <2>6
  <2> QED
    BY <1>0, <1>5, <2>1, <2>4, <2>5, <2>6
<1> QED
  BY <1>4, <1>5, <1>6 DEF n

\* What is left of a sequence without its first n members.
LEMMA DropFacts ==
    ASSUME NEW q \in Seq(Kinds), NEW n \in 0 .. Len(q)
    PROVE  /\ SubSeq(q, n + 1, Len(q)) \in Seq(Kinds)
           /\ Len(SubSeq(q, n + 1, Len(q))) = Len(q) - n
           /\ \A i \in 1 .. (Len(q) - n) : SubSeq(q, n + 1, Len(q))[i] = q[n + i]
<1>1. Len(q) \in Nat /\ n \in Nat /\ n + 1 \in 1 .. (Len(q) + 1)
  OBVIOUS
<1>2. \A i \in (n + 1) .. Len(q) : q[i] \in Kinds
  BY <1>1
<1>3. Len(SubSeq(q, n + 1, Len(q))) = Len(q) - n
  BY <1>1
<1>4. \A i \in 1 .. (Len(q) - n) : SubSeq(q, n + 1, Len(q))[i] = q[n + i]
  BY <1>1
<1>5. SubSeq(q, n + 1, Len(q)) \in Seq(Kinds)
  BY <1>1, <1>2
<1> QED
  BY <1>3, <1>4, <1>5

\* A read of bytes that the peer has sent and that fit keeps a connection steady,
\* wherever the frames are cut.
LEMMA ReceivedSteady ==
    ASSUME NEW w \in Worlds, NEW c, Steady(c, w), Open(c), NEW bytes \in Nat,
           c.readBytes + bytes <= MaxReadBufferBytes,
           c.readBytes + bytes <= BytesOf(c.input, Len(c.input))
    PROVE  Steady(Received(c, bytes), w)
<1> DEFINE got == [c EXCEPT !.readBytes = c.readBytes + bytes]
           n == WholeFrames(got)
           d == Decoded(got)
           q == c.input
           rb == c.readBytes + bytes
           k == BytesOf(q, n)
<1>0. /\ Sound(c, w) /\ Aligned(c, w) /\ NoQuit(c, w)
      /\ c \in ConnType /\ q \in Seq(Kinds) /\ Len(q) \in Nat
      /\ c.readBytes \in Nat /\ c.executed \in Nat /\ rb \in Nat
      /\ w.asked \in Seq(Kinds) /\ Len(w.asked) \in Nat
  BY ConnFields DEF Steady, Sound, Worlds
<1>1. /\ got \in ConnType /\ got.readBytes = rb /\ got.input = q
      /\ got.pending = c.pending /\ got.executed = c.executed /\ got.dropped = c.dropped
      /\ got.closed = c.closed /\ got.closeAfterWrite = c.closeAfterWrite
      /\ got.slowClient = c.slowClient /\ got.inputEnded = c.inputEnded
      /\ got.protocolError = c.protocolError
  BY <1>0 DEF ConnType
<1>2. /\ n \in 0 .. Len(q) /\ n \in Nat /\ k \in Nat /\ k <= rb
      /\ \A i \in 1 .. n : q[i] # "oversized"
      /\ n < Len(q) => q[n + 1] = "oversized" \/ rb - k < RequestSize[q[n + 1]]
  <2> HIDE DEF got
  <2> QED
    BY <1>0, <1>1, WholeFramesFacts
<1> DEFINE rest == SubSeq(q, n + 1, Len(q))
<1>3. /\ rest \in Seq(Kinds) /\ Len(rest) = Len(q) - n
      /\ \A i \in 1 .. (Len(q) - n) : rest[i] = q[n + i]
  <2> HIDE DEF n, q
  <2> QED
    BY <1>0, <1>2, DropFacts
<1>4. d = [got EXCEPT !.input = rest, !.readBytes = rb - k]
  BY <1>1 DEF Decoded
<1>5. rb - k \in Nat /\ rb - k <= rb
  <2> HIDE DEF rb, k
  <2> QED
    BY <1>0, <1>2
<1>6. DecodeThrows(got) <=> n < Len(q) /\ q[n + 1] = "oversized" /\ rb - k >= HeaderSize
  BY <1>1 DEF DecodeThrows
<1>7. Received(c, bytes) =
         IF DecodeThrows(got)
         THEN LastResponse([d EXCEPT !.protocolError = TRUE], ErrorSize)
         ELSE ProcessPayloads(d, q, n)
  BY <1>1 DEF Received
<1> HIDE DEF got, rest, k, n, rb
<1>8. /\ d \in ConnType /\ d.input = rest /\ d.readBytes = rb - k
      /\ d.pending = c.pending /\ d.executed = c.executed /\ d.dropped = c.dropped
      /\ d.closed = c.closed /\ d.closeAfterWrite = c.closeAfterWrite
      /\ d.slowClient = c.slowClient /\ d.inputEnded = c.inputEnded
      /\ d.protocolError = c.protocolError
  BY <1>1, <1>3, <1>4, <1>5 DEF ConnType
<1> HIDE DEF d
<1>9. Sound(d, w) /\ Open(d) /\ NoQuit(d, w)
  <2>1. Bounded(d)
    <3>1. rb <= MaxReadBufferBytes
      BY DEF rb
    <3>2. d.readBytes <= MaxReadBufferBytes
      BY <1>0, <1>5, <1>8, <3>1, ConnectionAssumption
    <3> QED
      BY <1>0, <1>8, <3>2 DEF Bounded, Sound
  <2>2. History(d, w) /\ Open(d) /\ NoQuit(d, w)
    BY <1>0, <1>8 DEF History, Sound, Open, NoQuit
  <2>3. d.dropped > 0 => DropReason(d, w)
    BY <1>0, <1>8 DEF Sound, DropReason
  <2> QED
    BY <1>8, <2>1, <2>2, <2>3 DEF Sound
<1>10. CASE DecodeThrows(got)
  <2> DEFINE e == [d EXCEPT !.protocolError = TRUE]
  <2>1. /\ e \in ConnType /\ e.protocolError
        /\ e.readBytes = d.readBytes /\ e.pending = d.pending
        /\ e.executed = d.executed /\ e.dropped = d.dropped
        /\ e.closed = d.closed /\ e.closeAfterWrite = d.closeAfterWrite
        /\ e.slowClient = d.slowClient /\ e.inputEnded = d.inputEnded
    BY <1>8 DEF ConnType
  <2> HIDE DEF e
  <2>2. Bounded(e) /\ Open(e) /\ Ended(e, w)
    BY <1>9, <2>1 DEF Bounded, Open, Ended, Sound
  <2>3. History(e, w)
    <3>1. n + 1 \in 1 .. Len(q) /\ q[n + 1] = "oversized"
      BY <1>0, <1>2, <1>6, <1>10
    <3>2. w.asked[c.executed + (n + 1)] = "oversized"
      BY <1>0, <3>1 DEF Aligned
    <3>3. c.executed + (n + 1) \in 1 .. Len(w.asked)
      <4>1. c.executed + Len(q) = Len(w.asked)
        BY <1>0 DEF Aligned
      <4> HIDE DEF q
      <4>2. ASSUME NEW x \in Nat, NEW y \in Nat, NEW z \in Nat, x + y = z, n + 1 \in 1 .. y
            PROVE  x + (n + 1) \in 1 .. z
        BY <1>2, <4>2
      <4> QED
        BY <1>0, <3>1, <4>1, <4>2
    <3>4. \E i \in 1 .. Len(w.asked) : w.asked[i] = "oversized"
      BY <3>2, <3>3
    <3> QED
      BY <1>9, <2>1, <3>4 DEF History, Sound
  <2>4. e.dropped > 0 => DropReason(e, w)
    BY <1>9, <2>1 DEF Sound, DropReason
  <2>5. Sound(e, w)
    BY <2>1, <2>2, <2>3, <2>4 DEF Sound
  <2>6. Sound(LastResponse(e, ErrorSize), w) /\ ~Open(LastResponse(e, ErrorSize))
    BY <2>2, <2>5, LastResponseSound, ConnectionAssumption
  <2> QED
    BY <1>7, <1>10, <2>6 DEF Steady, e
<1>11. CASE ~DecodeThrows(got)
  <2> DEFINE r == ProcessPayloads(d, q, n)
  <2>0. PICK x, y, z : x = c.executed /\ y = Len(q) /\ z = Len(w.asked)
    OBVIOUS
  <2>1. x \in Nat /\ y \in Nat /\ z \in Nat /\ x + y = z /\ n \in 0 .. y /\ n \in Nat
    BY <1>0, <1>2, <2>0 DEF Aligned
  <2>2. \A i \in 1 .. y : q[i] = w.asked[x + i]
    BY <1>0, <2>0 DEF Aligned
  <2>3. /\ x + n <= z
        /\ \A i \in 1 .. n : q[i] = w.asked[x + i]
    <3>1. x + n <= z /\ \A i \in 1 .. n : i \in 1 .. y
      BY <2>1
    <3> QED
      BY <2>2, <3>1
  <2>4. /\ Sound(r, w)
        /\ Open(r) => /\ NoQuit(r, w)
                      /\ r.executed = x + n
                      /\ r.input = rest /\ r.readBytes = rb - k
    <3>1. d.executed = x /\ n \in 0 .. Len(q)
      BY <1>2, <1>8, <2>0
    <3>2. /\ Sound(r, w)
          /\ Open(r) => /\ NoQuit(r, w)
                        /\ r.executed = d.executed + n
                        /\ r.input = d.input /\ r.readBytes = d.readBytes
      <4>1. d.executed + n <= Len(w.asked) /\ \A i \in 1 .. n : q[i] = w.asked[d.executed + i]
        BY <2>0, <2>3, <3>1
      <4>2. q \in Seq(Kinds)
        BY <1>0
      <4> HIDE DEF q
      <4> QED
        BY <1>9, <3>1, <4>1, <4>2, ProcessPayloadsSound
    <3> QED
      BY <1>8, <3>1, <3>2
  <2> HIDE DEF r
  <2>5. ASSUME Open(r) PROVE Aligned(r, w)
    <3>1. Len(rest) = y - n
      BY <1>3, <2>0
    <3>2. (x + n) + (y - n) = z
      BY <2>1
    <3>3. ASSUME NEW i \in 1 .. (y - n) PROVE rest[i] = w.asked[(x + n) + i]
      <4>1. n + i \in 1 .. y /\ x + (n + i) = (x + n) + i /\ i \in 1 .. (y - n)
        BY <2>1, <3>3
      <4>2. rest[i] = q[n + i]
        BY <1>3, <2>0, <3>3
      <4> QED
        BY <2>2, <4>1, <4>2
    <3> QED
      BY <2>0, <2>4, <2>5, <3>1, <3>2, <3>3 DEF Aligned
  <2>6. ASSUME Open(r) PROVE Undecoded(r)
    <3>1. CASE n = Len(q)
      <4>1. rb <= k
        BY <3>1 DEF rb, k
      <4>2. rb - k = 0
        BY <1>0, <1>2, <4>1
      <4>3. Len(rest) = 0
        BY <1>0, <1>3, <3>1
      <4> QED
        BY <2>4, <2>6, <4>2, <4>3 DEF Undecoded
    <3>2. CASE n < Len(q)
      <4>1. rest[1] = q[n + 1] /\ Len(rest) > 0
        <5>1. 1 \in 1 .. (Len(q) - n) /\ Len(q) - n > 0
          BY <1>0, <1>2, <3>2
        <5> QED
          BY <1>3, <5>1
      <4>2. rb - k < Needed(q[n + 1])
        <5>1. CASE q[n + 1] = "oversized"
          <6>1. ~(rb - k >= HeaderSize)
            BY <1>6, <1>11, <3>2, <5>1
          <6>2. rb - k < HeaderSize
            BY <1>5, <6>1, ConnectionAssumption
          <6> QED
            BY <5>1, <6>2 DEF Needed
        <5>2. CASE q[n + 1] # "oversized"
          BY <1>2, <3>2, <5>2 DEF Needed
        <5> QED
          BY <5>1, <5>2
      <4>3. r.readBytes < Needed(r.input[1]) /\ Len(r.input) # 0
        BY <2>4, <2>6, <4>1, <4>2
      <4> QED
        BY <4>3 DEF Undecoded
    <3> QED
      BY <1>0, <1>2, <3>1, <3>2
  <2>7. Steady(r, w)
    BY <2>4, <2>5, <2>6 DEF Steady
  <2> QED
    BY <1>7, <1>11, <2>7 DEF r
<1> QED
  BY <1>10, <1>11

-----------------------------------------------------------------------------
(* The handlers of one event *)

\* Min of two and of three integers.
LEMMA MinOfTwo ==
    ASSUME NEW a \in Int, NEW b \in Int
    PROVE  Min({a, b}) \in Int /\ Min({a, b}) <= a /\ Min({a, b}) <= b
<1>1. \E x \in {a, b} : \A y \in {a, b} : x =< y
  OBVIOUS
<1>2. Min({a, b}) \in {a, b} /\ \A y \in {a, b} : Min({a, b}) =< y
  BY <1>1 DEF Min
<1> QED
  BY <1>2

\* The same for the three bounds of one send.
LEMMA MinOfThree ==
    ASSUME NEW a \in Nat, NEW b \in Nat, NEW d \in Nat
    PROVE  Min({a, b, d}) \in Nat /\ Min({a, b, d}) <= a /\ Min({a, b, d}) <= d
<1>1. \E x \in {a, b, d} : \A y \in {a, b, d} : x =< y
  OBVIOUS
<1>2. Min({a, b, d}) \in {a, b, d} /\ \A y \in {a, b, d} : Min({a, b, d}) =< y
  BY <1>1 DEF Min
<1> QED
  BY <1>2

\* A full buffer means a frame that is too long, and an empty kernel a peer whose
\* requests were all executed.
LEMMA BufferFull ==
    ASSUME NEW w \in Worlds, NEW c, Steady(c, w), Open(c),
           c.readBytes >= MaxReadBufferBytes
    PROVE  Ended(c, w)
<1> DEFINE q == c.input
<1>0. /\ c \in ConnType /\ c.executed \in Nat /\ c.readBytes \in Nat
      /\ q \in Seq(Kinds) /\ Len(q) \in Nat /\ Len(w.asked) \in Nat
      /\ Aligned(c, w) /\ Undecoded(c)
  BY ConnFields DEF Steady, Sound, Worlds
<1>1. Len(q) > 0 /\ c.readBytes < Needed(q[1])
  BY <1>0, ConnectionAssumption DEF Undecoded
<1>2. q[1] \in Kinds
  BY <1>0, <1>1
<1>3. q[1] = "long"
  <2>1. q[1] # "oversized"
    BY <1>0, <1>1, ConnectionAssumption DEF Needed
  <2>2. q[1] \notin {"command", "quit"}
    <3> SUFFICES ASSUME q[1] \in {"command", "quit"} PROVE FALSE
      OBVIOUS
    <3>1. RequestSize[q[1]] <= MaxReadBufferBytes /\ RequestSize[q[1]] \in Nat
      BY <1>2, ConnectionAssumption
    <3>2. c.readBytes < RequestSize[q[1]]
      BY <1>1, <2>1 DEF Needed
    <3> QED
      BY <1>0, <3>1, <3>2, ConnectionAssumption
  <2> QED
    BY <1>2, <2>1, <2>2 DEF Kinds
<1>4. 1 \in 1 .. Len(q) /\ c.executed + 1 \in 1 .. Len(w.asked)
  BY <1>0, <1>1 DEF Aligned
<1>5. w.asked[c.executed + 1] = "long"
  BY <1>0, <1>3, <1>4 DEF Aligned
<1> QED
  BY <1>4, <1>5 DEF Ended

\* When the kernel holds nothing more, every request was executed.
LEMMA NothingLeft ==
    ASSUME NEW w \in Worlds, NEW c, Steady(c, w), Open(c), Available(c) = 0
    PROVE  c.executed = Len(w.asked)
<1> DEFINE q == c.input
<1>0. /\ c \in ConnType /\ c.executed \in Nat /\ c.readBytes \in Nat
      /\ q \in Seq(Kinds) /\ Len(q) \in Nat /\ Len(w.asked) \in Nat
      /\ Aligned(c, w) /\ Undecoded(c)
  BY ConnFields DEF Steady, Sound, Worlds
<1>1. BytesOf(q, Len(q)) \in Nat
  BY <1>0, BytesOfEquation
<1>2. BytesOf(q, Len(q)) = c.readBytes
  BY <1>0, <1>1 DEF Available
<1>3. Len(q) = 0
  <2> SUFFICES ASSUME Len(q) > 0 PROVE FALSE
    BY <1>0
  <2>1. 1 \in 1 .. Len(q) /\ Len(q) \in 1 .. Len(q)
    BY <1>0
  <2>2. BytesOf(q, Len(q)) >= RequestSize[q[1]]
    BY <1>0, <2>1, BytesOfFirst
  <2>3. q[1] \in Kinds /\ RequestSize[q[1]] \in Nat /\ RequestSize[q[1]] >= HeaderSize
    BY <1>0, <2>1, ConnectionAssumption
  <2>4. c.readBytes < Needed(q[1])
    BY <1>0 DEF Undecoded
  <2>5. Needed(q[1]) <= RequestSize[q[1]] /\ Needed(q[1]) \in Nat
    BY <2>3, ConnectionAssumption DEF Needed
  <2> QED
    BY <1>0, <1>2, <2>2, <2>3, <2>4, <2>5
<1> QED
  BY <1>0, <1>3 DEF Aligned

\* One event of HandleClientRead.
LEMMA HandleClientReadSteady ==
    ASSUME TypeOK, NEW c, Steady(c, World), NEW d \in HandleClientRead(c)
    PROVE  /\ Steady(d, World)
           /\ ~Open(c) \/ c.readPaused => d = c
<1> DEFINE w == World
<1>0. w \in Worlds /\ w.asked = asked /\ w.eof = peer.eof /\ w.reset = peer.reset
  BY DEF World, Worlds, TypeOK
<1>1. /\ Sound(c, w) /\ c \in ConnType /\ c.readBytes \in Nat /\ c.pending \in Nat
      /\ c.input \in Seq(Kinds) /\ Len(c.input) \in Nat
  BY ConnFields DEF Steady, Sound
<1> HIDE DEF w
<1>2. CASE c.closed \/ c.readPaused \/ c.closeAfterWrite
  <2>1. d = c
    BY <1>2 DEF HandleClientRead
  <2> QED
    BY <2>1
<1>3. CASE ~(c.closed \/ c.readPaused \/ c.closeAfterWrite)
  <2>0. Open(c) /\ ~c.readPaused
    BY <1>3 DEF Open
  <2> DEFINE sent == BytesOf(c.input, Len(c.input))
  <2>1. sent \in Nat /\ Available(c) = sent - c.readBytes /\ Available(c) \in Int
    <3>1. sent \in Nat
      BY <1>1, BytesOfEquation
    <3> QED
      BY <1>1, <3>1 DEF Available
  <2>2. CASE c.readBytes >= MaxReadBufferBytes
    <3>1. d = LastResponse(c, ErrorSize)
      BY <1>3, <2>2 DEF HandleClientRead
    <3>2. Sound(d, w) /\ ~Open(d)
      BY <1>0, <1>1, <2>0, <2>2, <3>1, BufferFull, LastResponseSound, ConnectionAssumption DEF w
    <3> QED
      BY <2>0, <3>2 DEF Steady, w
  <2>3. CASE ~(c.readBytes >= MaxReadBufferBytes)
    <3>1. \/ \E bytes \in 1 .. Min({ReadSize(c), Available(c)}) : d = Received(c, bytes)
          \/ peer.reset /\ d = MarkClosed(c)
          \/ peer.eof /\ Available(c) = 0 /\ d = InputEnds(c)
          \/ d = c
      BY <1>3, <2>3, Zenon DEF HandleClientRead
    <3>2. ASSUME NEW bytes \in 1 .. Min({ReadSize(c), Available(c)}), d = Received(c, bytes)
          PROVE  Steady(d, w)
      <4>1. ReadSize(c) \in Int /\ ReadSize(c) <= MaxReadBufferBytes - c.readBytes
        <5>1. ReadChunk \in Int /\ MaxReadBufferBytes - c.readBytes \in Int
          BY <1>1, ConnectionAssumption
        <5> QED
          BY <5>1, MinOfTwo DEF ReadSize
      <4>2. bytes \in Nat /\ bytes <= ReadSize(c) /\ bytes <= Available(c)
        <5>0. PICK m : m = Min({ReadSize(c), Available(c)})
          OBVIOUS
        <5>1. m \in Int /\ m <= ReadSize(c) /\ m <= Available(c)
          BY <2>1, <4>1, <5>0, MinOfTwo
        <5>2. bytes \in 1 .. m
          BY <3>2, <5>0
        <5> QED
          BY <2>1, <4>1, <5>1, <5>2
      <4>3. c.readBytes + bytes <= MaxReadBufferBytes /\ c.readBytes + bytes <= sent
        <5> HIDE DEF sent
        <5> QED
          BY <1>1, <2>1, <4>1, <4>2, ConnectionAssumption
      <4> QED
        BY <1>0, <2>0, <3>2, <4>2, <4>3, ReceivedSteady DEF w
    <3>3. ASSUME peer.reset, d = MarkClosed(c) PROVE Steady(d, w)
      <4>1. Ended(c, w) /\ DropReason(c, w)
        BY <1>0, <3>3 DEF Ended, HangupReason, DropReason
      <4> QED
        BY <1>0, <1>1, <3>3, <4>1, MarkClosedSound
    <3>4. ASSUME peer.eof, Available(c) = 0, d = InputEnds(c) PROVE Steady(d, w)
      <4>1. c.executed = Len(w.asked)
        BY <1>0, <2>0, <3>4, NothingLeft DEF w
      <4>2. Ended(c, w)
        BY <1>0, <3>4, <4>1 DEF Ended
      <4> QED
        BY <1>0, <1>1, <3>4, <4>2, InputEndsSound
    <3> QED
      BY <2>0, <3>1, <3>2, <3>3, <3>4 DEF w
  <2> QED
    BY <2>2, <2>3
<1> QED
  BY <1>2, <1>3

\* A connection whose last response is gone is closed.
LEMMA CloseIfDoneSteady ==
    ASSUME NEW w \in Worlds, NEW c, Steady(c, w)
    PROVE  LET d == CloseIfDone(c)
           IN  /\ Steady(d, w)
               /\ d.executed = c.executed
               /\ ~d.closed => d = c /\ (c.closeAfterWrite => c.pending > 0)
<1>1. c \in ConnType /\ c.pending \in Nat /\ Sound(c, w)
  BY ConnFields DEF Steady, Sound
<1>2. CASE c.closeAfterWrite /\ c.pending = 0
  <2>1. CloseIfDone(c) = MarkClosed(c)
    BY <1>2 DEF CloseIfDone
  <2>2. Ended(c, w) /\ ~(c.pending > 0)
    BY <1>1, <1>2 DEF Sound, Open
  <2>3. Steady(MarkClosed(c), w) /\ MarkClosed(c).closed /\ MarkClosed(c).executed = c.executed
    BY <1>1, <2>2, MarkClosedSound
  <2> QED
    BY <2>1, <2>3
<1>3. CASE ~(c.closeAfterWrite /\ c.pending = 0)
  BY <1>1, <1>3 DEF CloseIfDone
<1> QED
  BY <1>2, <1>3

\* Steadiness does not depend on readPaused, on what is registered, or on output
\* that is sent.
LEMMA SteadyTransfer ==
    ASSUME NEW w \in Worlds, NEW c, Steady(c, w), NEW d \in ConnType,
           d.input = c.input, d.readBytes = c.readBytes, d.pending <= c.pending,
           d.closeAfterWrite = c.closeAfterWrite, d.closed = c.closed,
           d.executed = c.executed, d.dropped = c.dropped,
           d.slowClient = c.slowClient, d.inputEnded = c.inputEnded,
           d.protocolError = c.protocolError
    PROVE  Steady(d, w)
<1>1. c \in ConnType /\ c.pending \in Nat /\ d.pending \in Nat /\ Sound(c, w)
  BY ConnFields DEF Steady, Sound
<1>2. Bounded(d)
  BY <1>1, ConnectionAssumption DEF Sound, Bounded
<1>3. History(d, w) /\ (d.dropped > 0 => DropReason(d, w))
  BY <1>1 DEF Sound, History, DropReason
<1>4. ~Open(d) => Ended(d, w)
  BY <1>1 DEF Sound, Open, Ended
<1>5. Open(d) => Aligned(d, w) /\ NoQuit(d, w) /\ Undecoded(d)
  BY DEF Steady, Open, Aligned, NoQuit, Undecoded
<1> QED
  BY <1>2, <1>3, <1>4, <1>5 DEF Steady, Sound

\* One send takes no more than is pending and than the kernel has room for.
LEMMA WriteSizeFacts ==
    ASSUME TypeOK, NEW c \in ConnType
    PROVE  /\ WriteSize(c) \in Nat /\ WriteSize(c) <= c.pending /\ WriteSize(c) <= peer.room
           /\ c.pending - WriteSize(c) \in Nat /\ c.pending - WriteSize(c) <= c.pending
           /\ peer.room - WriteSize(c) \in 0 .. SendRoom
<1>1. c.pending \in Nat /\ MaxWriteBytesPerEvent \in Nat /\ SendRoom \in Nat
  BY ConnFields, ConnectionAssumption
<1>2. peer.room \in 0 .. SendRoom
  BY DEF TypeOK
<1>3. peer.room \in Nat
  BY <1>1, <1>2
<1>4. WriteSize(c) \in Nat /\ WriteSize(c) <= c.pending /\ WriteSize(c) <= peer.room
  BY <1>1, <1>3, MinOfThree DEF WriteSize
<1> QED
  BY <1>1, <1>2, <1>3, <1>4

\* One event of HandleClientWrite.
LEMMA HandleClientWriteSteady ==
    ASSUME TypeOK, NEW c, Steady(c, World)
    PROVE  /\ Steady(HandleClientWrite(c), World)
           /\ HandleClientWrite(c).executed = c.executed
<1> DEFINE w == World
           d == HandleClientWrite(c)
<1>0. w \in Worlds /\ w.reset = peer.reset
  BY DEF World, Worlds, TypeOK
<1>1. Sound(c, w) /\ c \in ConnType /\ c.pending \in Nat
  BY ConnFields DEF Steady, Sound
<1>w. Steady(c, w)
  OBVIOUS
<1> HIDE DEF w
<1>2. CASE d = c
  BY <1>2 DEF w
<1>3. CASE c.pending > 0 /\ peer.reset /\ d = MarkClosed(c)
  <2>1. Ended(c, w) /\ DropReason(c, w)
    BY <1>0, <1>3 DEF Ended, HangupReason, DropReason
  <2>2. Steady(MarkClosed(c), w) /\ MarkClosed(c).executed = c.executed
    BY <1>0, <1>1, <2>1, MarkClosedSound
  <2> QED
    BY <1>3, <2>2 DEF w
<1> DEFINE left == [c EXCEPT !.pending = c.pending - WriteSize(c)]
           u == UpdateReadBackPressure(left)
<1>4. CASE d = CloseIfDone(u)
  <2>1. c.pending - WriteSize(c) \in Nat /\ c.pending - WriteSize(c) <= c.pending
    BY <1>1, WriteSizeFacts
  <2>2. /\ left \in ConnType /\ left.pending = c.pending - WriteSize(c)
        /\ left.input = c.input /\ left.readBytes = c.readBytes
        /\ left.closeAfterWrite = c.closeAfterWrite /\ left.closed = c.closed
        /\ left.executed = c.executed /\ left.dropped = c.dropped
        /\ left.slowClient = c.slowClient /\ left.inputEnded = c.inputEnded
        /\ left.protocolError = c.protocolError
    BY <1>1, <2>1 DEF ConnType
  <2> HIDE DEF left
  <2>3. /\ u \in ConnType /\ u.pending = c.pending - WriteSize(c)
        /\ u.input = c.input /\ u.readBytes = c.readBytes
        /\ u.closeAfterWrite = c.closeAfterWrite /\ u.closed = c.closed
        /\ u.executed = c.executed /\ u.dropped = c.dropped
        /\ u.slowClient = c.slowClient /\ u.inputEnded = c.inputEnded
        /\ u.protocolError = c.protocolError
    BY <2>2, UpdateFields
  <2> HIDE DEF u, d
  <2>4. Steady(u, w)
    <3>1. u.pending <= c.pending
      BY <2>1, <2>3
    <3> QED
      BY <1>0, <1>w, <2>3, <3>1, SteadyTransfer
  <2>5. Steady(d, w) /\ d.executed = u.executed
    BY <1>0, <1>4, <2>4, CloseIfDoneSteady
  <2> QED
    BY <2>3, <2>5 DEF w, d
<1> QED
  BY <1>2, <1>3, <1>4 DEF HandleClientWrite

\* HandleHangup, when there is a reason to hang up.
LEMMA HandleHangupSteady ==
    ASSUME NEW w \in Worlds, NEW c, Steady(c, w), HangupReason(w)
    PROVE  /\ Steady(HandleHangup(c), w)
           /\ HandleHangup(c).executed = c.executed
           /\ ~Open(HandleHangup(c))
<1>1. CASE c.closed
  BY <1>1 DEF HandleHangup, Open
<1>2. CASE ~c.closed
  <2> DEFINE d == [c EXCEPT !.readPaused = TRUE, !.closeAfterWrite = TRUE]
  <2>1. Sound(c, w) /\ c \in ConnType
    BY DEF Steady, Sound
  <2>2. /\ d \in ConnType /\ d.closeAfterWrite /\ d.pending = c.pending
        /\ d.readBytes = c.readBytes /\ d.executed = c.executed /\ d.dropped = c.dropped
        /\ d.slowClient = c.slowClient /\ d.inputEnded = c.inputEnded
        /\ d.protocolError = c.protocolError
    BY <2>1 DEF ConnType
  <2>3. HandleHangup(c) = CloseIfDone(d)
    BY <1>2 DEF HandleHangup
  <2> HIDE DEF d
  <2>4. Bounded(d) /\ History(d, w) /\ (d.dropped > 0 => DropReason(d, w))
    BY <2>1, <2>2 DEF Sound, Bounded, History, DropReason
  <2>5. Ended(d, w) /\ ~Open(d)
    BY <2>2 DEF Ended, Open
  <2>6. Steady(d, w)
    BY <2>2, <2>4, <2>5 DEF Steady, Sound
  <2>7. /\ Steady(CloseIfDone(d), w) /\ CloseIfDone(d).executed = d.executed
        /\ ~CloseIfDone(d).closed => CloseIfDone(d) = d
    BY <2>6, CloseIfDoneSteady
  <2> QED
    BY <2>2, <2>3, <2>5, <2>7 DEF Open
<1> QED
  BY <1>1, <1>2

\* RefreshConnectionInterest leaves the interests, the flags and the watermarks
\* consistent; it closes a connection nobody would wait for.
Registered(c) ==
    ~c.closed => c.registered = DesiredEvents(c) /\ c.registered # {}

\* RefreshConnectionInterest leaves all three consistent, and executes nothing.
LEMMA RefreshSteady ==
    ASSUME NEW w \in Worlds, NEW c, Steady(c, w)
    PROVE  LET r == RefreshConnectionInterest(c)
           IN  /\ Steady(r, w) /\ Registered(r) /\ Watermark(r)
               /\ r.executed = c.executed
<1> DEFINE v == UpdateReadBackPressure(c)
           u == CloseIfDone(v)
           r == RefreshConnectionInterest(c)
<1>0. c \in ConnType /\ c.pending \in Nat
  BY ConnFields DEF Steady, Sound
<1>1. /\ v \in ConnType /\ v.input = c.input /\ v.readBytes = c.readBytes
      /\ v.pending = c.pending
      /\ v.closeAfterWrite = c.closeAfterWrite /\ v.closed = c.closed
      /\ v.executed = c.executed /\ v.dropped = c.dropped
      /\ v.slowClient = c.slowClient /\ v.inputEnded = c.inputEnded
      /\ v.protocolError = c.protocolError
      /\ Watermark(v)
      /\ Open(v) /\ v.readPaused =>
            v.pending > WriteLowWatermarkBytes \/ v.pending >= WriteHighWatermarkBytes
  BY <1>0, UpdateFields
<1> HIDE DEF v
<1>2. Steady(v, w)
  <2>1. v.pending <= c.pending
    BY <1>0, <1>1
  <2> QED
    BY <1>1, <2>1, SteadyTransfer
<1>3. /\ Steady(u, w) /\ u.executed = v.executed
      /\ ~u.closed => u = v /\ (v.closeAfterWrite => v.pending > 0)
  BY <1>2, CloseIfDoneSteady
<1>4. r = IF u.closed THEN u
          ELSE IF DesiredEvents(u) = {} THEN MarkClosed(u)
          ELSE [u EXCEPT !.registered = DesiredEvents(u)]
  BY DEF RefreshConnectionInterest, u, v
<1> HIDE DEF u, r
<1>5. u \in ConnType /\ u.pending \in Nat /\ Sound(u, w)
  BY <1>3, ConnFields DEF Steady, Sound
<1>6. CASE u.closed
  <2>1. r = u
    BY <1>4, <1>6
  <2> QED
    BY <1>1, <1>3, <1>6, <2>1 DEF Registered, Watermark, Open, r
<1>7. CASE ~u.closed /\ DesiredEvents(u) = {}
  <2>1. r = MarkClosed(u)
    BY <1>4, <1>7
  <2>2. "Read" \notin DesiredEvents(u) /\ "Write" \notin DesiredEvents(u)
    BY <1>7
  <2>3. u.pending = 0 /\ (u.readPaused \/ u.closeAfterWrite)
    BY <1>5, <1>7, <2>2 DEF DesiredEvents
  <2>4. ~u.closeAfterWrite /\ u.readPaused /\ Open(u)
    BY <1>3, <1>5, <1>7, <2>3 DEF Open
  <2>5. WriteHighWatermarkBytes = 0
    BY <1>1, <1>3, <1>7, <2>3, <2>4, ConnectionAssumption
  <2>6. Ended(u, w) /\ ~(u.pending > 0)
    BY <2>3, <2>5 DEF Ended
  <2>7. Steady(r, w) /\ r.closed /\ r.executed = u.executed
    BY <1>5, <2>1, <2>6, MarkClosedSound
  <2> QED
    BY <1>1, <1>3, <2>7 DEF Registered, Watermark, Open, r
<1>8. CASE ~u.closed /\ DesiredEvents(u) # {}
  <2>1. DesiredEvents(u) \subseteq {"Read", "Write"}
    BY DEF DesiredEvents
  <2>2. r = [u EXCEPT !.registered = DesiredEvents(u)]
    BY <1>4, <1>8
  <2>3. /\ r \in ConnType /\ r.registered = DesiredEvents(u)
        /\ r.input = u.input /\ r.readBytes = u.readBytes /\ r.pending = u.pending
        /\ r.readPaused = u.readPaused
        /\ r.closeAfterWrite = u.closeAfterWrite /\ r.closed = u.closed
        /\ r.executed = u.executed /\ r.dropped = u.dropped
        /\ r.slowClient = u.slowClient /\ r.inputEnded = u.inputEnded
        /\ r.protocolError = u.protocolError
    BY <1>5, <2>1, <2>2 DEF ConnType
  <2>4. DesiredEvents(r) = DesiredEvents(u)
    BY <2>3 DEF DesiredEvents
  <2>5. Steady(r, w)
    <3>1. r.pending <= u.pending
      BY <1>5, <2>3
    <3> QED
      BY <1>3, <2>3, <3>1, SteadyTransfer
  <2>6. Registered(r)
    BY <1>8, <2>3, <2>4 DEF Registered
  <2>7. Watermark(r)
    BY <1>1, <1>3, <1>8, <2>3 DEF Watermark, Open
  <2> QED
    BY <1>1, <1>3, <2>3, <2>5, <2>6, <2>7 DEF r
<1> QED
  BY <1>6, <1>7, <1>8

-----------------------------------------------------------------------------
(* The steps *)

\* The parts of TypeOK about everything but the connection.
Outside ==
    /\ m_poller \in {"epoll", "poll"}
    /\ m_state \in {"Running", "Draining", "Stopped"}
    /\ ready \subseteq {"Read", "Write", "Hangup", "Error"}
    /\ peer \in [eof : BOOLEAN, reset : BOOLEAN, room : 0 .. SendRoom]
    /\ asked \in Seq(Kinds)

\* The invariant, with the predicates of the handlers.
LEMMA IInvParts ==
    IInv <=> /\ Outside /\ Steady(conn, World) /\ Registered(conn)
             /\ Watermark(conn) /\ ReadyForACause
  BY DEF IInv, Outside, TypeOK, Registered, InterestsRegistered, Steady, Sound, ConnType

\* What a step has to establish.
LEMMA IInvPartsNext ==
    ASSUME Outside', Steady(conn', World'), Registered(conn'), Watermark(conn'),
           ReadyForACause'
    PROVE  IInv'
<1>1. TypeOK'
  BY DEF Outside, TypeOK, Steady, Sound, ConnType
<1>2. InterestsRegistered'
  BY DEF InterestsRegistered, Registered, DesiredEvents
<1>3. Watermark(conn)'
  BY DEF Watermark, Open
<1>4. Steady(conn, World)'
  BY DEF Steady
<1> QED
  BY <1>1, <1>2, <1>3, <1>4 DEF IInv

\* The fields of World.
LEMMA WorldFacts ==
    ASSUME Outside
    PROVE  /\ World \in Worlds
           /\ World.asked = asked /\ World.state = m_state /\ World.eof = peer.eof
           /\ World.reset = peer.reset /\ World.poller = m_poller
  BY DEF World, Worlds, Outside

\* The system goes on: what was sent, what the peer has done and a stop stay.
Later(w, v) ==
    /\ Len(w.asked) <= Len(v.asked)
    /\ \A i \in 1 .. Len(w.asked) : v.asked[i] = w.asked[i]
    /\ w.reset => v.reset
    /\ w.eof => v.eof /\ v.asked = w.asked
    /\ w.state # "Running" => v.state # "Running"
    /\ w.state = "Stopped" => v.state = "Stopped"
    /\ v.poller = w.poller

\* What is sound stays sound.
LEMMA SoundLater ==
    ASSUME NEW w \in Worlds, NEW v \in Worlds, Later(w, v), NEW c, Sound(c, w)
    PROVE  Sound(c, v)
<1>0. /\ c \in ConnType /\ c.executed \in Nat /\ Len(w.asked) \in Nat /\ Len(v.asked) \in Nat
      /\ Bounded(c) /\ History(c, w)
  BY ConnFields DEF Sound, Worlds
<1>1. \A i \in 1 .. Len(w.asked) : i \in 1 .. Len(v.asked)
  BY <1>0 DEF Later
<1>2. History(c, v)
  <2>1. c.executed <= Len(w.asked)
    BY <1>0 DEF History
  <2>2. c.executed <= Len(v.asked)
    BY <1>0, <2>1 DEF Later
  <2>3. ASSUME NEW i \in 1 .. (c.executed - 1) PROVE v.asked[i] # "quit"
    <3>1. i \in 1 .. Len(w.asked)
      BY <1>0, <2>1
    <3> QED
      BY <1>0, <3>1 DEF History, Later
  <2>4. c.protocolError => \E i \in 1 .. Len(v.asked) : v.asked[i] = "oversized"
    <3> SUFFICES ASSUME c.protocolError
                 PROVE  \E i \in 1 .. Len(v.asked) : v.asked[i] = "oversized"
      OBVIOUS
    <3>1. PICK i \in 1 .. Len(w.asked) : w.asked[i] = "oversized"
      BY <1>0 DEF History
    <3> QED
      BY <1>1, <3>1 DEF Later
  <2> QED
    BY <2>2, <2>3, <2>4 DEF History
<1>3. c.dropped > 0 => DropReason(c, v)
  BY DEF Sound, DropReason, Later
<1>4. ASSUME Ended(c, w) PROVE Ended(c, v)
  <2>1. CASE HangupReason(w)
    BY <2>1 DEF HangupReason, Ended, Later
  <2>2. CASE c.slowClient \/ WriteHighWatermarkBytes = 0 \/ c.protocolError
    BY <2>2 DEF Ended
  <2>3. CASE w.eof /\ c.executed = Len(w.asked)
    BY <2>3 DEF Ended, Later
  <2>4. CASE c.executed \in 1 .. Len(w.asked) /\ w.asked[c.executed] = "quit"
    BY <1>1, <2>4 DEF Ended, Later
  <2>5. CASE c.executed + 1 \in 1 .. Len(w.asked) /\ w.asked[c.executed + 1] = "long"
    BY <1>1, <2>5 DEF Ended, Later
  <2> QED
    BY <1>4, <2>1, <2>2, <2>3, <2>4, <2>5 DEF Ended
<1> QED
  BY <1>0, <1>2, <1>3, <1>4 DEF Sound

\* ... and so does steadiness, while nothing is sent.
LEMMA SteadyLater ==
    ASSUME NEW w \in Worlds, NEW v \in Worlds, Later(w, v), v.asked = w.asked,
           NEW c, Steady(c, w)
    PROVE  Steady(c, v)
<1>1. Sound(c, v)
  BY SoundLater DEF Steady
<1> QED
  BY <1>1 DEF Steady, Aligned, NoQuit

\* AddClientInLoop establishes the invariant.
LEMMA InitInvariant == Init => IInv
<1> SUFFICES ASSUME Init PROVE IInv
  OBVIOUS
<1>1. Outside
  <2>1. SendRoom \in 0 .. SendRoom /\ <<>> \in Seq(Kinds)
    BY ConnectionAssumption
  <2> QED
    BY <2>1 DEF Init, Outside
<1>2. World \in Worlds /\ World.asked = <<>>
  BY <1>1, WorldFacts DEF Init
<1>3. /\ conn \in ConnType /\ conn.input = <<>> /\ conn.readBytes = 0 /\ conn.pending = 0
      /\ ~conn.readPaused /\ ~conn.closeAfterWrite /\ ~conn.closed
      /\ conn.registered = {"Read"} /\ conn.executed = 0 /\ conn.dropped = 0
      /\ ~conn.slowClient /\ ~conn.protocolError
  <2>1. <<>> \in Seq(Kinds)
    OBVIOUS
  <2> QED
    BY <2>1 DEF Init, ConnType
<1>4. Bounded(conn) /\ History(conn, World)
  BY <1>2, <1>3, ConnectionAssumption DEF Bounded, History
<1>5. Sound(conn, World)
  BY <1>3, <1>4 DEF Sound, Open
<1>6. Aligned(conn, World) /\ NoQuit(conn, World) /\ Undecoded(conn)
  BY <1>2, <1>3 DEF Aligned, NoQuit, Undecoded
<1>7. Registered(conn) /\ Watermark(conn)
  <2>1. DesiredEvents(conn) = {"Read"}
    BY <1>3 DEF DesiredEvents
  <2> QED
    BY <1>3, <2>1, ConnectionAssumption DEF Registered, Watermark
<1>8. ReadyForACause
  BY DEF Init, ReadyForACause
<1> QED
  BY <1>1, <1>5, <1>6, <1>7, <1>8, IInvParts DEF Steady

\* A step that leaves the connection, what was asked and the stop alone.
LEMMA PeerStep ==
    ASSUME IInv, Outside', UNCHANGED <<conn, m_poller, m_state, asked>>,
           peer.eof => peer'.eof, peer.reset => peer'.reset, ReadyForACause'
    PROVE  IInv'
<1>1. Outside /\ Steady(conn, World) /\ Registered(conn) /\ Watermark(conn)
  BY IInvParts
<1>2. World \in Worlds /\ World' \in Worlds /\ Later(World, World') /\ World'.asked = World.asked
  <2>1. /\ World \in Worlds
        /\ World.asked = asked /\ World.state = m_state /\ World.eof = peer.eof
        /\ World.reset = peer.reset /\ World.poller = m_poller
    BY <1>1, WorldFacts
  <2>2. /\ World' \in Worlds
        /\ World'.asked = asked /\ World'.state = m_state /\ World'.eof = peer'.eof
        /\ World'.reset = peer'.reset /\ World'.poller = m_poller
    BY DEF World, Worlds, Outside
  <2>3. Len(asked) \in Nat
    BY <1>1 DEF Outside
  <2> QED
    BY <2>1, <2>2, <2>3 DEF Later
<1>3. Steady(conn, World')
  BY <1>1, <1>2, SteadyLater
<1>4. conn' = conn
  OBVIOUS
<1> QED
  BY <1>1, <1>3, <1>4, IInvPartsNext

\* Wait: what it reports has its cause.
LEMMA WaitInvariant == IInv /\ Wait => IInv'
<1> SUFFICES ASSUME IInv, Wait PROVE IInv'
  OBVIOUS
<1>1. Outside
  BY IInvParts
<1>2. ready' \subseteq {"Read", "Write", "Hangup", "Error"}
  BY DEF Wait, Pollable, EpollEvents, PollEvents
<1>3. Outside' /\ peer' = peer
  BY <1>1, <1>2 DEF Outside, Wait
<1>4. ReadyForACause'
  BY <1>1 DEF ReadyForACause, Outside, Wait, Pollable, EpollEvents, PollEvents
<1> QED
  BY <1>3, <1>4, PeerStep DEF Wait

\* The steps of the peer other than sending, and stuttering.
LEMMA PeerInvariant ==
    IInv /\ (PeerShutsDown \/ PeerResets \/ PeerReads \/ UNCHANGED vars) => IInv'
<1> SUFFICES ASSUME IInv, PeerShutsDown \/ PeerResets \/ PeerReads \/ UNCHANGED vars PROVE IInv'
  OBVIOUS
<1>1. Outside /\ ReadyForACause
  BY IInvParts
<1>2. SendRoom \in 0 .. SendRoom
  BY ConnectionAssumption
<1>3. CASE PeerShutsDown
  <2>1. peer' \in [eof : BOOLEAN, reset : BOOLEAN, room : 0 .. SendRoom]
        /\ peer'.eof /\ peer'.reset = peer.reset
    BY <1>1, <1>3 DEF PeerShutsDown, Outside
  <2>2. Outside' /\ ReadyForACause'
    BY <1>1, <1>3, <2>1 DEF PeerShutsDown, Outside, ReadyForACause
  <2> QED
    BY <1>3, <2>1, <2>2, PeerStep DEF PeerShutsDown
<1>4. CASE PeerResets
  <2>1. peer' \in [eof : BOOLEAN, reset : BOOLEAN, room : 0 .. SendRoom]
        /\ peer'.reset /\ peer'.eof = peer.eof
    BY <1>1, <1>4 DEF PeerResets, Outside
  <2>2. Outside' /\ ReadyForACause'
    BY <1>1, <1>4, <2>1 DEF PeerResets, Outside, ReadyForACause
  <2> QED
    BY <1>4, <2>1, <2>2, PeerStep DEF PeerResets
<1>5. CASE PeerReads
  <2>1. peer' \in [eof : BOOLEAN, reset : BOOLEAN, room : 0 .. SendRoom]
        /\ peer'.eof = peer.eof /\ peer'.reset = peer.reset
    BY <1>1, <1>2, <1>5 DEF PeerReads, Outside
  <2>2. Outside' /\ ReadyForACause'
    BY <1>1, <1>5, <2>1 DEF PeerReads, Outside, ReadyForACause
  <2> QED
    BY <1>5, <2>1, <2>2, PeerStep DEF PeerReads
<1>6. CASE UNCHANGED vars
  <2>1. Outside' /\ ReadyForACause'
    BY <1>1, <1>6 DEF vars, Outside, ReadyForACause
  <2> QED
    BY <1>6, <2>1, PeerStep DEF vars
<1> QED
  BY <1>3, <1>4, <1>5, <1>6

\* A request that is sent joins the end of both histories.
LEMMA PeerSendsInvariant ==
    ASSUME IInv, NEW kind \in Kinds, PeerSends(kind)
    PROVE  IInv'
<1> DEFINE w == World
           v == World'
<1>1. Outside /\ Steady(conn, w) /\ Registered(conn) /\ Watermark(conn) /\ ReadyForACause
  BY IInvParts
<1>2. /\ w \in Worlds /\ w.asked = asked /\ w.state = m_state /\ w.eof = peer.eof
      /\ w.reset = peer.reset /\ w.poller = m_poller
  BY <1>1, WorldFacts
<1>3. /\ asked \in Seq(Kinds) /\ Len(asked) \in Nat
      /\ asked' = Append(asked, kind) /\ asked' \in Seq(Kinds)
      /\ Len(asked') = Len(asked) + 1
      /\ asked'[Len(asked) + 1] = kind
      /\ \A i \in 1 .. Len(asked) : asked'[i] = asked[i]
  BY <1>1 DEF Outside, PeerSends
<1>4. Outside' /\ ReadyForACause'
  BY <1>1, <1>3 DEF Outside, PeerSends, ReadyForACause
<1>5. /\ v \in Worlds /\ v.asked = asked' /\ v.state = m_state /\ v.eof = peer.eof
      /\ v.reset = peer.reset /\ v.poller = m_poller
  BY <1>4 DEF World, Worlds, Outside, PeerSends
<1> HIDE DEF w, v
<1>6. Later(w, v)
  BY <1>2, <1>3, <1>5 DEF Later, PeerSends
<1>7. Sound(conn, v)
  BY <1>1, <1>2, <1>5, <1>6, SoundLater DEF Steady
<1>8. CASE conn.closed
  <2>1. conn' = conn
    BY <1>8 DEF PeerSends
  <2>2. Steady(conn', v)
    BY <1>7, <1>8, <2>1 DEF Steady, Open
  <2> QED
    BY <1>1, <1>4, <2>1, <2>2, IInvPartsNext DEF v
<1>9. CASE ~conn.closed
  <2> DEFINE d == [conn EXCEPT !.input = Append(conn.input, kind)]
             q == conn.input
  <2>1. conn \in ConnType /\ q \in Seq(Kinds) /\ Len(q) \in Nat
        /\ conn.executed \in Nat /\ conn.readBytes \in Nat
    BY <1>7, ConnFields DEF Sound
  <2>2. /\ Append(q, kind) \in Seq(Kinds) /\ Len(Append(q, kind)) = Len(q) + 1
        /\ Append(q, kind)[Len(q) + 1] = kind
        /\ \A i \in 1 .. Len(q) : Append(q, kind)[i] = q[i]
    BY <2>1
  <2>3. conn' = d
    BY <1>9 DEF PeerSends
  <2>4. /\ d \in ConnType /\ d.input = Append(q, kind)
        /\ d.readBytes = conn.readBytes /\ d.pending = conn.pending
        /\ d.readPaused = conn.readPaused /\ d.registered = conn.registered
        /\ d.closeAfterWrite = conn.closeAfterWrite /\ d.closed = conn.closed
        /\ d.executed = conn.executed /\ d.dropped = conn.dropped
        /\ d.slowClient = conn.slowClient /\ d.inputEnded = conn.inputEnded
        /\ d.protocolError = conn.protocolError
    BY <2>1, <2>2 DEF ConnType
  <2> HIDE DEF d
  <2>5. Sound(d, v)
    <3>1. Bounded(d) /\ History(d, v) /\ (d.dropped > 0 => DropReason(d, v))
      BY <1>7, <2>4 DEF Sound, Bounded, History, DropReason
    <3>2. ~Open(d) => Ended(d, v)
      BY <1>7, <2>4 DEF Sound, Open, Ended
    <3> QED
      BY <2>4, <3>1, <3>2 DEF Sound
  <2>6. ASSUME Open(d) PROVE Aligned(d, v) /\ NoQuit(d, v) /\ Undecoded(d)
    <3>1. Aligned(conn, w) /\ NoQuit(conn, w) /\ Undecoded(conn)
      BY <1>1, <2>4, <2>6 DEF Steady, Open
    <3>0. PICK x, y, z : x = conn.executed /\ y = Len(q) /\ z = Len(asked)
      OBVIOUS
    <3>2. x \in Nat /\ y \in Nat /\ z \in Nat /\ x + y = z
      BY <1>2, <1>3, <2>1, <3>0, <3>1 DEF Aligned
    <3>3. \A i \in 1 .. y : q[i] = asked[x + i]
      BY <1>2, <3>0, <3>1 DEF Aligned
    <3>4. Aligned(d, v)
      <4>1. x + (y + 1) = z + 1
        BY <3>2
      <4>2. ASSUME NEW i \in 1 .. (y + 1) PROVE Append(q, kind)[i] = asked'[x + i]
        <5>1. CASE i = y + 1
          BY <1>3, <2>2, <3>0, <4>1, <5>1
        <5>2. CASE i # y + 1
          <6>1. i \in 1 .. y /\ x + i \in 1 .. z
            BY <3>2, <4>2, <5>2
          <6> QED
            BY <1>3, <2>2, <3>0, <3>3, <6>1
        <5> QED
          BY <5>1, <5>2
      <4> QED
        BY <1>3, <1>5, <2>2, <2>4, <3>0, <4>1, <4>2 DEF Aligned
    <3>5. NoQuit(d, v)
      <4>1. \A i \in 1 .. x : i \in 1 .. z
        BY <3>2
      <4> QED
        BY <1>2, <1>3, <1>5, <2>4, <3>0, <3>1, <4>1 DEF NoQuit
    <3>6. Undecoded(d)
      <4>1. Len(d.input) = y + 1 /\ Len(d.input) # 0
        BY <2>2, <2>4, <3>0, <3>2
      <4>2. CASE y = 0
        <5>1. d.readBytes = 0
          BY <2>4, <3>0, <3>1, <4>2 DEF Undecoded
        <5>2. d.input[1] = kind
          BY <2>2, <2>4, <3>0, <4>2
        <5>3. Needed(kind) > 0
          BY ConnectionAssumption DEF Needed
        <5> QED
          BY <4>1, <5>1, <5>2, <5>3 DEF Undecoded
      <4>3. CASE y # 0
        <5>1. Len(q) > 0 /\ 1 \in 1 .. Len(q)
          BY <3>0, <3>2, <4>3
        <5>2. d.input[1] = q[1]
          BY <2>2, <2>4, <5>1
        <5> QED
          BY <2>4, <3>1, <4>1, <5>1, <5>2 DEF Undecoded
      <4> QED
        BY <4>2, <4>3
    <3> QED
      BY <3>4, <3>5, <3>6
  <2>7. Registered(d) /\ Watermark(d)
    <3>1. DesiredEvents(d) = DesiredEvents(conn)
      BY <2>4 DEF DesiredEvents
    <3> QED
      BY <1>1, <2>4, <3>1 DEF Registered, Watermark, Open
  <2>8. Steady(d, v)
    BY <2>5, <2>6 DEF Steady
  <2> QED
    BY <1>4, <2>3, <2>7, <2>8, IInvPartsNext DEF v
<1> QED
  BY <1>8, <1>9

\* A drain hangs up for its own reason, and executes nothing.
LEMMA BeginGracefulShutdownInvariant ==
    IInv /\ BeginGracefulShutdown => IInv' /\ conn'.executed = conn.executed
<1> SUFFICES ASSUME IInv, BeginGracefulShutdown
             PROVE  IInv' /\ conn'.executed = conn.executed
  OBVIOUS
<1> DEFINE w == World
           v == World'
           hungUp == HandleHangup(conn)
<1>1. Outside /\ Steady(conn, w) /\ ReadyForACause
  BY IInvParts
<1>2. /\ w \in Worlds /\ w.asked = asked /\ w.state = m_state /\ w.eof = peer.eof
      /\ w.reset = peer.reset /\ w.poller = m_poller
  BY <1>1, WorldFacts
<1>3. Outside' /\ ReadyForACause'
  BY <1>1 DEF Outside, BeginGracefulShutdown, ReadyForACause
<1>4. /\ v \in Worlds /\ v.asked = asked /\ v.state = "Draining" /\ v.eof = peer.eof
      /\ v.reset = peer.reset /\ v.poller = m_poller
  BY <1>3 DEF World, Worlds, Outside, BeginGracefulShutdown
<1>5. m_state = "Running" /\ Len(asked) \in Nat
  BY <1>1 DEF Outside, BeginGracefulShutdown
<1> HIDE DEF w, v
<1>6. Later(w, v) /\ HangupReason(v)
  BY <1>2, <1>4, <1>5 DEF Later, HangupReason
<1>7. Steady(conn, v)
  BY <1>1, <1>2, <1>4, <1>6, SteadyLater
<1>8. Steady(hungUp, v) /\ hungUp.executed = conn.executed
  BY <1>4, <1>6, <1>7, HandleHangupSteady
<1>9. conn' = RefreshConnectionInterest(hungUp)
  BY DEF BeginGracefulShutdown
<1> HIDE DEF hungUp
<1>10. /\ Steady(conn', v) /\ Registered(conn') /\ Watermark(conn')
       /\ conn'.executed = hungUp.executed
  BY <1>4, <1>8, <1>9, RefreshSteady
<1> QED
  BY <1>3, <1>8, <1>10, IInvPartsNext DEF v

\* A forced stop may drop output, and executes nothing.
LEMMA ForceCloseInvariant ==
    IInv /\ ForceClose => IInv' /\ conn'.executed = conn.executed
<1> SUFFICES ASSUME IInv, ForceClose PROVE IInv' /\ conn'.executed = conn.executed
  OBVIOUS
<1> DEFINE w == World
           v == World'
<1>1. Outside /\ Steady(conn, w)
  BY IInvParts
<1>2. /\ w \in Worlds /\ w.asked = asked /\ w.state = m_state /\ w.eof = peer.eof
      /\ w.reset = peer.reset /\ w.poller = m_poller
  BY <1>1, WorldFacts
<1>3. Outside' /\ ReadyForACause'
  BY <1>1 DEF Outside, ForceClose, ReadyForACause
<1>4. /\ v \in Worlds /\ v.asked = asked /\ v.state = "Stopped" /\ v.eof = peer.eof
      /\ v.reset = peer.reset /\ v.poller = m_poller
  BY <1>3 DEF World, Worlds, Outside, ForceClose
<1>5. Len(asked) \in Nat
  BY <1>1 DEF Outside
<1> HIDE DEF w, v
<1>6. Later(w, v) /\ Ended(conn, v) /\ DropReason(conn, v)
  BY <1>2, <1>4, <1>5 DEF Later, HangupReason, Ended, DropReason
<1>7. Steady(conn, v)
  BY <1>1, <1>2, <1>4, <1>6, SteadyLater
<1>8. conn' = MarkClosed(conn)
  BY DEF ForceClose
<1>9. Steady(conn', v) /\ conn'.closed /\ conn'.executed = conn.executed
  BY <1>4, <1>6, <1>7, <1>8, MarkClosedSound DEF Steady
<1>10. Registered(conn') /\ Watermark(conn')
  BY <1>9 DEF Registered, Watermark, Open
<1> QED
  BY <1>3, <1>9, <1>10, IInvPartsNext DEF v

\* One round of the event loop: read, write, hang up, refresh; a paused connection
\* executes nothing.
LEMMA HandleEventsInvariant ==
    ASSUME IInv, HandleEvents
    PROVE  /\ IInv'
           /\ ~Open(conn) \/ conn.readPaused => conn'.executed = conn.executed
<1> DEFINE w == World
           v == World'
<1>1. /\ Outside /\ TypeOK /\ Steady(conn, w) /\ ReadyForACause
      /\ conn \in ConnType
  BY IInvParts DEF IInv, Steady, Sound
<1>2. /\ w \in Worlds /\ w.asked = asked /\ w.state = m_state /\ w.eof = peer.eof
      /\ w.reset = peer.reset /\ w.poller = m_poller
  BY <1>1, WorldFacts
<1> HIDE DEF w, v
<1>3. PICK c \in IF m_state = "Running" /\ "Read" \in ready
                 THEN HandleClientRead(conn) ELSE {conn} :
          LET written == IF "Write" \in ready THEN HandleClientWrite(c) ELSE c
              hungUp  == IF "Hangup" \in ready THEN HandleHangup(written) ELSE written
          IN  /\ conn' = IF "Error" \in ready THEN MarkClosed(conn)
                         ELSE RefreshConnectionInterest(hungUp)
              /\ peer' = IF \/ "Error" \in ready \/ "Write" \notin ready
                            \/ c.closed \/ peer.reset
                         THEN peer
                         ELSE [peer EXCEPT !.room = peer.room - WriteSize(c)]
  BY DEF HandleEvents
<1>4. /\ Steady(c, w) /\ c \in ConnType
      /\ ~Open(conn) \/ conn.readPaused => c.executed = conn.executed
  <2>1. CASE c = conn
    BY <1>1, <2>1
  <2>2. CASE c \in HandleClientRead(conn)
    <3>1. Steady(c, w) /\ (~Open(conn) \/ conn.readPaused => c = conn)
      BY <1>1, <2>2, HandleClientReadSteady DEF w
    <3> QED
      BY <3>1 DEF Steady, Sound
  <2> QED
    BY <1>3, <2>1, <2>2
<1>5. /\ peer' \in [eof : BOOLEAN, reset : BOOLEAN, room : 0 .. SendRoom]
      /\ peer'.eof = peer.eof /\ peer'.reset = peer.reset
  <2>1. peer.room - WriteSize(c) \in 0 .. SendRoom
    BY <1>1, <1>4, WriteSizeFacts
  <2>2. peer \in [eof : BOOLEAN, reset : BOOLEAN, room : 0 .. SendRoom]
    BY <1>1 DEF Outside
  <2>3. peer' = peer \/ peer' = [peer EXCEPT !.room = peer.room - WriteSize(c)]
    BY <1>3
  <2> QED
    BY <2>1, <2>2, <2>3
<1>6. Outside' /\ ReadyForACause'
  BY <1>1, <1>5 DEF Outside, HandleEvents, ReadyForACause
<1>7. v = w
  BY <1>5 DEF HandleEvents, World, v, w
<1>8. CASE "Error" \in ready
  <2>1. conn' = MarkClosed(conn)
    BY <1>3, <1>8
  <2>2. Ended(conn, w) /\ DropReason(conn, w)
    BY <1>1, <1>2, <1>8 DEF Ended, HangupReason, DropReason, ReadyForACause
  <2>3. Steady(conn', w) /\ conn'.closed /\ conn'.executed = conn.executed
    BY <1>1, <1>2, <2>1, <2>2, MarkClosedSound DEF Steady
  <2>4. Registered(conn') /\ Watermark(conn')
    BY <2>3 DEF Registered, Watermark, Open
  <2> QED
    BY <1>6, <1>7, <2>3, <2>4, IInvPartsNext DEF v
<1>9. CASE "Error" \notin ready
  <2> DEFINE written == IF "Write" \in ready THEN HandleClientWrite(c) ELSE c
             hungUp == IF "Hangup" \in ready THEN HandleHangup(written) ELSE written
  <2>1. Steady(written, w) /\ written.executed = c.executed
    <3>1. Steady(HandleClientWrite(c), w) /\ HandleClientWrite(c).executed = c.executed
      BY <1>1, <1>4, HandleClientWriteSteady DEF w
    <3> QED
      BY <1>4, <3>1
  <2>2. conn' = RefreshConnectionInterest(hungUp)
    BY <1>3, <1>9
  <2> HIDE DEF written
  <2>3. Steady(hungUp, w) /\ hungUp.executed = c.executed
    <3>1. CASE "Hangup" \in ready
      <4>1. HangupReason(w)
        BY <1>1, <1>2, <3>1 DEF HangupReason, ReadyForACause
      <4>2. /\ Steady(HandleHangup(written), w)
            /\ HandleHangup(written).executed = written.executed
        BY <1>2, <2>1, <4>1, HandleHangupSteady
      <4> QED
        BY <2>1, <3>1, <4>2
    <3>2. CASE "Hangup" \notin ready
      BY <2>1, <3>2
    <3> QED
      BY <3>1, <3>2
  <2> HIDE DEF hungUp
  <2>4. /\ Steady(conn', w) /\ Registered(conn') /\ Watermark(conn')
        /\ conn'.executed = hungUp.executed
    BY <1>2, <2>2, <2>3, RefreshSteady
  <2>5. IInv'
    BY <1>6, <1>7, <2>4, IInvPartsNext DEF v
  <2> QED
    BY <1>4, <2>3, <2>4, <2>5
<1> QED
  BY <1>8, <1>9

-----------------------------------------------------------------------------
(* The theorems *)

\* The inductive invariant: whatever the peer sends, cuts, reads, shuts down or
\* resets, and whenever the reactor drains or stops, a connection stays steady
\* and the poller knows what it waits for.
THEOREM ConnectionInvariance == Spec => []IInv
<1>1. IInv /\ [Next]_vars => IInv'
  <2> SUFFICES ASSUME IInv, [Next]_vars PROVE IInv'
    OBVIOUS
  <2>1. CASE Wait
    BY <2>1, WaitInvariant
  <2>2. CASE HandleEvents
    BY <2>2, HandleEventsInvariant
  <2>3. CASE BeginGracefulShutdown
    BY <2>3, BeginGracefulShutdownInvariant
  <2>4. CASE ForceClose
    BY <2>4, ForceCloseInvariant
  <2>5. ASSUME NEW kind \in Kinds, PeerSends(kind) PROVE IInv'
    BY <2>5, PeerSendsInvariant
  <2>6. CASE PeerShutsDown \/ PeerResets \/ PeerReads \/ UNCHANGED vars
    BY <2>6, PeerInvariant
  <2> QED
    BY <2>1, <2>2, <2>3, <2>4, <2>5, <2>6 DEF Next
<1> QED
  BY InitInvariant, <1>1, PTL DEF Spec

\* Between two batches the flags and the interests agree, and an open connection
\* is watched for something.
THEOREM FlagsAlwaysConsistent == Spec => []FlagsConsistent
<1>1. IInv => FlagsConsistent
  BY DEF IInv, FlagsConsistent
<1> QED
  BY <1>1, ConnectionInvariance, PTL

\* The read buffer and the pending output stay within their limits, whatever
\* the sizes of the requests and of the responses.
THEOREM MemoryAlwaysBounded == Spec => []MemoryBounded
<1>1. IInv => MemoryBounded
  BY DEF IInv, Steady, Sound, Bounded, MemoryBounded
<1> QED
  BY <1>1, ConnectionInvariance, PTL

\* Nothing is executed after QUIT; output is dropped and a connection closed only
\* for one of the reasons the code names.
THEOREM ConnectionsAlwaysEndOrderly == Spec => []OrderlyEnd
<1>1. IInv => OrderlyEnd
  <2> SUFFICES ASSUME IInv PROVE OrderlyEnd
    OBVIOUS
  <2>1. /\ World.asked = asked /\ World.state = m_state /\ World.eof = peer.eof
        /\ World.reset = peer.reset /\ World.poller = m_poller
        /\ Sound(conn, World)
    BY IInvParts, WorldFacts DEF Steady
  <2>2. conn.executed \in Nat /\ Len(asked) \in Nat
    BY ConnFields DEF IInv, TypeOK, Steady, Sound
  <2>3. QuitIsLast
    BY <2>1 DEF Sound, History, QuitIsLast
  <2>4. DroppedForACause
    BY <2>1 DEF Sound, DropReason, DroppedForACause, OutputLost
  <2>5. ClosedForACause
    <3> SUFFICES ASSUME conn.closed, ~PeerAtFault, m_state = "Running",
                        WriteHighWatermarkBytes > 0, ~conn.protocolError
                 PROVE  \E i \in 1 .. (conn.executed + 1) : i <= Len(asked) /\
                           asked[i] = IF i <= conn.executed THEN "quit" ELSE "long"
      BY DEF ClosedForACause, ClosedAsDocumented, CauseToClose
    <3>1. \/ conn.executed \in 1 .. Len(asked) /\ asked[conn.executed] = "quit"
          \/ conn.executed + 1 \in 1 .. Len(asked) /\ asked[conn.executed + 1] = "long"
      <4>1. WriteHighWatermarkBytes # 0
        BY ConnectionAssumption
      <4> QED
        BY <2>1, <4>1 DEF Sound, Open, Ended, HangupReason, PeerAtFault
    <3>2. CASE conn.executed \in 1 .. Len(asked) /\ asked[conn.executed] = "quit"
      <4>1. /\ conn.executed \in 1 .. (conn.executed + 1)
            /\ conn.executed <= Len(asked) /\ conn.executed <= conn.executed
        BY <2>2, <3>2
      <4> QED
        BY <3>2, <4>1
    <3>3. CASE conn.executed + 1 \in 1 .. Len(asked) /\ asked[conn.executed + 1] = "long"
      <4>1. /\ conn.executed + 1 \in 1 .. (conn.executed + 1)
            /\ conn.executed + 1 <= Len(asked) /\ ~(conn.executed + 1 <= conn.executed)
        BY <2>2, <3>3
      <4> QED
        BY <3>3, <4>1
    <3> QED
      BY <3>1, <3>2, <3>3
  <2> QED
    BY <2>3, <2>4, <2>5 DEF OrderlyEnd
<1> QED
  BY <1>1, ConnectionInvariance, PTL

\* With poll, a peer that shuts down its sending side after its commands and reads
\* on has them all executed before the server closes.
THEOREM PollAlwaysExecutesHalfClosed == Spec => []PollHalfCloseExecuted
<1>1. IInv => PollHalfCloseExecuted
  <2> SUFFICES ASSUME IInv, m_poller = "poll", conn.closed, peer.eof,
                      ~peer.reset, ~conn.slowClient, m_state = "Running",
                      WriteHighWatermarkBytes > 0,
                      \A i \in 1 .. Len(asked) : asked[i] = "command"
               PROVE  conn.executed = Len(asked)
    BY DEF PollHalfCloseExecuted, HalfCloseExecuted
  <2>1. /\ World.asked = asked /\ World.state = m_state /\ World.eof = peer.eof
        /\ World.reset = peer.reset /\ World.poller = m_poller
        /\ Sound(conn, World)
    BY IInvParts, WorldFacts DEF Steady
  <2>2. Ended(conn, World) /\ ~conn.protocolError
    BY <2>1 DEF Sound, Open, History
  <2>3. WriteHighWatermarkBytes # 0
    BY ConnectionAssumption
  <2> QED
    BY <2>1, <2>2, <2>3 DEF Ended, HangupReason
<1> QED
  BY <1>1, ConnectionInvariance, PTL

\* Backpressure, as a property of the steps: nothing is executed from the high
\* watermark on.
THEOREM BackpressureAlwaysHolds == Spec => BackpressureHolds
<1>1. IInv /\ [Next]_vars =>
          [conn'.executed > conn.executed =>
              \/ conn.pending < WriteHighWatermarkBytes
              \/ conn.pending <= WriteLowWatermarkBytes]_vars
  <2> SUFFICES ASSUME IInv, Next, conn'.executed > conn.executed
               PROVE  \/ conn.pending < WriteHighWatermarkBytes
                      \/ conn.pending <= WriteLowWatermarkBytes
    OBVIOUS
  <2>0. Watermark(conn) /\ conn.executed \in Nat /\ conn \in ConnType
    BY ConnFields DEF IInv, Steady, Sound
  <2>1. CASE HandleEvents
    <3>1. Open(conn) /\ ~conn.readPaused
      BY <2>0, <2>1, HandleEventsInvariant
    <3> QED
      BY <2>0, <3>1 DEF Watermark
  <2>2. ASSUME ~HandleEvents PROVE conn'.executed = conn.executed
    <3>1. CASE Wait \/ PeerShutsDown \/ PeerResets \/ PeerReads
      BY <3>1 DEF Wait, PeerShutsDown, PeerResets, PeerReads
    <3>2. CASE BeginGracefulShutdown \/ ForceClose
      BY <3>2, BeginGracefulShutdownInvariant, ForceCloseInvariant
    <3>3. ASSUME NEW kind \in Kinds, PeerSends(kind)
          PROVE  conn'.executed = conn.executed
      BY <2>0, <3>3 DEF PeerSends, ConnType
    <3> QED
      BY <2>2, <3>1, <3>2, <3>3 DEF Next
  <2> QED
    BY <2>0, <2>1, <2>2
<1> QED
  BY <1>1, ConnectionInvariance, PTL DEF Spec, BackpressureHolds

=============================================================================
