-------------------------------- MODULE Client --------------------------------
(***************************************************************************)
(* The interactive client (app/client_main.cpp) at one end of a TCP        *)
(* connection and the server at the other.  The client reads a line, sends *)
(* it as one frame, waits for one response, prints it.  Of the server only *)
(* what this needs is here: it answers every frame with one frame, closes  *)
(* after the answer to a line that it takes for QUIT, and may stop.        *)
(***************************************************************************)
EXTENDS FrameCodec

CONSTANTS
    Inputs,         \* what the user can type, other than an empty line
    EmptyLine,
    Text,           \* line |-> its bytes
    Answer,         \* line |-> the bytes of the server's answer
    ServerQuits,    \* the lines that ParseCommand takes for QUIT
    ClientQuits,    \* the lines that main compares equal to "QUIT" or "quit"
    RecvSize,       \* sizeof(temp)
    MaxLines        \* bound: lines typed

ASSUME ClientAssumption ==
    /\ EmptyLine \notin Inputs
    /\ Text \in [Inputs -> Seq(Digit)] /\ IsInjective(Text)
    /\ Answer \in [Inputs -> Seq(Digit)]
    /\ \A l \in Inputs : ~EncodeThrows(Answer[l])
    /\ ClientQuits \subseteq ServerQuits /\ ServerQuits \subseteq Inputs
    /\ RecvSize \in Nat \ {0} /\ MaxLines \in Nat

VARIABLES
    pc,       \* where main is: "input", "send", "recv"; or how it ended
    input,    \* the line read last
    unsent,   \* the bytes SendAll has yet to send
    buffer,   \* RecvFrame's
    toServer, toClient,   \* bytes in the two directions of the connection
    server,   \* [open, buffer, answered]
    typed, printed        \* history

clientVars == <<pc, input, unsent, buffer, toServer, toClient, server, typed, printed>>

ClientInit ==
    /\ pc = "input" /\ input = EmptyLine
    /\ unsent = <<>> /\ buffer = <<>>
    /\ toServer = <<>> /\ toClient = <<>>
    /\ server = [open |-> TRUE, buffer |-> <<>>, answered |-> 0]
    /\ typed = <<>> /\ printed = <<>>

-----------------------------------------------------------------------------
(***************************************************************************)
(* main.                                                                   *)
(***************************************************************************)
\* getline returns a line; an empty one is ignored, one that Encode refuses
\* ends the program.
TypeLine(l) ==
    /\ pc = "input" /\ Len(typed) < MaxLines
    /\ input' = l /\ typed' = Append(typed, l)
    /\ unsent' = IF EncodeThrows(Text[l]) THEN <<>> ELSE Encode(Text[l])
    /\ pc' = IF EncodeThrows(Text[l]) THEN "error" ELSE "send"
    /\ UNCHANGED <<buffer, toServer, toClient, server, printed>>

TypeEmptyLine ==
    /\ pc = "input"
    /\ input' = EmptyLine
    /\ UNCHANGED <<pc, unsent, buffer, toServer, toClient, server, typed, printed>>

\* getline meets the end of the input.
EndOfInput ==
    /\ pc = "input"
    /\ pc' = "done"
    /\ UNCHANGED <<input, unsent, buffer, toServer, toClient, server, typed, printed>>

\* Mutant: one send is enough.
SentAll_Once(rest) == TRUE

\* The loop of SendAll ends.
SentAll(rest) == rest = <<>>

\* One send of SendAll, which takes n bytes.
SendSome(n) ==
    /\ pc = "send"
    /\ unsent' = SubSeq(unsent, n + 1, Len(unsent))
    /\ toServer' = IF server.open THEN toServer \o SubSeq(unsent, 1, n) ELSE toServer
    /\ pc' = IF SentAll(unsent') THEN "recv" ELSE "send"
    /\ buffer' = <<>>
    /\ UNCHANGED <<input, toClient, server, typed, printed>>

\* send fails: the server has closed its end.  SIGPIPE, which the client does not
\* ignore, may end it first.
SendFails ==
    /\ pc = "send" /\ ~server.open
    /\ pc' \in {"error", "killed"}
    /\ UNCHANGED <<input, unsent, buffer, toServer, toClient, server, typed, printed>>

\* What main does after it has printed the response.
NextPc(l) == IF l \in ClientQuits THEN "done" ELSE "input"

\* Mutant: what one recv returns is the response.
RecvFrame_Once(n) ==
    [frames |-> <<SubSeq(toClient, HEADER_SIZE + 1, n)>>, buffer |-> <<>>, throws |-> FALSE]

RecvFrame(n) == Decode(buffer \o SubSeq(toClient, 1, n))

\* One recv of RecvFrame, which returns n bytes.  The first frame is the result,
\* and the buffer goes out of scope with whatever else is in it.
ReceiveSome(n) ==
    LET decoded == RecvFrame(n)
        whole   == ~decoded.throws /\ decoded.frames # <<>>
    IN  /\ pc = "recv"
        /\ toClient' = SubSeq(toClient, n + 1, Len(toClient))
        /\ buffer' = IF whole THEN <<>> ELSE decoded.buffer
        /\ printed' = IF whole THEN Append(printed, Head(decoded.frames)) ELSE printed
        /\ pc' = IF decoded.throws THEN "error" ELSE IF whole THEN NextPc(input) ELSE "recv"
        /\ UNCHANGED <<input, unsent, toServer, server, typed>>

\* recv returns 0: the server has closed and all it has sent has been read.
ReceiveFails ==
    /\ pc = "recv" /\ ~server.open /\ toClient = <<>>
    /\ pc' = "error"
    /\ UNCHANGED <<input, unsent, buffer, toServer, toClient, server, typed, printed>>

-----------------------------------------------------------------------------
(***************************************************************************)
(* The server, as module Connection describes it.                          *)
(***************************************************************************)
LineOf(payload) == CHOOSE l \in Inputs : Text[l] = payload

\* It reads what is there, and answers the frames up to a QUIT.
Serve(n) ==
    LET decoded == Decode(server.buffer \o SubSeq(toServer, 1, n))
        asked   == [i \in 1..Len(decoded.frames) |-> LineOf(decoded.frames[i])]
        last    == SelectInSeq(asked, LAMBDA l : l \in ServerQuits)
        served  == IF last = 0 THEN asked ELSE SubSeq(asked, 1, last)
    IN  /\ server.open
        /\ toServer' = SubSeq(toServer, n + 1, Len(toServer))
        /\ toClient' = toClient \o FlattenSeq([i \in 1..Len(served) |-> Encode(Answer[served[i]])])
        /\ server' = [open |-> last = 0, buffer |-> decoded.buffer,
                      answered |-> server.answered + Len(served)]
        /\ UNCHANGED <<pc, input, unsent, buffer, typed, printed>>

\* A stop of the server, gracious or forced: the client still gets n bytes.
ServerStops(n) ==
    /\ server.open
    /\ server' = [server EXCEPT !.open = FALSE]
    /\ toClient' = SubSeq(toClient, 1, n)
    /\ UNCHANGED <<pc, input, unsent, buffer, toServer, typed, printed>>

User == (\E l \in Inputs : TypeLine(l)) \/ TypeEmptyLine \/ EndOfInput

Sends    == (\E n \in 1..Len(unsent) : SendSome(n)) \/ SendFails
Receives == (\E n \in 1..Len(toClient) : n <= RecvSize /\ ReceiveSome(n)) \/ ReceiveFails
Serves   == \E n \in 1..Len(toServer) : Serve(n)

Stops    == \E n \in 0..Len(toClient) : ServerStops(n)

ClientNext == User \/ Sends \/ Receives \/ Serves \/ Stops

ClientSpec == ClientInit /\ [][ClientNext]_clientVars

\* The two programs run and TCP delivers.  The user need not type anything.
ClientFairSpec == ClientSpec /\ WF_clientVars(Sends) /\ WF_clientVars(Receives) /\ WF_clientVars(Serves)

-----------------------------------------------------------------------------
\* Types; only lines that are not empty are sent, and RecvFrame's buffer stays
\* shorter than the longest frame.
ClientTypeOK ==
    /\ pc \in {"input", "send", "recv", "done", "error", "killed"}
    /\ input \in Inputs \cup {EmptyLine}
    /\ unsent \in Seq(Digit) /\ toServer \in Seq(Digit) /\ toClient \in Seq(Digit)
    /\ buffer \in Seq(Digit) /\ Len(buffer) < HEADER_SIZE + MAX_FRAME_SIZE
    /\ server \in [open : BOOLEAN, buffer : Seq(Digit), answered : 0..MaxLines]
    /\ typed \in Seq(Inputs) /\ printed \in Seq(Seq(Digit))

\* The i-th response printed is the answer to the i-th line typed, however TCP
\* cuts the responses.
AnswersInOrder ==
    /\ Len(printed) <= Len(typed)
    /\ \A i \in 1..Len(printed) : printed[i] = Answer[typed[i]]

\* RecvFrame, which throws away what follows the first frame, never has
\* anything to throw away: when the client asks for input nothing is under way.
NothingUnderWay ==
    pc = "input" => /\ toServer = <<>> \/ ~server.open
                    /\ toClient = <<>> /\ server.answered = Len(printed)

\* The client stays in step with the server: answers are printed in the order of
\* the lines, and none is on its way while the prompt waits.
ClientInStep == ClientTypeOK /\ AnswersInOrder /\ NothingUnderWay

\* The client never waits for an answer for ever: it asks for the next line or
\* ends.
ClientComesBack == (pc \in {"send", "recv"}) ~> (pc \notin {"send", "recv"})

\* client_main.cpp:88: when the user has typed QUIT (that is, a line which makes
\* the server close the connection) the client leaves its loop.
QuitEndsClient ==
    pc = "input" => \A i \in 1..Len(typed) : typed[i] \notin ServerQuits

=============================================================================
