---------------------------- MODULE MCSequential -----------------------------
(***************************************************************************)
(* The components that do their work within one thread, or between one     *)
(* client and one connection, each on a small instance: OutputBuffer,      *)
(* ScopedFd, CommandParser and Commands, FrameStream, Client.              *)
(*                                                                         *)
(* They share no state.  A behaviour is one of a single component: a step  *)
(* of one is taken only while all others are where they began.             *)
(***************************************************************************)
EXTENDS OutputBuffer, ScopedFd, Commands, FrameStream, Client

-----------------------------------------------------------------------------
(***************************************************************************)
(* OutputBuffer: all strings up to a length.                               *)
(***************************************************************************)
CONSTANT MaxChunk   \* bound: the longest string appended

MCChunks == UNION {[1..n -> Byte] : n \in 0..MaxChunk}

-----------------------------------------------------------------------------
(***************************************************************************)
(* CommandParser: texts of up to four words, with one or two blanks        *)
(* between them and up to one at either end; IntMax is 12.  Commands: a    *)
(* handful of requests, every command, well and badly formed, with blanks  *)
(* in and around a value.                                                  *)
(***************************************************************************)
MCOps == {"SET", "set", "GET", "QUIT", "expire", "foo"}

MCNumbers == {"0", "7", "007", "12", "13", "29", "1x"}

MCSeconds == {"0", "1", "12", "13"}

MCWords == MCOps \cup MCNumbers \cup MCSeconds \cup
           {"get", "DEL", "EXPIRE", "TTL", "PING", "STATS", "HELP", "k", "j", "nil"}

MCUpper == [w \in Words |->
    CASE w = "set" -> "SET" [] w = "get" -> "GET" [] w = "expire" -> "EXPIRE" [] OTHER -> w]

\* A character that is no digit is 10.
MCDigits == [w \in Words |->
    CASE w = "0" -> <<0>> [] w = "1" -> <<1>> [] w = "7" -> <<7>> [] w = "007" -> <<0, 0, 7>>
      [] w = "12" -> <<1, 2>> [] w = "13" -> <<1, 3>> [] w = "29" -> <<2, 9>>
      [] w = "1x" -> <<1, 10>> [] OTHER -> <<10>>]

Gap(n) == [i \in 1..n |-> Space]

\* The words with these gaps before, between and after them.
Spaced(words, before, between, after) ==
    Gap(before) \o
    FlattenSeq([i \in 1..Len(words) |->
        (IF i = 1 THEN <<>> ELSE Gap(between[i - 1])) \o <<words[i]>>]) \o
    Gap(after)

MCSentences ==
    LET args == {"k", "7", "SET"}
    IN       {<<op>> : op \in MCOps}
        \cup {<<op, a>> : op \in MCOps, a \in args}
        \cup {<<op, a, b>> : op \in MCOps, a \in args, b \in args \cup MCNumbers}
        \cup {<<op, a, b, c>> : op \in MCOps, a \in args, b \in args, c \in args}

MCKeys == {"k", "j"}

MCRequests ==
    {<<op>> : op \in {"PING", "STATS", "HELP", "QUIT", "foo", "SET"}}
    \cup {<<op, " ", k>> : op \in {"get", "DEL", "TTL", "SET"}, k \in MCKeys}
    \cup {<<"EXPIRE", " ", k, " ", n>> : k \in MCKeys, n \in MCSeconds}
    \cup {<<"SET", " ", k, " ", "nil">> : k \in MCKeys}
    \cup {<<" ", "SET", " ", k, " ", " ", "k", " ", " ", "1", " ">> : k \in MCKeys}
    \cup {<<>>, <<" ">>, <<"PING", " ", "k">>}

MCLines ==
    MCRequests \cup {Gap(n) : n \in 0..2} \cup
    UNION {{Spaced(words, before, between, after) :
                before \in 0..1, after \in 0..1,
                between \in [1..(Len(words) - 1) -> 1..2]} : words \in MCSentences}

-----------------------------------------------------------------------------
(***************************************************************************)
(* FrameStream and Client: bits for bytes and headers of two.  Lengths     *)
(* 0..2 are legal, 3 can be announced.                                     *)
(***************************************************************************)
\* Empty, two that look like headers themselves, one longer than allowed.
MCPayloads == {<<>>, <<1>>, <<0, 1>>, <<1, 1>>, <<1, 0, 1>>}

\* An ordinary command, "QUIT", "Quit", which only the server takes for QUIT, and
\* a line longer than a frame may be.
MCText == [l \in Inputs |->
    CASE l = "PING" -> <<0>> [] l = "QUIT" -> <<1>>
      [] l = "Quit" -> <<0, 1>> [] l = "too long" -> <<0, 0, 0>>]

MCAnswer == [l \in Inputs |-> IF l \in ServerQuits THEN <<1, 1>> ELSE <<0>>]

-----------------------------------------------------------------------------
MCInit == Init /\ FdInit /\ CommandsInit /\ StreamInit /\ ClientInit

MCBuffer ==
    /\ FdInit /\ CommandsInit /\ StreamInit /\ ClientInit
    /\ Next
    /\ UNCHANGED <<fdVars, commandVars, streamVars, clientVars>>

MCScopedFd ==
    /\ Init /\ CommandsInit /\ StreamInit /\ ClientInit
    /\ FdNext
    /\ UNCHANGED <<vars, commandVars, streamVars, clientVars>>

\* The parser alone, on the texts that are no requests.
MCParser ==
    /\ Init /\ FdInit /\ CommandsInit /\ StreamInit /\ ClientInit
    /\ ParserNext /\ line' \notin Requests
    /\ UNCHANGED <<vars, fdVars, map, clock, ret, response, streamVars, clientVars>>

\* The parser and the store; the parser alone never gets here.
MCCommands ==
    /\ Init /\ FdInit /\ StreamInit /\ ClientInit
    /\ line \in Requests
    /\ CommandsNext
    /\ UNCHANGED <<vars, fdVars, streamVars, clientVars>>

MCStream ==
    /\ Init /\ FdInit /\ CommandsInit /\ ClientInit
    /\ StreamNext
    /\ UNCHANGED <<vars, fdVars, commandVars, clientVars>>

MCClient ==
    /\ Init /\ FdInit /\ CommandsInit /\ StreamInit
    /\ ClientNext
    /\ UNCHANGED <<vars, fdVars, commandVars, streamVars>>

MCNext == MCBuffer \/ MCScopedFd \/ MCParser \/ MCCommands \/ MCStream \/ MCClient

\* Fairness is that of Client, whose steps the other components never enable.
MCSpec ==
    /\ MCInit
    /\ [][MCNext]_<<vars, fdVars, commandVars, streamVars, clientVars>>
    /\ WF_clientVars(Sends) /\ WF_clientVars(Receives) /\ WF_clientVars(Serves)

=============================================================================
