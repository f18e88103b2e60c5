------------------------------- MODULE Commands -------------------------------
(***************************************************************************)
(* From the payload of a request to the payload of its response:           *)
(* SubReactor::ProcessPayload, ParseCommand and CommandExecutor::Execute   *)
(* over the store.  The store is its abstract specification TTLMap, which  *)
(* module KVStore is shown to implement; its mutex makes every call one    *)
(* step, whichever reactor makes it.                                       *)
(*                                                                         *)
(* A response is a sequence of tokens, the first one its first character.  *)
(***************************************************************************)
EXTENDS CommandParser, TLC

CONSTANTS Keys, Nil, NoExpiry, TicksPerSecond,
          Requests,    \* the payloads that clients send
          MaxClock     \* bound: the clock stops here

ASSUME CommandsAssumption == Requests \subseteq Lines

VARIABLES
    map, clock, ret,   \* the store
    response           \* to the latest payload

Store == INSTANCE TTLMap WITH
    Values <- Seq(Words \cup {Space}), Seconds <- 1..IntMax

storeVars == <<map, clock, ret>>
commandVars == <<line, cmd, map, clock, ret, response>>

Ok == <<"+", "OK">>
NilResponse == <<"$", "nil">>

CommandsInit ==
    /\ ParserInit
    /\ Store!Init
    /\ response = <<"-", "ERR">>

-----------------------------------------------------------------------------
\* Answers that do not depend on the store.
FixedResponse ==
    [PING |-> <<"+", "PONG">>, QUIT |-> <<"+", "BYE">>, Unknown |-> <<"-", "ERR">>,
     HELP |-> <<"Supported commands">>]

GetResponse(reply) == IF reply.ok THEN <<"$">> \o reply.value ELSE NilResponse

DoneResponse(reply) == IF reply.ok THEN Ok ELSE NilResponse

\* STATS is answered by BuildStatsResponse, of which only the counts of the
\* store are kept (the others are in module ServerMetrics).
StatsResponse(reply) ==
    <<"+", ToString(reply.keys), ToString(reply.persistentKeys), ToString(reply.expiringKeys)>>

Execute(c) ==
    \/ /\ c.type \in DOMAIN FixedResponse
       /\ response' = FixedResponse[c.type]
       /\ UNCHANGED storeVars
    \/ /\ c.type = "SET"
       /\ Store!Set(c.key, c.value)
       /\ response' = Ok
    \/ /\ c.type = "GET"
       /\ Store!Get(c.key)
       /\ response' = GetResponse(ret')
    \/ /\ c.type = "DEL"
       /\ Store!Del(c.key)
       /\ response' = DoneResponse(ret')
    \/ /\ c.type = "EXPIRE"
       /\ Store!Expire(c.key, c.seconds)
       /\ response' = DoneResponse(ret')
    \/ /\ c.type = "TTL"
       /\ Store!Ttl(c.key)
       /\ response' = <<"$", ToString(ret'.secs)>>
    \/ /\ c.type = "STATS"
       /\ Store!Stats
       /\ response' = StatsResponse(ret')

ProcessPayload(payload) == Parse(payload) /\ Execute(ParseCommand(payload))

Tick ==
    /\ clock < MaxClock
    /\ Store!Tick
    /\ UNCHANGED <<line, cmd, response>>

CommandsNext == (\E payload \in Requests : ProcessPayload(payload)) \/ Tick

CommandsSpec == CommandsInit /\ [][CommandsNext]_commandVars

-----------------------------------------------------------------------------
\* Types; what is stored under a key is never empty.
CommandsTypeOK ==
    /\ ParserTypeOK
    /\ DOMAIN map \subseteq Words
    /\ \A k \in DOMAIN map : map[k].value \in Seq(Words \cup {Space}) \ {<<>>}
    /\ Len(response) > 0

\* What GET returns can be stored again: a SET of a stored value under any key
\* stores that very value, whatever blanks the original SET was typed with.
ValuesCopyable ==
    \A k \in DOMAIN map : \A op \in {w \in Words : Upper[w] = "SET"} :
        ParseCommand(<<op, Space, k, Space>> \o map[k].value)
            = [type |-> "SET", key |-> k, value |-> map[k].value, seconds |-> 0]

\* EXPIRE answers $nil only if there is no such key (README.md:141); the store's
\* own refusal of a time that is not positive is never what the client sees.
ExpireNilMeansAbsent ==
    cmd.type = "EXPIRE" /\ response = NilResponse => cmd.key \notin DOMAIN map

\* What a client reads is true of the store: a value of GET can be SET again and
\* nil from EXPIRE means that no such key is alive.
ResponsesTrue == CommandsTypeOK /\ ValuesCopyable /\ ExpireNilMeansAbsent

\* README.md:141, of GET: the answer $nil means that there is no such key.
GetNilMeansAbsent ==
    cmd.type = "GET" /\ response = NilResponse => cmd.key \notin DOMAIN map

\* command_executor.h:22: every response begins with +, $ or -.
EveryResponseMarked == Head(response) \in {"+", "$", "-"}

=============================================================================
