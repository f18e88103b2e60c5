--------------------------- MODULE ServerMetrics ---------------------------
(***************************************************************************)
(* ServerMetrics: counters that every reactor and the sweeper update       *)
(* without a lock, and the STATS answer computed from them.                *)
(*                                                                         *)
(* All accesses are memory_order_relaxed.  A call therefore only appends   *)
(* its atomic operations to the program of its thread; the operations of a *)
(* thread take effect one at a time, in any order that keeps those on one  *)
(* location in program order, interleaved with those of the other threads. *)
(***************************************************************************)
EXTENDS Integers, Sequences, FiniteSetsExt

CONSTANTS
    Reactors,       \* the threads that own connections and run commands
    PlainCounters,  \* counters no other counter is related to (bytes, frames, ...)
    Bounds,         \* LATENCY_UPPER_BOUNDS_NS, an increasing sequence
    Latencies,      \* latencies a command may take
    Sizes,          \* sizes of a write buffer after a response was queued
    Percent,        \* the percentile STATS reports, in percent
    Wrap,           \* 2^64: the counters are std::uint64_t
    MaxCalls,       \* bound on the calls of a behaviour
    Window          \* bound on the operations of a thread's earlier calls that
                    \* are still in flight when it makes its next call

ASSUME MetricsAssumption ==
    /\ Latencies \subseteq 0 .. Wrap - 1 /\ Sizes \subseteq 0 .. Wrap - 1
    /\ IsFiniteSet(Reactors)
    /\ Bounds \in Seq(Nat) /\ Len(Bounds) > 0
    /\ \A i, j \in DOMAIN Bounds : i < j => Bounds[i] < Bounds[j]
    /\ Percent \in 1 .. 100
    /\ Wrap \in Nat /\ Wrap > 2
    /\ MaxCalls \in Nat /\ MaxCalls < Wrap /\ Window \in Nat
    /\ \A name \in PlainCounters : name \notin
          {"activeConnections", "maximumPendingWriteBytes", "commandLatencyCount",
           "commandLatencyTotal", "commandLatencyMaximum", "acceptedConnections",
           "closedConnections", "commandsProcessed", "commandErrors"}

VARIABLES
    memory,     \* the atomics: location -> value
    program,    \* thread -> its atomic operations that have not taken effect
    inStats,    \* the threads inside BuildStatsResponse
    toLoad,     \* thread -> the atomics its Snapshot() has still to load
    snapshot,   \* thread -> the values it has loaded (0: not yet)
    m_clients,  \* thread -> number of connections it owns (-1: it has failed)
    calls,      \* calls made so far
    recorded,   \* history: latency -> how many commands took it
    added,      \* history: counter -> what was added to it
    largest,    \* history: the largest write buffer observed
    dropped     \* history: connections a failing reactor dropped uncounted

vars == <<memory, program, inStats, toLoad, snapshot, m_clients, calls,
          recorded, added, largest, dropped>>

----------------------------------------------------------------------------
(* Locations and atomic operations *)

Loc(name) == <<name, 0>>
Bucket(i) == <<"commandLatencyBucket", i>>
Buckets == 1 .. Len(Bounds) + 1

Totals == {"acceptedConnections", "closedConnections", "commandsProcessed",
           "commandErrors"} \cup PlainCounters

Locations ==
    {Loc(n) : n \in Totals \cup
        {"activeConnections", "maximumPendingWriteBytes", "commandLatencyCount",
         "commandLatencyTotal", "commandLatencyMaximum"}}
    \cup {Bucket(i) : i \in Buckets}

\* The loads of Snapshot() that the answer combines into one figure; each of
\* the others is printed by itself.
Combined == {Loc("commandLatencyCount")} \cup {Bucket(i) : i \in Buckets}
NothingLoaded == [l \in Combined |-> 0]

FetchAdd(at, n) == [op |-> "add", at |-> at, arg |-> n, current |-> 0]

\* target.load, the first operation of UpdateMaximum.
UpdateMaximum(at, candidate) ==
    [op |-> "max_load", at |-> at, arg |-> candidate, current |-> 0]

\* What remains of UpdateMaximum once it has learned the value of its target:
\* nothing when the candidate is not larger, else a compare_exchange.
Retry(o, value) ==
    IF o.arg > value THEN <<[o EXCEPT !.op = "max_cas", !.current = value]>> ELSE <<>>

\* Mutant: a plain store instead of the compare_exchange.
Exchanges_Blindly(o, value) == o.op = "max_cas"

\* The compare_exchange of UpdateMaximum succeeds.
Exchanges(o, value) == o.op = "max_cas" /\ o.current = value

\* Unsigned addition; Wrap - 1 subtracts one.
Add64(value, n) == (value + n) % Wrap

----------------------------------------------------------------------------
(* The calls, as the atomic operations they issue *)

\* Mutant: the gauge is not raised.
OnConnectionAccepted_OnlyTotal == <<FetchAdd(Loc("acceptedConnections"), 1)>>

OnConnectionAccepted ==
    <<FetchAdd(Loc("acceptedConnections"), 1), FetchAdd(Loc("activeConnections"), 1)>>

OnConnectionClosed ==
    <<FetchAdd(Loc("closedConnections"), 1), FetchAdd(Loc("activeConnections"), Wrap - 1)>>

\* Mutant: a latency equal to a bound goes to the next bucket.
BucketIndex_Below(latency) ==
    Min({i \in DOMAIN Bounds : latency < Bounds[i]} \cup {Len(Bounds) + 1})

\* The first bound that is not below the latency, else the last bucket.
BucketIndex(latency) ==
    Min({i \in DOMAIN Bounds : latency <= Bounds[i]} \cup {Len(Bounds) + 1})

RecordCommandLatency(latency) ==
    <<FetchAdd(Loc("commandLatencyCount"), 1),
      FetchAdd(Loc("commandLatencyTotal"), latency),
      UpdateMaximum(Loc("commandLatencyMaximum"), latency),
      FetchAdd(Bucket(BucketIndex(latency)), 1)>>

Issue(t, ops) == program' = [program EXCEPT ![t] = @ \o ops]

Calls(t) == /\ m_clients[t] >= 0
            /\ t \notin inStats
            /\ Len(program[t]) <= Window
            /\ calls < MaxCalls
            /\ calls' = calls + 1

Record(latency) == recorded' = [recorded EXCEPT ![latency] = @ + 1]
Count(names) == added' = [n \in Totals |-> IF n \in names THEN added[n] + 1 ELSE added[n]]

----------------------------------------------------------------------------

Init ==
    /\ memory = [l \in Locations |-> 0]
    /\ program = [t \in Reactors |-> <<>>]
    /\ inStats = {}
    /\ toLoad = [t \in Reactors |-> {}]
    /\ snapshot = [t \in Reactors |-> NothingLoaded]
    /\ m_clients = [t \in Reactors |-> 0]
    /\ calls = 0
    /\ recorded = [d \in Latencies |-> 0]
    /\ added = [n \in Totals |-> 0]
    /\ largest = 0
    /\ dropped = 0

\* AddClientInLoop: the connection is counted after the poller took it; a
\* poller that throws leaves the client table as it was.
AddClientInLoop(t, registered) ==
    /\ Calls(t)
    /\ IF registered
       THEN /\ m_clients' = [m_clients EXCEPT ![t] = @ + 1]
            /\ Issue(t, OnConnectionAccepted)
            /\ Count({"acceptedConnections"})
       ELSE UNCHANGED <<m_clients, program, added>>
    /\ UNCHANGED <<memory, inStats, toLoad, snapshot, recorded, largest, dropped>>

\* CleanupClosedConnections, for one closed connection.
CleanupClosedConnection(t) ==
    /\ Calls(t)
    /\ m_clients[t] > 0
    /\ m_clients' = [m_clients EXCEPT ![t] = @ - 1]
    /\ Issue(t, OnConnectionClosed)
    /\ Count({"closedConnections"})
    /\ UNCHANGED <<memory, inStats, toLoad, snapshot, recorded, largest, dropped>>

\* The catch blocks of Run: m_clients.clear() and nothing is counted.
ReactorFails(t) ==
    /\ Calls(t)
    /\ dropped' = dropped + m_clients[t]
    /\ m_clients' = [m_clients EXCEPT ![t] = -1]
    /\ UNCHANGED <<memory, program, inStats, toLoad, snapshot, recorded, added, largest>>

\* ProcessPayload of a command other than STATS.
ProcessPayload(t, unknown, latency) ==
    /\ Calls(t)
    /\ Issue(t, <<FetchAdd(Loc("commandsProcessed"), 1)>>
                \o (IF unknown THEN <<FetchAdd(Loc("commandErrors"), 1)>> ELSE <<>>)
                \o RecordCommandLatency(latency))
    /\ Count({"commandsProcessed"} \cup (IF unknown THEN {"commandErrors"} ELSE {}))
    /\ Record(latency)
    /\ UNCHANGED <<memory, inStats, toLoad, snapshot, m_clients, largest, dropped>>

\* ProcessPayload of STATS, up to Snapshot(), which loads every atomic once.
StatsBegins(t) ==
    /\ Calls(t)
    /\ inStats' = inStats \cup {t}
    /\ Issue(t, <<FetchAdd(Loc("commandsProcessed"), 1)>>)
    /\ toLoad' = [toLoad EXCEPT ![t] = Combined]
    /\ Count({"commandsProcessed"})
    /\ UNCHANGED <<memory, snapshot, m_clients, recorded, largest, dropped>>

\* One load of Snapshot(): relaxed, so in any order, but after the operations
\* the thread itself issued earlier on the same location.
SnapshotLoads(t, l) ==
    /\ l \in toLoad[t]
    /\ \A i \in DOMAIN program[t] : program[t][i].at # l
    /\ toLoad' = [toLoad EXCEPT ![t] = @ \ {l}]
    /\ snapshot' = [snapshot EXCEPT ![t][l] = memory[l]]
    /\ UNCHANGED <<memory, program, inStats, m_clients, calls, recorded, added, largest, dropped>>

Loaded(t) == t \in inStats /\ toLoad[t] = {}

\* ... and from the complete snapshot on: the answer is built and the latency
\* of the STATS command itself recorded.
StatsEnds(t, latency) ==
    /\ Loaded(t)
    /\ inStats' = inStats \ {t}
    /\ snapshot' = [snapshot EXCEPT ![t] = NothingLoaded]
    /\ Issue(t, RecordCommandLatency(latency))
    /\ Record(latency)
    /\ UNCHANGED <<memory, toLoad, m_clients, calls, added, largest, dropped>>

\* QueueResponse reports the size of the write buffer.
ObservePendingWriteBytes(t, bytes) ==
    /\ Calls(t)
    /\ Issue(t, <<UpdateMaximum(Loc("maximumPendingWriteBytes"), bytes)>>)
    /\ largest' = Max({largest, bytes})
    /\ UNCHANGED <<memory, inStats, toLoad, snapshot, m_clients, recorded, added, dropped>>

\* The calls that add to one counter that nothing else is related to.
AddPlain(t, name) ==
    /\ Calls(t)
    /\ Issue(t, <<FetchAdd(Loc(name), 1)>>)
    /\ Count({name})
    /\ UNCHANGED <<memory, inStats, toLoad, snapshot, m_clients, recorded, largest, dropped>>

----------------------------------------------------------------------------
(* The memory *)

Replace(s, i, ops) == SubSeq(s, 1, i - 1) \o ops \o SubSeq(s, i + 1, Len(s))

\* Operations of one thread on one location keep their order (coherence).
MayTakeEffect(t, i) ==
    \A j \in 1 .. i - 1 : program[t][j].at # program[t][i].at

\* The i-th pending operation of thread t takes effect.
TakeEffect(t, i) ==
    LET o == program[t][i]
        value == memory[o.at]
        rest == CASE o.op = "max_load" -> Retry(o, value)
                  [] o.op = "max_cas" /\ ~Exchanges(o, value) -> Retry(o, value)
                  [] OTHER -> <<>>
    IN  /\ MayTakeEffect(t, i)
        /\ program' = [program EXCEPT ![t] = Replace(@, i, rest)]
        /\ memory' = [memory EXCEPT ![o.at] =
                CASE o.op = "add" -> Add64(value, o.arg)
                  [] Exchanges(o, value) -> o.arg
                  [] OTHER -> value]
        /\ UNCHANGED <<inStats, toLoad, snapshot, m_clients, calls, recorded, added, largest, dropped>>

Perform(t) == \E i \in DOMAIN program[t] : TakeEffect(t, i)

Next ==
    \E t \in Reactors :
        \/ \E registered \in BOOLEAN : AddClientInLoop(t, registered)
        \/ CleanupClosedConnection(t)
        \/ ReactorFails(t)
        \/ \E unknown \in BOOLEAN, d \in Latencies : ProcessPayload(t, unknown, d)
        \/ StatsBegins(t)
        \/ \E l \in Combined : SnapshotLoads(t, l)
        \/ \E d \in Latencies : StatsEnds(t, d)
        \/ \E b \in Sizes : ObservePendingWriteBytes(t, b)
        \/ \E n \in PlainCounters : AddPlain(t, n)
        \/ Perform(t)

Spec == Init /\ [][Next]_vars
FairSpec == Spec /\ \A t \in Reactors : WF_vars(Perform(t))

----------------------------------------------------------------------------
(* What STATS makes of a snapshot *)

CountOf(s) == s[Loc("commandLatencyCount")]
UpTo(s, i) == SumFunction([j \in 1 .. i |-> s[Bucket(j)]])

\* EstimatePercentileBucketUs as the number of the bucket it names: 0 ("0") when
\* there is no command, else the first bound at which the accumulated buckets
\* reach ceil(count * percentile), else the last bucket (">5000").
EstimatePercentileBucketUs(s) ==
    LET targetRank == (CountOf(s) * Percent + 99) \div 100
        enough == {i \in DOMAIN Bounds : UpTo(s, i) >= targetRank}
    IN  IF CountOf(s) = 0 THEN 0 ELSE Min(enough \cup {Len(Bounds) + 1})

----------------------------------------------------------------------------
(* Properties *)

\* Types; every counter stays a std::uint64_t.
TypeOK ==
    /\ memory \in [Locations -> 0 .. Wrap - 1]
    /\ \A t \in Reactors : \A i \in DOMAIN program[t] :
          /\ program[t][i].op \in {"add", "max_load", "max_cas"}
          /\ program[t][i].at \in Locations
    /\ inStats \subseteq Reactors
    /\ toLoad \in [Reactors -> SUBSET Combined]
    /\ snapshot \in [Reactors -> [Combined -> 0 .. Wrap - 1]]
    /\ m_clients \in [Reactors -> -1 .. MaxCalls]
    /\ calls \in 0 .. MaxCalls

\* No operation is in flight.
Quiet == \A t \in Reactors : program[t] = <<>>

Commands(S) == SumFunctionOnSet(recorded, S)

\* Once no update is in flight, both maxima that UpdateMaximum maintains with its
\* compare_exchange loop are exact: no candidate is lost to a race.
MaximaExact ==
    Quiet =>
        /\ memory[Loc("commandLatencyMaximum")] =
               Max({0} \cup {d \in Latencies : recorded[d] > 0})
        /\ memory[Loc("maximumPendingWriteBytes")] = largest

\* Once no update is in flight, the latency figures are exactly those of the
\* commands that ran, however the reactors' updates interleaved: the count, the
\* total and every bucket (a latency equal to a bound belongs below it).
FiguresExact ==
    Quiet =>
        /\ CountOf(memory) = Commands(Latencies)
        /\ memory[Loc("commandLatencyTotal")] =
               SumFunction([d \in Latencies |-> d * recorded[d]]) % Wrap
        /\ \A i \in DOMAIN Bounds :
               UpTo(memory, i) = Commands({d \in Latencies : d <= Bounds[i]})
        /\ \A n \in Totals : memory[Loc(n)] = added[n]

\* On a quiet server the percentile of STATS is the right one: the smallest
\* bound that at least Percent of all commands did not exceed, and ">5000" only
\* if no bound is (EstimatePercentileBucketUs against its definition).
PercentileExact ==
    LET share(i) == 100 * Commands({d \in Latencies : d <= Bounds[i]})
        covering == {i \in DOMAIN Bounds : share(i) >= Percent * Commands(Latencies)}
    IN  Quiet => EstimatePercentileBucketUs(memory) =
            IF Commands(Latencies) = 0 THEN 0 ELSE Min(covering \cup {Len(Bounds) + 1})

\* connections_active is exact once no update is in flight, up to the
\* connections that a failing reactor dropped: the catch blocks of Run clear the
\* client table without OnConnectionClosed, so these stay counted for ever.
ActiveExact ==
    Quiet =>
        memory[Loc("activeConnections")] =
            dropped + SumFunction([t \in Reactors |-> Max({0, m_clients[t]})])

\* STATS is exact on a quiet server, whatever the order in which the reactors'
\* relaxed updates took effect: counters, maxima, latency percentile, gauge.
StatsExact == TypeOK /\ MaximaExact /\ FiguresExact /\ PercentileExact /\ ActiveExact

\* The unsigned m_activeConnections never wraps below zero, not even while
\* updates are in flight in any order: it stays within the connections accepted
\* so far (fetch_sub comes after the fetch_add of the same reactor).
ActiveNeverWraps ==
    memory[Loc("activeConnections")] <= added["acceptedConnections"]

\* A maximum never falls, whichever reactors race in UpdateMaximum.
MaximaNeverFall ==
    [][\A m \in {"commandLatencyMaximum", "maximumPendingWriteBytes"} :
          memory'[Loc(m)] >= memory[Loc(m)]]_vars

\* Every call ends: the retry loop of UpdateMaximum gives up or succeeds, since
\* each failure means that another reactor raised the maximum.
CallsEnd ==
    \A t \in Reactors : program[t] # <<>> ~> program[t] = <<>>

\* UpdateMaximum only ever raises a maximum, and its compare-exchange loop ends
\* for every caller although others change the value in between.
MaximaRaised == MaximaNeverFall /\ CallsEnd

\* README: the last bucket is ">5ms".  STATS answers ">5000" for a percentile
\* only when some command has taken longer than the largest bound.
SlowOnlyIfSlow ==
    \A t \in Reactors :
        Loaded(t) /\ EstimatePercentileBucketUs(snapshot[t]) = Len(Bounds) + 1 =>
            \E d \in Latencies : d > Bounds[Len(Bounds)] /\ recorded[d] > 0

============================================================================
