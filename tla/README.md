# TinyKVCache: TLA+ specifications and proofs

TinyKVCache is an in-memory key-value cache server: a main reactor accepts TCP
connections and hands them to sub reactors, each a thread with its own poller;
all of them execute commands on one `KVStore` under a mutex; a sweeper thread
removes expired keys; a signal or `Stop()` starts a graceful shutdown with a
deadline.  This directory models those parts in TLA+, checks them with TLC on
small instances and proves the safety properties of the store, the reactors, the
connections, the pollers, the start-up, the signal handling, the metrics, the write
buffer and the descriptor owner with TLAPS.  Paths below are relative to the repository.

## 1. The system: components, state, operations

| Component | State | Operations | What makes it correct |
| --- | --- | --- | --- |
| `KVStore` (`src/core/kv_store.cpp`) | `m_data`, the heap `m_expirations`, generation counter, two key counters; all under `m_mutex` | `Set Get Del Expire Ttl Size Stats SweepExpired` | answers are those of a map with times to live; a stale heap record never erases a newer entry; no expiring key is forgotten; counters exact; heap bounded |
| Sweeper (`TcpServer::SweeperLoop`) | `m_sweeperRunning` under `m_sweeperMutex`, a condition variable | start, wait, sweep in batches, stop and join | expired keys go even if nobody asks for them; it ends when told to |
| `TcpServer` (`src/net/tcp_server.cpp`) | `m_state`, `m_stopRequested`, stop channel, listening socket, deadline, `m_forceStopSent`, round-robin index | `Run`, `Stop`, accept, health check, graceful shutdown, forced stop, join, cleanup | a stop or a failure always ends in all threads joined; nothing leaks |
| `SubReactor` (`src/net/sub_reactor.cpp`) | its clients, `m_state`; shared with the main reactor: pending clients, stop flags, deadline, control channel, published state, `m_failed` | `EnqueClient Stop ForceStop`, event loop, drain | no request is lost; queued responses survive a stop until the deadline |
| Connection (in `SubReactor`) | read and write buffers, `readPaused`, `closeAfterWrite`, `closed`, registered events | read, decode, execute, queue, write, backpressure, hangup | responses in order, bounded memory, nobody waits for ever |
| `WakeupChannel`, `TerminationSignalHandler` | bytes in a socket pair; a global descriptor | `Notify`, `Drain`; the handler's write | a wakeup is never lost, even when the channel is full |
| `OutputBuffer` (`src/net/output_buffer.cpp`) | `m_storage`, `m_readPos` | `Append Consume Clear`, compaction | it is a queue of bytes; sent bytes do not pile up |
| `FrameCodec` (`src/core/frame_codec.cpp`) | none (works on `readBuffer`) | `Encode Decode` | frames come out whole however the stream is cut |
| `Poller` back ends (`src/net/poll/`) | `m_interests`, the kernel's interest list, the event buffer | `Add Modity Remove Wait` | all copies of a connection's interests agree although system calls fail; nobody starves |
| `ServerMetrics` (`src/observability/server_metrics.cpp`) | some twenty relaxed atomics | one update per event, `Snapshot` | figures exact once updates have taken effect; maxima never fall |
| `CommandParser`, `CommandExecutor` (`src/core/`) | none | `ParseCommand`, `Execute` | text and answer mean what the protocol says |
| `ScopedFd` (`src/net/scoped_fd.cpp`) | `m_fd` | construct, move, `Release`, `Reset`, destroy | one owner, one close |
| Configuration (`src/config/`), `app/server_main.cpp` | `AppConfig` | `FindConfigPath`, `LoadFromFile`, `ApplyCommandLineOverrides`, `Validate` | defaults < file < command line; what passes is fit for the server |
| Client (`app/client_main.cpp`) | a line, a receive buffer | `SendAll`, `RecvFrame`, the prompt loop | one answer per line, in order |
| Logger, socket helpers | none that matters | | not modelled, section 7 |

Interactions.  The main reactor calls `EnqueClient`, `Stop` and `ForceStop` of a
sub reactor: each changes state under `m_controlMutex`, unlocks, and writes a
byte to the control channel; the sub reactor drains the channel and then takes
the lock.  Sub reactors tell the main reactor their state through two atomics it
polls.  Sub reactors and sweeper meet in `KVStore` under its mutex.  The signal
handler only writes a byte to the stop channel.

What is hard: the window between unlock and `Notify` against the one between
`Drain` and lock; stop requests overtaking clients still in the queue; two
deadlines passing independently; exceptions in any of the loops; stale heap
records; unsigned counters maintained in five places.  `PROJECT.json` lists these
hazards line by line with the properties that cover them.

## 2. Modules

| Module | Models |
| --- | --- |
| `StoreReplies` | the return values of `KVStore`, shared by the next two |
| `TTLMap` | the abstract specification: a map whose keys vanish at their instant |
| `KVStore` | the class: one action per public operation (each runs wholly under `m_mutex`), with heap, generations, rebuild and counters |
| `SweptStore` | `KVStore` composed with `SweeperLoop`, `Stop` and `StopSweeperThread` |
| `KVStoreProofs` | inductive invariant and theorems of `KVStore`, its refinement of `TTLMap`, and the theorems of `SweptStore` |
| `Server` | main reactor, sub reactors, sweeper as a thread to be joined, wakeup channels, descriptor hand-over, shutdown, failures |
| `ServerProofs` | inductive invariant of `Server`, wakeups, descriptors and stopping |
| `Connection` | one connection of a sub reactor: reads, decoding, execution, responses, backpressure, hangup, drain; the peer and the kernel's buffers |
| `ConnectionProofs` | inductive invariant of `Connection`, limits, ends and backpressure |
| `ByteQueue` | the abstract specification of the write buffer |
| `OutputBuffer` | the write buffer with its read position and compaction |
| `PollerAPI` | the abstract specification of `Poller`: a table of interests, and waits that report registered descriptors only |
| `Poller` | both back ends under the calls of `SubReactor`, with failing system calls, number reuse and the growing event buffer |
| `PollerProofs` | inductive invariant of `Poller`, its properties, the refinement of `PollerAPI` |
| `RecursionLemmas` | induction over the naturals and recursive functions, for the other proofs |
| `ServerMetrics` | the counters as relaxed atomic operations, `Snapshot` and the percentile of `STATS` |
| `ServerMetricsProofs` | inductive invariants of `ServerMetrics`, the gauge, the maxima and the figures of `STATS` |
| `FrameCodec` | `Encode` and `Decode` on bytes, as operators |
| `PayloadChannel` | the abstract specification of framing: a channel of payloads |
| `FrameStream` | a sender, TCP that cuts the bytes anywhere, and a receiver with its read buffer |
| `CommandParser` | `ParseCommand` and its helpers on texts of words and blanks |
| `Commands` | payload to response: `CommandParser` and `Execute` composed with `TTLMap` |
| `Startup` | `main` of the server up to the constructor of `TcpServer`: arguments, file, validation |
| `Lifecycle` | `main` from there on: installing and restoring signal dispositions, and the handler on any thread at any moment |
| `MainProofs` | inductive invariants of `Startup` and of `Lifecycle`: settings, signals, dispositions |
| `ScopedFd` | the class with callers and a kernel that reuses numbers |
| `SequentialProofs` | invariant of `OutputBuffer` and its refinement of `ByteQueue`; invariants of `ScopedFd`; `Decode` inverts `Encode`, `FrameStream` refines `PayloadChannel`; invariants of `Client`, `CommandParser` and `Commands` |
| `Client` | the interactive client against a server that answers, quits or stops |
| `MCMain` | `Startup` and `Lifecycle` put together to `main()`, on a small instance |
| `MCSequential` | small instances of `OutputBuffer`, `ScopedFd`, `CommandParser`, `Commands`, `FrameStream` and `Client`, side by side |
| other `MC...` | small instances of the module of that name |

Operators commented "Mutant" are altered forms of the definition that follows
them, each with a bug the code could plausibly have; no specification uses them.
Substituting one for its definition makes TLC report the property named beside
it in `PROJECT.json`, which shows that the property can fail.

### KVStore

Variables carry the names of the members; `clock` is `steady_clock` in ticks and
`ret` the latest return value.  The heap is a set: each record carries a
generation no other record has (proved as `RecordsDistinct`), so no two are
equal.  A sweep pops some batch that the heap order allows; ties between equal
instants are left open, as in `priority_queue`.  `SET` draws the generation of
an overwritten key from the key itself (`++entry.generation`) and `EXPIRE` from
the store's counter, as the code does: the two numberings overlap, and the
properties show that this is harmless.  Not modelled: overflow of the 64-bit
counters, and `int` seconds beyond the clock's range.

### SweptStore

`m_sweeperMutex` is held except inside `wait_for` and during sweeps, so there
are three steps: time out, leave, one batch.  `m_stopRequested` cuts the
`do ... while` short only after `Stop()`; after a signal it stays false, and the
loop has to end by itself (`StopLeadsToSweeperExit`).

### Server

A step ends where another thread can see or change what it touches: after an
unlock, before a `Notify`, after `Wait`, after `Drain`.  The program counter of
`main` and of each `sub[r]` names the place in `Run` and `EventLoop`:

| `main.pc` | in `TcpServer::Run` | `sub[r].pc` | in `SubReactor::EventLoop` |
| --- | --- | --- | --- |
| `start` | lines 68-90 | `wait` | `Wait` |
| `wait`, `events` | `Wait`; stop notification | `drain` | `Drain` of the control channel |
| `stopSubs`, `notifyStop` | `BeginGracefulShutdown`: request, `Notify` | `control` | `ProcessControlRequests` |
| `health` | `CheckSubReactorHealth` | `clients` | the loop over the ready clients, cleanup, progress |
| `accept`, `enqueue`, `notifyClient` | `AcceptNewClients`, `EnqueClient` | `exited` | thread ended |
| `progress`, `forceSubs`, `notifyForce` | `CheckShutdownProgress`, `ForceStop` | | |
| `stopSweeper` ... `done` | the end of `Run`, or its catch block (`threw`) | | |

A client is a peer with the descriptor number the kernel gave it; numbers are
reused.  Connections are reduced to "a response is queued" and "marked closed".
Every call that can throw has a failing action.  Not modelled: metrics, logging,
and a second `Run`.

### Connection

The state is the record `conn`, with the fields of the C++ struct; `readBuffer`
and `writeBuffer` are counted in bytes (`readBytes`, `pending`), and `input` is
the sequence of requests sent and not decoded, of which the first `readBytes`
bytes have been received.  A request is a kind: an ordinary command, `QUIT`, a
header that announces too much, or a legal frame longer than the read buffer.
The handlers are functions from a record to a record, applied in the order of
the event loop by one action, `HandleEvents`; between `Wait` and it the peer and
a stop request may act.  One `recv` returns any positive number of bytes there
are, so every cut of the stream occurs; `send` takes what the kernel has room
for.  The loop over the payloads is `ProcessPayloads`, `FrameCodec::Decode` is `WholeFrames`, `DecodeThrows` and `Decoded`.  Five
fields and `asked` record history for the properties.  `m_poller` is chosen
initially: epoll reports a half close (`EPOLLRDHUP`), poll does not.  A drain is seen by one connection:
the deadline and `ForceStop` are both `ForceClose`.  A `Modity` that throws ends
the reactor and is left to `Server`.

### OutputBuffer

Each method is one action.  `CompactIfNeed` is a function of storage and
position.  A `Consume` that throws is an action of its own and leaves the buffer
as it was.  `pending` of `Connection` is `Size` here.  (By `WasteBounded` the
compaction at the start of `Append` never has anything to do: the one in
`Consume` has done it.)

### Poller

The calls of `SubReactor` (`AddClientInLoop`, `RefreshConnectionInterest`,
`CleanupClosedConnection`) are the actions, each with the whole of the `Add`,
`Modity` or `Remove` it makes and with what the caller does when it throws: an
`Add` that fails costs the connection, a `Modity` that fails ends the reactor, a
`Remove` that fails is logged and leaves its entry in the table.  The interests
of a connection exist three times (`registeredEvents` in `m_clients`, the
poller's table, the kernel's list).  `epoll_wait` serves its list in turn, as
Linux does; `readyList` is that order.  Both back ends implement `PollerAPI`
(`ImplementsAPI`).

### ServerMetrics

Every access is `memory_order_relaxed`.  A call appends its atomic operations to
the `program` of its thread; operations of one thread take effect in any order
that keeps those on one location, and `Snapshot` is a set of loads that may
happen in any order among them.  `UpdateMaximum` is a load and a
compare-exchange that goes back to the test when it fails; a spurious failure
of the weak form repeats a step and is left out.  Histories (`recorded`, `added`,
`largest`, `dropped`) say what the figures ought to be.

### FrameCodec, FrameStream

A byte is a digit of base `Base` (256) and a header `HEADER_SIZE` (4) of them.
In `Decode`, `left[n]` is the buffer after `n` turns of the loop; it stops at the
first buffer without a whole frame, and the exception loses the payloads already
taken out.  `FrameStream` implements `PayloadChannel` with
`queue` mapped to the accepted payloads that have not been received.

### CommandParser, Commands

A text is a sequence of words and single blanks.  Inside a word only two things
matter to the parser, its capitals (`Upper`) and its digits (`Digits`).
`SetExact` and `ExpireExact` compare the parser's trimming, splitting and
digit-by-digit accumulation with a grammar and with the number a word spells
(`Numeral`, which knows no limit).
`Commands` executes the result on `TTLMap`, which run `kvstore` shows `KVStore`
to implement.

### Startup, Lifecycle

Together they are `main` of the server.  In `Startup` a text is a number, the
empty text, an accepted name or something else; an argument is a word, an
option, or an option with its value behind `=`.  One step is one iteration of a
loop over `argv`.  In `Lifecycle` every `sigaction`, the assignments to
`G_NOTIFY_FD` and the destructors are steps, and the handler function runs in
three (load, write, leave) on the main thread or on another.  `sigemptyset` is
taken not to fail.

### Client, ScopedFd

`Client` cuts every `send` and `recv` anywhere; its server answers each frame
once, closes after `QUIT`, and may stop at any moment with part of its output
delivered.  `ScopedFd` has any number of objects and callers that keep to the
header's rule: what has been handed to an object is not closed or handed on.

## 3. Runs

| Run | Instance | Shows |
| --- | --- | --- |
| `kvstore` | 2 keys, 2 values, `EXPIRE` with 0, 1 or 2 seconds of 2 ticks, clock to 4, 2 successful `EXPIRE`s, batches of 1 or 2, rebuild thresholds 2 and 1 | all safety properties of the store and the refinement of `TTLMap` |
| `kvstore_size` | 1 key | violation: `Size` counts expired keys |
| `swept_store` | 2 keys, batch of 1, clock to 2, 2 successful `EXPIRE`s | `SleepsOnlyWhenClean`, `ExpiredLeadsToErased`, `StopLeadsToSweeperExit` |
| `server` | 3 peers, 2 descriptor numbers, 2 sub reactors, 2 accepts per batch, channel of 1 byte | all safety properties of the control plane |
| `server_live` | 1 peer, 2 sub reactors | the three liveness properties |
| `server_accept` | 1 peer, 1 sub reactor | violation: a failing `accept` ends the server |
| `connection` | 4 requests; a command of 2 bytes answered by 2, read buffer 4, reads of up to 3, watermarks 0 and 3, hard limit 4, writes of up to 2, kernel room 3 | all safety properties of a connection, and that requests are executed and responses sent |
| `connection_pipeline` | the same | violation: a request before a faulty frame is dropped |
| `server_metrics` | 2 reactors, 2 calls, latencies on the lower of 2 bounds and above both, two sizes to compete for the maximum | figures, percentile, gauge and maxima; every call ends |
| `poller` | 3 descriptors, both back ends, seven conditions a descriptor may be in, any call failing, buffer of 1 growing to 2 | agreement of the copies, ghosts, `NobodyStarves`, refinement of `PollerAPI` |
| `server_main` | start: files of up to 2 keys, each with texts on both sides of every limit, and all command lines of up to 3 of 16 arguments; then channel of 1 byte, 5 signals, 2 threads | precedence, and that validation is enough; the signal properties, and that a handled signal ends the process |
| `sequential` | write buffer: 2 byte values, appends of up to 3 bytes, storage to 7, threshold 2; descriptors: 3 objects, 3 numbers; parser: texts of up to 4 words with 1 or 2 blanks between them, `IntMax` 12; commands: 2 keys, every command well and badly formed, clock to 3; framing: bits for bytes, headers of 2, payloads of 0 to 2, up to 4 frames, reads of up to 7; client: 4 lines typed, one of them too long to send | refinement of `ByteQueue` and of `PayloadChannel`; ownership; the parser against grammar and numerals; values can be copied; answers in order, and the client comes back |

Most invariants a run checks are conjunctions of parts with names of their own;
the text below and the proofs speak of the parts.

| Checked | Parts |
| --- | --- |
| `CountersRight` (`KVStore`) | `TypeOK`, `CountersMatch` |
| `HeapConsistent` (`KVStore`) | `HeapCoversExpiring`, `GenerationsUnique`, `HeapAtLeastExpiring` |
| `DescriptorsSafe` (`Server`) | `TypeOK`, `FdsOwnedOnce`, `NothingLeftBehind` |
| `FlagsConsistent` (`Connection`) | `TypeOK`, `InterestsRegistered` |
| `OrderlyEnd` (`Connection`) | `QuitIsLast`, `DroppedForACause`, `ClosedForACause` |
| `Backpressure` (`Connection`) | `BackpressureHolds`, `CommandsExecuted`, `OutputSent` |
| `StatsExact` (`ServerMetrics`) | `TypeOK`, `FiguresExact`, `MaximaExact`, `PercentileExact`, `ActiveExact` |
| `MaximaRaised` (`ServerMetrics`) | `MaximaNeverFall`, `CallsEnd` |
| `InterestsConsistent` (`Poller`) | `TypeOK`, `CopiesAgree` |
| `GhostsExplained` (`Poller`) | `GhostsForACause`, `EventsForClients` |
| `SettingsRight` (`Startup`) | `StartupTypeOK`, `Precedence`, `PathFound`, `ValidateSuffices` |
| `SignalsHarmless` (`Lifecycle`) | `TypeOK`, `WritesToOpenChannel`, `NothingSwallowed`, `ErrnoKept`, `SigpipeHarmless` |
| `BufferBounded` (`OutputBuffer`) | `TypeOK`, `WasteBounded` |
| `DescriptorsOwned` (`ScopedFd`) | `FdTypeOK`, `OwnedOnce`, `NeverClosedTwice` |
| `ParserExact` (`CommandParser`) | `ParserTypeOK`, `SetExact`, `ExpireExact` |
| `ResponsesTrue` (`Commands`) | `CommandsTypeOK`, `ValuesCopyable`, `ExpireNilMeansAbsent` |
| `StreamDecoded` (`FrameStream`) | `StreamTypeOK`, `NothingKeptBack`, `BrokenForACause` |
| `ClientInStep` (`Client`) | `ClientTypeOK`, `AnswersInOrder`, `NothingUnderWay` |

The components of `sequential` share no state, so their product would add
nothing: `MCSequential` lets a component move only while all others are in their
initial states, and the states checked are the sum of those of each.  In
`MCMain` the two halves follow one another; since `Lifecycle` does not look at
the settings, it continues only the start without arguments.

Why the bounds are enough.  Two keys and two `EXPIRE`s give a stale record next
to a current one of the same or of another key, a rebuild with and without
stale records, and a batch smaller than what is due; two ticks per second make
`ceil` matter; the rebuild thresholds (4096 and 1024 in the code) are constants, set so
that both sides of each comparison occur.  `MaxClock`, `MaxGeneration` and
`MaxOverwrites` only bound the exploration: the proofs hold for every value of
them.  Two reactors make the round robin and partial failure visible, three
peers on two numbers force reuse, and a channel of one byte is always full after
one `Notify`.  The sizes of `Connection` are chosen so that one read holds up to two commands,
one response stays below the high watermark and two reach it, a third passes the
hard limit, and a write may send part of a response.  The runs on `Server` and
`Connection` allow the system to stop, hence
`CHECK_DEADLOCK FALSE`; that it does not stop anywhere else is what the liveness
properties say.  In the store's runs the bounds themselves end behaviours.

Frames of bits are enough for the codec because nothing in it depends on the
base: with headers of two, the lengths 0 to 2 are legal, 3 can be announced and
is refused; a read of 7 holds one frame and parts of two others.  Two calls give a STATS during an update
of the other reactor, a race for a maximum with a retry, or an accept followed by
a close or by the failure of the reactor; `Window` lets a thread
run one operation ahead of an earlier call of its own.  `IntMax` 12 makes 12 and
13 the boundary and 29 and 007 numbers that differ in how they are accumulated.
Five signals fill a channel of one byte on both threads.

Symmetry is used only in `kvstore` and `server`, which check no liveness; the
refinement in `kvstore` is a safety property and treats all keys and all values
alike.

## 4. Fairness

`FairSpec` of `Server` assumes weak fairness of each thread: `Poller::Wait`
always has a finite timeout (500 ms running, at most 100 ms draining), so an
event loop never blocks for ever, and the operating system schedules every
thread; and that the deadline passes.  Nothing is assumed of the peers, of who
stops the server, or of failures.  `FairSpec` of `Connection` assumes that the
event loop goes on (`Wait` reports what is ready, and the events it reported are
handled: `BatchEnds`, which within `Spec` only `HandleEvents` or a stop can do;
stated so because it is cheap to evaluate) and that the peer reads.  The sweeper's exit is assumed fair in
`Server`; `SweptStore` discharges it from fairness of its single steps, given
that `EXPIRE`s do not come faster than the sweeper removes records (in the model
their number is finite, `MaxGeneration`).

`FairSpec` of `ServerMetrics` assumes only that a thread's atomic operations take
effect; that `UpdateMaximum` ends then follows, because a compare-exchange fails
only when another raised the maximum.  `FairSpec` of `Lifecycle` (in `MCMain`, from
the moment the server is constructed) assumes that `main` and an entered handler go on, which includes that `Run` returns once a
byte is in the stop channel (`StopLeadsToExit` of `Server`); signals are finitely
many (`MaxSignals`), so they cannot interrupt `main` for ever.  `ClientFairSpec`
assumes that sends and receives that are possible are made and that the
server serves what has arrived, which is `CommandsExecuted` and `OutputSent` of
`Connection`; nothing is assumed of the user or of a stop.

## 5. Proofs

`KVStoreProofs`: the theorems hold for every finite set of keys, any values, batch sizes,
thresholds and bounds; the assumptions are `NilAssumption` and
`KVStoreAssumption`.  The inductive invariant of the store is

    IInv = TypeOK /\ CountersMatch /\ HeapCoversExpiring
           /\ GenerationsUnique /\ IsFiniteSet(m_expirations)

`TypeOK` alone is not inductive: that `m_expiringKeys` stays a natural number
needs to know what it counts (`CountersMatch`); that a sweep forgets no expiring
key needs its record to be in the heap (`HeapCoversExpiring`), because a popped
record is either stale or takes its key along; that the rebuilt heap has unique
generations needs every record it creates to have been in the heap already; and
that the heap is at least as large as the counter (`HeapAtLeastExpiring`, the
assertion in `ShouldRebuildExpirationHeapLocked`) follows by mapping each
expiring key to its record.  The steps that only erase keys, that only read,
that write one key and that sweep each have a lemma; the counting arguments are
`EraseKeepsCounters` and `WriteMovesKey`.  Each part is a theorem, and so are the
conjunctions that run `kvstore` checks (`CountersAlwaysRight`,
`HeapAlwaysConsistent`); `SweeperMaySleep` is its action property.

`SweepAlwaysBoundsHeap` is the other action property: after the pops, either
nothing expiring is left and the heap is cleared, or the rebuild test that ends a
sweep has failed or has left exactly one record per expiring key.
`StoreImplementsTTLMap` maps the store to the entries that are not expired
(`LiveView`).  An operation on a missing or expired key leaves that view alone
(`AbsentView`), erasing expired keys does too, and `Tick` removes from it exactly
what the abstract map drops; each public operation has a lemma.

The composition with the sweeper thread implements `KVStore`'s specification
(`SweptStoreImplementsKVStore`), so every theorem carries over, and from it the
sweeper loop sleeps only when the store is clean.

`ServerProofs`: any number of sub reactors, peers and descriptor numbers, and any
capacity of the channels (`ServerAssumption`).  The invariant is

    IInv = TypeOK /\ MainKnown /\ StartKnown /\ SubsKnown /\ PeersKnown
           /\ FdsOwnedOnce /\ NoLostWakeup

`NoLostWakeup` needs to know where the loops of the main reactor stand
(`MainKnown`: the reactor about to be notified is a reactor) and that a reactor
without a thread has received nothing (`StartKnown`).  That nothing is left behind
at the join needs `SubsKnown`: a reactor that drains, or has stopped without
failing, has an empty queue, and the stop flags keep it empty; for the queue to
stay empty `EnqueClient` must refuse.  `FdsOwnedOnce` needs `PeersKnown`, since
the owner of a new descriptor is found by the client it was accepted for.  The
steps of a sub reactor touch its own records only (`SubFrame`), those of the main
reactor are split into quiet ones, which leave ownership and channels alone, and
one lemma for each of the others.

`MainProofs`, first half: any file, any command line, any number of cores
(`StartupAssumption` only says what a text and an argument are).  The invariant
says of the second pass that the last option before the index that sets a key has
set it (`SetBy`) and that the index never rests on an argument that is a value, and of the
first pass that it has found the one `--config` before its index, unless values look
like options (`FoundIn`).  Which arguments are values is a recursion over `argv`;
`ValuesRule` shows that it has a solution, and `NextOption` that going on behind the
value of an option passes over nothing else.  `ValidateSuffices` rests on what
`Validate` does not check: at every place at least one sub-reactor is configured.

`MainProofs`, second half: any number of threads and signals.  What the constructor has
done is known from the list of things to take back: `DispositionsKnown` says
which dispositions are the handler's at each place in `main`, rollback and
destructor included, `ChannelKnown` what `G_NOTIFY_FD` holds then, and
`HandlersKnown` what a handler in progress has loaded.  A handler that runs finds
its disposition installed, hence the descriptor set, hence the channel open.

`PollerProofs`: every set of descriptors and all capacities.  To
`CopiesAgree`, `GhostsForACause` and `EventsForClients` it adds `Turn`: the batches of
the waits that passed a descriptor over, and the descriptors still in front of it
in the kernel's list, are together fewer than all descriptors.  A wait that passes
it over takes a full batch out of those in front of it (`WaitOrder`) and doubles
the next one, so the sum is kept; `NobodyStarves` is its first half.  `ImplementsAPI` follows step by step.

`ConnectionProofs`: all sizes of requests and responses, all limits the constructor
accepts, all cuts of the stream, any number of requests (`ConnectionAssumption`).
The handlers are functions, so the invariant is a predicate of a connection and of
the rest of the system (`World`): `Sound` holds between any two steps of a handler
and `Steady` between any two handlers.  `Steady` is what makes the properties
inductive: requests executed and requests not decoded are together those sent
(`Aligned`), and the read buffer holds no whole frame (`Undecoded`).  From these
come the reasons to end: a full buffer means that the next frame is too long
(`BufferFull`), and an empty kernel that every request was executed
(`NothingLeft`).  `Ended` lists the reasons, each of which stays true
(`SoundLater`); they imply `ClosedForACause` and `HalfCloseExecuted`.
`DropReason` lists the causes to lose output; a half close is one of them only once
`recv` has returned 0 (`inputEnded`, `InputEndsSound`).
`BackpressureAlwaysHolds` is the safety part of `Backpressure`.

`ServerMetricsProofs`: any finite set of threads, any number of calls and operations in
flight, any latencies and sizes of 64 bits (`MetricsAssumption`: fewer calls than the
counters can count, and bucket bounds that increase, as `LATENCY_UPPER_BOUNDS_NS` does).  That the gauge never wraps is not inductive: it depends on what every
thread still has in flight.  The invariant names the contribution of each thread to
the gauge, and how it will develop as its operations take effect in order
(`Develops`): within 0 and the connections the thread accepted, to end with those
it owns.  A call extends that development at its end (`DevelopsOnCall`); an operation
on the gauge takes its first step, since operations of one thread on one location
keep their order (`DevelopsOnGauge`), and one on another location, anywhere in the
program, takes none (`DevelopsOnNeutral`).  The gauge is the sum of the contributions,
and the sum is the size of a set of tokens, which the library's theorems can count.
`GaugeExactWhenQuiet` reads the same invariant on a quiet server.  For the maxima,
`MaximaKnown` says that the largest candidate has either arrived or is still in
flight: an `UpdateMaximum` gives up its candidate only to a value that is no smaller.
`MaximaAlwaysRise` is the safety part of `MaximaRaised`, and `MaximaExactWhenQuiet` a
conjunct of `StatsExact`.

`StatsAlwaysExact` is `StatsExact` whole.  Its invariant, `Books`, is a ledger: the
value of a location and what every thread still has in flight for it come, modulo
2^64, to what its figure should be (`Ledger`): what was added to a counter, the commands
of a bucket, the time spent, the connections owned and dropped.  A call raises both sides
by the weight of its operations (`LedgerOnCall`, `Weighs`), wherever they will take
effect; an operation that takes effect moves its weight from the thread to the memory
(`LedgerOnEffect`).  A quiet thread weighs nothing (`LedgerQuiet`), and a figure that
does not exceed the calls made is equal, not only modulo 2^64 (`QuietLocation`; hence the
bounds in `CountsBounded`, where a `STATS` command that has begun and is not recorded yet
counts against its own call).  The sums are those of `SumFunctionOnSet`: that a sum over a
finite set does not depend on the order its recursion takes the members in is proved
first (`SumRemove`), then how it changes with one value (`SumChanged`) and over a
union (`SumUnion`).  The buckets up to a bound hold the latencies within it because the
bounds increase (`BucketWithin`, `BucketsSumUp`), and the accumulated buckets reach
`targetRank`, rounded up, exactly where they cover the share (`PercentileWhenQuiet`).

`RecursionLemmas` replaces the induction theorems of the library, which take an
operator as a parameter and so cannot be used here.  A set of naturals that holds
0 and is closed under successor is `Nat` (`SetInduction`, from the least
counterexample); a recursion whose step is given as a function `F` has a solution
(`FollowsExists`), only one (`FollowsUnique`), and keeps a type (`FollowsTyped`).
`Sublist`, `Batch` and `Served` of `Poller`, `BytesOf` and `ProcessPayloads` of
`Connection` are recursive functions for that reason, and their defining
equations are proved before anything else is said about them.

`SequentialProofs`, the write buffer: it works with `Unsent(s, p)`, the bytes of `s` from position `p`
on, and four lemmas about it: it commutes with concatenation
(`UnsentOfConcat`), moving the position twice is moving it once
(`UnsentOfUnsent`), its two ends (`UnsentEnds`), and that compaction does not
change it (`CompactKeepsUnsent`).  The invariant is `TypeOK /\ WasteBounded`
(`BufferAlwaysBounded`); with it each method is a step of `ByteQueue`.  The assumption is
`OutputBufferAssumption`: the threshold is positive.

`SequentialProofs`, the descriptors: it proves the three invariants of `ScopedFd`, and their conjunction
(`DescriptorsAlwaysOwned`), for any set of objects and numbers.  They are inductive only together: that a `Reset` closes an open
number needs that what an object holds is open (`FdTypeOK`), and that it closes
nobody else's needs `OwnedOnce`.  The assumption is `FdAssumption`: descriptors
are not negative.

`SequentialProofs`, framing: for any base, header size, frame limit and payloads
whose length a header can say (`PayloadsFit`; 4 GiB in the code.  Without it the
cast to `uint32_t` sends another length, see `LongPayloadsRefused` below).
`HeaderInverse` says that `ntohl` inverts `htonl`, by induction over the digits, and
`DecodeRule` that `Decode` does what its loop does.  That everything is received
whole and in order is not inductive; the invariant `StreamInv` is that the bytes
which have arrived, followed by those on the wire, are the frames of the payloads
sent and not received, and after them at most one header that announces too much
(`Underway`).  `Decode` of any prefix of such a stream takes whole payloads off its
front (`StreamDecode`), and cutting it elsewhere changes nothing (`BytesArrive`).
From this come `StreamIsDecoded` and, step by step, `StreamIsAChannel`.

`SequentialProofs`, the client (`ClientStaysInStep`): the invariant `ClientInv` tells
apart four situations: nothing under way, a line going out, a line the server has
not answered, and an answer coming back; in each it says which bytes are where.  That
`RecvFrame` throws nothing away follows, since at most one frame ever is under way.
The assumption is `LinesFit`, that of framing for lines and answers.

`SequentialProofs`, the parser (`ParserAlwaysExact`): for any words, digits and texts of
words and blanks; `IntMax` is any positive number.  The invariant is
only that `cmd` is `ParseCommand(line)`; the work is in what that computes.
`Split(w, t)` says that `w[i]` are the words among the first `i` tokens, which is what
`SplitWords` goes through (`SplitRule`); these lists only grow (`SplitGrows`), each word
is the last one of its list (`SplitAtWord`), and blanks add nothing
(`SplitOverBlanks`).  `Laid(l, i, j, m, n)` says that the two first words of a line
stand at `i` and `j` and the rest from `m` to `n`.  A line of three words and more is
laid out somehow (`ThreeAreLaid`), a line laid out so is parsed so (`LaidIsParsed`), and
`Laid` is the grammar (`SpelledIsLaid`).  `NumberParsed` compares, digit by digit, the
accumulation that stops at the limit with the number that does not.  The
assumption is `ParserAssumption`: a blank is no word, and a word has characters.

`SequentialProofs`, the commands (`ResponsesAlwaysTrue`): that a stored value can be typed
again is not inductive.  The invariant `CommandsInv` says instead that a stored value
begins and ends with a word, as only the `SET` that stored it can show
(`LaidValue`), and `ValueCopied` that such a value, typed after `SET` and a key, is
parsed to itself.

Only model-checked: all liveness, which is beyond the prover (`CommandsExecuted` and
`OutputSent` of `Connection` and the temporal properties of the other modules).  Every
invariant that a run checks is the statement of a theorem.

## 6. Findings

* `KVStore::Size` and `Stats` are documented as the number of currently valid
  keys; they also count expired keys that are still stored (`kvstore_size`).
* A comment asks that the failure of one connection must not end the server;
  `accept` failing with, say, `ECONNABORTED` does (`server_accept`).
* Pipelines and sticky packets are said to be handled correctly; a request that
  arrives in one `recv` with the oversized header behind it is decoded, dropped
  and never answered, and would have been executed had it arrived before
  (`connection_pipeline`).

Further disagreements between the code and what is written about it came up while
modelling.  Each is stated as a property that the code does not have; no run
lists them, and adding one to the configuration named shows the behaviour.

* The poller is said to hide the difference between `poll` and `epoll`; when a
  peer shuts down its sending side, the requests one `recv` has not taken are
  dropped with `epoll` and executed with `poll` (`HalfCloseExecuted`,
  `MCConnection.cfg`; with the 16 KiB reads of the code it takes more than that
  pending).  That poll executes them is checked (`PollHalfCloseExecuted`).
* When `recv` returns 0, `HandleClientRead` pauses reading, sets `closeAfterWrite` and
  closes at once only if `writeBuffer` is empty (sub_reactor.cpp:321-325): the
  responses already queued are to go out first.  But the branch begins with
  `MarkClosed` (line 320), which clears the buffer, so a peer that shuts down its
  sending side and reads on loses them, with both back ends (`HalfCloseAnswered`,
  `MCConnection.cfg`: one command, the response queued, the end of the input in the
  batch that would have sent it).  No doc, comment or test says what is meant, so
  there is no run for it.  `DroppedForACause` keeps the loss to this branch: a
  hangup, a drain or a pause alone drops nothing of such a peer.
* A failed `Remove` leaves its descriptor number in the poller's table, and every
  later client with that number is refused as already registered, until the reactor
  ends.  `GhostsExplained` says that stale entries have no other origin and are never
  reported as events; it does not say that they cost nothing.
* `STATS` is said to read a snapshot and to estimate percentiles from buckets of
  which the last is `>5ms`; a snapshot taken while a command is being counted can
  report `>5000` though no command was slow (`SlowOnlyIfSlow`,
  `MCServerMetrics.cfg` with `Latencies = {1, 2}`).
* The example configuration allows any `low <= high <= hard limit`, and only a
  client whose output grows to the hard limit is said to be closed; with both
  watermarks 0 every connection is closed by the first event that leaves its
  output empty (`ClosedAsDocumented`, `MCConnection.cfg` with
  `WriteHighWatermarkBytes = 0`).  The proof of `OrderlyEnd` needs the watermark to
  be positive for this reason.  With both watermarks equal and positive, a paused
  connection is resumed at exactly the high one, hence the second disjunct of
  `BackpressureHolds`.
* `sweep_interval_ms = 0` is refused with "must not be negative", and `Validate`
  would admit it (`SweepRefusedOnlyIfNegative`, `MCMain.cfg`).
* A comment says that the value of `--config`, handled by the first pass, is
  skipped in the second; in `--host --config=x` the file is loaded by the first
  and the argument is the host of the second (`LoadedFileWasSkipped`,
  `MCMain.cfg`).
* `Encode` is commented to refuse payloads above the maximum; it narrows the
  length to 32 bits first (`LongPayloadsRefused`, `MCSequential.cfg` with a payload
  of four bits; in the code it takes one of 4 GiB).
* `$nil` is documented as the answer for an absent key; it is also that for the
  value `nil` (`GetNilMeansAbsent`, `MCSequential.cfg`).
* Responses are documented to begin with `+`, `$` or `-ERR`; that of `HELP` does
  not (`EveryResponseMarked`, `MCSequential.cfg`).
* A comment says that QUIT ends the client's loop, and command names are
  documented as case-insensitive; after `Quit` only the server quits
  (`QuitEndsClient`, `MCSequential.cfg`).

## 7. Plan and what is left

Done, in the order of the plan: store and sweeper; server control plane;
connection and write buffer; metrics; poller; signals; framing; commands;
descriptors; start-up; client.

Proved since: `Lifecycle`, `Server`, `Poller` with its refinement, the refinement
of `TTLMap`, `Connection`, `ServerMetrics`, `Startup`, `FrameStream` with its refinement
of `PayloadChannel`, `Client`, `CommandParser`, `Commands`.  What the plan had to prove
is proved.

Not modelled, and why.  The logger (a level, a lock around a stream, formatting)
influences nothing.  The socket helpers and `ErrorMessage` are single system
calls and their messages; where they can fail, the caller's model has the
failure.  TOML syntax belongs to the library; `Startup` begins with the table it
returns.  `BuildConfigStr` and `PrintUsage` only print.
`AverageCommandLatencyMicroseconds` is one division.  Scripts, benchmarks and
tests are not part of the server.  Repeated wakeups for a half-closed peer that
does not read (`EPOLLRDHUP` is level-triggered) are in `Connection`, but as a cost
and not an error they have no property.  A torn snapshot has only the property
that fails, `SlowOnlyIfSlow`.
