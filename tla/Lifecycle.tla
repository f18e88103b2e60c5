----------------------------- MODULE Lifecycle -----------------------------
(***************************************************************************)
(* main() of the server from the construction of TcpServer on: the         *)
(* TerminationSignalHandler that lives inside the server's lifetime, the   *)
(* signals that may arrive between any two of its steps, and the handler   *)
(* function, which runs on whichever thread the kernel picks.              *)
(***************************************************************************)
EXTENDS Integers, Sequences, FiniteSets

CONSTANTS
    ChannelCapacity,    \* bytes the stop channel holds before write() fails
    MaxSignals          \* bound on the signals of a behaviour

ASSUME LifecycleAssumption ==
    ChannelCapacity \in Nat \ {0} /\ MaxSignals \in Nat

VARIABLES
    pc,             \* where main() is
    undo,           \* what is left to take back, in order
    G_NOTIFY_FD,
    action,         \* signal -> its disposition (kernel)
    previous,       \* m_previousSigint, m_previousSigterm, m_previousSigpipe
    channel,        \* the stop channel of the server: "none", "open", "closed"
    bytes,          \* bytes in it
    handler,        \* thread -> the handler function interrupting it
    errno,          \* thread -> its errno
    signals,        \* signals so far
    killed,         \* the signal whose default disposition ended the process
    original,       \* history: the dispositions main() found
    swallowed       \* history: a handler had no descriptor to write to

vars == <<pc, undo, G_NOTIFY_FD, action, previous, channel, bytes, handler, errno,
          signals, killed, original, swallowed>>

Termination == {"SIGINT", "SIGTERM"}
Signals == Termination \cup {"SIGPIPE"}

NotifyFd == 5       \* StopNotificationFd(), any descriptor but 0
Threads == {"main", "worker"}
Idle == [step |-> "idle", fd |-> -1, saved |-> "own"]

----------------------------------------------------------------------------

Init ==
    /\ pc = "server"
    /\ undo = <<>>
    /\ G_NOTIFY_FD = -1
    /\ \E inherited \in {"default", "ignore"} :
          action = [s \in Signals |-> IF s = "SIGINT" THEN inherited ELSE "default"]
    /\ previous = [s \in Signals |-> "default"]
    /\ channel = "none"
    /\ bytes = 0
    /\ handler = [t \in Threads |-> Idle]
    /\ errno = [t \in Threads |-> "own"]
    /\ signals = 0
    /\ killed = "none"
    /\ original = action
    /\ swallowed = FALSE

\* main proceeds only outside of a handler that interrupts it.
Main(from) == pc = from /\ handler["main"] = Idle /\ killed = "none"

Goto(to, leftToUndo) == pc' = to /\ undo' = leftToUndo

\* TcpServer server(...): with it the stop channel; it may throw.
ConstructServer ==
    /\ Main("server")
    /\ \/ Goto("check", <<>>) /\ channel' = "open"
       \/ Goto("exited", <<>>) /\ UNCHANGED channel
    /\ UNCHANGED <<G_NOTIFY_FD, action, previous, bytes, handler, errno, signals,
                   killed, original, swallowed>>

\* Mutant: the descriptor is not published.
PublishNotifyFd_Forgets ==
    /\ Main("check")
    /\ Goto("SIGINT", <<>>)
    /\ UNCHANGED <<G_NOTIFY_FD, action, previous, channel, bytes, handler, errno, signals,
                   killed, original, swallowed>>

\* TerminationSignalHandler(notifyFd), up to its first system call.
PublishNotifyFd ==
    /\ Main("check")
    /\ IF G_NOTIFY_FD > 0
       THEN Goto("undo", <<"server">>) /\ UNCHANGED G_NOTIFY_FD
       ELSE Goto("SIGINT", <<>>) /\ G_NOTIFY_FD' = NotifyFd
    /\ UNCHANGED <<action, previous, channel, bytes, handler, errno, signals, killed,
                   original, swallowed>>

\* Mutant: SIGINT keeps the handler when the last sigaction fails.
Rollback_ForgetsSigint(s) ==
    CASE s = "SIGINT" -> <<"notify", "server">>
      [] s = "SIGTERM" -> <<"SIGINT", "notify", "server">>
      [] s = "SIGPIPE" -> <<"SIGTERM", "notify", "server">>

\* What the constructor takes back when sigaction for this signal fails.
Rollback(s) ==
    CASE s = "SIGINT" -> <<"notify", "server">>
      [] s = "SIGTERM" -> <<"SIGINT", "notify", "server">>
      [] s = "SIGPIPE" -> <<"SIGINT", "SIGTERM", "notify", "server">>

After(s) == CASE s = "SIGINT" -> "SIGTERM" [] s = "SIGTERM" -> "SIGPIPE" [] s = "SIGPIPE" -> "run"

\* One sigaction of the constructor.
Install(s) ==
    /\ Main(s)
    /\ \/ /\ previous' = [previous EXCEPT ![s] = action[s]]
          /\ action' = [action EXCEPT ![s] = IF s = "SIGPIPE" THEN "ignore" ELSE "handler"]
          /\ Goto(After(s), <<>>)
       \/ /\ Goto("undo", Rollback(s))
          /\ UNCHANGED <<action, previous>>
    /\ UNCHANGED <<G_NOTIFY_FD, channel, bytes, handler, errno, signals, killed,
                   original, swallowed>>

\* Mutant: the descriptor is invalidated before the dispositions are restored.
Destructors_NotifyFirst == <<"notify", "SIGINT", "SIGTERM", "SIGPIPE", "server">>

\* The destructors run in reverse order of construction.
Destructors == <<"SIGINT", "SIGTERM", "SIGPIPE", "notify", "server">>

\* server.Run(): threads start ...
RunStarts ==
    /\ Main("run")
    /\ Goto("running", <<>>)
    /\ UNCHANGED <<G_NOTIFY_FD, action, previous, channel, bytes, handler, errno, signals,
                   killed, original, swallowed>>

\* ... and it returns on a stop notification, or throws; both ways it has
\* joined every thread first.
RunEnds(failure) ==
    /\ Main("running")
    /\ bytes > 0 \/ failure
    /\ handler["worker"] = Idle
    /\ Goto("undo", Destructors)
    /\ UNCHANGED <<G_NOTIFY_FD, action, previous, channel, bytes, handler, errno, signals,
                   killed, original, swallowed>>

\* The next thing a rollback or a destructor takes back.
Undo ==
    /\ Main("undo")
    /\ LET what == Head(undo)
       IN  /\ action' = IF what \in Signals THEN [action EXCEPT ![what] = previous[what]]
                        ELSE action
           /\ G_NOTIFY_FD' = IF what = "notify" THEN -1 ELSE G_NOTIFY_FD
           /\ channel' = IF what = "server" THEN "closed" ELSE channel
    /\ IF Len(undo) = 1 THEN Goto("exited", <<>>) ELSE Goto("undo", Tail(undo))
    /\ UNCHANGED <<previous, bytes, handler, errno, signals, killed, original, swallowed>>

----------------------------------------------------------------------------
(* Signals *)

Alive(t) == pc # "exited" /\ killed = "none" /\ (t = "worker" => pc = "running")

\* A signal reaches a thread (SIGPIPE: the worker that sent to a connection its
\* peer had closed).  The handler function is entered, and saves errno.  (sa_mask is
\* empty, so the other termination signal may interrupt the handler.  The inner one
\* runs to its end, writes the same byte and restores the errno it found: as if it
\* had come just before the outer one.)
Signal(s, t) ==
    /\ Alive(t)
    /\ s = "SIGPIPE" => t = "worker"
    /\ signals < MaxSignals
    /\ handler[t] = Idle
    /\ signals' = signals + 1
    /\ \/ /\ action[s] = "default"
          /\ killed' = s
          /\ UNCHANGED handler
       \/ /\ action[s] = "ignore"
          /\ UNCHANGED <<killed, handler>>
       \/ /\ action[s] = "handler"
          /\ handler' = [handler EXCEPT ![t] =
                [step |-> "load", fd |-> -1, saved |-> errno[t]]]
          /\ UNCHANGED killed
    /\ UNCHANGED <<pc, undo, G_NOTIFY_FD, action, previous, channel, bytes, errno,
                   original, swallowed>>

\* It reads G_NOTIFY_FD ...
HandlerLoads(t) ==
    /\ handler[t].step = "load" /\ killed = "none"
    /\ handler' = [handler EXCEPT ![t].step = IF G_NOTIFY_FD >= 0 THEN "write" ELSE "leave",
                                  ![t].fd = G_NOTIFY_FD]
    /\ swallowed' = (swallowed \/ G_NOTIFY_FD < 0)
    /\ UNCHANGED <<pc, undo, G_NOTIFY_FD, action, previous, channel, bytes, errno, signals,
                   killed, original>>

\* ... writes a byte, which fails and sets errno when the channel is full ...
HandlerWrites(t) ==
    /\ handler[t].step = "write" /\ killed = "none"
    /\ handler' = [handler EXCEPT ![t].step = "leave"]
    /\ IF bytes < ChannelCapacity
       THEN bytes' = bytes + 1 /\ UNCHANGED errno
       ELSE errno' = [errno EXCEPT ![t] = "EAGAIN"] /\ UNCHANGED bytes
    /\ UNCHANGED <<pc, undo, G_NOTIFY_FD, action, previous, channel, signals, killed,
                   original, swallowed>>

\* ... restores errno and returns.
HandlerLeaves(t) ==
    /\ handler[t].step = "leave" /\ killed = "none"
    /\ errno' = [errno EXCEPT ![t] = handler[t].saved]
    /\ handler' = [handler EXCEPT ![t] = Idle]
    /\ UNCHANGED <<pc, undo, G_NOTIFY_FD, action, previous, channel, bytes, signals,
                   killed, original, swallowed>>

MainStep ==
    \/ ConstructServer \/ PublishNotifyFd \/ RunStarts \/ Undo
    \/ \E s \in Signals : Install(s)
    \/ RunEnds(FALSE)

HandlerStep(t) == HandlerLoads(t) \/ HandlerWrites(t) \/ HandlerLeaves(t)

Next ==
    \/ MainStep
    \/ RunEnds(TRUE)
    \/ \E t \in Threads : HandlerStep(t) \/ \E s \in Signals : Signal(s, t)

Spec == Init /\ [][Next]_vars
FairSpec == Spec /\ WF_vars(MainStep) /\ \A t \in Threads : WF_vars(HandlerStep(t))

----------------------------------------------------------------------------
(* Properties *)

\* Places of main(), dispositions, the descriptor the handler sees, and the
\* bytes of the stop channel, which the handler's writes never overfill.
TypeOK ==
    /\ pc \in Signals \cup {"server", "check", "run", "running", "undo", "exited"}
    /\ undo \in Seq(Signals \cup {"notify", "server"})
    /\ G_NOTIFY_FD \in {-1, NotifyFd}
    /\ action \in [Signals -> {"default", "ignore", "handler"}]
    /\ previous \in [Signals -> {"default", "ignore", "handler"}]
    /\ channel \in {"none", "open", "closed"}
    /\ bytes \in 0 .. ChannelCapacity
    /\ handler \in [Threads -> [step : {"idle", "load", "write", "leave"},
                                fd : {-1, NotifyFd}, saved : {"own", "EAGAIN"}]]
    /\ errno \in [Threads -> {"own", "EAGAIN"}]
    /\ signals \in 0 .. MaxSignals
    /\ killed \in Signals \cup {"none"}
    /\ swallowed \in BOOLEAN

\* The handler function writes to nothing but the open stop channel, at whatever
\* instant a signal arrives: the server outlives the handler object, and no
\* thread that may run the handler survives Run (main: "signals must be
\* constructed after server").
WritesToOpenChannel ==
    \A t \in Threads : handler[t].step = "write" => channel = "open" /\ handler[t].fd = NotifyFd

\* No termination signal is swallowed: the handler function never runs without
\* a descriptor, neither during the constructor, nor its rollbacks, nor the
\* destructor (which restores the dispositions first, then clears G_NOTIFY_FD).
NothingSwallowed == ~swallowed

\* Whatever happened, a process that ends by itself leaves the dispositions it
\* found, in particular after a sigaction failed halfway through the constructor.
DispositionsRestored ==
    pc = "exited" => action = original /\ G_NOTIFY_FD = -1

\* Code interrupted by a signal still finds the errno of its own system call,
\* although the write of the handler may fail.
ErrnoKept ==
    \A t \in Threads : handler[t] = Idle => errno[t] = "own"

\* Writing to a connection its peer has closed never ends the process.
SigpipeHarmless == killed # "SIGPIPE"

\* A signal at any instant of main(), on any thread, reaches an open channel or the
\* disposition in force outside the server: no write to a closed descriptor, no
\* signal swallowed, no errno overwritten, no death by SIGPIPE.
SignalsHarmless ==
    TypeOK /\ WritesToOpenChannel /\ NothingSwallowed /\ ErrnoKept /\ SigpipeHarmless

\* A termination signal that is handled ends the process: it is not missed even
\* when it arrives before Run has started.
SignalStops ==
    \A t \in Threads :
        handler[t].step = "load" ~> (pc = "exited" \/ killed # "none")

============================================================================
