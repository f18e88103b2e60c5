-------------------------------- MODULE Server --------------------------------
(***************************************************************************)
(* The control plane: the main reactor (TcpServer::Run), the sub reactors  *)
(* (SubReactor::EventLoop), the sweeper thread, and what they share: the   *)
(* wakeup channels, the requests kept under m_controlMutex, the published  *)
(* states and the client descriptors handed from thread to thread.         *)
(*                                                                         *)
(* A step of a thread ends where another thread can see or change what it  *)
(* touches: after an unlock, before a Notify, when Wait has returned its   *)
(* list of ready descriptors, after Drain.  What happens on a connection   *)
(* is reduced to whether a response is queued on it.                       *)
(***************************************************************************)
EXTENDS Integers, FiniteSets

CONSTANTS
    Clients,           \* the peers that connect, each one once
    Fds,               \* descriptor numbers; the kernel reuses closed ones
    SubReactorCount,   \* sub_reactors; they are indexed from 1 here
    MaxAccepts,        \* maxAcceptsPerEvent
    SweeperEnabled,    \* whether m_sweepInterval is positive
    ChannelCapacity,   \* bytes a wakeup channel holds before write says EAGAIN
    NoConn             \* a ScopedFd that owns nothing

ASSUME ServerAssumption ==
    /\ SubReactorCount \in Nat \ {0}
    /\ MaxAccepts \in Nat \ {0}
    /\ SweeperEnabled \in BOOLEAN
    /\ ChannelCapacity \in Nat \ {0}
    /\ NoConn \notin [client : Clients, fd : Fds]

VARIABLES
    main,       \* the main reactor's thread and the members of TcpServer
    stop,       \* m_stopRequested and the bytes in m_stopWakeup
    sub,        \* per sub reactor, what only its own thread writes
    control,    \* per sub reactor, what m_controlMutex guards, and its channel
    sweeper,    \* the sweeper thread and m_sweeperRunning
    peers,      \* the state of the peers' connections
    deadlinePassed

vars == <<main, stop, sub, control, sweeper, peers, deadlinePassed>>

Reactors == 1..SubReactorCount

\* An accepted connection: the peer, and the descriptor number it got.
Conn == [client : Clients, fd : Fds]

\* WakeupChannel::Notify, and the write of the signal handler: a full channel
\* already holds a wakeup, and the byte is dropped.
Notified(bytes) == IF bytes < ChannelCapacity THEN bytes + 1 ELSE bytes

\* Every open client descriptor and the connection that owns it.
Open == ({main.held} \ {NoConn})
        \cup UNION {control[r].pending \cup sub[r].clients : r \in Reactors}

FreeFds == Fds \ {c.fd : c \in Open}

Init ==
    /\ main = [pc |-> "start", m_state |-> "Created", listening |-> TRUE,
               evStop |-> FALSE, evListen |-> FALSE, accepted |-> 0,
               held |-> NoConn, next |-> 1, loop |-> 1,
               forceStopSent |-> FALSE, threw |-> FALSE]
    /\ stop = [requested |-> FALSE, bytes |-> 0]
    /\ sub = [r \in Reactors |->
                 [pc |-> "created", m_state |-> "Created", clients |-> {},
                  ready |-> {}, failed |-> FALSE]]
    /\ control = [r \in Reactors |->
                 [pending |-> {}, stop |-> FALSE, force |-> FALSE, bytes |-> 0]]
    /\ sweeper = [pc |-> "none", running |-> FALSE]
    /\ peers = [unborn |-> Clients, backlog |-> {}, queued |-> {}, closed |-> {}]
    /\ deadlinePassed = FALSE

-----------------------------------------------------------------------------
(***************************************************************************)
(* The main reactor.                                                       *)
(***************************************************************************)
\* Run leaves its try block.
Throw ==
    /\ main' = [main EXCEPT !.pc = "stopSweeper", !.threw = TRUE,
                            !.loop = 1, !.accepted = 0,
                            !.evStop = FALSE, !.evListen = FALSE]
    /\ UNCHANGED <<stop, sub, control, sweeper, peers, deadlinePassed>>

\* SubReactor::Start of the next reactor: its poller, its state, its thread.
StartReactor ==
    /\ main.pc = "start" /\ main.loop \in Reactors
    /\ sub' = [sub EXCEPT ![main.loop].pc = "wait",
                          ![main.loop].m_state = "Running"]
    /\ main' = [main EXCEPT !.loop = @ + 1]
    /\ UNCHANGED <<stop, control, sweeper, peers, deadlinePassed>>

\* A socket, a poller or a thread cannot be created.
StartFails == main.pc = "start" /\ Throw

\* Every reactor runs; StartSweeperThread, which does nothing when the sweep
\* interval is zero.
StartSweeper ==
    /\ main.pc = "start" /\ main.loop \notin Reactors
    /\ main' = [main EXCEPT !.pc = "wait", !.m_state = "Running", !.loop = 1]
    /\ sweeper' = IF SweeperEnabled THEN [pc |-> "looping", running |-> TRUE]
                                     ELSE sweeper
    /\ UNCHANGED <<stop, sub, control, peers, deadlinePassed>>

\* Poller::Wait returns, with events or because its timeout has passed.
MainWait ==
    /\ main.pc = "wait"
    /\ main' = [main EXCEPT !.pc = "events",
                            !.evStop = stop.bytes > 0,
                            !.evListen = main.listening /\ peers.backlog # {}]
    /\ UNCHANGED <<stop, sub, control, sweeper, peers, deadlinePassed>>

\* Wait, Drain or the Remove of the listening socket throws.
MainWaitFails == main.pc \in {"wait", "events"} /\ Throw

\* BeginGracefulShutdown up to its loop over the reactors.  Closing the
\* listening socket resets the peers in its queue.
BeginGracefulShutdown ==
    /\ main' = [main EXCEPT !.pc = "stopSubs", !.m_state = "Draining",
                            !.listening = FALSE, !.loop = 1,
                            !.evStop = FALSE, !.evListen = FALSE]
    /\ peers' = [peers EXCEPT !.backlog = {}]

StopSeen == main.evStop \/ stop.requested

\* The stop notification is handled before anything else of the same batch.
MainEvents ==
    /\ main.pc = "events"
    /\ stop' = IF main.evStop THEN [stop EXCEPT !.bytes = 0] ELSE stop
    /\ IF StopSeen /\ main.m_state = "Running"
       THEN BeginGracefulShutdown
       ELSE /\ main' = [main EXCEPT !.pc = "health", !.evStop = FALSE]
            /\ UNCHANGED peers
    /\ UNCHANGED <<sub, control, sweeper, deadlinePassed>>

\* SubReactor::Stop for each reactor: the request under the lock ...
MainRequestStop ==
    /\ main.pc = "stopSubs" /\ main.loop \in Reactors
    /\ control' = [control EXCEPT ![main.loop].stop = TRUE]
    /\ main' = [main EXCEPT !.pc = "notifyStop"]
    /\ UNCHANGED <<stop, sub, sweeper, peers, deadlinePassed>>

\* ... SubReactor::ForceStop likewise, for the reactors that have not stopped
\* or, in the catch block, for all ...
MainRequestForceStop ==
    /\ main.pc = "forceSubs" /\ main.loop \in Reactors
    /\ main.threw \/ sub[main.loop].m_state # "Stopped"
    /\ control' = [control EXCEPT ![main.loop].force = TRUE]
    /\ main' = [main EXCEPT !.pc = "notifyForce"]
    /\ UNCHANGED <<stop, sub, sweeper, peers, deadlinePassed>>

MainSkipStopped ==
    /\ main.pc = "forceSubs" /\ main.loop \in Reactors
    /\ ~main.threw /\ sub[main.loop].m_state = "Stopped"
    /\ main' = [main EXCEPT !.loop = @ + 1]
    /\ UNCHANGED <<stop, sub, control, sweeper, peers, deadlinePassed>>

\* Mutant: no byte is written for a reactor that is awake anyway.
MainNotifySleeping(from, to, next) ==
    /\ main.pc = from
    /\ control' = IF sub[main.loop].pc = "wait"
                  THEN [control EXCEPT ![main.loop].bytes = Notified(@)]
                  ELSE control
    /\ main' = [main EXCEPT !.pc = to, !.loop = next]
    /\ UNCHANGED <<stop, sub, sweeper, peers, deadlinePassed>>

\* ... then Notify.
MainNotify(from, to, next) ==
    /\ main.pc = from
    /\ control' = [control EXCEPT ![main.loop].bytes = Notified(@)]
    /\ main' = [main EXCEPT !.pc = to, !.loop = next]
    /\ UNCHANGED <<stop, sub, sweeper, peers, deadlinePassed>>

\* A loop over the reactors ends.  A draining server accepts nothing, so
\* CheckShutdownProgress is next; after ForceStop the next Wait, or, in the
\* catch block, Join.
MainAllRequested ==
    /\ main.pc \in {"stopSubs", "forceSubs"} /\ main.loop \notin Reactors
    /\ main' = IF main.pc = "stopSubs"
               THEN [main EXCEPT !.pc = "progress", !.loop = 1]
               ELSE [main EXCEPT !.pc = IF main.threw THEN "join" ELSE "wait",
                                 !.loop = 1,
                                 !.forceStopSent = @ \/ ~main.threw]
    /\ UNCHANGED <<stop, sub, control, sweeper, peers, deadlinePassed>>

\* Mutant: only a server without any working reactor is unhealthy.
AllFailed == \A r \in Reactors : sub[r].failed

SomeFailed == \E r \in Reactors : sub[r].failed

\* CheckSubReactorHealth.
MainHealth ==
    /\ main.pc = "health"
    /\ IF main.m_state = "Running" /\ SomeFailed
       THEN BeginGracefulShutdown
       ELSE /\ main' = [main EXCEPT !.evListen = FALSE, !.pc =
                          IF main.evListen /\ main.m_state = "Running"
                          THEN "accept" ELSE "progress"]
            /\ UNCHANGED peers
    /\ UNCHANGED <<stop, sub, control, sweeper, deadlinePassed>>

\* AcceptNewClients: accept hands out a peer and a free descriptor number.
MainAccept ==
    /\ main.pc = "accept" /\ main.accepted < MaxAccepts
    /\ \E p \in peers.backlog, n \in FreeFds :
          /\ main' = [main EXCEPT !.pc = "enqueue", !.accepted = @ + 1,
                                  !.held = [client |-> p, fd |-> n]]
          /\ peers' = [peers EXCEPT !.backlog = @ \ {p}]
    /\ UNCHANGED <<stop, sub, control, sweeper, deadlinePassed>>

\* The queue is empty (EAGAIN) or the batch is full.
MainAcceptDone ==
    /\ main.pc = "accept"
    /\ peers.backlog = {} \/ main.accepted = MaxAccepts
    /\ main' = [main EXCEPT !.pc = "progress", !.accepted = 0]
    /\ UNCHANGED <<stop, sub, control, sweeper, peers, deadlinePassed>>

\* accept fails with any other errno: ECONNABORTED, EMFILE, ...
MainAcceptFails ==
    /\ main.pc = "accept" /\ main.accepted < MaxAccepts /\ peers.backlog # {}
    /\ Throw

\* The descriptor cannot be made non-blocking: it is closed and forgotten.
MainInitClientFails ==
    /\ main.pc = "enqueue"
    /\ main' = [main EXCEPT !.pc = "accept", !.held = NoConn]
    /\ UNCHANGED <<stop, sub, control, sweeper, peers, deadlinePassed>>

\* EnqueClient on the next reactor in turn, up to the unlock.  A client it
\* rejects is closed.
MainEnqueClient ==
    LET r == main.next
        rejected == control[r].stop \/ control[r].force
    IN  /\ main.pc = "enqueue"
        /\ control' = IF rejected THEN control
                      ELSE [control EXCEPT ![r].pending = @ \cup {main.held}]
        /\ main' = [main EXCEPT !.pc = IF rejected THEN "accept" ELSE "notifyClient",
                                !.held = NoConn, !.loop = IF rejected THEN 1 ELSE r,
                                !.next = (r % SubReactorCount) + 1]
        /\ UNCHANGED <<stop, sub, sweeper, peers, deadlinePassed>>

AllStopped == \A r \in Reactors : sub[r].m_state = "Stopped"

ForceDue == ~main.forceStopSent /\ deadlinePassed

\* CheckShutdownProgress, and the loop test of Run.
MainProgress ==
    /\ main.pc = "progress"
    /\ main' = IF main.m_state # "Draining" THEN [main EXCEPT !.pc = "wait"]
               ELSE IF AllStopped
               THEN [main EXCEPT !.m_state = "Stopped", !.pc = "stopSweeper"]
               ELSE IF ForceDue THEN [main EXCEPT !.pc = "forceSubs", !.loop = 1]
               ELSE [main EXCEPT !.pc = "wait"]
    /\ UNCHANGED <<stop, sub, control, sweeper, peers, deadlinePassed>>

\* StopSweeperThread: the flag under m_sweeperMutex, notify_all ...
MainStopSweeper ==
    /\ main.pc = "stopSweeper"
    /\ sweeper' = [sweeper EXCEPT !.running = FALSE]
    /\ main' = [main EXCEPT !.pc = "joinSweeper"]
    /\ UNCHANGED <<stop, sub, control, peers, deadlinePassed>>

\* ... and join, if there is a thread; the catch block then forces the reactors.
MainJoinSweeper ==
    /\ main.pc = "joinSweeper"
    /\ sweeper.pc \in {"none", "exited"}
    /\ main' = [main EXCEPT !.pc = IF main.threw THEN "forceSubs" ELSE "join",
                            !.loop = 1]
    /\ UNCHANGED <<stop, sub, control, sweeper, peers, deadlinePassed>>

\* JoinSubReactors: every thread that was started has ended.
MainJoin ==
    /\ main.pc = "join"
    /\ \A r \in Reactors : sub[r].pc \in {"created", "exited"}
    /\ main' = [main EXCEPT !.pc = "cleanup"]
    /\ UNCHANGED <<stop, sub, control, sweeper, peers, deadlinePassed>>

\* CleanupMainReactor: the listening socket and the reactors are destroyed,
\* and with them every descriptor they still own.
MainCleanup ==
    /\ main.pc = "cleanup"
    /\ main' = [main EXCEPT !.pc = "done", !.m_state = "Stopped", !.listening = FALSE]
    /\ peers' = [peers EXCEPT !.backlog = {}]
    /\ control' = [r \in Reactors |-> [control[r] EXCEPT !.pending = {}]]
    /\ UNCHANGED <<stop, sub, sweeper, deadlinePassed>>

MainFails == StartFails \/ MainWaitFails \/ MainAcceptFails

MainStep ==
    \/ StartReactor \/ StartSweeper
    \/ MainWait \/ MainEvents \/ MainHealth
    \/ MainRequestStop \/ MainRequestForceStop \/ MainSkipStopped
    \/ MainNotify("notifyStop", "stopSubs", main.loop + 1)
    \/ MainNotify("notifyForce", "forceSubs", main.loop + 1)
    \/ MainNotify("notifyClient", "accept", 1)
    \/ MainAllRequested
    \/ MainAccept \/ MainAcceptDone \/ MainInitClientFails \/ MainEnqueClient
    \/ MainProgress
    \/ MainStopSweeper \/ MainJoinSweeper \/ MainJoin \/ MainCleanup

-----------------------------------------------------------------------------
(***************************************************************************)
(* A sub reactor.                                                          *)
(***************************************************************************)
\* Poller::Wait returns: some of the connections are ready, and the control
\* channel is if it holds a byte.
SubWait(r) ==
    /\ sub[r].pc = "wait"
    /\ \E events \in SUBSET sub[r].clients :
          sub' = [sub EXCEPT ![r].ready = events,
                     ![r].pc = IF control[r].bytes > 0 THEN "drain" ELSE "clients"]
    /\ UNCHANGED <<main, stop, control, sweeper, peers, deadlinePassed>>

SubDrain(r) ==
    /\ sub[r].pc = "drain"
    /\ control' = [control EXCEPT ![r].bytes = 0]
    /\ sub' = [sub EXCEPT ![r].pc = "control"]
    /\ UNCHANGED <<main, stop, sweeper, peers, deadlinePassed>>

\* The Connections conns are erased from m_clients, buffers and flags included.
Erase(conns) ==
    LET gone == {c.client : c \in conns}
    IN  peers' = [peers EXCEPT !.queued = @ \ gone, !.closed = @ \ gone]

\* ProcessControlRequests takes the pending clients and the two flags under
\* the lock.  A forced stop closes everything.
SubForceStop(r) ==
    /\ sub[r].pc = "control"
    /\ control[r].force
    /\ control' = [control EXCEPT ![r].pending = {}]
    /\ sub' = [sub EXCEPT ![r].clients = {}, ![r].ready = {},
                          ![r].m_state = "Stopped", ![r].pc = "exited"]
    /\ Erase(sub[r].clients)
    /\ UNCHANGED <<main, stop, sweeper, deadlinePassed>>

\* Mutant: draining drops the responses that are still queued.
KeptNone(conns) == {}

\* The connections a graceful shutdown keeps: those with a queued response.
KeptWhileDraining(conns) == {c \in conns : c.client \in peers.queued}

\* Mutant: without the return, the queued clients are added to the draining
\* reactor.
SubDrainsAndAdds(r) ==
    LET kept == KeptWhileDraining(sub[r].clients) \cup control[r].pending
    IN  /\ sub[r].pc = "control"
        /\ control[r].stop /\ ~control[r].force
        /\ control' = [control EXCEPT ![r].pending = {}]
        /\ sub' = [sub EXCEPT ![r].clients = kept,
                      ![r].m_state = IF kept = {} THEN "Stopped" ELSE "Draining",
                      ![r].pc = IF kept = {} THEN "exited" ELSE "clients"]
        /\ Erase(sub[r].clients \ kept)
        /\ UNCHANGED <<main, stop, sweeper, deadlinePassed>>

\* Mutant: the queue is taken only when no stop is requested.
SubStopsBeforeSwap(r) ==
    LET kept == KeptWhileDraining(sub[r].clients)
    IN  /\ sub[r].pc = "control"
        /\ control[r].stop /\ ~control[r].force
        /\ IF sub[r].m_state # "Running"
           THEN sub' = [sub EXCEPT ![r].pc = "clients"] /\ UNCHANGED peers
           ELSE /\ sub' = [sub EXCEPT ![r].clients = kept,
                      ![r].ready = IF kept = {} THEN {} ELSE @,
                      ![r].m_state = IF kept = {} THEN "Stopped" ELSE "Draining",
                      ![r].pc = IF kept = {} THEN "exited" ELSE "clients"]
                /\ Erase(sub[r].clients \ kept)
        /\ UNCHANGED <<main, stop, control, sweeper, deadlinePassed>>

\* A graceful stop closes the pending clients and the idle connections, once.
SubBeginGracefulShutdown(r) ==
    LET kept == KeptWhileDraining(sub[r].clients)
    IN  /\ sub[r].pc = "control"
        /\ control[r].stop /\ ~control[r].force
        /\ control' = [control EXCEPT ![r].pending = {}]
        /\ IF sub[r].m_state # "Running"
           THEN sub' = [sub EXCEPT ![r].pc = "clients"] /\ UNCHANGED peers
           ELSE /\ sub' = [sub EXCEPT ![r].clients = kept,
                      ![r].ready = IF kept = {} THEN {} ELSE @,
                      ![r].m_state = IF kept = {} THEN "Stopped" ELSE "Draining",
                      ![r].pc = IF kept = {} THEN "exited" ELSE "clients"]
                /\ Erase(sub[r].clients \ kept)
        /\ UNCHANGED <<main, stop, sweeper, deadlinePassed>>

\* Otherwise AddClientInLoop for each pending client; those whose number is
\* taken, or which the poller refuses, are closed.
SubAddClients(r) ==
    /\ sub[r].pc = "control"
    /\ ~control[r].stop /\ ~control[r].force
    /\ \E added \in SUBSET {c \in control[r].pending :
                              \A d \in sub[r].clients : d.fd # c.fd} :
          sub' = [sub EXCEPT ![r].clients = @ \cup added, ![r].pc = "clients"]
    /\ control' = [control EXCEPT ![r].pending = {}]
    /\ UNCHANGED <<main, stop, sweeper, peers, deadlinePassed>>

\* What one round of HandleClientRead and HandleClientWrite can do to a
\* connection: queue a response, send all of them, or mark it closed.  A
\* draining reactor does not read, and closes what it has sent.
QueueResponse(r, p) ==
    /\ sub[r].m_state = "Running" /\ p \notin peers.closed
    /\ peers' = [peers EXCEPT !.queued = @ \cup {p}]

SendAll(r, p) ==
    /\ p \in peers.queued
    /\ peers' = [peers EXCEPT !.queued = @ \ {p},
                    !.closed = IF sub[r].m_state = "Draining" THEN @ \cup {p} ELSE @]

MarkClosed(p) == peers' = [peers EXCEPT !.queued = @ \ {p}, !.closed = @ \cup {p}]

\* One event of the batch, applied to the connection m_clients has under the
\* descriptor number the event names, if any.
SubClientEvent(r) ==
    \E event \in sub[r].ready :
       /\ sub[r].pc = "clients"
       /\ sub' = [sub EXCEPT ![r].ready = @ \ {event}]
       /\ \/ UNCHANGED peers
          \/ \E c \in {d \in sub[r].clients : d.fd = event.fd} :
                \/ QueueResponse(r, c.client)
                \/ SendAll(r, c.client)
                \/ MarkClosed(c.client)
       /\ UNCHANGED <<main, stop, control, sweeper, deadlinePassed>>

\* CleanupClosedConnections.
Remaining(r) == {c \in sub[r].clients : c.client \notin peers.closed}

\* The end of the batch: CleanupClosedConnections and CheckShutdownProgress.
SubEndOfBatch(r) ==
    LET left == Remaining(r)
        ends == /\ sub[r].m_state = "Draining"
                /\ left = {} \/ deadlinePassed
    IN  /\ sub[r].pc = "clients" /\ sub[r].ready = {}
        /\ sub' = [sub EXCEPT ![r].clients = IF ends THEN {} ELSE left,
                              ![r].m_state = IF ends THEN "Stopped" ELSE @,
                              ![r].pc = IF ends THEN "exited" ELSE "wait"]
        /\ Erase(IF ends THEN sub[r].clients ELSE sub[r].clients \ left)
        /\ UNCHANGED <<main, stop, control, sweeper, deadlinePassed>>

\* Mutant: the catch block of EventLoop records the failure and does not publish
\* Stopped.
SubFailsUnpublished(r) ==
    /\ sub[r].pc \in {"wait", "drain", "control", "clients"}
    /\ sub' = [sub EXCEPT ![r].failed = TRUE, ![r].clients = {}, ![r].ready = {},
                          ![r].pc = "exited"]
    /\ Erase(sub[r].clients)
    /\ UNCHANGED <<main, stop, control, sweeper, deadlinePassed>>

\* An exception escapes: from Wait, Drain or the Modity of one connection.
\* Requests already taken from the queue are lost with it.
SubFails(r) ==
    /\ sub[r].pc \in {"wait", "drain", "control", "clients"}
    /\ \/ UNCHANGED control
       \/ /\ sub[r].pc = "control" /\ control[r].stop
          /\ control' = [control EXCEPT ![r].pending = {}]
    /\ sub' = [sub EXCEPT ![r].failed = TRUE, ![r].clients = {}, ![r].ready = {},
                          ![r].m_state = "Stopped", ![r].pc = "exited"]
    /\ Erase(sub[r].clients)
    /\ UNCHANGED <<main, stop, sweeper, deadlinePassed>>

SubStep(r) ==
    \/ SubWait(r) \/ SubDrain(r)
    \/ SubForceStop(r) \/ SubBeginGracefulShutdown(r) \/ SubAddClients(r)
    \/ SubClientEvent(r) \/ SubEndOfBatch(r)

-----------------------------------------------------------------------------
(***************************************************************************)
(* The sweeper thread, the world, the specification.                       *)
(***************************************************************************)
\* SweeperLoop, seen from outside, ends when its wait finds that it must.
\* (Module SweptStore has the loop itself, and that a sweep always ends.)
SweeperExit ==
    /\ sweeper.pc = "looping" /\ ~sweeper.running
    /\ sweeper' = [sweeper EXCEPT !.pc = "exited"]
    /\ UNCHANGED <<main, stop, sub, control, peers, deadlinePassed>>

Connect ==
    /\ main.listening
    /\ \E p \in peers.unborn :
          peers' = [peers EXCEPT !.unborn = @ \ {p}, !.backlog = @ \cup {p}]
    /\ UNCHANGED <<main, stop, sub, control, sweeper, deadlinePassed>>

\* HandleTerminationSignal writes its byte and nothing else.
Signal ==
    /\ stop' = [stop EXCEPT !.bytes = Notified(@)]
    /\ UNCHANGED <<main, sub, control, sweeper, peers, deadlinePassed>>

\* TcpServer::Stop, called by another thread, first sets the flag.  Its Notify
\* that follows is a step like Signal's, of which there may be any number.
StopCall ==
    /\ ~stop.requested
    /\ stop' = [stop EXCEPT !.requested = TRUE]
    /\ UNCHANGED <<main, sub, control, sweeper, peers, deadlinePassed>>

\* The deadline exists once the server drains, and then comes.
DeadlinePasses ==
    /\ main.m_state = "Draining" /\ ~deadlinePassed
    /\ deadlinePassed' = TRUE
    /\ UNCHANGED <<main, stop, sub, control, sweeper, peers>>

Next ==
    \/ MainStep \/ MainFails
    \/ \E r \in Reactors : SubStep(r) \/ SubFails(r)
    \/ SweeperExit
    \/ Connect \/ Signal \/ StopCall \/ DeadlinePasses

Spec == Init /\ [][Next]_vars

\* Every thread keeps running, time passes; nothing is assumed of the peers,
\* of who stops the server, or of failures.
Fairness ==
    /\ WF_vars(MainStep \/ MainFails)
    /\ \A r \in Reactors : WF_vars(SubStep(r))
    /\ WF_vars(SweeperExit)
    /\ WF_vars(DeadlinePasses)

FairSpec == Spec /\ Fairness

-----------------------------------------------------------------------------
(***************************************************************************)
(* Properties.                                                             *)
(***************************************************************************)
MainLabels == {"start", "wait", "events", "stopSubs", "notifyStop", "forceSubs",
    "notifyForce", "health", "accept", "enqueue", "notifyClient", "progress",
    "stopSweeper", "joinSweeper", "join", "cleanup", "done"}

SubLabels == {"created", "wait", "drain", "control", "clients", "exited"}

ServerState == {"Created", "Running", "Draining", "Stopped"}

\* Types of all variables; a descriptor is held exactly while Run is between
\* accept and EnqueClient.
TypeOK ==
    /\ main \in [pc : MainLabels, m_state : ServerState, listening : BOOLEAN,
                 evStop : BOOLEAN, evListen : BOOLEAN, accepted : 0..MaxAccepts,
                 held : Conn \cup {NoConn}, next : Reactors,
                 loop : 1..(SubReactorCount + 1), forceStopSent : BOOLEAN,
                 threw : BOOLEAN]
    /\ main.held # NoConn <=> main.pc = "enqueue"
    /\ stop \in [requested : BOOLEAN, bytes : 0..ChannelCapacity]
    /\ sub \in [Reactors -> [pc : SubLabels, m_state : ServerState,
                             clients : SUBSET Conn, ready : SUBSET Conn,
                             failed : BOOLEAN]]
    /\ control \in [Reactors -> [pending : SUBSET Conn, stop : BOOLEAN,
                                 force : BOOLEAN, bytes : 0..ChannelCapacity]]
    /\ sweeper \in [pc : {"none", "looping", "exited"}, running : BOOLEAN]
    /\ peers \in [unborn : SUBSET Clients, backlog : SUBSET Clients,
                  queued : SUBSET Clients, closed : SUBSET Clients]
    /\ deadlinePassed \in BOOLEAN

\* A request of the main reactor that reactor r has not acted on yet.
Unseen(r) ==
    \/ control[r].pending # {}
    \/ control[r].stop /\ sub[r].m_state \in {"Created", "Running"}
    \/ control[r].force /\ sub[r].m_state # "Stopped"

\* No request is lost between the lock and the channel: as long as one is
\* unseen, a byte is in the channel, or the main reactor is about to write
\* it, or the sub reactor has been woken and has yet to take the lock.  (The
\* timeout of Wait would not help: ProcessControlRequests runs only when the
\* channel was readable.)
NoLostWakeup ==
    \A r \in Reactors :
        Unseen(r) /\ sub[r].pc # "exited" =>
            \/ control[r].bytes > 0
            \/ sub[r].pc \in {"drain", "control"}
            \/ /\ main.pc \in {"notifyStop", "notifyForce", "notifyClient"}
               /\ main.loop = r

Owned(r) == control[r].pending \cup sub[r].clients

\* A descriptor has one owner at every moment: the main reactor's local
\* variable, one queue or one table; and no number is open twice.
FdsOwnedOnce ==
    /\ \A c, d \in Open : c # d => c.fd # d.fd /\ c.client # d.client
    /\ \A r \in Reactors :
          /\ main.held \notin Owned(r)
          /\ control[r].pending \cap sub[r].clients = {}
          /\ \A q \in Reactors \ {r} : Owned(r) \cap Owned(q) = {}

\* A reactor that drains or has stopped takes no more clients, not even those
\* that were queued before the stop request.
NoClientAfterStop ==
    [][\A r \in Reactors :
          sub'[r].m_state \in {"Draining", "Stopped"} =>
              sub'[r].clients \subseteq sub[r].clients]_vars

\* The reactors that did not fail have closed every client themselves when
\* the main reactor joins them: nothing is left in a queue nobody reads.
NothingLeftBehind ==
    main.pc = "cleanup" =>
        \A r \in Reactors : ~sub[r].failed => Owned(r) = {}

\* From accept to close a descriptor is in one place: the main reactor's local
\* variable, a reactor's queue or its table; and the last two are empty when the
\* threads of the reactors that did not fail are joined.
DescriptorsSafe == TypeOK /\ FdsOwnedOnce /\ NothingLeftBehind

\* A connection on which a response waits, and which is not broken, is only
\* given up when the deadline has passed or something has failed.
ResponsesOutliveStop ==
    [][\A r \in Reactors : \A c \in sub[r].clients \ sub'[r].clients :
          c.client \in peers.queued =>
              deadlinePassed \/ main.threw \/ sub'[r].failed]_vars

\* A stop request, by signal or by Stop, is always carried through: Run
\* returns, with all threads joined, whatever the peers do.
StopLeadsToExit ==
    (stop.requested \/ stop.bytes > 0) ~> (main.pc = "done")

\* When a sub reactor dies, the server does not linger without it.
FailureLeadsToExit ==
    (\E r \in Reactors : sub[r].failed) ~> (main.pc = "done")

\* A client put in a reactor's queue does not stay there.
PendingLeadsToTaken ==
    \A r \in Reactors, c \in Conn :
        (c \in control[r].pending) ~> (c \notin control[r].pending)

\* What the comment at sub_reactor.cpp:257 asks for: the failure of a single
\* connection must not make the whole server exit.
ClientFailureKeepsServer ==
    [][main.pc = "accept" => ~main'.threw]_vars

=============================================================================
