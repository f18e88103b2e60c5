---------------------------- MODULE ServerProofs ----------------------------
(***************************************************************************)
(* The control plane, proved for every number of sub reactors, clients and *)
(* descriptors, every batch size and every capacity of the channels.       *)
(***************************************************************************)
EXTENDS Server, TLAPS

\* The places of Run from which an exception, or the end of a graceful
\* shutdown, leads to the joins.
Unwinding == {"stopSweeper", "joinSweeper", "forceSubs", "notifyForce", "join",
              "cleanup", "done"}

\* The main reactor: its loops stay within the reactors, an exception leaves only
\* the unwinding to do, and reactors are forced only then or after the deadline.
MainKnown ==
    /\ main.pc \in {"notifyStop", "notifyForce", "notifyClient"} => main.loop \in Reactors
    /\ main.threw => main.pc \in Unwinding
    /\ main.pc \in {"forceSubs", "notifyForce"} => main.threw \/ deadlinePassed

\* Reactors are started in turn, and all of them before the first Wait.
StartKnown ==
    /\ main.pc = "start" => \A r \in Reactors : sub[r].pc = "created" <=> r >= main.loop
    /\ main.pc # "start" /\ ~main.threw => \A r \in Reactors : sub[r].pc # "created"
    /\ main.pc = "cleanup" => \A r \in Reactors : sub[r].pc \in {"created", "exited"}

\* A reactor's published state and its place agree; one that drains or has
\* stopped by itself has an empty queue, which the flags in control keep empty.
SubKnown(r) ==
    /\ sub[r].pc = "created" <=> sub[r].m_state = "Created"
    /\ sub[r].pc = "exited" <=> sub[r].m_state = "Stopped"
    /\ sub[r].pc = "created" => Owned(r) = {} /\ ~sub[r].failed
    /\ sub[r].pc = "exited" => sub[r].clients = {}
    /\ sub[r].failed => sub[r].pc = "exited"
    /\ sub[r].m_state = "Draining" => control[r].stop /\ control[r].pending = {}
    /\ sub[r].pc = "exited" /\ ~sub[r].failed =>
          control[r].pending = {} /\ (control[r].stop \/ control[r].force)
    /\ control[r].force => main.threw \/ deadlinePassed

SubsKnown == \A r \in Reactors : SubKnown(r)

\* A peer is not yet connected, in the backlog, or has been accepted once.
PeersKnown ==
    /\ peers.unborn \cap peers.backlog = {}
    /\ \A c \in Open : c.client \notin peers.unborn \cup peers.backlog
    /\ peers.queued \cap peers.closed = {}

IInv ==
    /\ TypeOK
    /\ MainKnown
    /\ StartKnown
    /\ SubsKnown
    /\ PeersKnown
    /\ FdsOwnedOnce
    /\ NoLostWakeup

-----------------------------------------------------------------------------
(* The records of the state *)

MainRecord ==
    [pc : MainLabels, m_state : ServerState, listening : BOOLEAN,
     evStop : BOOLEAN, evListen : BOOLEAN, accepted : 0..MaxAccepts,
     held : Conn \cup {NoConn}, next : Reactors,
     loop : 1..(SubReactorCount + 1), forceStopSent : BOOLEAN,
     threw : BOOLEAN]

SubRecord ==
    [pc : SubLabels, m_state : ServerState, clients : SUBSET Conn,
     ready : SUBSET Conn, failed : BOOLEAN]

ControlRecord ==
    [pending : SUBSET Conn, stop : BOOLEAN, force : BOOLEAN, bytes : 0..ChannelCapacity]

PeersRecord ==
    [unborn : SUBSET Clients, backlog : SUBSET Clients,
     queued : SUBSET Clients, closed : SUBSET Clients]

\* The indices of the sub reactors, and the round robin over them.
LEMMA ReactorsFacts ==
    /\ Reactors \subseteq 1..(SubReactorCount + 1)
    /\ 1 \in Reactors
    /\ \A r \in Reactors : r + 1 \in 1..(SubReactorCount + 1)
    /\ \A r \in Reactors : (r % SubReactorCount) + 1 \in Reactors
BY ServerAssumption DEF Reactors

\* A channel that was notified holds a byte, and no more than it can.
LEMMA NotifiedFacts ==
    ASSUME NEW bytes \in 0..ChannelCapacity
    PROVE  Notified(bytes) \in 1..ChannelCapacity
BY ServerAssumption DEF Notified

\* The main reactor's steps keep its record's type.
LEMMA MainTyped ==
    ASSUME main \in MainRecord, peers \in PeersRecord, MainKnown, MainStep \/ MainFails
    PROVE  main' \in MainRecord
<1> USE ServerAssumption, ReactorsFacts DEF MainRecord, MainLabels, ServerState
<1>0. 0 \in 0..MaxAccepts /\ TRUE \in BOOLEAN /\ FALSE \in BOOLEAN
  OBVIOUS
<1>1. CASE StartReactor
  BY <1>1 DEF StartReactor
<1>2. CASE StartSweeper
  BY <1>2 DEF StartSweeper
<1>3. CASE MainWait
  <2>1. (stop.bytes > 0) \in BOOLEAN /\ (main.listening /\ peers.backlog # {}) \in BOOLEAN
    OBVIOUS
  <2> QED
    BY <1>3, <2>1 DEF MainWait
<1>4. CASE MainEvents
  <2>1. CASE BeginGracefulShutdown
    BY <1>0, <2>1 DEF BeginGracefulShutdown
  <2>2. CASE main' = [main EXCEPT !.pc = "health", !.evStop = FALSE]
    BY <1>0, <2>2
  <2> QED
    BY <1>4, <2>1, <2>2 DEF MainEvents
<1>5. CASE MainHealth
  <2>1. CASE BeginGracefulShutdown
    BY <1>0, <2>1 DEF BeginGracefulShutdown
  <2>2. CASE main' = [main EXCEPT !.evListen = FALSE, !.pc =
                          IF main.evListen /\ main.m_state = "Running"
                          THEN "accept" ELSE "progress"]
    BY <1>0, <2>2
  <2> QED
    BY <1>5, <2>1, <2>2 DEF MainHealth
<1>6. CASE MainRequestStop
  BY <1>6 DEF MainRequestStop
<1>7. CASE MainRequestForceStop
  BY <1>7 DEF MainRequestForceStop
<1>8. CASE MainSkipStopped
  BY <1>8 DEF MainSkipStopped
<1>9. CASE MainNotify("notifyStop", "stopSubs", main.loop + 1)
  BY <1>9 DEF MainNotify, MainKnown
<1>10. CASE MainNotify("notifyForce", "forceSubs", main.loop + 1)
  BY <1>10 DEF MainNotify, MainKnown
<1>11. CASE MainNotify("notifyClient", "accept", 1)
  BY <1>11 DEF MainNotify
<1>12. CASE MainAllRequested
  BY <1>12 DEF MainAllRequested
<1>13. CASE MainAccept
  <2>1. PICK p \in peers.backlog, n \in FreeFds :
           main' = [main EXCEPT !.pc = "enqueue", !.accepted = @ + 1,
                                !.held = [client |-> p, fd |-> n]]
    BY <1>13 DEF MainAccept
  <2>2. [client |-> p, fd |-> n] \in Conn
    BY DEF PeersRecord, FreeFds, Conn
  <2>3. main.accepted + 1 \in 0..MaxAccepts
    BY <1>13 DEF MainAccept
  <2> QED
    BY <2>1, <2>2, <2>3
<1>14. CASE MainAcceptDone
  BY <1>0, <1>14 DEF MainAcceptDone
<1>15. CASE MainInitClientFails
  BY <1>15 DEF MainInitClientFails
<1>16. CASE MainEnqueClient
  BY <1>16 DEF MainEnqueClient
<1>17. CASE MainProgress
  BY <1>17 DEF MainProgress
<1>18. CASE MainStopSweeper
  BY <1>18 DEF MainStopSweeper
<1>19. CASE MainJoinSweeper
  BY <1>19 DEF MainJoinSweeper
<1>20. CASE MainJoin
  BY <1>20 DEF MainJoin
<1>21. CASE MainCleanup
  BY <1>21 DEF MainCleanup
<1>22. CASE MainFails
  <2>1. Throw
    BY <1>22 DEF MainFails, StartFails, MainWaitFails, MainAcceptFails
  <2> QED
    BY <1>0, <2>1 DEF Throw
<1> QED
  BY <1>1, <1>2, <1>3, <1>4, <1>5, <1>6, <1>7, <1>8, <1>9, <1>10, <1>11, <1>12, <1>13,
     <1>14, <1>15, <1>16, <1>17, <1>18, <1>19, <1>20, <1>21, <1>22 DEF MainStep

\* The records other than the main reactor's.
SharedTyped ==
    /\ stop \in [requested : BOOLEAN, bytes : 0..ChannelCapacity]
    /\ sub \in [Reactors -> SubRecord]
    /\ control \in [Reactors -> ControlRecord]
    /\ sweeper \in [pc : {"none", "looping", "exited"}, running : BOOLEAN]
    /\ peers \in PeersRecord
    /\ deadlinePassed \in BOOLEAN

\* TypeOK, cut into what the main reactor has for itself and what is shared.
LEMMA TypeParts ==
    TypeOK <=> main \in MainRecord /\ (main.held # NoConn <=> main.pc = "enqueue") /\ SharedTyped
BY DEF TypeOK, SharedTyped, MainRecord, SubRecord, ControlRecord, PeersRecord

\* The same after a step.
LEMMA TypePartsNext ==
    TypeOK' <=> /\ main' \in MainRecord /\ (main'.held # NoConn <=> main'.pc = "enqueue")
                /\ SharedTyped'
BY DEF TypeOK, SharedTyped, MainRecord, SubRecord, ControlRecord, PeersRecord

\* The main reactor's steps keep the types of what it shares.
LEMMA MainSharedTyped ==
    ASSUME main \in MainRecord, main.held # NoConn <=> main.pc = "enqueue",
           SharedTyped, MainKnown, MainStep \/ MainFails
    PROVE  SharedTyped'
<1> USE DEF SharedTyped
<1>1. CASE StartReactor
  <2>1. sub' \in [Reactors -> SubRecord]
    <3>1. /\ main.loop \in Reactors
          /\ sub' = [sub EXCEPT ![main.loop].pc = "wait", ![main.loop].m_state = "Running"]
      BY <1>1 DEF StartReactor
    <3>2. "wait" \in SubLabels /\ "Running" \in ServerState
      BY DEF SubLabels, ServerState
    <3> DEFINE started == [sub[main.loop] EXCEPT !.pc = "wait", !.m_state = "Running"]
    <3>3. started \in SubRecord
      BY <3>1, <3>2 DEF SubRecord
    <3>4. sub' = [sub EXCEPT ![main.loop] = started]
      BY <3>1
    <3> HIDE DEF started
    <3> QED
      BY <3>1, <3>3, <3>4
  <2> QED
    BY <1>1, <2>1 DEF StartReactor
<1>2. CASE StartSweeper
  BY <1>2 DEF StartSweeper
<1>3. CASE MainEvents \/ MainHealth
  <2>1. peers' \in PeersRecord
    BY <1>3 DEF MainEvents, MainHealth, BeginGracefulShutdown, PeersRecord
  <2>2. stop' \in [requested : BOOLEAN, bytes : 0..ChannelCapacity]
    <3>1. 0 \in 0..ChannelCapacity
      BY ServerAssumption
    <3> QED
      BY <1>3, <3>1 DEF MainEvents, MainHealth
  <2> QED
    BY <1>3, <2>1, <2>2 DEF MainEvents, MainHealth
<1>4. CASE MainRequestStop \/ MainRequestForceStop
  <2>1. control' \in [Reactors -> ControlRecord]
    <3>0. TRUE \in BOOLEAN
      OBVIOUS
    <3>1. CASE MainRequestStop
      BY <3>0, <3>1 DEF MainRequestStop, ControlRecord
    <3>2. CASE MainRequestForceStop
      BY <3>0, <3>2 DEF MainRequestForceStop, ControlRecord
    <3> QED
      BY <1>4, <3>1, <3>2
  <2> QED
    BY <1>4, <2>1 DEF MainRequestStop, MainRequestForceStop
<1>5. ASSUME NEW from \in {"notifyStop", "notifyForce", "notifyClient"}, NEW to, NEW next,
             MainNotify(from, to, next)
      PROVE  SharedTyped'
  <2>1. main.loop \in Reactors
    BY <1>5 DEF MainNotify, MainKnown
  <2>2. Notified(control[main.loop].bytes) \in 0..ChannelCapacity
    BY <2>1, NotifiedFacts, ServerAssumption DEF ControlRecord
  <2>3. control' \in [Reactors -> ControlRecord]
    BY <1>5, <2>2 DEF MainNotify, ControlRecord
  <2> QED
    BY <1>5, <2>3 DEF MainNotify
<1>6. CASE MainAccept
  <2>1. peers' \in PeersRecord
    BY <1>6 DEF MainAccept, PeersRecord
  <2> QED
    BY <1>6, <2>1 DEF MainAccept
<1>7. CASE MainEnqueClient
  <2> DEFINE r == main.next
  <2>1. main.held \in Conn
    BY <1>7 DEF MainRecord, MainEnqueClient
  <2>2. control' \in [Reactors -> ControlRecord]
    BY <1>7, <2>1 DEF MainEnqueClient, ControlRecord, MainRecord
  <2> QED
    BY <1>7, <2>2 DEF MainEnqueClient
<1>8. CASE MainStopSweeper
  BY <1>8 DEF MainStopSweeper
<1>9. CASE MainCleanup
  <2>1. peers' \in PeersRecord
    BY <1>9 DEF MainCleanup, PeersRecord
  <2>2. control' \in [Reactors -> ControlRecord]
    BY <1>9 DEF MainCleanup, ControlRecord
  <2> QED
    BY <1>9, <2>1, <2>2 DEF MainCleanup
<1>10. CASE \/ MainWait \/ MainSkipStopped \/ MainAllRequested \/ MainAcceptDone
            \/ MainInitClientFails \/ MainProgress \/ MainJoinSweeper \/ MainJoin \/ MainFails
  BY <1>10 DEF MainWait, MainSkipStopped, MainAllRequested, MainAcceptDone,
     MainInitClientFails, MainProgress, MainJoinSweeper, MainJoin, MainFails,
     StartFails, MainWaitFails, MainAcceptFails, Throw
<1> QED
  BY <1>1, <1>2, <1>3, <1>4, <1>5, <1>6, <1>7, <1>8, <1>9, <1>10 DEF MainStep

\* Erasing connections only takes peers out.
LEMMA EraseTyped ==
    ASSUME peers \in PeersRecord, NEW conns, Erase(conns)
    PROVE  /\ peers' \in PeersRecord
           /\ peers'.unborn = peers.unborn /\ peers'.backlog = peers.backlog
           /\ peers'.queued = peers.queued \ {c.client : c \in conns}
           /\ peers'.closed = peers.closed \ {c.client : c \in conns}
BY DEF Erase, PeersRecord

\* New connections, events, state and place for one reactor have their types.
LEMMA SubUpdateTyped ==
    ASSUME sub \in [Reactors -> SubRecord], NEW r \in Reactors,
           NEW conns \in SUBSET Conn, NEW events \in SUBSET Conn,
           NEW state \in ServerState, NEW pc \in SubLabels
    PROVE  [sub EXCEPT ![r].clients = conns, ![r].ready = events,
                       ![r].m_state = state, ![r].pc = pc] \in [Reactors -> SubRecord]
<1>1. sub[r] \in SubRecord
  OBVIOUS
<1>2. [sub[r] EXCEPT !.clients = conns, !.ready = events,
                     !.m_state = state, !.pc = pc] \in SubRecord
  BY <1>1 DEF SubRecord
<1> QED
  BY <1>2

\* The sub reactors' steps keep the types.
LEMMA SubSharedTyped ==
    ASSUME SharedTyped, NEW r \in Reactors, SubStep(r) \/ SubFails(r)
    PROVE  SharedTyped'
<1> USE DEF SharedTyped
<1>0. 0 \in 0..ChannelCapacity /\ {} \in SUBSET Conn /\ TRUE \in BOOLEAN
  BY ServerAssumption
<1>1. CASE SubWait(r)
  <2>1. sub' \in [Reactors -> SubRecord]
    BY <1>1 DEF SubWait, SubRecord, SubLabels
  <2> QED
    BY <1>1, <2>1 DEF SubWait
<1>2. CASE SubDrain(r)
  <2>1. sub' \in [Reactors -> SubRecord]
    BY <1>2 DEF SubDrain, SubRecord, SubLabels
  <2>2. control' \in [Reactors -> ControlRecord]
    BY <1>0, <1>2 DEF SubDrain, ControlRecord
  <2> QED
    BY <1>2, <2>1, <2>2 DEF SubDrain
<1>3. CASE SubForceStop(r)
  <2>1. sub' \in [Reactors -> SubRecord]
    BY <1>0, <1>3 DEF SubForceStop, SubRecord, SubLabels, ServerState
  <2>2. control' \in [Reactors -> ControlRecord]
    BY <1>0, <1>3 DEF SubForceStop, ControlRecord
  <2> QED
    BY <1>3, <2>1, <2>2, EraseTyped DEF SubForceStop
<1>4. CASE SubBeginGracefulShutdown(r)
  <2> DEFINE kept == KeptWhileDraining(sub[r].clients)
  <2>0. kept \in SUBSET Conn
    BY DEF KeptWhileDraining, SubRecord
  <2>1. sub' \in [Reactors -> SubRecord]
    <3> HIDE DEF kept
    <3>1. CASE sub' = [sub EXCEPT ![r].pc = "clients"]
      BY <3>1 DEF SubRecord, SubLabels
    <3>2. CASE sub' = [sub EXCEPT ![r].clients = kept,
                          ![r].ready = IF kept = {} THEN {} ELSE @,
                          ![r].m_state = IF kept = {} THEN "Stopped" ELSE "Draining",
                          ![r].pc = IF kept = {} THEN "exited" ELSE "clients"]
      <4>1. CASE kept = {}
        <5>1. sub' = [sub EXCEPT ![r].clients = {}, ![r].ready = {},
                                 ![r].m_state = "Stopped", ![r].pc = "exited"]
          BY <3>2, <4>1
        <5>2. "Stopped" \in ServerState /\ "exited" \in SubLabels
          BY DEF ServerState, SubLabels
        <5> QED
          BY <1>0, <5>1, <5>2, SubUpdateTyped
      <4>2. CASE kept # {}
        <5> DEFINE events == sub[r].ready
        <5>1. sub' = [sub EXCEPT ![r].clients = kept, ![r].ready = events,
                                 ![r].m_state = "Draining", ![r].pc = "clients"]
          BY <3>2, <4>2
        <5>2. "Draining" \in ServerState /\ "clients" \in SubLabels
          BY DEF ServerState, SubLabels
        <5>3. events \in SUBSET Conn
          BY DEF SubRecord
        <5> HIDE DEF events
        <5> QED
          BY <2>0, <5>1, <5>2, <5>3, SubUpdateTyped
      <4> QED
        BY <4>1, <4>2
    <3> QED
      BY <1>4, <3>1, <3>2 DEF SubBeginGracefulShutdown, kept
  <2>2. control' \in [Reactors -> ControlRecord]
    <3>1. control' = [control EXCEPT ![r].pending = {}]
      BY <1>4 DEF SubBeginGracefulShutdown
    <3> QED
      BY <1>0, <3>1 DEF ControlRecord
  <2>3. peers' \in PeersRecord
    BY <1>4, EraseTyped DEF SubBeginGracefulShutdown
  <2> QED
    BY <1>4, <2>1, <2>2, <2>3 DEF SubBeginGracefulShutdown
<1>5. CASE SubAddClients(r)
  <2>1. sub' \in [Reactors -> SubRecord]
    BY <1>5 DEF SubAddClients, SubRecord, SubLabels, ControlRecord
  <2>2. control' \in [Reactors -> ControlRecord]
    BY <1>0, <1>5 DEF SubAddClients, ControlRecord
  <2> QED
    BY <1>5, <2>1, <2>2 DEF SubAddClients
<1>6. CASE SubClientEvent(r)
  <2>1. sub' \in [Reactors -> SubRecord]
    BY <1>6 DEF SubClientEvent, SubRecord
  <2>2. peers' \in PeersRecord
    <3>1. ASSUME NEW c \in sub[r].clients,
                 QueueResponse(r, c.client) \/ SendAll(r, c.client) \/ MarkClosed(c.client)
          PROVE  peers' \in PeersRecord
      <4>1. c.client \in Clients
        BY DEF SubRecord, Conn
      <4>2. CASE QueueResponse(r, c.client)
        BY <4>1, <4>2 DEF QueueResponse, PeersRecord
      <4>3. CASE SendAll(r, c.client)
        BY <4>1, <4>3 DEF SendAll, PeersRecord
      <4>4. CASE MarkClosed(c.client)
        BY <4>1, <4>4 DEF MarkClosed, PeersRecord
      <4> QED
        BY <3>1, <4>2, <4>3, <4>4
    <3> QED
      BY <1>6, <3>1 DEF SubClientEvent
  <2> QED
    BY <1>6, <2>1, <2>2 DEF SubClientEvent
<1>7. CASE SubEndOfBatch(r)
  <2>0. Remaining(r) \in SUBSET Conn
    BY DEF Remaining, SubRecord
  <2>1. sub' \in [Reactors -> SubRecord]
    <3> DEFINE ends == sub[r].m_state = "Draining" /\ (Remaining(r) = {} \/ deadlinePassed)
    <3>1. sub' = [sub EXCEPT ![r].clients = IF ends THEN {} ELSE Remaining(r),
                             ![r].m_state = IF ends THEN "Stopped" ELSE @,
                             ![r].pc = IF ends THEN "exited" ELSE "wait"]
      BY <1>7 DEF SubEndOfBatch
    <3> HIDE DEF ends
    <3>2. CASE ends
      <4>1. sub' = [sub EXCEPT ![r].clients = {}, ![r].m_state = "Stopped", ![r].pc = "exited"]
        BY <3>1, <3>2
      <4> QED
        <5>1. sub'[r] \in SubRecord
          BY <1>0, <4>1 DEF SubRecord, SubLabels, ServerState
        <5> QED
          BY <4>1, <5>1
    <3>3. CASE ~ends
      <4>1. sub' = [sub EXCEPT ![r].clients = Remaining(r), ![r].m_state = @, ![r].pc = "wait"]
        BY <3>1, <3>3
      <4> QED
        <5>1. sub'[r] \in SubRecord
          BY <2>0, <4>1 DEF SubRecord, SubLabels, ServerState
        <5> QED
          BY <4>1, <5>1
    <3> QED
      BY <3>2, <3>3
  <2> QED
    BY <1>7, <2>1, EraseTyped DEF SubEndOfBatch
<1>8. CASE SubFails(r)
  <2>1. sub' \in [Reactors -> SubRecord]
    BY <1>0, <1>8 DEF SubFails, SubRecord, SubLabels, ServerState
  <2>2. control' \in [Reactors -> ControlRecord]
    BY <1>0, <1>8 DEF SubFails, ControlRecord
  <2> QED
    BY <1>8, <2>1, <2>2, EraseTyped DEF SubFails
<1> QED
  BY <1>1, <1>2, <1>3, <1>4, <1>5, <1>6, <1>7, <1>8 DEF SubStep

-----------------------------------------------------------------------------
(* What a step of a sub reactor leaves alone *)

\* A sub reactor touches its own state, takes its pending clients and closes peers.
LEMMA SubFrame ==
    ASSUME SharedTyped, NEW r \in Reactors, SubStep(r) \/ SubFails(r)
    PROVE  /\ UNCHANGED <<main, stop, sweeper, deadlinePassed>>
           /\ \A q \in Reactors \ {r} : sub'[q] = sub[q] /\ control'[q] = control[q]
           /\ control'[r].stop = control[r].stop /\ control'[r].force = control[r].force
           /\ control'[r].pending \in {control[r].pending, {}}
           /\ peers'.unborn = peers.unborn /\ peers'.backlog = peers.backlog
<1> USE DEF SharedTyped
<1>1. CASE SubWait(r) \/ SubDrain(r)
  <2>1. CASE SubWait(r)
    BY <2>1 DEF SubWait
  <2>2. CASE SubDrain(r)
    BY <2>2 DEF SubDrain, ControlRecord
  <2> QED
    BY <1>1, <2>1, <2>2
<1>2. CASE SubForceStop(r)
  BY <1>2, EraseTyped DEF SubForceStop, ControlRecord
<1>3. CASE SubBeginGracefulShutdown(r)
  <2>1. peers'.unborn = peers.unborn /\ peers'.backlog = peers.backlog
    BY <1>3, EraseTyped DEF SubBeginGracefulShutdown
  <2>2. /\ UNCHANGED <<main, stop, sweeper, deadlinePassed>>
        /\ \A q \in Reactors \ {r} : sub'[q] = sub[q]
    BY <1>3 DEF SubBeginGracefulShutdown
  <2>3. control' = [control EXCEPT ![r].pending = {}]
    BY <1>3 DEF SubBeginGracefulShutdown
  <2> QED
    BY <2>1, <2>2, <2>3 DEF ControlRecord
<1>4. CASE SubAddClients(r)
  BY <1>4 DEF SubAddClients, ControlRecord
<1>5. CASE SubClientEvent(r)
  <2>1. peers'.unborn = peers.unborn /\ peers'.backlog = peers.backlog
    BY <1>5 DEF SubClientEvent, QueueResponse, SendAll, MarkClosed, PeersRecord
  <2> QED
    BY <1>5, <2>1 DEF SubClientEvent
<1>6. CASE SubEndOfBatch(r)
  <2>1. peers'.unborn = peers.unborn /\ peers'.backlog = peers.backlog
    BY <1>6, EraseTyped DEF SubEndOfBatch
  <2> QED
    BY <1>6, <2>1 DEF SubEndOfBatch
<1>7. CASE SubFails(r)
  BY <1>7, EraseTyped DEF SubFails, ControlRecord
<1> QED
  BY <1>1, <1>2, <1>3, <1>4, <1>5, <1>6, <1>7 DEF SubStep

\* The places, the state and the connections of the reactor that takes the step.
LEMMA SubOwnStep ==
    ASSUME SharedTyped, SubsKnown, NEW r \in Reactors, SubStep(r) \/ SubFails(r)
    PROVE  /\ sub[r].pc \in {"wait", "drain", "control", "clients"}
           /\ sub[r].m_state \in {"Running", "Draining"}
           /\ ~sub[r].failed
           /\ sub'[r].pc # "created" /\ sub'[r].m_state # "Created"
           /\ sub'[r].pc = "exited" <=> sub'[r].m_state = "Stopped"
           /\ sub'[r].pc = "exited" => sub'[r].clients = {}
           /\ sub'[r].failed => sub'[r].pc = "exited"
           /\ sub'[r].m_state = "Draining" => control[r].stop /\ control'[r].pending = {}
           /\ sub'[r].pc = "exited" /\ ~sub'[r].failed =>
                 control'[r].pending = {} /\ (control[r].stop \/ control[r].force)
           /\ \/ sub'[r].clients \subseteq sub[r].clients
              \/ /\ ~control[r].stop /\ ~control[r].force
                 /\ control'[r].pending = {}
                 /\ sub'[r].clients \subseteq sub[r].clients \cup control[r].pending
                 /\ sub'[r].m_state = "Running"
<1> USE DEF SharedTyped
<1>1. sub[r].pc \in {"wait", "drain", "control", "clients"}
  BY DEF SubStep, SubFails, SubWait, SubDrain, SubForceStop, SubBeginGracefulShutdown,
     SubAddClients, SubClientEvent, SubEndOfBatch
<1>2. /\ sub[r].m_state \in {"Running", "Draining"} /\ ~sub[r].failed
      /\ sub[r].m_state = "Draining" => control[r].stop /\ control[r].pending = {}
  BY <1>1 DEF SubsKnown, SubKnown, SubRecord, ServerState
<1>3. CASE SubWait(r) \/ SubDrain(r)
  <2>1. /\ sub'[r].clients = sub[r].clients /\ sub'[r].m_state = sub[r].m_state
        /\ sub'[r].failed = sub[r].failed /\ sub'[r].pc \in {"drain", "clients", "control"}
    <3>1. CASE SubWait(r)
      BY <3>1 DEF SubWait, SubRecord
    <3>2. CASE SubDrain(r)
      BY <3>2 DEF SubDrain, SubRecord
    <3> QED
      BY <1>3, <3>1, <3>2
  <2>2. control'[r].pending = control[r].pending
    BY <1>3 DEF SubWait, SubDrain, ControlRecord
  <2> QED
    BY <1>1, <1>2, <2>1, <2>2
<1>4. CASE SubForceStop(r)
  <2>1. /\ sub'[r].clients = {} /\ sub'[r].m_state = "Stopped"
        /\ sub'[r].failed = sub[r].failed /\ sub'[r].pc = "exited"
    BY <1>4 DEF SubForceStop, SubRecord
  <2>2. control'[r].pending = {} /\ control[r].force
    BY <1>4 DEF SubForceStop, ControlRecord
  <2> QED
    BY <1>1, <1>2, <2>1, <2>2
<1>5. CASE SubBeginGracefulShutdown(r)
  <2> DEFINE kept == KeptWhileDraining(sub[r].clients)
  <2>1. control'[r].pending = {} /\ control[r].stop
    BY <1>5 DEF SubBeginGracefulShutdown, ControlRecord
  <2>2. kept \subseteq sub[r].clients
    BY DEF KeptWhileDraining
  <2>3. CASE sub[r].m_state # "Running"
    <3>1. /\ sub'[r].clients = sub[r].clients /\ sub'[r].m_state = sub[r].m_state
          /\ sub'[r].failed = sub[r].failed /\ sub'[r].pc = "clients"
      BY <1>5, <2>3 DEF SubBeginGracefulShutdown, SubRecord
    <3> QED
      BY <1>1, <1>2, <2>1, <3>1
  <2>4. CASE sub[r].m_state = "Running"
    <3>1. sub' = [sub EXCEPT ![r].clients = kept,
                      ![r].ready = IF kept = {} THEN {} ELSE @,
                      ![r].m_state = IF kept = {} THEN "Stopped" ELSE "Draining",
                      ![r].pc = IF kept = {} THEN "exited" ELSE "clients"]
      BY <1>5, <2>4 DEF SubBeginGracefulShutdown
    <3> HIDE DEF kept
    <3>2. /\ sub'[r].clients = kept /\ sub'[r].failed = sub[r].failed
          /\ sub'[r].m_state = IF kept = {} THEN "Stopped" ELSE "Draining"
          /\ sub'[r].pc = IF kept = {} THEN "exited" ELSE "clients"
      BY <3>1 DEF SubRecord
    <3> QED
      BY <1>1, <1>2, <2>1, <2>2, <3>2
  <2> QED
    BY <2>3, <2>4
<1>6. CASE SubAddClients(r)
  <2>1. /\ sub'[r].clients \subseteq sub[r].clients \cup control[r].pending
        /\ sub'[r].m_state = sub[r].m_state
        /\ sub'[r].failed = sub[r].failed /\ sub'[r].pc = "clients"
    BY <1>6 DEF SubAddClients, SubRecord
  <2>2. control'[r].pending = {} /\ ~control[r].stop /\ ~control[r].force
    BY <1>6 DEF SubAddClients, ControlRecord
  <2> QED
    BY <1>1, <1>2, <2>1, <2>2
<1>7. CASE SubClientEvent(r)
  <2>1. /\ sub'[r].clients = sub[r].clients /\ sub'[r].m_state = sub[r].m_state
        /\ sub'[r].failed = sub[r].failed /\ sub'[r].pc = sub[r].pc
    BY <1>7 DEF SubClientEvent, SubRecord
  <2>2. control' = control
    BY <1>7 DEF SubClientEvent
  <2> QED
    BY <1>1, <1>2, <2>1, <2>2
<1>8. CASE SubEndOfBatch(r)
  <2> DEFINE ends == sub[r].m_state = "Draining" /\ (Remaining(r) = {} \/ deadlinePassed)
  <2>1. sub' = [sub EXCEPT ![r].clients = IF ends THEN {} ELSE Remaining(r),
                           ![r].m_state = IF ends THEN "Stopped" ELSE @,
                           ![r].pc = IF ends THEN "exited" ELSE "wait"]
    BY <1>8 DEF SubEndOfBatch
  <2>2. ends => sub[r].m_state = "Draining"
    OBVIOUS
  <2> HIDE DEF ends
  <2>3. /\ sub'[r].clients = IF ends THEN {} ELSE Remaining(r)
        /\ sub'[r].m_state = IF ends THEN "Stopped" ELSE sub[r].m_state
        /\ sub'[r].failed = sub[r].failed
        /\ sub'[r].pc = IF ends THEN "exited" ELSE "wait"
    BY <2>1 DEF SubRecord
  <2>4. control' = control /\ Remaining(r) \subseteq sub[r].clients
    BY <1>8 DEF SubEndOfBatch, Remaining
  <2> QED
    BY <1>1, <1>2, <2>2, <2>3, <2>4
<1>9. CASE SubFails(r)
  <2>1. /\ sub'[r].clients = {} /\ sub'[r].m_state = "Stopped"
        /\ sub'[r].failed = TRUE /\ sub'[r].pc = "exited"
    BY <1>9 DEF SubFails, SubRecord
  <2> QED
    BY <1>1, <1>2, <2>1
<1> QED
  BY <1>3, <1>4, <1>5, <1>6, <1>7, <1>8, <1>9 DEF SubStep

-----------------------------------------------------------------------------
(* Ownership *)

\* What a reactor owns are connections, and Open is all that is owned.
LEMMA OwnedTyped ==
    ASSUME TypeOK
    PROVE  /\ \A r \in Reactors : Owned(r) \subseteq Conn
           /\ NoConn \notin Conn
           /\ Open = ({main.held} \ {NoConn}) \cup UNION {Owned(r) : r \in Reactors}
<1>1. \A r \in Reactors : control[r].pending \subseteq Conn /\ sub[r].clients \subseteq Conn
  BY TypeParts DEF SharedTyped, ControlRecord, SubRecord
<1> QED
  BY <1>1, ServerAssumption DEF Owned, Open, Conn

\* Descriptors that are closed, or move from a reactor's queue to its table,
\* still have one owner.
LEMMA OwnershipKept ==
    ASSUME TypeOK, FdsOwnedOnce, main'.held \in {main.held, NoConn},
           \A r \in Reactors : /\ Owned(r)' \subseteq Owned(r)
                               /\ control'[r].pending \cap sub'[r].clients = {}
    PROVE  FdsOwnedOnce' /\ Open' \subseteq Open
<1>1. Open' = ({main'.held} \ {NoConn}) \cup UNION {Owned(r)' : r \in Reactors}
  BY DEF Owned, Open
<1>2. Open' \subseteq Open
  <2> SUFFICES ASSUME NEW c \in Open' PROVE c \in Open
    OBVIOUS
  <2>1. CASE c \in {main'.held} \ {NoConn}
    BY <2>1, OwnedTyped
  <2>2. CASE c \in UNION {Owned(r)' : r \in Reactors}
    <3>1. PICK r \in Reactors : c \in Owned(r)'
      BY <2>2
    <3> QED
      BY <3>1, OwnedTyped
  <2> QED
    BY <1>1, <2>1, <2>2
<1>3. \A c, d \in Open' : c # d => c.fd # d.fd /\ c.client # d.client
  BY <1>2 DEF FdsOwnedOnce
<1>4. ASSUME NEW r \in Reactors
      PROVE  /\ main'.held \notin Owned(r)'
             /\ \A q \in Reactors \ {r} : Owned(r)' \cap Owned(q)' = {}
  <2>1. main'.held \notin Owned(r)
    BY OwnedTyped DEF FdsOwnedOnce
  <2> QED
    BY <2>1 DEF FdsOwnedOnce
<1> QED
  BY <1>2, <1>3, <1>4 DEF FdsOwnedOnce

\* A peer is never counted as having a response queued and as closed.
LEMMA QueuedNotClosed ==
    ASSUME SharedTyped, NEW r \in Reactors, SubStep(r) \/ SubFails(r),
           peers.queued \cap peers.closed = {}
    PROVE  peers'.queued \cap peers'.closed = {}
<1>0. peers \in PeersRecord
  BY DEF SharedTyped
<1>1. ASSUME NEW conns, Erase(conns)
      PROVE  peers'.queued \cap peers'.closed = {}
  BY <1>0, <1>1, EraseTyped
<1>2. ASSUME NEW p, QueueResponse(r, p) \/ SendAll(r, p) \/ MarkClosed(p)
      PROVE  peers'.queued \cap peers'.closed = {}
  <2>1. CASE QueueResponse(r, p)
    BY <1>0, <2>1 DEF QueueResponse, PeersRecord
  <2>2. CASE SendAll(r, p)
    BY <1>0, <2>2 DEF SendAll, PeersRecord
  <2>3. CASE MarkClosed(p)
    BY <1>0, <2>3 DEF MarkClosed, PeersRecord
  <2> QED
    BY <1>2, <2>1, <2>2, <2>3
<1>3. CASE SubClientEvent(r)
  <2>1. CASE UNCHANGED peers
    BY <2>1
  <2>2. CASE peers' # peers
    BY <1>2, <1>3, <2>2 DEF SubClientEvent
  <2> QED
    BY <2>1, <2>2
<1>4. CASE ~SubClientEvent(r)
  <2>1. UNCHANGED peers \/ \E conns : Erase(conns)
    BY <1>4 DEF SubStep, SubFails, SubWait, SubDrain, SubForceStop,
       SubBeginGracefulShutdown, SubAddClients, SubEndOfBatch
  <2> QED
    BY <1>1, <2>1
<1> QED
  BY <1>3, <1>4

\* A sub reactor acts on what it was woken for: what is still unseen after a
\* step was so before, and the reason it will be seen still stands.
LEMMA SubKeepsWakeup ==
    ASSUME TypeOK, SubsKnown, NoLostWakeup, NEW r \in Reactors, SubStep(r) \/ SubFails(r)
    PROVE  NoLostWakeup'
<1>0. SharedTyped
  BY TypeParts
<1>1. ASSUME NEW q \in Reactors, q # r, Unseen(q)', sub'[q].pc # "exited"
      PROVE  \/ control'[q].bytes > 0
             \/ sub'[q].pc \in {"drain", "control"}
             \/ /\ main'.pc \in {"notifyStop", "notifyForce", "notifyClient"}
                /\ main'.loop = q
  BY <1>0, <1>1, SubFrame DEF NoLostWakeup, Unseen
<1>2. ASSUME Unseen(r)', sub'[r].pc # "exited"
      PROVE  \/ control'[r].bytes > 0
             \/ sub'[r].pc \in {"drain", "control"}
             \/ /\ main'.pc \in {"notifyStop", "notifyForce", "notifyClient"}
                /\ main'.loop = r
  <2>1. CASE SubWait(r)
    <3>1. control' = control /\ sub'[r].m_state = sub[r].m_state /\ main' = main
      BY <1>0, <2>1 DEF SubWait, SharedTyped, SubRecord
    <3>2. control[r].bytes > 0 => sub'[r].pc = "drain"
      BY <1>0, <2>1 DEF SubWait, SharedTyped, SubRecord
    <3>3. sub[r].pc = "wait"
      BY <2>1 DEF SubWait
    <3> QED
      BY <1>2, <3>1, <3>2, <3>3 DEF NoLostWakeup, Unseen
  <2>2. CASE SubDrain(r)
    <3>1. sub'[r].pc = "control"
      BY <1>0, <2>2 DEF SubDrain, SharedTyped, SubRecord
    <3> QED
      BY <3>1
  <2>3. CASE SubForceStop(r) \/ SubFails(r)
    <3>1. sub'[r].pc = "exited"
      BY <1>0, <2>3 DEF SubForceStop, SubFails, SharedTyped, SubRecord
    <3> QED
      BY <1>2, <3>1
  <2>4. CASE SubBeginGracefulShutdown(r)
    <3>1. control'[r].pending = {} /\ ~control'[r].force
      <4>1. control' = [control EXCEPT ![r].pending = {}] /\ ~control[r].force
        BY <2>4 DEF SubBeginGracefulShutdown
      <4> QED
        BY <1>0, <4>1 DEF SharedTyped, ControlRecord
    <3>2. sub'[r].m_state \notin {"Created", "Running"}
      <4>0. sub[r].m_state # "Created"
        BY <1>0, SubOwnStep
      <4>1. CASE sub[r].m_state # "Running"
        BY <1>0, <2>4, <4>0, <4>1 DEF SubBeginGracefulShutdown, SharedTyped, SubRecord
      <4>2. CASE sub[r].m_state = "Running"
        <5> DEFINE kept == KeptWhileDraining(sub[r].clients)
        <5>1. sub' = [sub EXCEPT ![r].clients = kept,
                          ![r].ready = IF kept = {} THEN {} ELSE @,
                          ![r].m_state = IF kept = {} THEN "Stopped" ELSE "Draining",
                          ![r].pc = IF kept = {} THEN "exited" ELSE "clients"]
          BY <2>4, <4>2 DEF SubBeginGracefulShutdown
        <5> HIDE DEF kept
        <5> QED
          BY <1>0, <5>1 DEF SharedTyped, SubRecord
      <4> QED
        BY <4>1, <4>2
    <3> QED
      BY <1>2, <3>1, <3>2 DEF Unseen
  <2>5. CASE SubAddClients(r)
    <3>1. control'[r].pending = {} /\ ~control'[r].force /\ ~control'[r].stop
      BY <1>0, <2>5, SubFrame DEF SubAddClients, SharedTyped, ControlRecord
    <3> QED
      BY <1>2, <3>1 DEF Unseen
  <2>6. CASE SubClientEvent(r)
    <3>1. /\ control' = control /\ sub'[r].m_state = sub[r].m_state /\ main' = main
          /\ sub'[r].pc = sub[r].pc
      BY <1>0, <2>6 DEF SubClientEvent, SharedTyped, SubRecord
    <3> QED
      BY <1>2, <3>1 DEF NoLostWakeup, Unseen
  <2>7. CASE SubEndOfBatch(r)
    <3> DEFINE ends == sub[r].m_state = "Draining" /\ (Remaining(r) = {} \/ deadlinePassed)
    <3>1. sub' = [sub EXCEPT ![r].clients = IF ends THEN {} ELSE Remaining(r),
                             ![r].m_state = IF ends THEN "Stopped" ELSE @,
                             ![r].pc = IF ends THEN "exited" ELSE "wait"]
      BY <2>7 DEF SubEndOfBatch
    <3>2. control' = control /\ main' = main /\ sub[r].pc = "clients"
      BY <2>7 DEF SubEndOfBatch
    <3> HIDE DEF ends
    <3>3. ~ends /\ sub'[r].m_state = sub[r].m_state
      BY <1>0, <1>2, <3>1 DEF SharedTyped, SubRecord
    <3> QED
      BY <1>2, <3>2, <3>3 DEF NoLostWakeup, Unseen
  <2> QED
    BY <2>1, <2>2, <2>3, <2>4, <2>5, <2>6, <2>7 DEF SubStep
<1> QED
  BY <1>1, <1>2 DEF NoLostWakeup

\* The sub reactors keep the invariant.
LEMMA SubKeepsIInv ==
    ASSUME IInv, NEW r \in Reactors, SubStep(r) \/ SubFails(r)
    PROVE  IInv'
<1>0. TypeOK /\ SharedTyped /\ SubsKnown
  BY TypeParts DEF IInv
<1>1. TypeOK'
  BY <1>0, TypeParts, TypePartsNext, SubSharedTyped, SubFrame
<1>2. MainKnown'
  BY <1>0, SubFrame DEF IInv, MainKnown
<1>3. StartKnown'
  <2>1. \A q \in Reactors : sub'[q].pc = "created" <=> sub[q].pc = "created"
    BY <1>0, SubFrame, SubOwnStep
  <2>2. main.pc # "cleanup"
    BY <1>0, SubOwnStep DEF IInv, StartKnown
  <2> QED
    BY <1>0, <2>1, <2>2, SubFrame DEF IInv, StartKnown
<1>4. SubsKnown'
  <2>1. ASSUME NEW q \in Reactors, q # r
        PROVE  SubKnown(q)'
    BY <1>0, <2>1, SubFrame DEF SubsKnown, SubKnown, Owned
  <2>2. SubKnown(r)'
    <3>1. control[r].force => main.threw \/ deadlinePassed
      BY <1>0 DEF SubsKnown, SubKnown
    <3> QED
      BY <1>0, <3>1, SubFrame, SubOwnStep DEF SubKnown
  <2> QED
    BY <2>1, <2>2 DEF SubsKnown
<1>5. FdsOwnedOnce' /\ Open' \subseteq Open
  <2>1. ASSUME NEW q \in Reactors
        PROVE  /\ Owned(q)' \subseteq Owned(q)
               /\ control'[q].pending \cap sub'[q].clients = {}
    <3>1. control[q].pending \cap sub[q].clients = {}
      BY DEF IInv, FdsOwnedOnce
    <3>2. CASE q # r
      BY <1>0, <3>1, <3>2, SubFrame DEF Owned
    <3>3. CASE q = r
      BY <1>0, <3>1, <3>3, SubFrame, SubOwnStep DEF Owned
    <3> QED
      BY <3>2, <3>3
  <2>2. main'.held = main.held
    BY <1>0, SubFrame
  <2> QED
    BY <1>0, <2>1, <2>2, OwnershipKept DEF IInv
<1>6. PeersKnown'
  <2>1. peers'.queued \cap peers'.closed = {}
    BY <1>0, QueuedNotClosed DEF IInv, PeersKnown
  <2> QED
    BY <1>0, <1>5, <2>1, SubFrame DEF IInv, PeersKnown
<1>7. NoLostWakeup'
  BY <1>0, SubKeepsWakeup DEF IInv
<1> QED
  BY <1>1, <1>2, <1>3, <1>4, <1>5, <1>6, <1>7 DEF IInv

-----------------------------------------------------------------------------
(* The steps of the main reactor *)

\* The steps that touch nothing but the main reactor's own record and the sweeper.
MainQuiet ==
    \/ MainWait \/ MainSkipStopped \/ MainAllRequested \/ MainAcceptDone
    \/ MainInitClientFails \/ MainProgress \/ MainStopSweeper \/ MainJoinSweeper \/ MainJoin
    \/ StartSweeper \/ MainFails

\* The main reactor's place, its loop and its exception flag; a descriptor is held
\* from accept to EnqueClient.
LEMMA MainOwnStep ==
    ASSUME TypeOK, MainKnown, MainStep \/ MainFails
    PROVE  /\ MainKnown'
           /\ main'.held # NoConn <=> main'.pc = "enqueue"
           /\ main.threw => main'.threw
           /\ UNCHANGED deadlinePassed
<1>0. main \in MainRecord /\ (main.held # NoConn <=> main.pc = "enqueue")
  BY TypeParts
<1> USE <1>0 DEF MainRecord, MainKnown, Unwinding
<1>1. CASE StartReactor
  BY <1>1 DEF StartReactor
<1>2. CASE StartSweeper
  BY <1>2 DEF StartSweeper
<1>3. CASE MainWait
  BY <1>3 DEF MainWait
<1>4. CASE MainEvents
  <2>1. /\ main.pc = "events" /\ deadlinePassed' = deadlinePassed
        /\ \/ BeginGracefulShutdown
           \/ main' = [main EXCEPT !.pc = "health", !.evStop = FALSE]
    BY <1>4 DEF MainEvents
  <2>2. CASE BeginGracefulShutdown
    BY <2>1, <2>2 DEF BeginGracefulShutdown
  <2>3. CASE main' = [main EXCEPT !.pc = "health", !.evStop = FALSE]
    BY <2>1, <2>3
  <2> QED
    BY <2>1, <2>2, <2>3
<1>5. CASE MainHealth
  <2>1. /\ main.pc = "health" /\ deadlinePassed' = deadlinePassed
        /\ \/ BeginGracefulShutdown
           \/ main' = [main EXCEPT !.evListen = FALSE, !.pc = "accept"]
           \/ main' = [main EXCEPT !.evListen = FALSE, !.pc = "progress"]
    BY <1>5 DEF MainHealth
  <2>2. CASE BeginGracefulShutdown
    BY <2>1, <2>2 DEF BeginGracefulShutdown
  <2>3. CASE main' = [main EXCEPT !.evListen = FALSE, !.pc = "accept"]
    BY <2>1, <2>3
  <2>4. CASE main' = [main EXCEPT !.evListen = FALSE, !.pc = "progress"]
    BY <2>1, <2>4
  <2> QED
    BY <2>1, <2>2, <2>3, <2>4
<1>6. CASE MainRequestStop
  BY <1>6 DEF MainRequestStop
<1>7. CASE MainRequestForceStop
  BY <1>7 DEF MainRequestForceStop
<1>8. CASE MainSkipStopped
  BY <1>8 DEF MainSkipStopped
<1>9. CASE MainNotify("notifyStop", "stopSubs", main.loop + 1)
  BY <1>9 DEF MainNotify
<1>10. CASE MainNotify("notifyForce", "forceSubs", main.loop + 1)
  BY <1>10 DEF MainNotify
<1>11. CASE MainNotify("notifyClient", "accept", 1)
  BY <1>11 DEF MainNotify
<1>12. CASE MainAllRequested
  BY <1>12 DEF MainAllRequested
<1>13. CASE MainAccept
  <2>1. PICK p \in peers.backlog, n \in FreeFds :
           main' = [main EXCEPT !.pc = "enqueue", !.accepted = @ + 1,
                                !.held = [client |-> p, fd |-> n]]
    BY <1>13 DEF MainAccept
  <2>2. [client |-> p, fd |-> n] \in Conn
    BY TypeParts DEF SharedTyped, PeersRecord, FreeFds, Conn
  <2>3. main'.held # NoConn
    BY <2>1, <2>2, OwnedTyped
  <2>4. main'.pc = "enqueue" /\ main'.threw = main.threw /\ main.pc = "accept"
    BY <1>13, <2>1 DEF MainAccept
  <2> QED
    BY <1>13, <2>3, <2>4 DEF MainAccept
<1>14. CASE MainAcceptDone
  BY <1>14 DEF MainAcceptDone
<1>15. CASE MainInitClientFails
  BY <1>15 DEF MainInitClientFails
<1>16. CASE MainEnqueClient
  BY <1>16 DEF MainEnqueClient
<1>17. CASE MainProgress
  BY <1>17 DEF MainProgress, ForceDue
<1>18. CASE MainStopSweeper
  BY <1>18 DEF MainStopSweeper
<1>19. CASE MainJoinSweeper
  BY <1>19 DEF MainJoinSweeper
<1>20. CASE MainJoin
  BY <1>20 DEF MainJoin
<1>21. CASE MainCleanup
  BY <1>21 DEF MainCleanup
<1>22. CASE MainFails
  <2>1. Throw /\ main.pc # "enqueue"
    BY <1>22 DEF MainFails, StartFails, MainWaitFails, MainAcceptFails
  <2> QED
    BY <2>1 DEF Throw
<1> QED
  BY <1>1, <1>2, <1>3, <1>4, <1>5, <1>6, <1>7, <1>8, <1>9, <1>10, <1>11, <1>12, <1>13,
     <1>14, <1>15, <1>16, <1>17, <1>18, <1>19, <1>20, <1>21, <1>22 DEF MainStep

\* Only Run's first loop creates reactors, and Join waits for those it created.
LEMMA MainKeepsStart ==
    ASSUME TypeOK, MainKnown, StartKnown, MainStep \/ MainFails
    PROVE  StartKnown'
<1>0. main \in MainRecord /\ SharedTyped
  BY TypeParts
<1>1. CASE StartReactor
  <2>1. /\ main.pc = "start" /\ main.loop \in Reactors /\ main'.pc = "start"
        /\ main'.loop = main.loop + 1
    BY <1>0, <1>1 DEF StartReactor, MainRecord
  <2>2. \A r \in Reactors : sub'[r].pc = IF r = main.loop THEN "wait" ELSE sub[r].pc
    BY <1>0, <1>1 DEF StartReactor, SharedTyped, SubRecord
  <2>3. \A r \in Reactors : r \in Int
    BY DEF Reactors
  <2> QED
    BY <2>1, <2>2, <2>3 DEF StartKnown
<1>2. CASE StartSweeper
  <2>1. main.pc = "start" /\ main.loop \notin Reactors /\ main'.pc = "wait" /\ sub' = sub
    BY <1>0, <1>2 DEF StartSweeper, MainRecord
  <2>2. \A r \in Reactors : ~(r >= main.loop)
    BY <1>0, <2>1, ServerAssumption DEF MainRecord, Reactors
  <2> QED
    BY <2>1, <2>2 DEF StartKnown
<1>3. CASE MainFails
  <2>1. main'.pc = "stopSweeper" /\ main'.threw
    BY <1>0, <1>3 DEF MainFails, StartFails, MainWaitFails, MainAcceptFails, Throw, MainRecord
  <2> QED
    BY <2>1 DEF StartKnown
<1>4. CASE MainJoin
  <2>1. /\ main.pc = "join" /\ main'.pc = "cleanup" /\ sub' = sub /\ main'.threw = main.threw
        /\ \A r \in Reactors : sub[r].pc \in {"created", "exited"}
    BY <1>0, <1>4 DEF MainJoin, MainRecord
  <2> QED
    BY <2>1 DEF StartKnown
<1>5. CASE MainStep /\ ~StartReactor /\ ~StartSweeper /\ ~MainJoin
  <2>1. sub' = sub
    BY <1>5 DEF MainStep, MainWait, MainEvents, MainHealth, MainRequestStop,
       MainRequestForceStop, MainSkipStopped, MainNotify, MainAllRequested, MainAccept,
       MainAcceptDone, MainInitClientFails, MainEnqueClient, MainProgress,
       MainStopSweeper, MainJoinSweeper, MainCleanup
  <2>2. main.pc # "start"
    BY <1>5 DEF MainStep, MainWait, MainEvents, MainHealth, MainRequestStop,
       MainRequestForceStop, MainSkipStopped, MainNotify, MainAllRequested, MainAccept,
       MainAcceptDone, MainInitClientFails, MainEnqueClient, MainProgress,
       MainStopSweeper, MainJoinSweeper, MainCleanup
  <2>3. main'.pc \notin {"start", "cleanup"}
    <3> USE <1>0 DEF MainRecord
    <3>1. CASE MainEvents \/ MainHealth
      BY <3>1 DEF MainEvents, MainHealth, BeginGracefulShutdown
    <3>2. CASE MainRequestStop \/ MainRequestForceStop \/ MainSkipStopped \/ MainAllRequested
      BY <3>2 DEF MainRequestStop, MainRequestForceStop, MainSkipStopped, MainAllRequested
    <3>3. CASE \/ MainNotify("notifyStop", "stopSubs", main.loop + 1)
               \/ MainNotify("notifyForce", "forceSubs", main.loop + 1)
               \/ MainNotify("notifyClient", "accept", 1)
      BY <3>3 DEF MainNotify
    <3>4. CASE MainWait \/ MainAccept \/ MainAcceptDone \/ MainInitClientFails \/ MainEnqueClient
      BY <3>4 DEF MainWait, MainAccept, MainAcceptDone, MainInitClientFails, MainEnqueClient
    <3>5. CASE MainProgress \/ MainStopSweeper \/ MainJoinSweeper \/ MainCleanup
      BY <3>5 DEF MainProgress, MainStopSweeper, MainJoinSweeper, MainCleanup
    <3> QED
      BY <1>5, <3>1, <3>2, <3>3, <3>4, <3>5 DEF MainStep
  <2> QED
    BY <2>1, <2>2, <2>3, MainOwnStep DEF StartKnown
<1> QED
  BY <1>1, <1>2, <1>3, <1>4, <1>5

\* The quiet steps: nothing of the reactors changes, and no notification is due.
LEMMA MainQuietStep ==
    ASSUME TypeOK, MainQuiet
    PROVE  /\ UNCHANGED <<sub, control, peers>>
           /\ main'.held \in {main.held, NoConn}
           /\ main.pc \notin {"notifyStop", "notifyForce", "notifyClient"}
<1>0. main \in MainRecord
  BY TypeParts
<1>1. /\ UNCHANGED <<sub, control, peers>>
      /\ main.pc \notin {"notifyStop", "notifyForce", "notifyClient"}
  BY DEF MainQuiet, MainWait, MainSkipStopped, MainAllRequested, MainAcceptDone,
     MainInitClientFails, MainProgress, MainStopSweeper, MainJoinSweeper, MainJoin,
     StartSweeper, MainFails, StartFails, MainWaitFails, MainAcceptFails, Throw
<1>2. main'.held \in {main.held, NoConn}
  <2> USE <1>0 DEF MainRecord
  <2>1. CASE MainWait \/ MainSkipStopped \/ MainAllRequested \/ MainAcceptDone
    BY <2>1 DEF MainWait, MainSkipStopped, MainAllRequested, MainAcceptDone
  <2>2. CASE MainInitClientFails \/ MainStopSweeper \/ MainJoinSweeper \/ MainJoin
    BY <2>2 DEF MainInitClientFails, MainStopSweeper, MainJoinSweeper, MainJoin
  <2>3. CASE MainProgress
    BY <2>3 DEF MainProgress
  <2>4. CASE StartSweeper \/ MainFails
    BY <2>4 DEF StartSweeper, MainFails, StartFails, MainWaitFails, MainAcceptFails, Throw
  <2> QED
    BY <2>1, <2>2, <2>3, <2>4 DEF MainQuiet
<1> QED
  BY <1>1, <1>2

\* The parts of the invariant about what the threads share.
SharedInv == SubsKnown /\ PeersKnown /\ FdsOwnedOnce /\ NoLostWakeup

\* The quiet steps of the main reactor keep it.
LEMMA MainQuietKeeps ==
    ASSUME IInv, MainQuiet, MainStep \/ MainFails
    PROVE  SharedInv'
<1>0. TypeOK /\ MainKnown /\ SubsKnown
  BY DEF IInv
<1>1. SubsKnown'
  BY <1>0, MainQuietStep, MainOwnStep DEF SubsKnown, SubKnown, Owned
<1>2. FdsOwnedOnce' /\ Open' \subseteq Open
  <2>1. \A r \in Reactors : /\ Owned(r)' \subseteq Owned(r)
                            /\ control'[r].pending \cap sub'[r].clients = {}
    BY <1>0, MainQuietStep DEF Owned, IInv, FdsOwnedOnce
  <2> QED
    BY <1>0, <2>1, MainQuietStep, OwnershipKept DEF IInv
<1>3. PeersKnown'
  BY <1>0, <1>2, MainQuietStep DEF IInv, PeersKnown
<1>4. NoLostWakeup'
  BY <1>0, MainQuietStep DEF IInv, NoLostWakeup, Unseen
<1> QED
  BY <1>1, <1>2, <1>3, <1>4 DEF SharedInv

\* SubReactor::Start: the reactor is fresh, and stays without a connection.
LEMMA StartReactorKeeps ==
    ASSUME IInv, StartReactor
    PROVE  SharedInv'
<1>0. TypeOK /\ main \in MainRecord /\ SharedTyped
  BY TypeParts DEF IInv
<1> PICK n : n = main.loop
  OBVIOUS
<1>1. /\ n \in Reactors /\ sub[n].pc = "created"
      /\ UNCHANGED <<stop, control, peers, deadlinePassed>>
  <2>1. n \in Int
    BY <1>0 DEF MainRecord
  <2> QED
    BY <2>1 DEF StartReactor, IInv, StartKnown
<1>2. main'.held = main.held /\ main'.threw = main.threw /\ main.pc = "start"
  BY <1>0 DEF StartReactor, MainRecord
<1>3. /\ \A r \in Reactors \ {n} : sub'[r] = sub[r]
      /\ sub'[n].pc = "wait" /\ sub'[n].m_state = "Running"
      /\ sub'[n].clients = sub[n].clients /\ sub'[n].failed = sub[n].failed
  BY <1>0, <1>1 DEF StartReactor, SharedTyped, SubRecord
<1>4. SubsKnown'
  <2>1. ASSUME NEW r \in Reactors, r # n
        PROVE  SubKnown(r)'
    BY <1>1, <1>2, <1>3, <2>1 DEF IInv, SubsKnown, SubKnown, Owned
  <2>2. SubKnown(n)'
    BY <1>1, <1>2, <1>3 DEF IInv, SubsKnown, SubKnown, Owned
  <2> QED
    BY <2>1, <2>2 DEF SubsKnown
<1>5. FdsOwnedOnce' /\ Open' \subseteq Open
  <2>1. \A r \in Reactors : /\ Owned(r)' \subseteq Owned(r)
                            /\ control'[r].pending \cap sub'[r].clients = {}
    BY <1>1, <1>3 DEF Owned, IInv, FdsOwnedOnce
  <2> QED
    BY <1>0, <1>2, <2>1, OwnershipKept DEF IInv
<1>6. PeersKnown'
  BY <1>1, <1>5 DEF IInv, PeersKnown
<1>7. NoLostWakeup'
  <2>1. ASSUME NEW r \in Reactors, Unseen(r)', sub'[r].pc # "exited"
        PROVE  control'[r].bytes > 0 \/ sub'[r].pc \in {"drain", "control"}
    <3>1. Unseen(r) /\ sub[r].pc # "exited"
      BY <1>1, <1>3, <2>1 DEF Unseen, IInv, SubsKnown, SubKnown
    <3> QED
      BY <1>1, <1>2, <1>3, <3>1 DEF IInv, NoLostWakeup
  <2> QED
    BY <2>1 DEF NoLostWakeup
<1> QED
  BY <1>4, <1>5, <1>6, <1>7 DEF SharedInv

\* Events and the health check: the backlog may be reset, nothing else.
LEMMA EventsKeep ==
    ASSUME IInv, MainEvents \/ MainHealth
    PROVE  SharedInv'
<1>0. TypeOK /\ main \in MainRecord /\ SharedTyped
  BY TypeParts DEF IInv
<1>1. UNCHANGED <<sub, control, deadlinePassed>> /\ main.pc \in {"events", "health"}
  BY DEF MainEvents, MainHealth
<1>2. main'.held = main.held /\ main'.threw = main.threw
  BY <1>0 DEF MainEvents, MainHealth, BeginGracefulShutdown, MainRecord
<1>3. /\ peers'.unborn = peers.unborn /\ peers'.backlog \subseteq peers.backlog
      /\ peers'.queued = peers.queued /\ peers'.closed = peers.closed
  BY <1>0 DEF MainEvents, MainHealth, BeginGracefulShutdown, SharedTyped, PeersRecord
<1>4. SubsKnown'
  BY <1>1, <1>2 DEF IInv, SubsKnown, SubKnown, Owned
<1>5. FdsOwnedOnce' /\ Open' \subseteq Open
  <2>1. \A r \in Reactors : /\ Owned(r)' \subseteq Owned(r)
                            /\ control'[r].pending \cap sub'[r].clients = {}
    BY <1>1 DEF Owned, IInv, FdsOwnedOnce
  <2> QED
    BY <1>0, <1>2, <2>1, OwnershipKept DEF IInv
<1>6. PeersKnown'
  BY <1>3, <1>5 DEF IInv, PeersKnown
<1>7. NoLostWakeup'
  BY <1>1 DEF IInv, NoLostWakeup, Unseen
<1> QED
  BY <1>4, <1>5, <1>6, <1>7 DEF SharedInv

\* A request is made for one reactor, which the main reactor notifies next.
LEMMA RequestKeeps ==
    ASSUME IInv, MainRequestStop \/ MainRequestForceStop
    PROVE  SharedInv'
<1>0. TypeOK /\ main \in MainRecord /\ SharedTyped
  BY TypeParts DEF IInv
<1> PICK n : n = main.loop
  OBVIOUS
<1>1. /\ UNCHANGED <<sub, peers, deadlinePassed>> /\ n \in Reactors
      /\ main.pc \in {"stopSubs", "forceSubs"}
  BY DEF MainRequestStop, MainRequestForceStop
<1>2. /\ main'.held = main.held /\ main'.threw = main.threw /\ main'.loop = n
      /\ main'.pc \in {"notifyStop", "notifyForce"}
  BY <1>0 DEF MainRequestStop, MainRequestForceStop, MainRecord
<1>3. /\ \A r \in Reactors \ {n} : control'[r] = control[r]
      /\ control'[n].pending = control[n].pending /\ control'[n].bytes = control[n].bytes
      /\ control[n].stop => control'[n].stop
      /\ control[n].force => control'[n].force
      /\ control'[n].force => control[n].force \/ main.pc = "forceSubs"
  <2>1. CASE MainRequestStop
    BY <1>0, <1>1, <2>1 DEF MainRequestStop, SharedTyped, ControlRecord
  <2>2. CASE MainRequestForceStop
    BY <1>0, <1>1, <2>2 DEF MainRequestForceStop, SharedTyped, ControlRecord
  <2> QED
    BY <2>1, <2>2
<1>4. SubsKnown'
  <2>1. ASSUME NEW r \in Reactors, r # n
        PROVE  SubKnown(r)'
    BY <1>1, <1>2, <1>3, <2>1 DEF IInv, SubsKnown, SubKnown, Owned
  <2>2. SubKnown(n)'
    BY <1>1, <1>2, <1>3 DEF IInv, SubsKnown, SubKnown, Owned, MainKnown
  <2> QED
    BY <2>1, <2>2 DEF SubsKnown
<1>5. FdsOwnedOnce' /\ Open' \subseteq Open
  <2>1. \A r \in Reactors : /\ Owned(r)' \subseteq Owned(r)
                            /\ control'[r].pending \cap sub'[r].clients = {}
    BY <1>1, <1>3 DEF Owned, IInv, FdsOwnedOnce
  <2> QED
    BY <1>0, <1>2, <2>1, OwnershipKept DEF IInv
<1>6. PeersKnown'
  BY <1>1, <1>5 DEF IInv, PeersKnown
<1>7. NoLostWakeup'
  <2>1. ASSUME NEW r \in Reactors, r # n, Unseen(r)', sub'[r].pc # "exited"
        PROVE  control'[r].bytes > 0 \/ sub'[r].pc \in {"drain", "control"}
    BY <1>1, <1>3, <2>1 DEF IInv, NoLostWakeup, Unseen
  <2> QED
    BY <1>2, <2>1 DEF NoLostWakeup
<1> QED
  BY <1>4, <1>5, <1>6, <1>7 DEF SharedInv

\* Notify puts a byte in the channel, or finds one there.
LEMMA NotifyKeeps ==
    ASSUME IInv, NEW from \in {"notifyStop", "notifyForce", "notifyClient"}, NEW to, NEW next,
           MainNotify(from, to, next)
    PROVE  SharedInv'
<1>0. TypeOK /\ main \in MainRecord /\ SharedTyped
  BY TypeParts DEF IInv
<1> PICK n : n = main.loop
  OBVIOUS
<1>1. UNCHANGED <<sub, peers, deadlinePassed>> /\ n \in Reactors
  BY DEF MainNotify, IInv, MainKnown
<1>2. main'.held = main.held /\ main'.threw = main.threw
  BY <1>0 DEF MainNotify, MainRecord
<1>3. /\ \A r \in Reactors \ {n} : control'[r] = control[r]
      /\ control'[n].pending = control[n].pending
      /\ control'[n].stop = control[n].stop /\ control'[n].force = control[n].force
      /\ control'[n].bytes = Notified(control[n].bytes)
  BY <1>0, <1>1 DEF MainNotify, SharedTyped, ControlRecord
<1>4. control'[n].bytes > 0
  <2>1. control[n].bytes \in 0..ChannelCapacity
    BY <1>0, <1>1 DEF SharedTyped, ControlRecord
  <2> QED
    BY <1>3, <2>1, NotifiedFacts
<1>5. SubsKnown'
  <2>1. ASSUME NEW r \in Reactors
        PROVE  SubKnown(r)'
    <3>1. CASE r # n
      BY <1>1, <1>2, <1>3, <3>1 DEF IInv, SubsKnown, SubKnown, Owned
    <3>2. CASE r = n
      BY <1>1, <1>2, <1>3, <3>2 DEF IInv, SubsKnown, SubKnown, Owned
    <3> QED
      BY <3>1, <3>2
  <2> QED
    BY <2>1 DEF SubsKnown
<1>6. FdsOwnedOnce' /\ Open' \subseteq Open
  <2>1. \A r \in Reactors : /\ Owned(r)' \subseteq Owned(r)
                            /\ control'[r].pending \cap sub'[r].clients = {}
    BY <1>1, <1>3 DEF Owned, IInv, FdsOwnedOnce
  <2> QED
    BY <1>0, <1>2, <2>1, OwnershipKept DEF IInv
<1>7. PeersKnown'
  BY <1>1, <1>6 DEF IInv, PeersKnown
<1>8. NoLostWakeup'
  <2>1. ASSUME NEW r \in Reactors, r # n, Unseen(r)', sub'[r].pc # "exited"
        PROVE  control'[r].bytes > 0 \/ sub'[r].pc \in {"drain", "control"}
    BY <1>1, <1>3, <2>1 DEF IInv, NoLostWakeup, Unseen
  <2> QED
    BY <1>4, <2>1 DEF NoLostWakeup
<1> QED
  BY <1>5, <1>6, <1>7, <1>8 DEF SharedInv

\* accept: the number was free and the peer in the backlog, so the new descriptor
\* differs from every open one in both.
LEMMA AcceptKeeps ==
    ASSUME IInv, MainAccept
    PROVE  SharedInv'
<1>0. TypeOK /\ main \in MainRecord /\ SharedTyped
  BY TypeParts DEF IInv
<1>1. PICK p \in peers.backlog, n \in FreeFds :
         /\ main' = [main EXCEPT !.pc = "enqueue", !.accepted = @ + 1,
                                 !.held = [client |-> p, fd |-> n]]
         /\ peers' = [peers EXCEPT !.backlog = @ \ {p}]
  BY DEF MainAccept
<1>2. UNCHANGED <<sub, control, deadlinePassed>> /\ main.pc = "accept" /\ main.held = NoConn
  BY <1>0, TypeParts DEF MainAccept
<1> PICK c : c = [client |-> p, fd |-> n]
  OBVIOUS
<1>3. main'.held = c /\ main'.threw = main.threw
  BY <1>0, <1>1 DEF MainRecord
<1>4. c \in Conn /\ c.client = p /\ c.fd = n
  BY <1>0 DEF SharedTyped, PeersRecord, FreeFds, Conn
<1>5. \A d \in Open : d.fd # n
  BY DEF FreeFds
<1>6. \A d \in Open : d.client # p
  BY DEF IInv, PeersKnown
<1>7. \A r \in Reactors : Owned(r)' = Owned(r)
  BY <1>2 DEF Owned
<1>8. Open' = Open \cup {c} /\ c \notin Open
  <2>1. Open = UNION {Owned(r) : r \in Reactors}
    BY <1>0, <1>2, OwnedTyped
  <2>2. Open' = ({main'.held} \ {NoConn}) \cup UNION {control'[r].pending \cup sub'[r].clients : r \in Reactors}
    BY DEF Open
  <2>3. Open' = {c} \cup UNION {control[r].pending \cup sub[r].clients : r \in Reactors}
    BY <1>0, <1>2, <1>3, <1>4, <2>2, OwnedTyped
  <2> QED
    BY <1>4, <1>5, <2>1, <2>3 DEF Owned
<1>9. /\ peers'.unborn = peers.unborn /\ peers'.backlog = peers.backlog \ {p}
      /\ peers'.queued = peers.queued /\ peers'.closed = peers.closed
  BY <1>0, <1>1 DEF SharedTyped, PeersRecord
<1>10. SubsKnown'
  BY <1>2, <1>3 DEF IInv, SubsKnown, SubKnown, Owned
<1>11. FdsOwnedOnce'
  <2>1. \A d, e \in Open' : d # e => d.fd # e.fd /\ d.client # e.client
    BY <1>4, <1>5, <1>6, <1>8 DEF IInv, FdsOwnedOnce
  <2>2. ASSUME NEW r \in Reactors
        PROVE  /\ main'.held \notin Owned(r)'
               /\ control'[r].pending \cap sub'[r].clients = {}
               /\ \A q \in Reactors \ {r} : Owned(r)' \cap Owned(q)' = {}
    <3>1. c \notin Owned(r)
      BY <1>8 DEF Open, Owned
    <3> QED
      BY <1>2, <1>3, <1>7, <3>1 DEF IInv, FdsOwnedOnce
  <2> QED
    BY <2>1, <2>2 DEF FdsOwnedOnce
<1>12. PeersKnown'
  <2>1. p \notin peers.unborn
    BY DEF IInv, PeersKnown
  <2> QED
    BY <1>4, <1>8, <1>9, <2>1 DEF IInv, PeersKnown
<1>13. NoLostWakeup'
  BY <1>2 DEF IInv, NoLostWakeup, Unseen
<1> QED
  BY <1>10, <1>11, <1>12, <1>13 DEF SharedInv

\* EnqueClient: a reactor that was told to stop refuses, and any other one has not
\* stopped by itself; the descriptor moves from Run's variable to the queue.
LEMMA EnqueueKeeps ==
    ASSUME IInv, MainEnqueClient
    PROVE  SharedInv'
<1>0. TypeOK /\ main \in MainRecord /\ SharedTyped
  BY TypeParts DEF IInv
<1> PICK n, c : n = main.next /\ c = main.held
  OBVIOUS
<1>1. /\ UNCHANGED <<sub, peers, deadlinePassed>> /\ n \in Reactors
      /\ main.pc = "enqueue" /\ c # NoConn /\ ~main.threw
  BY <1>0, TypeParts DEF MainEnqueClient, MainRecord, IInv, MainKnown, Unwinding
<1>2. main'.held = NoConn /\ main'.threw = main.threw
  BY <1>0 DEF MainEnqueClient, MainRecord
<1>3. CASE control[n].stop \/ control[n].force
  <2>1. control' = control
    BY <1>3 DEF MainEnqueClient
  <2>2. SubsKnown'
    BY <1>1, <1>2, <2>1 DEF IInv, SubsKnown, SubKnown, Owned
  <2>3. FdsOwnedOnce' /\ Open' \subseteq Open
    <3>1. \A r \in Reactors : /\ Owned(r)' \subseteq Owned(r)
                              /\ control'[r].pending \cap sub'[r].clients = {}
      BY <1>1, <2>1 DEF Owned, IInv, FdsOwnedOnce
    <3> QED
      BY <1>0, <1>2, <3>1, OwnershipKept DEF IInv
  <2>4. PeersKnown'
    BY <1>1, <2>3 DEF IInv, PeersKnown
  <2>5. NoLostWakeup'
    BY <1>1, <2>1 DEF IInv, NoLostWakeup, Unseen
  <2> QED
    BY <2>2, <2>3, <2>4, <2>5 DEF SharedInv
<1>4. CASE ~control[n].stop /\ ~control[n].force
  <2>1. /\ \A r \in Reactors \ {n} : control'[r] = control[r]
        /\ control'[n].pending = control[n].pending \cup {c}
        /\ control'[n].bytes = control[n].bytes
        /\ control'[n].stop = control[n].stop /\ control'[n].force = control[n].force
    BY <1>0, <1>1, <1>4 DEF MainEnqueClient, SharedTyped, ControlRecord
  <2>2. main'.pc = "notifyClient" /\ main'.loop = n
    BY <1>0, <1>4 DEF MainEnqueClient, MainRecord
  <2>3. SubsKnown'
    <3>1. ASSUME NEW r \in Reactors, r # n
          PROVE  SubKnown(r)'
      BY <1>1, <1>2, <2>1, <3>1 DEF IInv, SubsKnown, SubKnown, Owned
    <3>2. SubKnown(n)'
      <4>1. sub[n].pc # "created"
        BY <1>1 DEF IInv, StartKnown
      <4>2. sub[n].m_state # "Draining" /\ (sub[n].pc = "exited" => sub[n].failed)
        BY <1>1, <1>4 DEF IInv, SubsKnown, SubKnown
      <4> QED
        BY <1>1, <1>2, <2>1, <4>1, <4>2 DEF IInv, SubsKnown, SubKnown, Owned
    <3> QED
      BY <3>1, <3>2 DEF SubsKnown
  <2>4. /\ \A r \in Reactors \ {n} : Owned(r)' = Owned(r)
        /\ Owned(n)' = Owned(n) \cup {c}
        /\ \A r \in Reactors : c \notin Owned(r)
    BY <1>1, <2>1 DEF Owned, IInv, FdsOwnedOnce
  <2>5. Open' = Open
    <3>1. /\ Open = {c} \cup UNION {Owned(r) : r \in Reactors}
          /\ \A r \in Reactors : NoConn \notin Owned(r)
      BY <1>0, <1>1, OwnedTyped
    <3>2. Open' = UNION {control'[r].pending \cup sub'[r].clients : r \in Reactors}
      BY <1>2 DEF Open
    <3>3. Open' = UNION {Owned(r)' : r \in Reactors}
      BY <3>2 DEF Owned
    <3> QED
      BY <1>1, <2>4, <3>1, <3>3
  <2>6. FdsOwnedOnce'
    <3>1. \A d, e \in Open' : d # e => d.fd # e.fd /\ d.client # e.client
      BY <2>5 DEF IInv, FdsOwnedOnce
    <3>2. ASSUME NEW r \in Reactors
          PROVE  main'.held \notin Owned(r)'
      BY <1>0, <1>1, <1>2, <2>4, OwnedTyped
    <3>3. ASSUME NEW r \in Reactors
          PROVE  control'[r].pending \cap sub'[r].clients = {}
      <4>1. c \notin sub[r].clients
        BY <2>4 DEF Owned
      <4> QED
        BY <1>1, <2>1, <4>1 DEF IInv, FdsOwnedOnce
    <3>4. ASSUME NEW r \in Reactors, NEW q \in Reactors \ {r}
          PROVE  Owned(r)' \cap Owned(q)' = {}
      BY <2>4 DEF IInv, FdsOwnedOnce
    <3> QED
      BY <3>1, <3>2, <3>3, <3>4 DEF FdsOwnedOnce
  <2>7. PeersKnown'
    BY <1>1, <2>5 DEF IInv, PeersKnown
  <2>8. NoLostWakeup'
    <3>1. ASSUME NEW r \in Reactors, r # n, Unseen(r)', sub'[r].pc # "exited"
          PROVE  control'[r].bytes > 0 \/ sub'[r].pc \in {"drain", "control"}
      BY <1>1, <2>1, <3>1 DEF IInv, NoLostWakeup, Unseen
    <3> QED
      BY <2>2, <3>1 DEF NoLostWakeup
  <2> QED
    BY <2>3, <2>6, <2>7, <2>8 DEF SharedInv
<1> QED
  BY <1>3, <1>4

\* CleanupMainReactor: the queues of the joined reactors are destroyed.
LEMMA CleanupKeeps ==
    ASSUME IInv, MainCleanup
    PROVE  SharedInv'
<1>0. TypeOK /\ main \in MainRecord /\ SharedTyped
  BY TypeParts DEF IInv
<1>1. UNCHANGED <<sub, deadlinePassed>> /\ main.pc = "cleanup"
  BY DEF MainCleanup
<1>2. main'.held = main.held /\ main'.threw = main.threw
  BY <1>0 DEF MainCleanup, MainRecord
<1>3. \A r \in Reactors : /\ control'[r].pending = {}
                          /\ control'[r].stop = control[r].stop
                          /\ control'[r].force = control[r].force
                          /\ control'[r].bytes = control[r].bytes
  BY <1>0 DEF MainCleanup, SharedTyped, ControlRecord
<1>4. /\ peers'.unborn = peers.unborn /\ peers'.backlog = {}
      /\ peers'.queued = peers.queued /\ peers'.closed = peers.closed
  BY <1>0 DEF MainCleanup, SharedTyped, PeersRecord
<1>5. SubsKnown'
  BY <1>1, <1>2, <1>3 DEF IInv, SubsKnown, SubKnown, Owned
<1>6. FdsOwnedOnce' /\ Open' \subseteq Open
  <2>1. \A r \in Reactors : /\ Owned(r)' \subseteq Owned(r)
                            /\ control'[r].pending \cap sub'[r].clients = {}
    BY <1>1, <1>3 DEF Owned
  <2> QED
    BY <1>0, <1>2, <2>1, OwnershipKept DEF IInv
<1>7. PeersKnown'
  BY <1>4, <1>6 DEF IInv, PeersKnown
<1>8. NoLostWakeup'
  BY <1>1, <1>3 DEF IInv, NoLostWakeup, Unseen
<1> QED
  BY <1>5, <1>6, <1>7, <1>8 DEF SharedInv

\* All its steps do.
LEMMA MainKeepsIInv ==
    ASSUME IInv, MainStep \/ MainFails
    PROVE  IInv'
<1>0. TypeOK /\ MainKnown /\ StartKnown
  BY DEF IInv
<1>1. TypeOK'
  BY <1>0, TypeParts, TypePartsNext, MainTyped, MainSharedTyped, MainOwnStep DEF SharedTyped
<1>2. MainKnown' /\ StartKnown'
  BY <1>0, MainOwnStep, MainKeepsStart
<1>3. SharedInv'
  <2>1. CASE MainQuiet
    BY <2>1, MainQuietKeeps
  <2>2. CASE ~MainQuiet
    BY <2>2, StartReactorKeeps, EventsKeep, RequestKeeps, NotifyKeeps, AcceptKeeps,
       EnqueueKeeps, CleanupKeeps DEF MainStep, MainQuiet
  <2> QED
    BY <2>1, <2>2
<1> QED
  BY <1>1, <1>2, <1>3 DEF IInv, SharedInv

-----------------------------------------------------------------------------
(* The other steps, and the theorems *)

\* The sweeper, the peers, signals, Stop and the deadline.
LEMMA WorldKeepsIInv ==
    ASSUME IInv,
           SweeperExit \/ Connect \/ Signal \/ StopCall \/ DeadlinePasses \/ UNCHANGED vars
    PROVE  IInv'
<1>0. TypeOK /\ main \in MainRecord /\ SharedTyped
  BY TypeParts DEF IInv
<1>1. UNCHANGED <<main, sub, control>>
  BY DEF SweeperExit, Connect, Signal, StopCall, DeadlinePasses, vars
<1>2. /\ peers' \in PeersRecord
      /\ peers'.unborn \cap peers'.backlog = {}
      /\ peers'.unborn \cup peers'.backlog \subseteq peers.unborn \cup peers.backlog
      /\ peers'.queued = peers.queued /\ peers'.closed = peers.closed
  <2>1. CASE Connect
    <3>1. PICK p \in peers.unborn :
             peers' = [peers EXCEPT !.unborn = @ \ {p}, !.backlog = @ \cup {p}]
      BY <2>1 DEF Connect
    <3>2. peers \in PeersRecord /\ peers.unborn \cap peers.backlog = {}
      BY <1>0 DEF SharedTyped, IInv, PeersKnown
    <3>3. /\ peers'.unborn = peers.unborn \ {p} /\ peers'.backlog = peers.backlog \cup {p}
          /\ peers'.queued = peers.queued /\ peers'.closed = peers.closed
      BY <3>1, <3>2 DEF PeersRecord
    <3>4. peers' \in PeersRecord
      BY <3>1, <3>2 DEF PeersRecord
    <3> QED
      BY <3>2, <3>3, <3>4
  <2>2. CASE UNCHANGED peers
    BY <1>0, <2>2 DEF SharedTyped, IInv, PeersKnown
  <2> QED
    BY <2>1, <2>2 DEF SweeperExit, Signal, StopCall, DeadlinePasses, vars
<1>3. stop' \in [requested : BOOLEAN, bytes : 0..ChannelCapacity]
  <2>0. stop \in [requested : BOOLEAN, bytes : 0..ChannelCapacity] /\ TRUE \in BOOLEAN
    BY <1>0 DEF SharedTyped
  <2>1. CASE Signal
    <3>1. Notified(stop.bytes) \in 0..ChannelCapacity
      BY <2>0, NotifiedFacts
    <3> QED
      BY <2>0, <2>1, <3>1 DEF Signal
  <2>2. CASE StopCall
    BY <2>0, <2>2 DEF StopCall
  <2>3. CASE UNCHANGED stop
    BY <2>0, <2>3
  <2> QED
    BY <2>1, <2>2, <2>3 DEF SweeperExit, Connect, DeadlinePasses, vars
<1>4. deadlinePassed' \in BOOLEAN /\ (deadlinePassed => deadlinePassed')
  <2>1. CASE DeadlinePasses
    BY <2>1 DEF DeadlinePasses
  <2>2. CASE UNCHANGED deadlinePassed
    BY <1>0, <2>2 DEF SharedTyped
  <2> QED
    BY <2>1, <2>2 DEF SweeperExit, Connect, Signal, StopCall, vars
<1>5. sweeper' \in [pc : {"none", "looping", "exited"}, running : BOOLEAN]
  BY <1>0 DEF SharedTyped, SweeperExit, Connect, Signal, StopCall, DeadlinePasses, vars
<1>6. TypeOK'
  BY <1>0, <1>1, <1>2, <1>3, <1>4, <1>5, TypeParts, TypePartsNext DEF SharedTyped
<1>7. Open' = Open /\ \A r \in Reactors : Owned(r)' = Owned(r)
  BY <1>1 DEF Open, Owned
<1>8. MainKnown' /\ StartKnown'
  BY <1>1, <1>4 DEF IInv, MainKnown, StartKnown
<1>9. SubsKnown'
  BY <1>1, <1>4 DEF IInv, SubsKnown, SubKnown, Owned
<1>10. PeersKnown'
  BY <1>2, <1>7 DEF IInv, PeersKnown
<1>11. FdsOwnedOnce'
  BY <1>1, <1>7 DEF IInv, FdsOwnedOnce
<1>12. NoLostWakeup'
  BY <1>1 DEF IInv, NoLostWakeup, Unseen
<1> QED
  BY <1>6, <1>8, <1>9, <1>10, <1>11, <1>12 DEF IInv

\* The invariant holds before Run.
LEMMA InitIInv == Init => IInv
<1> SUFFICES ASSUME Init PROVE IInv
  OBVIOUS
<1>0. 0 \in 0..MaxAccepts /\ 0 \in 0..ChannelCapacity /\ 1 \in Reactors /\ 1 \in 1..(SubReactorCount + 1)
  BY ServerAssumption, ReactorsFacts
<1>1. main \in MainRecord /\ (main.held # NoConn <=> main.pc = "enqueue")
  BY <1>0 DEF Init, MainRecord, MainLabels, ServerState
<1>2. SharedTyped
  BY <1>0 DEF Init, SharedTyped, SubRecord, ControlRecord, PeersRecord, SubLabels, ServerState
<1>3. TypeOK
  BY <1>1, <1>2, TypeParts
<1>4. /\ main.pc = "start" /\ ~main.threw /\ main.loop = 1 /\ main.held = NoConn
      /\ \A r \in Reactors : /\ sub[r].pc = "created" /\ sub[r].m_state = "Created"
                             /\ sub[r].clients = {} /\ ~sub[r].failed
                             /\ control[r].pending = {} /\ ~control[r].stop /\ ~control[r].force
      /\ peers.backlog = {} /\ peers.queued = {}
  BY DEF Init
<1>5. MainKnown /\ StartKnown
  <2>1. \A r \in Reactors : r >= 1
    BY DEF Reactors
  <2> QED
    BY <1>4, <2>1 DEF MainKnown, StartKnown
<1>6. \A r \in Reactors : Owned(r) = {}
  BY <1>4 DEF Owned
<1>7. SubsKnown
  BY <1>4, <1>6 DEF SubsKnown, SubKnown
<1>8. Open = {}
  BY <1>3, <1>4, <1>6, OwnedTyped
<1>9. PeersKnown /\ FdsOwnedOnce
  BY <1>4, <1>6, <1>8 DEF PeersKnown, FdsOwnedOnce
<1>10. NoLostWakeup
  BY <1>4 DEF NoLostWakeup, Unseen
<1> QED
  BY <1>3, <1>5, <1>7, <1>9, <1>10 DEF IInv

\* Every step keeps it.
LEMMA NextIInv == IInv /\ [Next]_vars => IInv'
BY MainKeepsIInv, SubKeepsIInv, WorldKeepsIInv DEF Next

\* The inductive invariant holds of the control plane.
THEOREM ServerInvariance == Spec => []IInv
BY InitIInv, NextIInv, PTL DEF Spec

\* No request made under the lock of a reactor is lost: the byte is there, is about
\* to be written, or the reactor is already on its way to the lock.
THEOREM WakeupsNeverLost == Spec => []NoLostWakeup
<1>1. IInv => NoLostWakeup
  BY DEF IInv
<1> QED
  BY <1>1, ServerInvariance, PTL

\* From accept to close a descriptor has one owner, numbers are never open twice,
\* and reactors that did not fail have nothing left when they are joined.
THEOREM DescriptorsAlwaysSafe == Spec => []DescriptorsSafe
<1>1. IInv => DescriptorsSafe
  <2> SUFFICES ASSUME IInv PROVE NothingLeftBehind
    BY DEF IInv, DescriptorsSafe
  <2>1. ASSUME NEW r \in Reactors, main.pc = "cleanup", ~sub[r].failed
        PROVE  Owned(r) = {}
    <3>1. sub[r].pc \in {"created", "exited"}
      BY <2>1 DEF IInv, StartKnown
    <3> QED
      BY <2>1, <3>1 DEF IInv, SubsKnown, SubKnown, Owned
  <2> QED
    BY <2>1 DEF NothingLeftBehind
<1> QED
  BY <1>1, ServerInvariance, PTL

\* Only Start and the reactor's own thread write what belongs to a reactor.
LEMMA SubWriters ==
    ASSUME Next
    PROVE  \/ sub' = sub \/ StartReactor
           \/ \E q \in Reactors : SubStep(q) \/ SubFails(q)
BY DEF Next, MainStep, MainFails, StartSweeper, MainWait, MainEvents, MainHealth,
   MainRequestStop, MainRequestForceStop, MainSkipStopped, MainNotify, MainAllRequested,
   MainAccept, MainAcceptDone, MainInitClientFails, MainEnqueClient, MainProgress,
   MainStopSweeper, MainJoinSweeper, MainJoin, MainCleanup, StartFails, MainWaitFails,
   MainAcceptFails, Throw, SweeperExit, Connect, Signal, StopCall, DeadlinePasses

\* A reactor that drains or has stopped takes no client, not even one queued before
\* the request.
THEOREM NoClientEverAfterStop == Spec => NoClientAfterStop
<1> DEFINE Taken == \A r \in Reactors : sub'[r].m_state \in {"Draining", "Stopped"} =>
                        sub'[r].clients \subseteq sub[r].clients
<1>1. IInv /\ [Next]_vars => [Taken]_vars
  <2> SUFFICES ASSUME IInv, Next PROVE Taken
    OBVIOUS
  <2>0. SharedTyped /\ SubsKnown /\ TypeOK /\ main \in MainRecord
    BY TypeParts DEF IInv
  <2>1. ASSUME NEW q \in Reactors, SubStep(q) \/ SubFails(q)
        PROVE  Taken
    <3>1. \A r \in Reactors \ {q} : sub'[r] = sub[r]
      BY <2>0, <2>1, SubFrame
    <3>2. sub'[q].m_state \in {"Draining", "Stopped"} => sub'[q].clients \subseteq sub[q].clients
      BY <2>0, <2>1, SubOwnStep
    <3> QED
      BY <3>1, <3>2
  <2>2. CASE StartReactor
    BY <2>0, <2>2 DEF StartReactor, SharedTyped, SubRecord
  <2>3. CASE sub' = sub
    BY <2>3
  <2> QED
    BY <2>1, <2>2, <2>3, SubWriters
<1> QED
  BY <1>1, ServerInvariance, PTL DEF Spec, NoClientAfterStop

\* A response that is queued on a working connection is given up only when the
\* deadline has passed or something has failed.
THEOREM ResponsesAlwaysOutliveStop == Spec => ResponsesOutliveStop
<1> DEFINE Lost == \A r \in Reactors : \A c \in sub[r].clients \ sub'[r].clients :
                       c.client \in peers.queued =>
                           deadlinePassed \/ main.threw \/ sub'[r].failed
<1>1. IInv /\ [Next]_vars => [Lost]_vars
  <2> SUFFICES ASSUME IInv, Next PROVE Lost
    OBVIOUS
  <2>0. SharedTyped /\ SubsKnown /\ TypeOK /\ main \in MainRecord
    BY TypeParts DEF IInv
  <2>1. ASSUME NEW q \in Reactors, SubStep(q) \/ SubFails(q)
        PROVE  Lost
    <3>1. \A r \in Reactors \ {q} : sub'[r] = sub[r]
      BY <2>0, <2>1, SubFrame
    <3>2. ASSUME NEW c \in sub[q].clients \ sub'[q].clients, c.client \in peers.queued
          PROVE  deadlinePassed \/ main.threw \/ sub'[q].failed
      <4>1. CASE SubWait(q) \/ SubDrain(q) \/ SubClientEvent(q)
        <5>1. sub'[q].clients = sub[q].clients
          <6>1. CASE SubWait(q)
            BY <2>0, <6>1 DEF SubWait, SharedTyped, SubRecord
          <6>2. CASE SubDrain(q)
            BY <2>0, <6>2 DEF SubDrain, SharedTyped, SubRecord
          <6>3. CASE SubClientEvent(q)
            BY <2>0, <6>3 DEF SubClientEvent, SharedTyped, SubRecord
          <6> QED
            BY <4>1, <6>1, <6>2, <6>3
        <5> QED
          BY <3>2, <5>1
      <4>2. CASE SubForceStop(q)
        BY <2>0, <4>2 DEF SubForceStop, SubsKnown, SubKnown
      <4>3. CASE SubBeginGracefulShutdown(q)
        <5>1. CASE sub[q].m_state # "Running"
          <6>1. sub'[q].clients = sub[q].clients
            BY <2>0, <4>3, <5>1 DEF SubBeginGracefulShutdown, SharedTyped, SubRecord
          <6> QED
            BY <3>2, <6>1
        <5>2. CASE sub[q].m_state = "Running"
          <6> DEFINE kept == KeptWhileDraining(sub[q].clients)
          <6>1. sub' = [sub EXCEPT ![q].clients = kept,
                            ![q].ready = IF kept = {} THEN {} ELSE @,
                            ![q].m_state = IF kept = {} THEN "Stopped" ELSE "Draining",
                            ![q].pc = IF kept = {} THEN "exited" ELSE "clients"]
            BY <4>3, <5>2 DEF SubBeginGracefulShutdown
          <6>2. c \in kept
            BY <3>2 DEF KeptWhileDraining
          <6> HIDE DEF kept
          <6>3. sub'[q].clients = kept
            <7>1. sub \in [Reactors -> SubRecord]
              BY <2>0 DEF SharedTyped
            <7> QED
              BY <6>1, <7>1 DEF SubRecord
          <6> QED
            BY <3>2, <6>2, <6>3
        <5> QED
          BY <5>1, <5>2
      <4>4. CASE SubAddClients(q)
        <5>1. sub[q].clients \subseteq sub'[q].clients
          BY <2>0, <4>4 DEF SubAddClients, SharedTyped, SubRecord
        <5> QED
          BY <3>2, <5>1
      <4>5. CASE SubEndOfBatch(q)
        <5> DEFINE ends == sub[q].m_state = "Draining" /\ (Remaining(q) = {} \/ deadlinePassed)
        <5>1. sub' = [sub EXCEPT ![q].clients = IF ends THEN {} ELSE Remaining(q),
                                 ![q].m_state = IF ends THEN "Stopped" ELSE @,
                                 ![q].pc = IF ends THEN "exited" ELSE "wait"]
          BY <4>5 DEF SubEndOfBatch
        <5>2. c \in Remaining(q)
          BY <3>2 DEF Remaining, IInv, PeersKnown
        <5>3. ends => deadlinePassed
          BY <5>2
        <5> HIDE DEF ends
        <5>4. sub'[q].clients = IF ends THEN {} ELSE Remaining(q)
          BY <2>0, <5>1 DEF SharedTyped, SubRecord
        <5> QED
          BY <3>2, <5>2, <5>3, <5>4
      <4>6. CASE SubFails(q)
        BY <2>0, <4>6 DEF SubFails, SharedTyped, SubRecord
      <4> QED
        BY <2>1, <4>1, <4>2, <4>3, <4>4, <4>5, <4>6 DEF SubStep
    <3> QED
      BY <3>1, <3>2
  <2>2. CASE StartReactor
    BY <2>0, <2>2 DEF StartReactor, SharedTyped, SubRecord
  <2>3. CASE sub' = sub
    BY <2>3
  <2> QED
    BY <2>1, <2>2, <2>3, SubWriters
<1> QED
  BY <1>1, ServerInvariance, PTL DEF Spec, ResponsesOutliveStop

=============================================================================
