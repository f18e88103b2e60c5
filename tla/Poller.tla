------------------------------- MODULE Poller -------------------------------
(***************************************************************************)
(* The two back ends of Poller, driven by the calls SubReactor makes.      *)
(*                                                                         *)
(* EpollPoller keeps the interests in m_interests and in the kernel's      *)
(* interest list, SubReactor keeps them once more in registeredEvents; a   *)
(* failing system call must not let the three drift apart.  Descriptor     *)
(* numbers are reused by the kernel as soon as they are closed.            *)
(***************************************************************************)
EXTENDS Integers, Sequences, FiniteSetsExt, SequencesExt

CONSTANTS
    Fds,                        \* descriptor numbers
    Conditions,                 \* the sets of native conditions a descriptor may be in
    INITIAL_EVENT_CAPACITY,
    MAX_EVENT_CAPACITY

ASSUME PollerAssumption ==
    /\ IsFiniteSet(Fds)
    /\ Conditions \subseteq SUBSET {"IN", "OUT", "ERR", "HUP", "RDHUP"}
    /\ INITIAL_EVENT_CAPACITY \in Nat \ {0}
    /\ MAX_EVENT_CAPACITY \in Nat /\ MAX_EVENT_CAPACITY >= INITIAL_EVENT_CAPACITY

VARIABLES
    backend,        \* which class MakePoller created
    m_interests,    \* descriptor -> interests in the poller's table ({}: none)
    kernel,         \* descriptor -> interests in the kernel's list ({}: none)
    readyList,      \* the order in which epoll_wait serves the kernel's list
    capacity,       \* m_nativeEvents.size()
    m_clients,      \* descriptor -> registeredEvents of its connection ({}: none)
    events,         \* descriptor -> events of the batch being handled
    failed,         \* Run has ended by an exception
    removeFailed,   \* history: descriptors EPOLL_CTL_DEL failed for
    passedOver      \* history: descriptor -> waits in a row that did not report
                    \* it although it was ready

vars == <<backend, m_interests, kernel, readyList, capacity, m_clients, events,
          failed, removeFailed, passedOver>>

API == INSTANCE PollerAPI WITH registered <- m_interests

Interests == API!Interests
Nothing == API!Nothing

----------------------------------------------------------------------------
(* The system calls (external) and the conversions around them *)

\* Mutant: readability is always asked for.
Requested_AlwaysRead(interests) ==
    {"IN"} \cup (IF "Write" \in interests THEN {"OUT"} ELSE {})
    \cup (IF backend = "epoll" THEN {"RDHUP"} ELSE {})

\* ToNativeEvents: epoll also asks for the peer's half close; error and hangup
\* are reported without being asked for.
Requested(interests) ==
    (IF "Read" \in interests THEN {"IN"} ELSE {})
    \cup (IF "Write" \in interests THEN {"OUT"} ELSE {})
    \cup (IF backend = "epoll" THEN {"RDHUP"} ELSE {})

\* FromNativeEvents.
FromNativeEvents(native) ==
    (IF "IN" \in native THEN {"Read"} ELSE {})
    \cup (IF "OUT" \in native THEN {"Write"} ELSE {})
    \cup (IF native \cap {"ERR", "NVAL"} # {} THEN {"Error"} ELSE {})
    \cup (IF native \cap {"HUP", "RDHUP"} # {} THEN {"Hangup"} ELSE {})

\* What the kernel reports of a descriptor in the given condition: only what
\* was requested, errors and hangups; poll reports a closed descriptor as NVAL.
Reported(fd, interests, condition) ==
    IF interests = {} THEN {}
    ELSE IF m_clients[fd] = {} THEN {"NVAL"}
    ELSE condition \cap (Requested(interests) \cup {"ERR", "HUP"})

\* The members of S in the list, in its order.
Sublist(list, S) ==
    LET kept[i \in 0 .. Len(list)] ==
            IF i = 0 THEN <<>>
            ELSE IF list[i] \in S THEN Append(kept[i - 1], list[i]) ELSE kept[i - 1]
    IN  kept[Len(list)]

Without(list, S) == Sublist(list, Fds \ S)

\* The descriptor is closed: the kernel forgets it.
Close(S) ==
    /\ kernel' = [fd \in Fds |-> IF fd \in S THEN {} ELSE kernel[fd]]
    /\ readyList' = Without(readyList, S)

----------------------------------------------------------------------------

Init ==
    /\ backend \in {"epoll", "poll"}
    /\ m_interests = Nothing
    /\ kernel = Nothing
    /\ readyList = <<>>
    /\ capacity = INITIAL_EVENT_CAPACITY
    /\ m_clients = Nothing
    /\ events = Nothing
    /\ failed = FALSE
    /\ removeFailed = {}
    /\ passedOver = [fd \in Fds |-> 0]

\* AddClientInLoop for a fresh descriptor, of a connection that wants to read:
\* Add registers it, or throws (the table still has the number, or
\* EPOLL_CTL_ADD fails) and the connection is dropped and closed.
AddClientInLoop(fd, ctlFails) ==
    /\ ~failed
    /\ m_clients[fd] = {}
    /\ ctlFails => backend = "epoll"
    /\ LET throws == m_interests[fd] # {} \/ ctlFails
       IN  IF throws
           THEN UNCHANGED <<m_interests, kernel, readyList, m_clients>>
           ELSE /\ m_interests' = [m_interests EXCEPT ![fd] = {"Read"}]
                /\ m_clients' = [m_clients EXCEPT ![fd] = {"Read"}]
                /\ IF backend = "epoll"
                   THEN /\ kernel' = [kernel EXCEPT ![fd] = {"Read"}]
                        /\ readyList' = Append(readyList, fd)
                   ELSE UNCHANGED <<kernel, readyList>>
    /\ events' = Nothing
    /\ UNCHANGED <<backend, capacity, failed, removeFailed, passedOver>>

\* The catch blocks of Run: m_clients.clear() closes every connection.
RunFails ==
    /\ failed' = TRUE
    /\ m_clients' = Nothing
    /\ Close(Fds)
    /\ events' = Nothing
    /\ UNCHANGED <<backend, m_interests, capacity, removeFailed, passedOver>>

\* Mutant: a failing EPOLL_CTL_MOD goes unnoticed.
RefreshConnectionInterest_Swallows(fd, desired, ctlFails) ==
    /\ ~failed
    /\ m_clients[fd] # {}
    /\ desired # m_clients[fd]
    /\ m_interests' = [m_interests EXCEPT ![fd] = desired]
    /\ m_clients' = [m_clients EXCEPT ![fd] = desired]
    /\ kernel' = IF backend = "epoll" /\ ~ctlFails THEN [kernel EXCEPT ![fd] = desired] ELSE kernel
    /\ events' = Nothing
    /\ UNCHANGED <<backend, readyList, capacity, failed, removeFailed, passedOver>>

\* RefreshConnectionInterest: Modity is called only when the interests change,
\* and what it throws ends the reactor.
RefreshConnectionInterest(fd, desired, ctlFails) ==
    /\ ~failed
    /\ m_clients[fd] # {}
    /\ desired # m_clients[fd]
    /\ IF m_interests[fd] = {} \/ (ctlFails /\ backend = "epoll")
       THEN RunFails
       ELSE /\ m_interests' = [m_interests EXCEPT ![fd] = desired]
            /\ m_clients' = [m_clients EXCEPT ![fd] = desired]
            /\ kernel' = IF backend = "epoll" THEN [kernel EXCEPT ![fd] = desired] ELSE kernel
            /\ events' = Nothing
            /\ UNCHANGED <<backend, readyList, capacity, failed, removeFailed, passedOver>>

\* Mutant: the connection is erased without Remove.
CleanupClosedConnection_NoRemove(fd, ctlFails) ==
    /\ ~failed
    /\ m_clients[fd] # {}
    /\ m_clients' = [m_clients EXCEPT ![fd] = {}]
    /\ Close({fd})
    /\ events' = Nothing
    /\ passedOver' = [passedOver EXCEPT ![fd] = 0]
    /\ UNCHANGED <<backend, m_interests, removeFailed, capacity, failed>>

\* CleanupClosedConnections for one closed connection: Remove may throw, which
\* is logged; the connection is erased and its descriptor closed either way.
CleanupClosedConnection(fd, ctlFails) ==
    /\ ~failed
    /\ m_clients[fd] # {}
    /\ ctlFails => backend = "epoll"
    /\ m_interests' = IF ctlFails THEN m_interests ELSE [m_interests EXCEPT ![fd] = {}]
    /\ removeFailed' = IF ctlFails THEN removeFailed \cup {fd} ELSE removeFailed
    /\ m_clients' = [m_clients EXCEPT ![fd] = {}]
    /\ Close({fd})
    /\ events' = Nothing
    /\ passedOver' = [passedOver EXCEPT ![fd] = 0]
    /\ UNCHANGED <<backend, capacity, failed>>

\* Mutant: the buffer never grows.
NextCapacity_Fixed(result) == capacity

\* EpollPoller::Wait doubles a buffer that was filled, up to the maximum.
NextCapacity(result) ==
    IF result = capacity /\ capacity < MAX_EVENT_CAPACITY
    THEN Min({capacity * 2, MAX_EVENT_CAPACITY})
    ELSE capacity

\* EpollPoller::Wait with every descriptor in the given condition.  The kernel
\* serves its list in turn: descriptors that were reported go to its end.
EpollWait(condition) ==
    LET native == [fd \in Fds |-> Reported(fd, kernel[fd], condition[fd])]
        ready == Sublist(readyList, {fd \in Fds : native[fd] # {}})
        taken == SubSeq(ready, 1, Min({capacity, Len(ready)}))
        reported == ToSet(taken)
    IN  /\ events' = [fd \in Fds |->
               IF fd \in reported THEN FromNativeEvents(native[fd]) ELSE {}]
        /\ readyList' = Without(readyList, reported) \o taken
        /\ capacity' = NextCapacity(Len(taken))
        /\ passedOver' = [fd \in Fds |->
               IF native[fd] # {} /\ fd \notin reported THEN passedOver[fd] + 1 ELSE 0]

\* PollPoller::Wait asks about everything in its table and reports everything.
PollWait(condition) ==
    /\ events' = [fd \in Fds |->
           FromNativeEvents(Reported(fd, m_interests[fd], condition[fd]))]
    /\ UNCHANGED <<readyList, capacity, passedOver>>

Wait(condition) ==
    /\ ~failed
    /\ events = Nothing
    /\ IF backend = "epoll" THEN EpollWait(condition) ELSE PollWait(condition)
    /\ UNCHANGED <<backend, m_interests, kernel, m_clients, failed, removeFailed>>

\* epoll_wait or poll fails for another reason than EINTR.
WaitFails == ~failed /\ events = Nothing /\ RunFails

\* A batch that changes no registration.
BatchEnds ==
    /\ events # Nothing
    /\ events' = Nothing
    /\ UNCHANGED <<backend, m_interests, kernel, readyList, capacity, m_clients,
                   failed, removeFailed, passedOver>>

Next ==
    \/ \E fd \in Fds, ctlFails \in BOOLEAN :
          \/ AddClientInLoop(fd, ctlFails)
          \/ CleanupClosedConnection(fd, ctlFails)
          \/ \E desired \in Interests : RefreshConnectionInterest(fd, desired, ctlFails)
    \/ \E condition \in [Fds -> Conditions] : Wait(condition)
    \/ WaitFails
    \/ BatchEnds

Spec == Init /\ [][Next]_vars

----------------------------------------------------------------------------
(* Properties *)

\* Types; the buffer for epoll_wait keeps between its two sizes, and the kernel's
\* list has each descriptor once.
TypeOK ==
    /\ backend \in {"epoll", "poll"}
    /\ m_interests \in [Fds -> SUBSET {"Read", "Write"}]
    /\ kernel \in [Fds -> SUBSET {"Read", "Write"}]
    /\ readyList \in BoundedSeq(Fds, Cardinality(Fds))
    /\ capacity \in INITIAL_EVENT_CAPACITY .. MAX_EVENT_CAPACITY
    /\ m_clients \in [Fds -> SUBSET {"Read", "Write"}]
    /\ events \in [Fds -> SUBSET API!IoEvents]
    /\ failed \in BOOLEAN
    /\ removeFailed \subseteq Fds
    /\ passedOver \in [Fds -> Nat]

\* While the reactor runs, the three records of a connection's interests agree:
\* registeredEvents, the poller's table and, with epoll, the kernel's list, which
\* holds nothing else.  A stale copy would lose events, since RefreshConnection-
\* Interest skips Modity when registeredEvents already equals what it wants.
CopiesAgree ==
    /\ \A fd \in Fds : m_clients[fd] # {} => m_interests[fd] = m_clients[fd]
    /\ kernel = IF backend = "epoll" THEN m_clients ELSE Nothing
    /\ ToSet(readyList) = {fd \in Fds : kernel[fd] # {}} /\ IsInjective(readyList)

\* The interest of a descriptor is kept three times, in the reactor's connection,
\* in the poller's table and in the kernel; failing system calls never make them
\* differ for a connection the reactor still serves.
InterestsConsistent == TypeOK /\ CopiesAgree

\* The poller's table keeps a descriptor that no connection has only after
\* EPOLL_CTL_DEL failed for it (or the reactor has ended): a later connection
\* with that number is refused for no other reason than a failing system call.
GhostsForACause ==
    \A fd \in Fds : m_interests[fd] # {} /\ m_clients[fd] = {} => failed \/ fd \in removeFailed

\* A wait reports connections the reactor has, even though numbers are reused
\* and a failed Remove leaves its number behind.
EventsForClients ==
    \A fd \in Fds : events[fd] # {} => m_clients[fd] # {}

\* What a failed removal leaves behind is the only origin of stale entries, and
\* no event reaches a descriptor the reactor does not serve.  (A stale entry is not
\* free of cost: every later client that gets its number is refused.)
GhostsExplained == GhostsForACause /\ EventsForClients

\* The least a batch holds after k full ones in a row ...
Batch[k \in Nat] ==
    IF k = 0 THEN INITIAL_EVENT_CAPACITY ELSE Min({Batch[k - 1] * 2, MAX_EVENT_CAPACITY})

\* ... and k full batches in a row.
Served[k \in Nat] == IF k = 0 THEN 0 ELSE Served[k - 1] + Batch[k - 1]

\* Nobody starves when more descriptors are ready than a batch holds: each wait
\* that passes a ready descriptor over fills its batch, which doubles the next
\* one, so k waits in a row only if their batches hold no more than all others.
NobodyStarves ==
    \A fd \in Fds : Served[passedOver[fd]] < Cardinality(Fds)

\* Both back ends implement the interface of Poller.
ImplementsAPI == API!Spec

============================================================================
