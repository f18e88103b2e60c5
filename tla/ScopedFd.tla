------------------------------- MODULE ScopedFd -------------------------------
(***************************************************************************)
(* class ScopedFd: objects that own file descriptors, and callers that     *)
(* create them, move them about, release and reset them in any order.  A   *)
(* caller keeps to the header's one rule: a descriptor that it has handed  *)
(* to an object it neither closes nor hands to another.                    *)
(***************************************************************************)
EXTENDS Integers, FiniteSets

CONSTANTS
    Objects,      \* places in memory where a ScopedFd may live
    Fds           \* descriptor numbers the kernel may give out

INVALID_FD == -1

ASSUME FdAssumption == Fds \subseteq Nat

VARIABLES
    m_fd,    \* object |-> its descriptor, for the objects that exist
    open,    \* the descriptors the kernel has open
    raw,     \* the descriptors callers hold as bare numbers
    stray    \* history: close was called on a number that was not open

fdVars == <<m_fd, open, raw, stray>>

Exists(o) == o \in DOMAIN m_fd

Valid(o) == m_fd[o] # INVALID_FD

FdInit == m_fd = [o \in {} |-> INVALID_FD] /\ open = {} /\ raw = {} /\ stray = FALSE

-----------------------------------------------------------------------------
\* ::close of every number in fds (none or one).
Close(fds) ==
    /\ open' = open \ fds
    /\ stray' = (stray \/ ~(fds \subseteq open))

\* The descriptor an object has, as a set.
Held(o) == {m_fd[o]} \ {INVALID_FD}

\* The objects with o bound to fd: o is new, or is assigned.
Bind(f, o, fd) == [x \in DOMAIN f \cup {o} |-> IF x = o THEN fd ELSE f[x]]

\* The kernel gives a caller a descriptor that is free, often one just closed.
Open(fd) ==
    /\ fd \notin open
    /\ open' = open \cup {fd} /\ raw' = raw \cup {fd}
    /\ UNCHANGED <<m_fd, stray>>

CallerCloses(fd) ==
    /\ fd \in raw
    /\ Close({fd}) /\ raw' = raw \ {fd}
    /\ UNCHANGED m_fd

\* The two constructors: ScopedFd() and ScopedFd(int).
Construct(o, fd) ==
    /\ ~Exists(o) /\ fd \in raw \cup {INVALID_FD}
    /\ m_fd' = Bind(m_fd, o, fd) /\ raw' = raw \ {fd}
    /\ UNCHANGED <<open, stray>>

\* ScopedFd(ScopedFd&&)
MoveConstruct(o, other) ==
    /\ ~Exists(o) /\ Exists(other)
    /\ m_fd' = Bind(Bind(m_fd, other, INVALID_FD), o, m_fd[other])
    /\ UNCHANGED <<open, raw, stray>>

\* Mutant: the object forgets what it had.
MoveAssign_Overwrites(o, other) ==
    /\ Exists(o) /\ Exists(other)
    /\ m_fd' = Bind(Bind(m_fd, other, INVALID_FD), o, m_fd[other])
    /\ UNCHANGED <<open, raw, stray>>

\* operator=: nothing on itself; else Reset(other.Release()), which does nothing
\* when both are empty.
MoveAssign(o, other) ==
    /\ Exists(o) /\ Exists(other)
    /\ IF o = other \/ m_fd[o] = m_fd[other]
       THEN UNCHANGED fdVars
       ELSE /\ m_fd' = Bind(Bind(m_fd, other, INVALID_FD), o, m_fd[other])
            /\ Close(Held(o))
            /\ UNCHANGED raw

Release(o) ==
    /\ Exists(o)
    /\ m_fd' = Bind(m_fd, o, INVALID_FD) /\ raw' = raw \cup Held(o)
    /\ UNCHANGED <<open, stray>>

\* Reset: to nothing, to a descriptor of the caller's, or to the one it has.
Reset(o, newFd) ==
    /\ Exists(o) /\ newFd \in raw \cup {INVALID_FD, m_fd[o]}
    /\ IF newFd = m_fd[o] THEN UNCHANGED fdVars
       ELSE /\ m_fd' = Bind(m_fd, o, newFd) /\ Close(Held(o)) /\ raw' = raw \ {newFd}

\* ~ScopedFd.
Destroy(o) ==
    /\ Exists(o)
    /\ m_fd' = [x \in DOMAIN m_fd \ {o} |-> m_fd[x]] /\ Close(Held(o))
    /\ UNCHANGED raw

FdNext ==
    \/ \E fd \in Fds : Open(fd) \/ CallerCloses(fd)
    \/ \E o \in Objects :
          \/ \E fd \in Fds \cup {INVALID_FD} : Construct(o, fd) \/ Reset(o, fd)
          \/ \E other \in Objects : MoveConstruct(o, other) \/ MoveAssign(o, other)
          \/ Release(o) \/ Destroy(o)

FdSpec == FdInit /\ [][FdNext]_fdVars

-----------------------------------------------------------------------------
\* Types; every number anyone holds is open: none is used after it was closed.
FdTypeOK ==
    /\ m_fd \in UNION {[objects -> Fds \cup {INVALID_FD}] : objects \in SUBSET Objects}
    /\ open \subseteq Fds /\ raw \subseteq open /\ stray \in BOOLEAN
    /\ \A o \in DOMAIN m_fd : Held(o) \subseteq open

\* Every open descriptor has exactly one owner, an object or a caller: nothing
\* leaks and nothing is closed by two.
OwnedOnce ==
    /\ \A o, other \in DOMAIN m_fd :
          o # other /\ Valid(o) => m_fd[o] # m_fd[other]
    /\ \A o \in DOMAIN m_fd : m_fd[o] \notin raw
    /\ open \subseteq raw \cup {m_fd[o] : o \in DOMAIN m_fd}

\* close is never called on a number that is not open, where it would hit
\* whatever the kernel has given that number to since.
NeverClosedTwice == ~stray

\* Moving, resetting and releasing ScopedFd objects in any order leaves every open
\* descriptor with one owner and closes none a second time.
DescriptorsOwned == FdTypeOK /\ OwnedOnce /\ NeverClosedTwice

=============================================================================
