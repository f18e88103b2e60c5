----------------------------- MODULE PollerAPI -----------------------------
(***************************************************************************)
(* What class Poller promises its users, whichever back end implements it: *)
(* a table of registered interests, and waits that report registered       *)
(* descriptors only, with the events asked for, an error or a hangup.      *)
(* A call that throws changes nothing.                                     *)
(***************************************************************************)
EXTENDS FiniteSets

CONSTANTS Fds       \* descriptor numbers

VARIABLES
    registered,     \* descriptor -> its interests ({}: not registered)
    events          \* descriptor -> what the last Wait reported ({}: nothing)

IoEvents == {"Read", "Write", "Error", "Hangup"}
Interests == (SUBSET {"Read", "Write"}) \ {{}}
Nothing == [fd \in Fds |-> {}]

Init == registered = Nothing /\ events = Nothing

Add(fd, interests) ==
    /\ registered[fd] = {}
    /\ registered' = [registered EXCEPT ![fd] = interests]
    /\ events' = Nothing

Modity(fd, interests) ==
    /\ registered[fd] # {}
    /\ registered' = [registered EXCEPT ![fd] = interests]
    /\ events' = Nothing

Remove(fd) ==
    /\ registered' = [registered EXCEPT ![fd] = {}]
    /\ events' = Nothing

\* A call that throws, or the end of a batch.
Consumed == events' = Nothing /\ UNCHANGED registered

Wait ==
    /\ events' \in [Fds -> SUBSET IoEvents]
    /\ \A fd \in Fds : events'[fd] # {} =>
          registered[fd] # {} /\ events'[fd] \subseteq registered[fd] \cup {"Error", "Hangup"}
    /\ UNCHANGED registered

Next ==
    \/ \E fd \in Fds, interests \in Interests : Add(fd, interests) \/ Modity(fd, interests)
    \/ \E fd \in Fds : Remove(fd)
    \/ Consumed
    \/ Wait

Spec == Init /\ [][Next]_<<registered, events>>
============================================================================
