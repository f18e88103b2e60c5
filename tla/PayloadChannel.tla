---------------------------- MODULE PayloadChannel ----------------------------
(***************************************************************************)
(* What framing promises its two users: a channel of payloads that neither *)
(* loses, invents, splits nor reorders any, until one side gives up.       *)
(***************************************************************************)
EXTENDS Naturals, Sequences

CONSTANT Payloads

VARIABLES
    queue,       \* payloads sent and not received
    delivered,   \* payloads received
    broken       \* the receiver has met something that is no frame

channelVars == <<queue, delivered, broken>>

Init == queue = <<>> /\ delivered = <<>> /\ broken = FALSE

Send(payload) ==
    /\ queue' = Append(queue, payload)
    /\ UNCHANGED <<delivered, broken>>

\* The receiver takes the first n payloads.
Deliver(n) ==
    /\ ~broken
    /\ delivered' = delivered \o SubSeq(queue, 1, n)
    /\ queue' = SubSeq(queue, n + 1, Len(queue))
    /\ UNCHANGED broken

Break ==
    /\ broken' = TRUE
    /\ UNCHANGED <<queue, delivered>>

Next ==
    \/ \E payload \in Payloads : Send(payload)
    \/ \E n \in 1..Len(queue) : Deliver(n)
    \/ Break

Spec == Init /\ [][Next]_channelVars

=============================================================================
