------------------------------ MODULE MCPoller ------------------------------
(***************************************************************************)
(* Poller on a small instance: three descriptors, and a buffer for one     *)
(* event that may grow to two, so that a wait can leave some of them out.  *)
(***************************************************************************)
EXTENDS Poller

\* Idle, readable, writable, both, half closed by the peer, closed, reset.
MCConditions ==
    {{}, {"IN"}, {"OUT"}, {"IN", "OUT"}, {"IN", "RDHUP"}, {"IN", "OUT", "HUP", "RDHUP"},
     {"IN", "OUT", "ERR", "HUP", "RDHUP"}}

============================================================================
