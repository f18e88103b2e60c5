----------------------------- MODULE MCConnection ------------------------------
(***************************************************************************)
(* Connection on a small instance: a header is one byte, a command two.    *)
(***************************************************************************)
EXTENDS Connection

MCRequestSize ==
    [kind \in Kinds |-> CASE kind = "command" -> 2 [] kind = "long" -> 5 [] OTHER -> 1]

MCResponseSize == [kind \in Kinds |-> IF kind = "command" THEN 2 ELSE 1]

=============================================================================
