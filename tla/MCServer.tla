------------------------------- MODULE MCServer -------------------------------
(***************************************************************************)
(* Server on a small instance.                                             *)
(***************************************************************************)
EXTENDS Server, TLC

\* Peers are interchangeable, and so are descriptor numbers; used by the run
\* that checks safety properties only.
MCSymmetry == Permutations(Clients) \cup Permutations(Fds)

=============================================================================
