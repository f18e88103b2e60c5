----------------------------- MODULE MCSweptStore ------------------------------
(***************************************************************************)
(* SweptStore on a small instance.                                         *)
(***************************************************************************)
EXTENDS SweptStore

=============================================================================
