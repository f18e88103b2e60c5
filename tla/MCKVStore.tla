------------------------------ MODULE MCKVStore -------------------------------
(***************************************************************************)
(* KVStore on a small instance: the values the .cfg cannot write.          *)
(***************************************************************************)
EXTENDS KVStore, TLC

\* EXPIRE with an illegal argument and with two different times, so that a
\* later EXPIRE can move a key's instant forwards and backwards.
MCSeconds == {0, 1, 2}

\* Keys are interchangeable, and so are values; everything the run checks is a
\* safety property.
MCSymmetry == Permutations(Keys) \cup Permutations(Values)

=============================================================================
