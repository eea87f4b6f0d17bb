-------------------------------- MODULE MCPool --------------------------------
(* Small instance: three blocks of two entries, a block table of one that  *)
(* doubles twice, entries that hold one of two contents.                   *)
EXTENDS Pool, TLC

Symmetry == Permutations(Addr)
===============================================================================
