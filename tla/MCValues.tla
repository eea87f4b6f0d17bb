------------------------------ MODULE MCValues ------------------------------
(* Values with two frames of one local, and one of everything else. *)
EXTENDS Values, TLC

\* The digits of 8 and of 194, which is a bigint of three pieces.
MCLiterals == {<<2, 2>>, <<2, 1, 0, 1, 2>>}
MCResults  == {64, 72, 202}
Symmetry   == Permutations(Consts)
=============================================================================
