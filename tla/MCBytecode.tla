----------------------------- MODULE MCBytecode -----------------------------
(***************************************************************************)
(* Bytes of eight values, so that 1-, 2-, 4- and 8-byte parameters all fit *)
(* the checker's integers: the widths end at 4, 31, 2047 and 2^23 - 1.     *)
(* Args holds both sides of every end, and the three markers 2, 3 and 4.   *)
(***************************************************************************)
EXTENDS Bytecode

Boundaries ==
  {0, 1, 2, 3, 4, 5, 7, 31, 32, 2047, 2048, 8388607,
   -1, -31, -32, -2047, -2048, -8388608}
===============================================================================
