---------------------------- MODULE MCSymbolTable ----------------------------
(***************************************************************************)
(* Five texts in a table of 4 slots that grows to 6 and to 9, with hashes  *)
(* that collide at every length; seven symbols, so that sentinels can be   *)
(* made between the texts.  The jump of t3 shares a factor with 6: its     *)
(* probe cycles when two certain texts are in the table, as an insertion   *)
(* or in the middle of a growth.                                           *)
(***************************************************************************)
EXTENDS SymbolTable, TLC
CONSTANTS empty, t1, t2, t3, t4

MCStart == (empty :> 0) @@ (t1 :> 9) @@ (t2 :> 0) @@ (t3 :> 3) @@ (t4 :> 6)
MCMove == (empty :> 5) @@ (t1 :> 7) @@ (t2 :> 11) @@ (t3 :> 9) @@ (t4 :> 7)
MCSymbols == 1 .. 7
===============================================================================
