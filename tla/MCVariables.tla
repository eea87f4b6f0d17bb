----------------------------- MODULE MCVariables -----------------------------
(***************************************************************************)
(* One slot per frame at most and two frames, so that a slot an older      *)
(* frame left dirty is used again, two closures share a variable and a     *)
(* closure captures a variable of another closure beside a local; a block  *)
(* may have no slot, so that frames start at different cells.              *)
(***************************************************************************)
EXTENDS Variables
===============================================================================
