---------------------------- MODULE MCCFunctions ----------------------------
(***************************************************************************)
(* One list that the script starts with and one that map or filter makes;  *)
(* two texts, so that an element in another's place shows.                 *)
(***************************************************************************)
EXTENDS CFunctions
===============================================================================
