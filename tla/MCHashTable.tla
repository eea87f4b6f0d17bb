----------------------------- MODULE MCHashTable -----------------------------
(***************************************************************************)
(* Small tables: InlineLength 4, growing to 6.  All keys start at the same *)
(* slot of 4, and at two of 6.  Every jump below reaches all slots of 4;   *)
(* of 6, that of k1 and k2 does, while that of k3 reaches three slots with *)
(* MCMove, so that k1, k2 and a tombstone can fill them but no growth is   *)
(* caught in it, and two with CyclicMove.  From CyclicStart k1 and k2 then *)
(* take both before k3 is moved.                                           *)
(***************************************************************************)
EXTENDS HashTable, TLC
CONSTANTS k1, k2, k3

MCStart == (k1 :> 0) @@ (k2 :> 4) @@ (k3 :> 12)
MCMove == (k1 :> 5) @@ (k2 :> 7) @@ (k3 :> 4)
CyclicStart == (k1 :> 0) @@ (k2 :> 9) @@ (k3 :> 12)
CyclicMove == (k1 :> 5) @@ (k2 :> 7) @@ (k3 :> 9)
===============================================================================
