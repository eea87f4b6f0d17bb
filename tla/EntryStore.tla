------------------------------ MODULE EntryStore ------------------------------
(***************************************************************************)
(* What a pool promises its users (closures, lists, hash tables, strings,  *)
(* big integers, heap variables): allocation hands out a handle nobody     *)
(* holds, the entry behind a fresh handle is all zeros, and the content    *)
(* behind a handle changes only when its holder writes to it.              *)
(***************************************************************************)
CONSTANTS
  Content,  \* what an entry can hold
  Zero      \* the content of zeroed memory

VARIABLE store   \* handle -> content of its entry

Init == store = [h \in {} |-> Zero]

Alloc(h) ==
  /\ h \notin DOMAIN store
  /\ store' = [x \in DOMAIN store \cup {h} |-> IF x = h THEN Zero ELSE store[x]]

Write(h, c) ==
  /\ h \in DOMAIN store
  /\ store' = [store EXCEPT ![h] = c]

Next ==
  \/ \E h \in DOMAIN store' : Alloc(h)
  \/ \E h \in DOMAIN store, c \in Content : Write(h, c)

Spec == Init /\ [][Next]_store
===============================================================================
