-------------------------------- MODULE KVMap --------------------------------
(***************************************************************************)
(* What data/hashtable.c promises as it is written: a map from keys to     *)
(* values in which an operation on one key never touches another.  The one *)
(* weakness it admits: inserting a key that is not there may record the    *)
(* key with an arbitrary value instead of the given one (it does when the  *)
(* insertion makes the table grow).                                        *)
(***************************************************************************)
CONSTANTS
  Key, Val,
  ABSENT,    \* the key is not in the map
  NOTHING    \* the key is in the map, without a value

VARIABLE map

Init == map = [k \in Key |-> ABSENT]

Put(k, v) == map' = [map EXCEPT ![k] = v]

PutLosing(k) ==
  /\ map[k] = ABSENT
  /\ \E x \in Val \cup {NOTHING} : map' = [map EXCEPT ![k] = x]

Update(k, v) ==
  /\ map[k] # ABSENT
  /\ map' = [map EXCEPT ![k] = v]

Remove(k) ==
  /\ map[k] # ABSENT
  /\ map' = [map EXCEPT ![k] = ABSENT]

Next ==
  \E k \in Key :
    \/ \E v \in Val : Put(k, v) \/ Update(k, v)
    \/ PutLosing(k)
    \/ Remove(k)

Spec == Init /\ [][Next]_map
===============================================================================
