------------------------------ MODULE HashTable ------------------------------
(***************************************************************************)
(* One table of data/hashtable.c: open addressing with double hashing.     *)
(* The low half of a key's hash says where its probe starts, the high half *)
(* how far it jumps.  A table never shrinks; it grows by half when three   *)
(* quarters of its slots are used, and then moves its entries one by one.  *)
(*                                                                         *)
(* A probe is one step here: it ends at the key's slot or at the first     *)
(* slot never used, or it cycles over other slots for ever ("hung").  The  *)
(* migration loop is one step per slot.                                    *)
(***************************************************************************)
EXTENDS Integers, FiniteSets

CONSTANTS
  Key, Val,
  NOTHING,        \* IT_NOTHING: a slot never used, a value never stored
  TOMBSTONE,      \* ITX_TOMBSTONE: the slot of a deleted key
  ABSENT,         \* the NULL sbHash_find_value returns for a missing key
  HashStart,      \* low 32 bits of the hash of a key
  HashMove,       \* high 32 bits of the hash of a key
  InlineLength,   \* INLINE_TABLE_LENGTH (64)
  InitialSizes,   \* the sizes callers of sbHash_create ask for
  MaxCapacity     \* bound: an insertion that would grow beyond is not tried

ASSUME HashAssumption ==
  /\ NOTHING \notin Key \cup Val
  /\ TOMBSTONE \notin Key \cup Val \cup {NOTHING}
  /\ ABSENT \notin Val \cup {NOTHING}
  /\ HashStart \in [Key -> Nat]
  /\ HashMove \in [Key -> Nat \ {0}]
  /\ InlineLength \in Nat /\ InlineLength >= 4
  /\ InitialSizes \subseteq Nat
  /\ MaxCapacity \in Nat /\ InlineLength <= MaxCapacity
  /\ \A size \in InitialSizes : size <= MaxCapacity

VARIABLES
  pc,           \* "ready" | "rehash" | "hung" | "panic"
  capacity, keys, values, used, n_elems,
  refs,         \* value -> sbV_retain minus sbV_release calls made on it
  pending,      \* the value being inserted while the table grows
  new_size, new_keys, new_values, i   \* set_hashtbl_size's locals

growth == <<pending, new_size, new_keys, new_values, i>>
vars == <<pc, capacity, keys, values, used, n_elems, refs, growth>>

Slots(n) == 0 .. n - 1

(* The jump of k in an array of n slots: the high half of its hash, raised *)
(* until it does not divide n.                                             *)
Move(k, n) ==
  CHOOSE m \in HashMove[k] .. HashMove[k] + n + 1 :
    /\ n % m # 0
    /\ \A l \in HashMove[k] .. m - 1 : n % l = 0

(* The slots a probe for k looks at in an array of n: the one after j jumps *)
Path ==
  [k \in Key |-> [n \in 1 .. MaxCapacity |->
     [j \in Slots(n) |-> (HashStart[k] + j * Move(k, n)) % n]]]
(* A plausible mistake: the length of the table's array, whichever is probed. *)
ProbeOldLength(k, n, j) == (HashStart[k] + j * Move(k, capacity)) % capacity
Probe(k, n, j) == Path[k][n][j]

(* The jumps after which a probe for k could stop.  A probe that does not  *)
(* stop within n jumps is on a cycle that avoids them all.                 *)
(* A plausible mistake: a tombstone taken for a free slot. *)
StopsAtTombstone(ks, n, k) ==
  {j \in Slots(n) : ks[Probe(k, n, j)] \in {k, NOTHING, TOMBSTONE}}
Stops(ks, n, k) == {j \in Slots(n) : ks[Probe(k, n, j)] \in {k, NOTHING}}
Cycles(ks, n, k) == Stops(ks, n, k) = {}

(* find_key_index_in_array, for a probe that stops *)
FindIndex(ks, n, k) ==
  Probe(k, n, CHOOSE j \in Stops(ks, n, k) : \A l \in Stops(ks, n, k) : j <= l)

(* What sbHash_find_value answers. *)
Lookup(ks, vs, n, k) ==
  IF Cycles(ks, n, k) \/ ks[FindIndex(ks, n, k)] = NOTHING
  THEN ABSENT
  ELSE vs[FindIndex(ks, n, k)]

(* Plausible mistakes: a forgotten sbV_retain, an array one slot too long, *)
(* a growth by a quarter.                                                  *)
RetainedNot(r, v) == r
EmptyOneMore(n) == [s \in 0 .. n |-> NOTHING]
GrownByQuarter(n) == (n * 5) \div 4

Retained(r, v) == [r EXCEPT ![v] = @ + 1]
Released(r, v) == IF v \in Val THEN [r EXCEPT ![v] = @ - 1] ELSE r

Empty(n) == [s \in Slots(n) |-> NOTHING]
Threshold(n) == (n * 3) \div 4
GrownSize(n) == (n * 3) \div 2

-------------------------------------------------------------------------------
(* new_tbl: at least the inline length *)
Init ==
  /\ pc = "ready"
  /\ \E size \in InitialSizes :
       capacity = IF size < InlineLength THEN InlineLength ELSE size
  /\ keys = Empty(capacity) /\ values = Empty(capacity)
  /\ used = 0 /\ n_elems = 0
  /\ refs = [v \in Val |-> 0]
  /\ pending = NOTHING /\ new_size = 0 /\ i = 0
  /\ new_keys = Empty(0) /\ new_values = Empty(0)

(* A probe that never stops: the call never returns. *)
Hang(k) ==
  /\ pc = "ready"
  /\ Cycles(keys, capacity, k)
  /\ pc' = "hung"
  /\ UNCHANGED <<capacity, keys, values, used, n_elems, refs, growth>>

(* set_key on a key that is there: the old value is released. *)
Replace(k, v) ==
  LET s == FindIndex(keys, capacity, k)
  IN  /\ pc = "ready"
      /\ ~Cycles(keys, capacity, k)
      /\ keys[s] = k
      /\ refs' = Retained(Released(refs, values[s]), v)
      /\ values' = [values EXCEPT ![s] = v]
      /\ UNCHANGED <<pc, capacity, keys, used, n_elems, growth>>

(* A plausible mistake: the key not counted in the table's length. *)
AddUncounted(k, v) ==
  LET s == FindIndex(keys, capacity, k)
  IN  /\ pc = "ready" /\ ~Cycles(keys, capacity, k) /\ keys[s] = NOTHING
      /\ used + 1 < Threshold(capacity)
      /\ keys' = [keys EXCEPT ![s] = k] /\ values' = [values EXCEPT ![s] = v]
      /\ used' = used + 1
      /\ refs' = Retained(refs, v)
      /\ UNCHANGED <<pc, capacity, n_elems, growth>>

(* set_key on a new key that leaves the table below its threshold *)
Add(k, v) ==
  LET s == FindIndex(keys, capacity, k)
  IN  /\ pc = "ready"
      /\ ~Cycles(keys, capacity, k)
      /\ keys[s] = NOTHING
      /\ used + 1 < Threshold(capacity)
      /\ keys' = [keys EXCEPT ![s] = k]
      /\ values' = [values EXCEPT ![s] = v]
      /\ used' = used + 1 /\ n_elems' = n_elems + 1
      /\ refs' = Retained(refs, v)
      /\ UNCHANGED <<pc, capacity, growth>>

(* set_key on a new key that reaches the threshold: the key is in its slot *)
(* and the slot still holds whatever value it held when the move begins.   *)
AddAndGrow(k, v) ==
  LET s == FindIndex(keys, capacity, k)
  IN  /\ pc = "ready"
      /\ ~Cycles(keys, capacity, k)
      /\ keys[s] = NOTHING
      /\ used + 1 >= Threshold(capacity)
      /\ GrownSize(capacity) <= MaxCapacity
      /\ keys' = [keys EXCEPT ![s] = k]
      /\ used' = used + 1 /\ n_elems' = n_elems + 1
      /\ pc' = "rehash"
      /\ pending' = v
      /\ new_size' = GrownSize(capacity)
      /\ new_keys' = Empty(new_size') /\ new_values' = Empty(new_size')
      /\ i' = 0
      /\ UNCHANGED <<capacity, values, refs>>

(* set_hashtbl_size: one turn of its loop, with set_key_for_rehash and its  *)
(* "Duplicate key found while rehashing hash table somehow!"               *)
Migrate ==
  LET t == FindIndex(new_keys, new_size, keys[i])
  IN  /\ pc = "rehash"
      /\ i < capacity
      /\ \/ /\ keys[i] \in {NOTHING, TOMBSTONE}
            /\ i' = i + 1
            /\ UNCHANGED <<pc, new_keys, new_values>>
         \/ /\ keys[i] \in Key
            /\ Cycles(new_keys, new_size, keys[i])
            /\ pc' = "hung"
            /\ UNCHANGED <<i, new_keys, new_values>>
         \/ /\ keys[i] \in Key
            /\ ~Cycles(new_keys, new_size, keys[i])
            /\ IF new_keys[t] = NOTHING
               THEN /\ new_keys' = [new_keys EXCEPT ![t] = keys[i]]
                    /\ new_values' = [new_values EXCEPT ![t] = values[i]]
                    /\ i' = i + 1
                    /\ UNCHANGED pc
               ELSE /\ pc' = "panic"
                    /\ UNCHANGED <<i, new_keys, new_values>>
      /\ UNCHANGED <<capacity, keys, values, used, n_elems, refs, pending, new_size>>

(* The new arrays take over and set_key resumes: it retains the value and  *)
(* stores it through the pointer it took before the move, into the array   *)
(* that has just been given up.                                            *)
FinishGrowth ==
  /\ pc = "rehash"
  /\ i = capacity
  /\ pc' = "ready"
  /\ capacity' = new_size /\ keys' = new_keys /\ values' = new_values
  /\ refs' = Retained(refs, pending)
  /\ pending' = NOTHING /\ new_size' = 0 /\ i' = 0
  /\ new_keys' = Empty(0) /\ new_values' = Empty(0)
  /\ UNCHANGED <<used, n_elems>>

(* h[k] = v in the language: sbHash_find_lvalue_ref, then sbVar_set_value  *)
(* through the reference.  The slot is written whether or not k is in it.  *)
Assign(k, v) ==
  LET s == FindIndex(keys, capacity, k)
  IN  /\ pc = "ready"
      /\ ~Cycles(keys, capacity, k)
      /\ refs' = Retained(Released(refs, values[s]), v)
      /\ values' = [values EXCEPT ![s] = v]
      /\ UNCHANGED <<pc, capacity, keys, used, n_elems, growth>>

(* A plausible mistake: the slot of the deleted key made free again. *)
DeleteAsFree(k) ==
  LET s == FindIndex(keys, capacity, k)
  IN  /\ pc = "ready" /\ ~Cycles(keys, capacity, k) /\ keys[s] = k
      /\ refs' = Released(refs, values[s])
      /\ keys' = [keys EXCEPT ![s] = NOTHING]
      /\ n_elems' = n_elems - 1
      /\ UNCHANGED <<pc, capacity, values, used, growth>>

(* sbHash_delete of a key that is there.  Nothing calls it yet. *)
Delete(k) ==
  LET s == FindIndex(keys, capacity, k)
  IN  /\ pc = "ready"
      /\ ~Cycles(keys, capacity, k)
      /\ keys[s] = k
      /\ refs' = Released(refs, values[s])
      /\ keys' = [keys EXCEPT ![s] = TOMBSTONE]
      /\ n_elems' = n_elems - 1
      /\ UNCHANGED <<pc, capacity, values, used, growth>>

Insert(k, v) == Replace(k, v) \/ Add(k, v) \/ AddAndGrow(k, v)

Next ==
  \/ \E k \in Key, v \in Val : Insert(k, v) \/ Assign(k, v)
  \/ \E k \in Key : Delete(k) \/ Hang(k)
  \/ Migrate
  \/ FinishGrowth

(* The loops of a call run to their end: one thread, nothing preempts it.  *)
Spec == Init /\ [][Next]_vars
FairSpec == Spec /\ WF_vars(Migrate \/ FinishGrowth)

-------------------------------------------------------------------------------
(* The types of the table and of the loop that moves it. *)
TypeOK ==
  /\ pc \in {"ready", "rehash", "hung", "panic"}
  /\ capacity \in InlineLength .. MaxCapacity
  /\ keys \in [Slots(capacity) -> Key \cup {NOTHING, TOMBSTONE}]
  /\ values \in [Slots(capacity) -> Val \cup {NOTHING}]
  /\ used \in Nat /\ n_elems \in Int
  /\ refs \in [Val -> Int]
  /\ pending \in Val \cup {NOTHING}
  /\ new_size \in 0 .. MaxCapacity
  /\ new_keys \in [Slots(new_size) -> Key \cup {NOTHING}]
  /\ new_values \in [Slots(new_size) -> Val \cup {NOTHING}]
  /\ i \in Nat

Occupied(ks, n) == {s \in Slots(n) : ks[s] # NOTHING}
Holding(ks, n) == {s \in Slots(n) : ks[s] \in Key}
Findable(ks, n) ==
  \A s \in Holding(ks, n) : ~Cycles(ks, n, ks[s]) /\ FindIndex(ks, n, ks[s]) = s

(* Every key in a slot is found there by its own probe, so no key is in    *)
(* two slots: neither tombstones nor entries added on the way, nor the     *)
(* move to a longer array, ever cut a probe short (find_key_index_in_array,*)
(* set_hashtbl_size).                                                      *)
KeysFindable == Findable(keys, capacity) /\ Findable(new_keys, new_size)

(* Moving the entries never meets a key twice (set_key_for_rehash). *)
NoDuplicateOnRehash == pc # "panic"

(* What length reports is the number of keys present, through deletions    *)
(* and reinsertions that leave tombstones behind (sbHash_get_size).        *)
SizeExact == n_elems = Cardinality(Holding(keys, capacity))

(* Between calls less than three quarters of the slots have ever been used *)
(* since the arrays were made, so a probe always has a free slot to aim    *)
(* for; used counts tombstones too, so deletions cannot exhaust the table. *)
RoomToProbe ==
  /\ Cardinality(Occupied(keys, capacity)) <= used
  /\ pc = "ready" => used < Threshold(capacity)
  /\ pc = "rehash" => used < Threshold(new_size)

(* Every string a lookup can return is retained: a value has at least as   *)
(* many references counted as there are keys that map to it, across        *)
(* replacement, growth and deletion (sbV_retain and sbV_release in set_key,*)
(* sbVar_set_value and delete_key).                                        *)
ValuesRetained ==
  \A v \in Val :
    refs[v] >= Cardinality({s \in Holding(keys, capacity) : values[s] = v})

(* The table behaves as a map in which no operation on one key changes     *)
(* what a lookup of another returns, moves included (sbHash_find_value).   *)
Answers == [k \in Key |-> Lookup(keys, values, capacity, k)]
Map == INSTANCE KVMap WITH map <- Answers
ImplementsKVMap == Map!Spec

(* The slots a probe for k can come to, as many as its jumps reach.        *)
Reached(k, n) == {Probe(k, n, j) : j \in Slots(n)}

(* The keys that are moved cannot fill all the slots that one of them      *)
(* reaches before its turn.  So it is whenever their jumps have no factor  *)
(* in common with the new length, and for fewer keys also when they have.  *)
KeysHaveRoom ==
  \A s \in Holding(keys, capacity) :
    Cardinality(Holding(keys, capacity)) <= Cardinality(Reached(keys[s], new_size))

(* A call that makes the table grow returns, if each key that is moved     *)
(* reaches as many slots of the new arrays as there are keys; without that *)
(* the probe of set_key_for_rehash may never end (run hash_cycle).         *)
GrowthEnds == (pc = "rehash" /\ KeysHaveRoom) ~> pc = "ready"

(* The comment over both uses of the probe: "now, we either found the      *)
(* current entry for this key, or we found an empty slot that fits this    *)
(* key" (set_key, set_key_for_rehash).                                     *)
ProbeEnds == pc # "hung"
===============================================================================
