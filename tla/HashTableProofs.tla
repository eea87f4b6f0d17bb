--------------------------- MODULE HashTableProofs ---------------------------
(***************************************************************************)
(* Proofs about HashTable.tla for every set of keys and values, every hash *)
(* function and every table length.  The invariant is that a probe for a   *)
(* key ends in the slot that holds it (HashTable's KeysFindable), in the   *)
(* table and, while it is being filled, in the array that will replace it, *)
(* which holds exactly the entries moved so far.                           *)
(***************************************************************************)
EXTENDS HashTable, FiniteSetTheorems, WellFoundedInduction, TLAPS

Lengths == 1 .. MaxCapacity
Arrays(n) == [Slots(n) -> Key \cup {NOTHING, TOMBSTONE}]

(* The array being filled holds the entries of the slots below i, and only  *)
(* those.                                                                    *)
Moved ==
  /\ i <= capacity
  /\ new_size \in Lengths /\ capacity <= new_size
  /\ \A s \in Slots(i) : keys[s] \in Key =>
       \E t \in Slots(new_size) : new_keys[t] = keys[s]
  /\ \A t \in Holding(new_keys, new_size) :
       \E s \in Slots(i) : keys[s] = new_keys[t] /\ values[s] = new_values[t]

TableInv ==
  /\ TypeOK
  /\ KeysFindable
  /\ NoDuplicateOnRehash
  /\ pc = "rehash" => Moved

-------------------------------------------------------------------------------
LEMMA LeastElement ==
  ASSUME NEW S \in SUBSET Nat, S # {}
  PROVE  \E j \in S : \A l \in S : j <= l
<1>1. \E j \in S : \A l \in S : ~(<<l, j>> \in OpToRel(<, Nat))
  BY NatLessThanWellFounded, WFMin
<1>2. PICK j \in S : \A l \in S : ~(<<l, j>> \in OpToRel(<, Nat))
  BY <1>1
<1>3. \A l \in S : ~(l < j)
  BY <1>2 DEF OpToRel
<1> QED
  BY <1>3

(* A jump is a positive number: raising a hash's high half ends at the     *)
(* latest past the length.                                                 *)
LEMMA MoveType ==
  ASSUME NEW k \in Key, NEW n \in Nat \ {0}
  PROVE  Move(k, n) \in Nat
<1> DEFINE h == HashMove[k]
           S == {m \in h .. h + n + 1 : n % m # 0}
<1>1. h \in Nat \ {0}
  BY HashAssumption
<1>2. \A m \in Nat : m > n => n % m = n
  OBVIOUS
<1>3. S # {}
  <2>1. CASE h > n
    BY <1>1, <1>2, <2>1
  <2>2. CASE h <= n
    <3>1. n + 1 \in h .. h + n + 1 /\ n % (n + 1) = n
      BY <1>1, <1>2, <2>2
    <3> QED
      BY <3>1
  <2> QED
    BY <1>1, <2>1, <2>2
<1>4. S \in SUBSET Nat
  BY <1>1
<1>5. PICK m \in S : \A l \in S : m <= l
  BY <1>3, <1>4, LeastElement
<1>6. \A l \in h .. m - 1 : n % l = 0
  <2> SUFFICES ASSUME NEW l \in h .. m - 1, n % l # 0 PROVE FALSE
    OBVIOUS
  <2>1. m \in Nat /\ m <= h + n + 1 /\ l <= m - 1 /\ l \in Int
    BY <1>1
  <2>2. l \in S
    BY <1>1, <2>1
  <2> QED
    BY <1>5, <2>1, <2>2
<1>7. \E x \in h .. h + n + 1 : n % x # 0 /\ \A l \in h .. x - 1 : n % l = 0
  BY <1>5, <1>6
<1>8. Move(k, n) \in h .. h + n + 1
  BY <1>7 DEF Move
<1> QED
  BY <1>1, <1>8

LEMMA ProbeInRange ==
  ASSUME NEW k \in Key, NEW n \in Lengths, NEW j \in Slots(n)
  PROVE  Probe(k, n, j) \in Slots(n)
<1>1. Path[k][n] = [l \in Slots(n) |-> (HashStart[k] + l * Move(k, n)) % n]
  BY DEF Path, Lengths
<1>2. Probe(k, n, j) = (HashStart[k] + j * Move(k, n)) % n
  BY <1>1 DEF Probe
<1>3. n \in Nat \ {0} /\ HashStart[k] \in Nat /\ Move(k, n) \in Nat /\ j \in Nat
  BY HashAssumption, MoveType DEF Lengths, Slots
<1>4. HashStart[k] + j * Move(k, n) \in Nat
  BY <1>3
<1> QED
  BY <1>2, <1>3, <1>4 DEF Slots

(* What a probe that stops returns: the slot after the least number of     *)
(* jumps that leads to the key or to a slot never used.                    *)
LEMMA ProbeStops ==
  ASSUME NEW n \in Lengths, NEW ks, NEW k \in Key, ~Cycles(ks, n, k)
  PROVE  /\ FindIndex(ks, n, k) \in Slots(n)
         /\ ks[FindIndex(ks, n, k)] \in {k, NOTHING}
         /\ \E j \in Stops(ks, n, k) : /\ Probe(k, n, j) = FindIndex(ks, n, k)
                                       /\ \A l \in Stops(ks, n, k) : j <= l
<1> DEFINE S == Stops(ks, n, k)
           least == CHOOSE j \in S : \A l \in S : j <= l
<1>1. S \in SUBSET Nat /\ S # {} /\ S \subseteq Slots(n)
  BY DEF Cycles, Stops, Slots
<1>2. \E j \in S : \A l \in S : j <= l
  BY <1>1, LeastElement
<1>3. least \in S /\ \A l \in S : least <= l
  BY <1>2
<1>4. FindIndex(ks, n, k) = Probe(k, n, least)
  BY DEF FindIndex
<1> QED
  BY <1>1, <1>3, <1>4, ProbeInRange DEF Stops

(* The least stop determines the result. *)
LEMMA FindIndexIs ==
  ASSUME NEW n \in Lengths, NEW ks, NEW k \in Key, NEW j \in Stops(ks, n, k),
         \A l \in Stops(ks, n, k) : j <= l
  PROVE  ~Cycles(ks, n, k) /\ FindIndex(ks, n, k) = Probe(k, n, j)
<1> DEFINE S == Stops(ks, n, k)
           least == CHOOSE m \in S : \A l \in S : m <= l
<1>1. S \subseteq Nat
  BY DEF Stops, Slots
<1>2. least \in S /\ \A l \in S : least <= l
  OBVIOUS
<1>3. least = j
  BY <1>1, <1>2
<1> QED
  BY <1>3 DEF FindIndex, Cycles

(* A key is in at most one slot, and its probe tells whether it is there. *)
LEMMA FoundWhereHeld ==
  ASSUME NEW n \in Lengths, NEW ks \in Arrays(n), Findable(ks, n), NEW k \in Key,
         NEW s \in Slots(n), ks[s] = k
  PROVE  ~Cycles(ks, n, k) /\ FindIndex(ks, n, k) = s
BY DEF Findable, Holding

LEMMA NotHeld ==
  ASSUME NEW n \in Lengths, NEW ks \in Arrays(n), Findable(ks, n), NEW k \in Key,
         ~Cycles(ks, n, k), ks[FindIndex(ks, n, k)] = NOTHING
  PROVE  \A s \in Slots(n) : ks[s] # k
BY FoundWhereHeld, HashAssumption

(* Storing a new key in the free slot its probe ends at cuts no other      *)
(* key's probe short: a probe that had passed that slot would have ended   *)
(* there.                                                                  *)
LEMMA FillKeepsFindable ==
  ASSUME NEW n \in Lengths, NEW ks \in Arrays(n), Findable(ks, n), NEW k \in Key,
         ~Cycles(ks, n, k), ks[FindIndex(ks, n, k)] = NOTHING
  PROVE  /\ [ks EXCEPT ![FindIndex(ks, n, k)] = k] \in Arrays(n)
         /\ Findable([ks EXCEPT ![FindIndex(ks, n, k)] = k], n)
<1> DEFINE f == FindIndex(ks, n, k)
<1>1. f \in Slots(n)
  BY ProbeStops
<1>2. PICK ks2 : ks2 = [ks EXCEPT ![f] = k]
  OBVIOUS
<1>3. ks2 \in Arrays(n) /\ ks2[f] = k /\ \A s \in Slots(n) : s # f => ks2[s] = ks[s]
  BY <1>1, <1>2 DEF Arrays
<1>4. ASSUME NEW s \in Holding(ks2, n)
      PROVE  ~Cycles(ks2, n, ks2[s]) /\ FindIndex(ks2, n, ks2[s]) = s
  <2>1. CASE s = f
    <3>1. PICK j \in Stops(ks, n, k) : Probe(k, n, j) = f /\ \A l \in Stops(ks, n, k) : j <= l
      BY ProbeStops
    <3>2. Stops(ks2, n, k) = Stops(ks, n, k)
      BY <1>1, <1>3, ProbeInRange DEF Stops
    <3> QED
      BY <1>3, <2>1, <3>1, <3>2, FindIndexIs
  <2>2. CASE s # f
    <3> DEFINE q == ks[s]
    <3>1. s \in Slots(n) /\ ks2[s] = q /\ q \in Key
      BY <1>3, <2>2 DEF Holding
    <3>2. ~Cycles(ks, n, q) /\ FindIndex(ks, n, q) = s /\ q # k
      BY <2>2, <3>1, FoundWhereHeld
    <3>3. PICK j \in Stops(ks, n, q) : Probe(q, n, j) = s /\ \A l \in Stops(ks, n, q) : j <= l
      BY <3>1, <3>2, ProbeStops
    <3>4. Stops(ks2, n, q) \subseteq Stops(ks, n, q)
      BY <1>3, <3>1, <3>2, ProbeInRange DEF Stops
    <3>5. j \in Stops(ks2, n, q)
      BY <3>1, <3>3 DEF Stops
    <3> QED
      BY <3>1, <3>3, <3>4, <3>5, FindIndexIs
  <2> QED
    BY <2>1, <2>2
<1> QED
  BY <1>2, <1>3, <1>4 DEF Findable

(* A tombstone does not end a probe, so it hides no other key. *)
LEMMA TombstoneKeepsFindable ==
  ASSUME NEW n \in Lengths, NEW ks \in Arrays(n), Findable(ks, n), NEW k \in Key,
         NEW f \in Slots(n), ks[f] = k
  PROVE  /\ [ks EXCEPT ![f] = TOMBSTONE] \in Arrays(n)
         /\ Findable([ks EXCEPT ![f] = TOMBSTONE], n)
<1>1. PICK ks2 : ks2 = [ks EXCEPT ![f] = TOMBSTONE]
  OBVIOUS
<1>2. ks2 \in Arrays(n) /\ ks2[f] = TOMBSTONE /\ \A s \in Slots(n) : s # f => ks2[s] = ks[s]
  BY <1>1 DEF Arrays
<1>3. ASSUME NEW s \in Holding(ks2, n)
      PROVE  ~Cycles(ks2, n, ks2[s]) /\ FindIndex(ks2, n, ks2[s]) = s
  <2> DEFINE q == ks[s]
  <2>1. s # f /\ s \in Slots(n) /\ ks2[s] = q /\ q \in Key
    BY <1>2, HashAssumption DEF Holding
  <2>2. ~Cycles(ks, n, q) /\ FindIndex(ks, n, q) = s /\ q # k
    BY <2>1, FoundWhereHeld
  <2>3. PICK j \in Stops(ks, n, q) : Probe(q, n, j) = s /\ \A l \in Stops(ks, n, q) : j <= l
    BY <2>1, <2>2, ProbeStops
  <2>4. Stops(ks2, n, q) \subseteq Stops(ks, n, q)
    BY <1>2, <2>1, ProbeInRange, HashAssumption DEF Stops
  <2>5. j \in Stops(ks2, n, q)
    BY <2>1, <2>3 DEF Stops
  <2> QED
    BY <2>1, <2>3, <2>4, <2>5, FindIndexIs
<1> QED
  BY <1>1, <1>2, <1>3 DEF Findable

-------------------------------------------------------------------------------
LEMMA Grows ==
  ASSUME NEW n \in Nat, n >= 4
  PROVE  GrownSize(n) \in Nat /\ GrownSize(n) > n
BY DEF GrownSize

LEMMA EmptyFindable ==
  ASSUME NEW n \in Nat
  PROVE  /\ Empty(n) \in [Slots(n) -> Key \cup {NOTHING}]
         /\ Empty(n) \in [Slots(n) -> Val \cup {NOTHING}]
         /\ Empty(n) \in Arrays(n)
         /\ Holding(Empty(n), n) = {}
         /\ Findable(Empty(n), n)
BY HashAssumption DEF Empty, Holding, Findable, Arrays

LEMMA InitInv == Init => TableInv
<1> SUFFICES ASSUME Init PROVE TableInv
  OBVIOUS
<1>1. capacity \in InlineLength .. MaxCapacity /\ capacity \in Nat
  BY HashAssumption DEF Init
<1>2. TypeOK
  BY <1>1, EmptyFindable, HashAssumption DEF Init, TypeOK, Arrays
<1>3. KeysFindable
  BY <1>1, EmptyFindable DEF Init, KeysFindable
<1> QED
  BY <1>2, <1>3 DEF Init, TableInv, NoDuplicateOnRehash

LEMMA InRange ==
  ASSUME TableInv
  PROVE  capacity \in Lengths /\ keys \in Arrays(capacity) /\ new_size \in Nat
BY HashAssumption DEF TableInv, TypeOK, Lengths, Arrays

(* The operations that leave the keys alone. *)
LEMMA ReplaceInv == \A k \in Key, v \in Val : TableInv /\ Replace(k, v) => TableInv'
<1> SUFFICES ASSUME NEW k \in Key, NEW v \in Val, TableInv, Replace(k, v)
             PROVE  TableInv'
  OBVIOUS
<1> DEFINE s == FindIndex(keys, capacity, k)
<1>1. s \in Slots(capacity)
  BY InRange, ProbeStops DEF Replace
<1>2. values' \in [Slots(capacity) -> Val \cup {NOTHING}]
  BY <1>1 DEF Replace, TableInv, TypeOK
<1>3. refs' \in [Val -> Int]
  BY DEF Replace, TableInv, TypeOK, Retained, Released
<1>4. TypeOK'
  BY <1>2, <1>3 DEF Replace, TableInv, TypeOK, growth
<1>5. pc' = "ready"
  BY DEF Replace
<1> QED
  BY <1>4, <1>5 DEF TableInv, KeysFindable, NoDuplicateOnRehash, Replace, growth

LEMMA AssignInv == \A k \in Key, v \in Val : TableInv /\ Assign(k, v) => TableInv'
<1> SUFFICES ASSUME NEW k \in Key, NEW v \in Val, TableInv, Assign(k, v)
             PROVE  TableInv'
  OBVIOUS
<1> DEFINE s == FindIndex(keys, capacity, k)
<1>1. s \in Slots(capacity)
  BY InRange, ProbeStops DEF Assign
<1>2. values' \in [Slots(capacity) -> Val \cup {NOTHING}]
  BY <1>1 DEF Assign, TableInv, TypeOK
<1>3. refs' \in [Val -> Int]
  BY DEF Assign, TableInv, TypeOK, Retained, Released
<1>4. TypeOK'
  BY <1>2, <1>3 DEF Assign, TableInv, TypeOK, growth
<1>5. pc' = "ready"
  BY DEF Assign
<1> QED
  BY <1>4, <1>5 DEF TableInv, KeysFindable, NoDuplicateOnRehash, Assign, growth

LEMMA HangInv == \A k \in Key : TableInv /\ Hang(k) => TableInv'
BY DEF Hang, TableInv, TypeOK, KeysFindable, NoDuplicateOnRehash, growth

LEMMA AddInv == \A k \in Key, v \in Val : TableInv /\ Add(k, v) => TableInv'
<1> SUFFICES ASSUME NEW k \in Key, NEW v \in Val, TableInv, Add(k, v)
             PROVE  TableInv'
  OBVIOUS
<1> DEFINE s == FindIndex(keys, capacity, k)
<1>1. s \in Slots(capacity) /\ ~Cycles(keys, capacity, k) /\ keys[s] = NOTHING
  BY InRange, ProbeStops DEF Add
<1>2. Findable(keys, capacity)
  BY DEF TableInv, KeysFindable
<1>3. keys' \in Arrays(capacity) /\ Findable(keys', capacity)
  BY <1>1, <1>2, InRange, FillKeepsFindable DEF Add
<1>4. values' \in [Slots(capacity) -> Val \cup {NOTHING}]
  BY <1>1 DEF Add, TableInv, TypeOK
<1>5. refs' \in [Val -> Int]
  BY DEF Add, TableInv, TypeOK, Retained
<1>6. used' \in Nat /\ n_elems' \in Int
  BY DEF Add, TableInv, TypeOK
<1>7. TypeOK'
  BY <1>3, <1>4, <1>5, <1>6 DEF Add, TableInv, TypeOK, growth, Arrays
<1>8. KeysFindable'
  BY <1>3 DEF Add, TableInv, KeysFindable, growth
<1>9. pc' = "ready"
  BY DEF Add
<1> QED
  BY <1>7, <1>8, <1>9 DEF TableInv, NoDuplicateOnRehash

LEMMA DeleteInv == \A k \in Key : TableInv /\ Delete(k) => TableInv'
<1> SUFFICES ASSUME NEW k \in Key, TableInv, Delete(k)
             PROVE  TableInv'
  OBVIOUS
<1> DEFINE s == FindIndex(keys, capacity, k)
<1>1. s \in Slots(capacity) /\ keys[s] = k
  BY InRange, ProbeStops DEF Delete
<1>2. Findable(keys, capacity)
  BY DEF TableInv, KeysFindable
<1>3. keys' \in Arrays(capacity) /\ Findable(keys', capacity)
  BY <1>1, <1>2, InRange, TombstoneKeepsFindable DEF Delete
<1>4. refs' \in [Val -> Int]
  BY DEF Delete, TableInv, TypeOK, Released
<1>5. n_elems' \in Int
  BY DEF Delete, TableInv, TypeOK
<1>6. TypeOK'
  BY <1>3, <1>4, <1>5 DEF Delete, TableInv, TypeOK, growth, Arrays
<1>7. KeysFindable'
  BY <1>3 DEF Delete, TableInv, KeysFindable, growth
<1>8. pc' = "ready"
  BY DEF Delete
<1> QED
  BY <1>6, <1>7, <1>8 DEF TableInv, NoDuplicateOnRehash

(* The move starts with an array that holds nothing. *)
LEMMA AddAndGrowInv == \A k \in Key, v \in Val : TableInv /\ AddAndGrow(k, v) => TableInv'
<1> SUFFICES ASSUME NEW k \in Key, NEW v \in Val, TableInv, AddAndGrow(k, v)
             PROVE  TableInv'
  OBVIOUS
<1> DEFINE s == FindIndex(keys, capacity, k)
<1>1. s \in Slots(capacity) /\ ~Cycles(keys, capacity, k) /\ keys[s] = NOTHING
  BY InRange, ProbeStops DEF AddAndGrow
<1>2. Findable(keys, capacity)
  BY DEF TableInv, KeysFindable
<1>3. keys' \in Arrays(capacity) /\ Findable(keys', capacity)
  BY <1>1, <1>2, InRange, FillKeepsFindable DEF AddAndGrow
<1>4. PICK n \in Nat : n = GrownSize(capacity) /\ n > capacity /\ n \in Lengths
  <2>1. capacity \in Nat /\ capacity >= 4
    BY HashAssumption DEF TableInv, TypeOK
  <2>2. GrownSize(capacity) <= MaxCapacity /\ MaxCapacity \in Nat
    BY HashAssumption DEF AddAndGrow
  <2> QED
    BY <2>1, <2>2, Grows DEF Lengths
<1>5. new_size' = n /\ new_keys' = Empty(n) /\ new_values' = Empty(n) /\ i' = 0
  BY <1>4 DEF AddAndGrow
<1>6. used' \in Nat /\ n_elems' \in Int
  BY DEF AddAndGrow, TableInv, TypeOK
<1>7. TypeOK'
  <2>1. n \in 0 .. MaxCapacity
    BY <1>4 DEF Lengths
  <2>2. (new_size \in 0 .. MaxCapacity)'
    BY <1>5, <2>1
  <2>3. (new_keys \in [Slots(new_size) -> Key \cup {NOTHING}])'
    BY <1>4, <1>5, EmptyFindable
  <2>4. (new_values \in [Slots(new_size) -> Val \cup {NOTHING}])'
    BY <1>4, <1>5, EmptyFindable
  <2>5. (i \in Nat)'
    BY <1>5
  <2> QED
    BY <1>3, <1>6, <2>2, <2>3, <2>4, <2>5 DEF AddAndGrow, TableInv, TypeOK, Arrays
<1>8. KeysFindable'
  <2>1. Findable(new_keys', new_size')
    BY <1>4, <1>5, EmptyFindable
  <2> QED
    BY <1>3, <2>1 DEF AddAndGrow, KeysFindable
<1>9. Moved'
  <2>1. (Slots(i) = {})'
    BY <1>5 DEF Slots
  <2>2. (Holding(new_keys, new_size) = {})'
    BY <1>4, <1>5, EmptyFindable
  <2>3. (i <= capacity)'
    BY <1>5, InRange DEF AddAndGrow, Lengths
  <2>4. (new_size \in Lengths /\ capacity <= new_size)'
    BY <1>4, <1>5, InRange DEF AddAndGrow, Lengths
  <2> QED
    BY <2>1, <2>2, <2>3, <2>4 DEF Moved
<1> QED
  BY <1>7, <1>8, <1>9 DEF TableInv, NoDuplicateOnRehash, AddAndGrow

(* Moving one entry: it goes to a free slot of the new array, because a    *)
(* key already there would have come from another slot of the old one.     *)
LEMMA MigrateInv == TableInv /\ Migrate => TableInv'
<1> SUFFICES ASSUME TableInv, Migrate PROVE TableInv'
  OBVIOUS
<1>1. /\ capacity \in Nat /\ i \in Nat /\ i < capacity /\ i \in Slots(capacity)
      /\ new_size \in Lengths /\ new_size \in Nat
      /\ capacity \in Lengths /\ keys \in Arrays(capacity)
      /\ new_keys \in Arrays(new_size)
  BY HashAssumption DEF TableInv, TypeOK, Migrate, Moved, Lengths, Arrays, Slots
<1>2. Findable(keys, capacity) /\ Findable(new_keys, new_size) /\ Moved
  BY DEF TableInv, KeysFindable, Migrate
<1>3. CASE keys[i] \in {NOTHING, TOMBSTONE}
  <2>1. i' = i + 1 /\ pc' = "rehash" /\ UNCHANGED <<new_keys, new_values>>
    BY <1>3, HashAssumption DEF Migrate
  <2>2. UNCHANGED <<capacity, keys, values, used, n_elems, refs, pending, new_size>>
    BY DEF Migrate
  <2>3. TypeOK' /\ KeysFindable'
    BY <1>1, <2>1, <2>2 DEF TableInv, TypeOK, KeysFindable
  <2>4. Moved'
    <3>1. \A s \in Slots(i + 1) : s \in Slots(i) \/ s = i
      BY <1>1 DEF Slots
    <3>2. Slots(i) \subseteq Slots(i + 1)
      BY <1>1 DEF Slots
    <3>3. keys[i] \notin Key /\ i + 1 <= capacity
      BY <1>1, <1>3, HashAssumption
    <3> QED
      BY <1>2, <2>1, <2>2, <3>1, <3>2, <3>3 DEF Moved, Holding
  <2> QED
    BY <2>1, <2>3, <2>4 DEF TableInv, NoDuplicateOnRehash
<1>4. CASE keys[i] \in Key /\ Cycles(new_keys, new_size, keys[i])
  <2>1. pc' = "hung" /\ UNCHANGED <<i, new_keys, new_values>>
    BY <1>4, HashAssumption DEF Migrate
  <2>2. UNCHANGED <<capacity, keys, values, used, n_elems, refs, pending, new_size>>
    BY DEF Migrate
  <2> QED
    BY <2>1, <2>2 DEF TableInv, TypeOK, KeysFindable, NoDuplicateOnRehash
<1>5. CASE keys[i] \in Key /\ ~Cycles(new_keys, new_size, keys[i])
  <2> DEFINE q == keys[i]
             f == FindIndex(new_keys, new_size, q)
  <2>1. f \in Slots(new_size) /\ new_keys[f] \in {q, NOTHING}
    BY <1>1, <1>5, ProbeStops
  <2>2. new_keys[f] = NOTHING
    <3> SUFFICES ASSUME new_keys[f] = q PROVE FALSE
      BY <2>1
    <3>1. f \in Holding(new_keys, new_size)
      BY <1>5, <2>1 DEF Holding
    <3>2. PICK s \in Slots(i) : keys[s] = q
      BY <1>2, <3>1 DEF Moved
    <3>3. s \in Slots(capacity) /\ s # i
      BY <1>1, <3>2 DEF Slots
    <3> QED
      BY <1>1, <1>2, <1>5, <3>2, <3>3, FoundWhereHeld
  <2>3. /\ new_keys' = [new_keys EXCEPT ![f] = q]
        /\ new_values' = [new_values EXCEPT ![f] = values[i]]
        /\ i' = i + 1
        /\ pc' = "rehash"
    BY <1>5, <2>2, HashAssumption DEF Migrate
  <2>4. UNCHANGED <<capacity, keys, values, used, n_elems, refs, pending, new_size>>
    BY DEF Migrate
  <2>5. new_keys' \in Arrays(new_size) /\ Findable(new_keys', new_size)
    BY <1>1, <1>2, <1>5, <2>2, <2>3, FillKeepsFindable
  <2>6. new_keys' \in [Slots(new_size) -> Key \cup {NOTHING}]
    BY <1>5, <2>1, <2>3 DEF TableInv, TypeOK
  <2>7. new_values' \in [Slots(new_size) -> Val \cup {NOTHING}]
    <3>1. values[i] \in Val \cup {NOTHING}
      BY <1>1 DEF TableInv, TypeOK
    <3> QED
      BY <2>1, <2>3, <3>1 DEF TableInv, TypeOK
  <2>8. TypeOK'
    BY <1>1, <2>3, <2>4, <2>6, <2>7 DEF TableInv, TypeOK
  <2>9. KeysFindable'
    BY <1>2, <2>4, <2>5 DEF KeysFindable
  <2>10. PICK nk, nv : nk = new_keys' /\ nv = new_values'
    OBVIOUS
  <2>11. /\ nk[f] = q /\ nv[f] = values[i]
         /\ \A t \in Slots(new_size) : t # f => nk[t] = new_keys[t] /\ nv[t] = new_values[t]
    BY <1>1, <2>1, <2>3, <2>10 DEF TableInv, TypeOK, Arrays
  <2>12. \A s \in Slots(i + 1) : s \in Slots(i) \/ s = i
    BY <1>1 DEF Slots
  <2>13. Slots(i) \subseteq Slots(i + 1) /\ i \in Slots(i + 1) /\ i + 1 <= capacity
    BY <1>1 DEF Slots
  <2>14. ASSUME NEW s \in Slots(i + 1), keys[s] \in Key
         PROVE  \E t \in Slots(new_size) : nk[t] = keys[s]
    <3>1. CASE s = i
      BY <2>1, <2>11, <3>1
    <3>2. CASE s \in Slots(i)
      <4>1. PICK t \in Slots(new_size) : new_keys[t] = keys[s]
        BY <1>2, <2>14, <3>2 DEF Moved
      <4>2. t # f
        BY <2>2, <2>14, <4>1, HashAssumption
      <4> QED
        BY <2>11, <4>1, <4>2
    <3> QED
      BY <2>12, <3>1, <3>2
  <2>15. ASSUME NEW t \in Holding(nk, new_size)
         PROVE  \E s \in Slots(i + 1) : keys[s] = nk[t] /\ values[s] = nv[t]
    <3>1. CASE t = f
      BY <2>11, <2>13, <3>1
    <3>2. CASE t # f
      <4>1. t \in Slots(new_size) /\ t \in Holding(new_keys, new_size)
        BY <2>11, <3>2 DEF Holding
      <4>2. PICK s \in Slots(i) : keys[s] = new_keys[t] /\ values[s] = new_values[t]
        BY <1>2, <4>1 DEF Moved
      <4> QED
        BY <2>11, <2>13, <3>2, <4>1, <4>2
    <3> QED
      BY <3>1, <3>2
  <2>16. Moved'
    <3>1. (i <= capacity)'
      BY <2>3, <2>4, <2>13
    <3>2. (new_size \in Lengths /\ capacity <= new_size)'
      BY <1>2, <2>4 DEF Moved
    <3>3. (\A s \in Slots(i) : keys[s] \in Key =>
              \E t \in Slots(new_size) : new_keys[t] = keys[s])'
      BY <2>3, <2>4, <2>10, <2>14
    <3>4. (\A t \in Holding(new_keys, new_size) :
              \E s \in Slots(i) : keys[s] = new_keys[t] /\ values[s] = new_values[t])'
      BY <2>3, <2>4, <2>10, <2>15
    <3> QED
      BY <3>1, <3>2, <3>3, <3>4 DEF Moved
  <2> QED
    BY <2>3, <2>8, <2>9, <2>16 DEF TableInv, NoDuplicateOnRehash
<1> QED
  BY <1>3, <1>4, <1>5 DEF Migrate

LEMMA FinishGrowthInv == TableInv /\ FinishGrowth => TableInv'
<1> SUFFICES ASSUME TableInv, FinishGrowth PROVE TableInv'
  OBVIOUS
<1>1. /\ capacity \in Nat /\ capacity >= InlineLength /\ InlineLength \in Nat
      /\ new_size \in Nat /\ new_size <= MaxCapacity /\ capacity <= new_size
      /\ Findable(new_keys, new_size)
  BY HashAssumption DEF TableInv, TypeOK, KeysFindable, FinishGrowth, Moved, Lengths
<1>2. /\ pc' = "ready" /\ new_size' = 0 /\ i' = 0 /\ pending' = NOTHING
      /\ capacity' = new_size /\ keys' = new_keys /\ values' = new_values
      /\ new_keys' = Empty(0) /\ new_values' = Empty(0)
      /\ UNCHANGED <<used, n_elems>>
  BY DEF FinishGrowth
<1>3. TypeOK'
  <2>1. (capacity \in InlineLength .. MaxCapacity)'
    BY <1>1, <1>2, HashAssumption
  <2>2. (/\ keys \in [Slots(capacity) -> Key \cup {NOTHING, TOMBSTONE}]
         /\ values \in [Slots(capacity) -> Val \cup {NOTHING}])'
    BY <1>2 DEF TableInv, TypeOK
  <2>3. (/\ new_keys \in [Slots(new_size) -> Key \cup {NOTHING}]
         /\ new_values \in [Slots(new_size) -> Val \cup {NOTHING}])'
    BY <1>2, EmptyFindable
  <2>4. refs' \in [Val -> Int]
    <3>1. refs \in [Val -> Int] /\ refs' = [refs EXCEPT ![pending] = @ + 1]
      BY DEF FinishGrowth, TableInv, TypeOK, Retained
    <3>2. CASE pending \in Val
      BY <3>1, <3>2
    <3>3. CASE pending \notin Val
      <4>1. refs' = refs
        BY <3>1, <3>3
      <4> QED
        BY <3>1, <4>1
    <3> QED
      BY <3>2, <3>3
  <2>5. (new_size \in 0 .. MaxCapacity)' /\ (i \in Nat)'
    BY <1>2, HashAssumption
  <2> QED
    BY <1>2, <2>1, <2>2, <2>3, <2>4, <2>5 DEF TableInv, TypeOK
<1>4. KeysFindable'
  <2>1. Findable(new_keys', new_size')
    BY <1>2, EmptyFindable
  <2> QED
    BY <1>1, <1>2, <2>1 DEF KeysFindable
<1> QED
  BY <1>2, <1>3, <1>4 DEF TableInv, NoDuplicateOnRehash

THEOREM Invariance == Spec => []TableInv
<1>1. TableInv /\ [Next]_vars => TableInv'
  <2> SUFFICES ASSUME TableInv, [Next]_vars PROVE TableInv'
    OBVIOUS
  <2>1. CASE UNCHANGED vars
    BY <2>1 DEF vars, growth, TableInv, TypeOK, KeysFindable, NoDuplicateOnRehash, Moved
  <2>2. ASSUME NEW k \in Key, NEW v \in Val, Insert(k, v) \/ Assign(k, v)
        PROVE  TableInv'
    BY <2>2, ReplaceInv, AddInv, AddAndGrowInv, AssignInv DEF Insert
  <2>3. ASSUME NEW k \in Key, Delete(k) \/ Hang(k)
        PROVE  TableInv'
    BY <2>3, DeleteInv, HangInv
  <2> QED
    BY <2>1, <2>2, <2>3, MigrateInv, FinishGrowthInv DEF Next
<1> QED
  BY InitInv, <1>1, PTL DEF Spec

(* HashTable's type invariant, for every hash function and every length. *)
THEOREM TypeCorrect == Spec => []TypeOK
BY Invariance, PTL DEF TableInv

(* No sequence of insertions, assignments, deletions and moves leaves a key *)
(* where its own probe does not find it (find_key_index_in_array).          *)
THEOREM AlwaysFindable == Spec => []KeysFindable
BY Invariance, PTL DEF TableInv

(* The PANIC in set_key_for_rehash is unreachable. *)
THEOREM NoDuplicate == Spec => []NoDuplicateOnRehash
BY Invariance, PTL DEF TableInv

-------------------------------------------------------------------------------
(* The counters.  n_elems is the number of slots that hold a key, used is   *)
(* at least the number of slots that are not free; while the table grows,   *)
(* the new array holds as many entries as keys have been passed, so that    *)
(* both counters fit it when it takes over.                                 *)
Passed == {s \in Slots(i) : keys[s] \in Key}

CountInv ==
  /\ RoomToProbe
  /\ SizeExact
  /\ pc = "rehash" => Cardinality(Occupied(new_keys, new_size)) = Cardinality(Passed)

LEMMA SlotsFinite ==
  ASSUME NEW n \in Nat, NEW S \in SUBSET Slots(n)
  PROVE  IsFiniteSet(S) /\ Cardinality(S) \in Nat
<1>1. IsFiniteSet(Slots(n))
  BY FS_Interval DEF Slots
<1>2. IsFiniteSet(S)
  BY <1>1, FS_Subset
<1> QED
  BY <1>2, FS_CardinalityType

LEMMA OneMore ==
  ASSUME NEW n \in Nat, NEW S \in SUBSET Slots(n), NEW s, s \notin S
  PROVE  Cardinality(S \cup {s}) = Cardinality(S) + 1
BY SlotsFinite, FS_AddElement

(* A key in a free slot is one more slot in use and one more key. *)
LEMMA FillCounted ==
  ASSUME NEW n \in Nat, NEW ks \in Arrays(n), NEW s \in Slots(n), ks[s] = NOTHING, NEW k \in Key
  PROVE  /\ Cardinality(Occupied([ks EXCEPT ![s] = k], n)) = Cardinality(Occupied(ks, n)) + 1
         /\ Cardinality(Holding([ks EXCEPT ![s] = k], n)) = Cardinality(Holding(ks, n)) + 1
<1>1. PICK ks2 : ks2 = [ks EXCEPT ![s] = k]
  OBVIOUS
<1>2. ks2[s] = k /\ \A t \in Slots(n) : t # s => ks2[t] = ks[t]
  BY <1>1 DEF Arrays
<1>3. Occupied(ks2, n) = Occupied(ks, n) \cup {s} /\ s \notin Occupied(ks, n)
  BY <1>2, HashAssumption DEF Occupied
<1>4. Holding(ks2, n) = Holding(ks, n) \cup {s} /\ s \notin Holding(ks, n)
  BY <1>2, HashAssumption DEF Holding
<1>5. Occupied(ks, n) \in SUBSET Slots(n) /\ Holding(ks, n) \in SUBSET Slots(n)
  BY DEF Occupied, Holding
<1> QED
  BY <1>1, <1>3, <1>4, <1>5, OneMore

(* A tombstone leaves its slot in use and takes a key away. *)
LEMMA TombstoneCounted ==
  ASSUME NEW n \in Nat, NEW ks \in Arrays(n), NEW s \in Slots(n), ks[s] \in Key
  PROVE  /\ Occupied([ks EXCEPT ![s] = TOMBSTONE], n) = Occupied(ks, n)
         /\ Cardinality(Holding([ks EXCEPT ![s] = TOMBSTONE], n)) = Cardinality(Holding(ks, n)) - 1
<1>1. PICK ks2 : ks2 = [ks EXCEPT ![s] = TOMBSTONE]
  OBVIOUS
<1>2. ks2[s] = TOMBSTONE /\ \A t \in Slots(n) : t # s => ks2[t] = ks[t]
  BY <1>1 DEF Arrays
<1>3. Occupied(ks2, n) = Occupied(ks, n)
  BY <1>2, HashAssumption DEF Occupied
<1>4. Holding(ks2, n) = Holding(ks, n) \ {s} /\ s \in Holding(ks, n)
  BY <1>2, HashAssumption DEF Holding
<1>5. IsFiniteSet(Holding(ks, n))
  BY SlotsFinite DEF Holding
<1> QED
  BY <1>1, <1>3, <1>4, <1>5, FS_RemoveElement

LEMMA EmptyCounted ==
  ASSUME NEW n \in Nat
  PROVE  Cardinality(Occupied(Empty(n), n)) = 0 /\ Cardinality(Holding(Empty(n), n)) = 0
<1>1. Occupied(Empty(n), n) = {} /\ Holding(Empty(n), n) = {}
  BY EmptyFindable DEF Occupied, Empty
<1> QED
  BY <1>1, FS_EmptySet

(* A table that reached its threshold is one short of the next one at most. *)
LEMMA ThresholdGrows ==
  ASSUME NEW n \in Nat, n >= 4
  PROVE  /\ Threshold(n) \in Nat /\ Threshold(n) > 0
         /\ Threshold(GrownSize(n)) \in Nat /\ Threshold(GrownSize(n)) > Threshold(n)
<1>1. PICK m \in Nat : m = (n * 3) \div 2
  OBVIOUS
<1>2. m >= n + 2
  BY <1>1
<1>3. (m * 3) \div 4 >= (n * 3) \div 4 + 1
  BY <1>2
<1> QED
  BY <1>1, <1>3 DEF Threshold, GrownSize

LEMMA CountInit == Init => CountInv
<1> SUFFICES ASSUME Init PROVE CountInv
  OBVIOUS
<1>1. capacity \in Nat /\ capacity >= 4
  BY InitInv, HashAssumption DEF TableInv, TypeOK
<1>2. keys = Empty(capacity) /\ used = 0 /\ n_elems = 0 /\ pc = "ready"
  BY DEF Init
<1> QED
  BY <1>1, <1>2, EmptyCounted, ThresholdGrows DEF CountInv, RoomToProbe, SizeExact

(* What the steps of one call share. *)
LEMMA Counts ==
  ASSUME TableInv, CountInv
  PROVE  /\ capacity \in Nat /\ capacity >= 4 /\ keys \in Arrays(capacity)
         /\ used \in Nat /\ n_elems = Cardinality(Holding(keys, capacity))
         /\ Cardinality(Occupied(keys, capacity)) \in Nat
         /\ Cardinality(Occupied(keys, capacity)) <= used
         /\ pc = "ready" => used < Threshold(capacity)
<1>1. Occupied(keys, capacity) \in SUBSET Slots(capacity)
  BY DEF Occupied
<1> QED
  BY <1>1, SlotsFinite, HashAssumption
     DEF TableInv, TypeOK, CountInv, RoomToProbe, SizeExact, Arrays

LEMMA AddCount == \A k \in Key, v \in Val : TableInv /\ CountInv /\ Add(k, v) => CountInv'
<1> SUFFICES ASSUME NEW k \in Key, NEW v \in Val, TableInv, CountInv, Add(k, v)
             PROVE  CountInv'
  OBVIOUS
<1> DEFINE s == FindIndex(keys, capacity, k)
<1>1. s \in Slots(capacity) /\ keys[s] = NOTHING /\ keys' = [keys EXCEPT ![s] = k]
  BY InRange, ProbeStops DEF Add
<1>2. /\ Cardinality(Occupied(keys', capacity)) = Cardinality(Occupied(keys, capacity)) + 1
      /\ Cardinality(Holding(keys', capacity)) = Cardinality(Holding(keys, capacity)) + 1
  BY <1>1, Counts, FillCounted
<1>3. pc' = "ready" /\ used' = used + 1 /\ n_elems' = n_elems + 1 /\ capacity' = capacity
      /\ used + 1 < Threshold(capacity)
  BY DEF Add
<1> QED
  BY <1>2, <1>3, Counts DEF CountInv, RoomToProbe, SizeExact

LEMMA AddAndGrowCount ==
  \A k \in Key, v \in Val : TableInv /\ CountInv /\ AddAndGrow(k, v) => CountInv'
<1> SUFFICES ASSUME NEW k \in Key, NEW v \in Val, TableInv, CountInv, AddAndGrow(k, v)
             PROVE  CountInv'
  OBVIOUS
<1> DEFINE s == FindIndex(keys, capacity, k)
<1>1. s \in Slots(capacity) /\ keys[s] = NOTHING /\ keys' = [keys EXCEPT ![s] = k]
  BY InRange, ProbeStops DEF AddAndGrow
<1>2. /\ Cardinality(Occupied(keys', capacity)) = Cardinality(Occupied(keys, capacity)) + 1
      /\ Cardinality(Holding(keys', capacity)) = Cardinality(Holding(keys, capacity)) + 1
  BY <1>1, Counts, FillCounted
<1>3. /\ pc = "ready" /\ pc' = "rehash" /\ i' = 0 /\ capacity' = capacity
      /\ used' = used + 1 /\ n_elems' = n_elems + 1
      /\ new_size' = GrownSize(capacity) /\ new_keys' = Empty(new_size')
  BY DEF AddAndGrow
<1>4. used' < Threshold(new_size')
  BY <1>3, Counts, ThresholdGrows
<1>5. Cardinality(Occupied(new_keys', new_size')) = Cardinality(Passed')
  <2>1. Passed' = {}
    BY <1>3 DEF Passed, Slots
  <2>2. new_size' \in Nat
    BY <1>3, Counts, Grows
  <2> QED
    BY <1>3, <2>1, <2>2, EmptyCounted, FS_EmptySet
<1> QED
  BY <1>2, <1>3, <1>4, <1>5, Counts DEF CountInv, RoomToProbe, SizeExact

LEMMA DeleteCount == \A k \in Key : TableInv /\ CountInv /\ Delete(k) => CountInv'
<1> SUFFICES ASSUME NEW k \in Key, TableInv, CountInv, Delete(k)
             PROVE  CountInv'
  OBVIOUS
<1> DEFINE s == FindIndex(keys, capacity, k)
<1>1. s \in Slots(capacity) /\ keys[s] \in Key /\ keys' = [keys EXCEPT ![s] = TOMBSTONE]
  BY InRange, ProbeStops DEF Delete
<1>2. /\ Occupied(keys', capacity) = Occupied(keys, capacity)
      /\ Cardinality(Holding(keys', capacity)) = Cardinality(Holding(keys, capacity)) - 1
  BY <1>1, Counts, TombstoneCounted
<1>3. pc = "ready" /\ pc' = "ready" /\ used' = used /\ n_elems' = n_elems - 1 /\ capacity' = capacity
  BY DEF Delete
<1> QED
  BY <1>2, <1>3, Counts DEF CountInv, RoomToProbe, SizeExact

(* A key that is passed is stored in a free slot, and no other turn stores. *)
LEMMA MigrateCount == TableInv /\ CountInv /\ Migrate => CountInv'
<1> SUFFICES ASSUME TableInv, CountInv, Migrate
             PROVE  CountInv'
  OBVIOUS
<1>1. pc = "rehash" /\ i < capacity /\ i \in Nat /\ new_size \in Lengths /\ new_size \in Nat
      /\ new_keys \in Arrays(new_size)
  BY DEF Migrate, TableInv, TypeOK, Moved, Arrays, Lengths
<1>2. UNCHANGED <<capacity, keys, used, n_elems, new_size>>
  BY DEF Migrate
<1>3. Passed \in SUBSET Slots(capacity)
  BY <1>1, Counts DEF Passed, Slots
<1>4. ASSUME pc' = "rehash"
      PROVE  Cardinality(Occupied(new_keys', new_size)) = Cardinality(Passed')
  <2>1. Cardinality(Occupied(new_keys, new_size)) = Cardinality(Passed)
    BY <1>1 DEF CountInv
  <2>2. CASE keys[i] \in {NOTHING, TOMBSTONE} /\ i' = i + 1 /\ new_keys' = new_keys
    <3>1. Passed' = Passed
      BY <1>1, <1>2, <2>2, HashAssumption DEF Passed, Slots
    <3> QED
      BY <2>1, <2>2, <3>1
  <2>3. CASE /\ keys[i] \in Key /\ ~Cycles(new_keys, new_size, keys[i]) /\ i' = i + 1
             /\ new_keys[FindIndex(new_keys, new_size, keys[i])] = NOTHING
             /\ new_keys' = [new_keys EXCEPT ![FindIndex(new_keys, new_size, keys[i])] = keys[i]]
    <3>1. FindIndex(new_keys, new_size, keys[i]) \in Slots(new_size)
      BY <1>1, <2>3, ProbeStops
    <3>2. Cardinality(Occupied(new_keys', new_size)) = Cardinality(Occupied(new_keys, new_size)) + 1
      BY <1>1, <2>3, <3>1, FillCounted
    <3>3. Passed' = Passed \cup {i} /\ i \notin Passed
      BY <1>1, <1>2, <2>3 DEF Passed, Slots
    <3>4. Cardinality(Passed') = Cardinality(Passed) + 1
      BY <1>3, <3>3, Counts, OneMore
    <3> QED
      BY <2>1, <3>2, <3>4
  <2> QED
    BY <1>4, <2>2, <2>3 DEF Migrate
<1>5. pc' # "ready"
  BY <1>1 DEF Migrate
<1> QED
  BY <1>1, <1>2, <1>4, <1>5 DEF CountInv, RoomToProbe, SizeExact

(* All slots are passed: the new array has the keys of the old one and no   *)
(* tombstone.                                                               *)
LEMMA FinishGrowthCount == TableInv /\ CountInv /\ FinishGrowth => CountInv'
<1> SUFFICES ASSUME TableInv, CountInv, FinishGrowth
             PROVE  CountInv'
  OBVIOUS
<1>1. pc = "rehash" /\ i = capacity /\ pc' = "ready" /\ capacity' = new_size /\ keys' = new_keys
      /\ used' = used /\ n_elems' = n_elems
  BY DEF FinishGrowth
<1>2. Passed = Holding(keys, capacity)
  BY <1>1 DEF Passed, Holding
<1>3. Occupied(new_keys, new_size) = Holding(new_keys, new_size)
  BY HashAssumption DEF Occupied, Holding, TableInv, TypeOK
<1>4. Cardinality(Holding(keys, capacity)) <= Cardinality(Occupied(keys, capacity))
  <2>1. Holding(keys, capacity) \in SUBSET Occupied(keys, capacity)
    BY HashAssumption DEF Holding, Occupied
  <2>2. IsFiniteSet(Occupied(keys, capacity))
    BY Counts, SlotsFinite DEF Occupied
  <2> QED
    BY <2>1, <2>2, FS_Subset
<1>5. Cardinality(Occupied(new_keys, new_size)) = Cardinality(Holding(keys, capacity))
  BY <1>1, <1>2 DEF CountInv
<1>6. used < Threshold(new_size)
  BY <1>1 DEF CountInv, RoomToProbe
<1>7. Cardinality(Occupied(new_keys, new_size)) <= used
  <2>1. Cardinality(Holding(keys, capacity)) \in Nat
    BY Counts, SlotsFinite DEF Holding
  <2> QED
    BY <1>4, <1>5, <2>1, Counts
<1> QED
  BY <1>1, <1>3, <1>5, <1>6, <1>7, Counts DEF CountInv, RoomToProbe, SizeExact

LEMMA Counting == Spec => []CountInv
<1>1. TableInv /\ CountInv /\ [Next]_vars => CountInv'
  <2> SUFFICES ASSUME TableInv, CountInv, [Next]_vars PROVE CountInv'
    OBVIOUS
  <2>1. CASE UNCHANGED vars
    BY <2>1 DEF vars, growth, CountInv, RoomToProbe, SizeExact, Passed
  <2>2. ASSUME NEW k \in Key, NEW v \in Val, Replace(k, v) \/ Assign(k, v)
        PROVE  CountInv'
    BY <2>2 DEF Replace, Assign, growth, CountInv, RoomToProbe, SizeExact, Passed
  <2>3. ASSUME NEW k \in Key, Hang(k)
        PROVE  CountInv'
    BY <2>3 DEF Hang, growth, CountInv, RoomToProbe, SizeExact, Passed
  <2> QED
    BY <2>1, <2>2, <2>3, AddCount, AddAndGrowCount, DeleteCount, MigrateCount, FinishGrowthCount
       DEF Next, Insert
<1> QED
  BY CountInit, Invariance, <1>1, PTL DEF Spec

(* Whatever is inserted and deleted, a table that is at rest has free slots *)
(* left, and one that grows will have: used is never below the number of    *)
(* slots in use and never at the threshold (set_key, set_hashtbl_size).     *)
THEOREM RoomAlways == Spec => []RoomToProbe
BY Counting, PTL DEF CountInv

(* length reports the number of keys, in the middle of a growth as well     *)
(* (sbHash_get_size).                                                       *)
THEOREM SizeAlways == Spec => []SizeExact
BY Counting, PTL DEF CountInv

(* The slots one key reaches are not all taken before its turn.             *)
LEMMA RoomForNext ==
  ASSUME TableInv, CountInv, pc = "rehash", KeysHaveRoom, i < capacity, keys[i] \in Key
  PROVE  ~Cycles(new_keys, new_size, keys[i])
<1> SUFFICES ASSUME Cycles(new_keys, new_size, keys[i]) PROVE FALSE
  OBVIOUS
<1>1. capacity \in Nat /\ i \in Nat /\ new_size \in Lengths /\ new_size \in Nat
  BY HashAssumption DEF TableInv, TypeOK, Moved, Lengths
<1>2. Reached(keys[i], new_size) \in SUBSET Occupied(new_keys, new_size)
  BY <1>1, ProbeInRange DEF Reached, Occupied, Cycles, Stops
<1>3. Cardinality(Reached(keys[i], new_size)) <= Cardinality(Passed)
  <2>1. IsFiniteSet(Occupied(new_keys, new_size))
    BY <1>1, SlotsFinite DEF Occupied
  <2>2. Cardinality(Reached(keys[i], new_size)) <= Cardinality(Occupied(new_keys, new_size))
    BY <1>2, <2>1, FS_Subset
  <2> QED
    BY <2>2 DEF CountInv
<1>4. Cardinality(Passed) + 1 <= Cardinality(Holding(keys, capacity))
  <2>1. Passed \in SUBSET Slots(capacity) /\ i \notin Passed
    BY <1>1 DEF Passed, Slots
  <2>2. Passed \cup {i} \in SUBSET Holding(keys, capacity)
    BY <1>1 DEF Passed, Holding, Slots
  <2>3. IsFiniteSet(Holding(keys, capacity))
    BY <1>1, SlotsFinite DEF Holding
  <2>4. Cardinality(Passed \cup {i}) <= Cardinality(Holding(keys, capacity))
    BY <2>2, <2>3, FS_Subset
  <2> QED
    BY <1>1, <2>1, <2>4, OneMore
<1>5. i \in Holding(keys, capacity)
  BY <1>1 DEF Holding, Slots
<1>6. Cardinality(Holding(keys, capacity)) <= Cardinality(Reached(keys[i], new_size))
  BY <1>5 DEF KeysHaveRoom
<1>7. /\ Cardinality(Passed) \in Nat /\ Cardinality(Holding(keys, capacity)) \in Nat
      /\ Cardinality(Reached(keys[i], new_size)) \in Nat
  <2>1. Passed \in SUBSET Slots(i) /\ Holding(keys, capacity) \in SUBSET Slots(capacity)
    BY DEF Passed, Holding
  <2>2. Reached(keys[i], new_size) \in SUBSET Slots(new_size)
    BY <1>2 DEF Occupied
  <2> QED
    BY <1>1, <2>1, <2>2, SlotsFinite
<1> QED
  BY <1>3, <1>4, <1>6, <1>7

(* No growth is caught in a probe that goes round for ever, whatever the    *)
(* hashes and the length, as long as each key reaches as many slots of the  *)
(* new arrays as there are keys (set_key_for_rehash): what GrowthEnds rests *)
(* on.                                                                      *)
THEOREM GrowthNeverCaught ==
  Spec => [][pc = "rehash" /\ KeysHaveRoom => pc' # "hung"]_vars
<1>1. TableInv /\ CountInv /\ [Next]_vars
        => [pc = "rehash" /\ KeysHaveRoom => pc' # "hung"]_vars
  <2> SUFFICES ASSUME TableInv, CountInv, Next, pc = "rehash", KeysHaveRoom
               PROVE  pc' # "hung"
    OBVIOUS
  <2>1. CASE Migrate
    BY <2>1, RoomForNext DEF Migrate
  <2>2. CASE FinishGrowth
    BY <2>2 DEF FinishGrowth
  <2> QED
    BY <2>1, <2>2 DEF Next, Insert, Replace, Add, AddAndGrow, Assign, Delete, Hang
<1> QED
  BY <1>1, Invariance, Counting, PTL DEF Spec

-------------------------------------------------------------------------------
(* The values.  Each has a count for every slot that holds it and is no     *)
(* tombstone, free slots written through a reference included; in the array *)
(* being filled it is in no more slots than in those passed.                *)
With(ks, vs, n, v) == {s \in Slots(n) : ks[s] # TOMBSTONE /\ vs[s] = v}
PassedWith(v) == {s \in Slots(i) : keys[s] \in Key /\ values[s] = v}
Kept(n) == [Slots(n) -> Val \cup {NOTHING}]

RetainInv ==
  /\ \A v \in Val : Cardinality(With(keys, values, capacity, v)) <= refs[v]
  /\ pc = "rehash" =>
       /\ \A t \in Slots(new_size) : new_keys[t] = NOTHING => new_values[t] = NOTHING
       /\ \A v \in Val :
            Cardinality(With(new_keys, new_values, new_size, v)) <= Cardinality(PassedWith(v))

LEMMA TableShape ==
  ASSUME TableInv
  PROVE  /\ capacity \in Nat /\ keys \in Arrays(capacity) /\ values \in Kept(capacity)
         /\ new_size \in Nat /\ new_keys \in Arrays(new_size) /\ new_values \in Kept(new_size)
         /\ refs \in [Val -> Int] /\ i \in Nat
BY HashAssumption DEF TableInv, TypeOK, Arrays, Kept

LEMMA WithCounted ==
  ASSUME NEW n \in Nat, NEW ks, NEW vs, NEW w
  PROVE  IsFiniteSet(With(ks, vs, n, w)) /\ Cardinality(With(ks, vs, n, w)) \in Nat
BY SlotsFinite DEF With

(* Storing in one slot changes the number of slots with a value by one at   *)
(* most, and for two values only.                                           *)
LEMMA StoredCounted ==
  ASSUME NEW n \in Nat, NEW ks \in Arrays(n), NEW ks2 \in Arrays(n), NEW vs \in Kept(n),
         NEW vs2 \in Kept(n), NEW s \in Slots(n), ks[s] # TOMBSTONE, ks2[s] # TOMBSTONE,
         \A t \in Slots(n) : t # s => ks2[t] = ks[t],
         \A t \in Slots(n) : t # s => vs2[t] = vs[t],
         NEW w \in Val
  PROVE  Cardinality(With(ks2, vs2, n, w)) =
           Cardinality(With(ks, vs, n, w)) + (IF vs2[s] = w THEN 1 ELSE 0)
                                           - (IF vs[s] = w THEN 1 ELSE 0)
<1> DEFINE W == With(ks, vs, n, w)
           W2 == With(ks2, vs2, n, w)
<1>1. IsFiniteSet(W) /\ Cardinality(W) \in Nat
  BY WithCounted
<1>2. s \in W <=> vs[s] = w
  BY DEF With
<1>3. CASE vs2[s] = w
  <2>1. W2 = W \cup {s}
    BY <1>3 DEF With
  <2>2. Cardinality(W \cup {s}) = IF s \in W THEN Cardinality(W) ELSE Cardinality(W) + 1
    BY <1>1, FS_AddElement
  <2> HIDE DEF W, W2
  <2>3. Cardinality(W2) = Cardinality(W) + 1 - (IF vs[s] = w THEN 1 ELSE 0)
    BY <1>1, <1>2, <2>1, <2>2
  <2> QED
    BY <1>3, <2>3 DEF W, W2
<1>4. CASE vs2[s] # w
  <2>1. W2 = W \ {s}
    BY <1>4 DEF With
  <2>2. Cardinality(W \ {s}) = IF s \in W THEN Cardinality(W) - 1 ELSE Cardinality(W)
    BY <1>1, FS_RemoveElement
  <2> HIDE DEF W, W2
  <2>3. Cardinality(W2) = Cardinality(W) + 0 - (IF vs[s] = w THEN 1 ELSE 0)
    BY <1>1, <1>2, <2>1, <2>2
  <2> QED
    BY <1>4, <2>3 DEF W, W2
<1> QED
  BY <1>3, <1>4

LEMMA RetainInit == Init => RetainInv
<1> SUFFICES ASSUME Init PROVE RetainInv
  OBVIOUS
<1>1. capacity \in Nat /\ values = Empty(capacity) /\ pc = "ready"
  BY InitInv, TableShape DEF Init
<1>2. \A v \in Val : With(keys, values, capacity, v) = {}
  BY <1>1, HashAssumption DEF With, Empty
<1>3. \A v \in Val : refs[v] = 0
  BY DEF Init
<1> QED
  BY <1>1, <1>2, <1>3, FS_EmptySet DEF RetainInv

(* set_key on a key that is there and an assignment through a reference    *)
(* take a count and give one back.                                          *)
Exchanged(s, v) ==
  /\ pc = "ready" /\ UNCHANGED <<pc, capacity, keys>>
  /\ refs' = Retained(Released(refs, values[s]), v)
  /\ values' = [values EXCEPT ![s] = v]

LEMMA ExchangeRetain ==
  ASSUME TableInv, RetainInv, NEW v \in Val, NEW s \in Slots(capacity), keys[s] # TOMBSTONE,
         Exchanged(s, v)
  PROVE  RetainInv'
<1>1. values' \in Kept(capacity) /\ values'[s] = v
      /\ \A t \in Slots(capacity) : t # s => values'[t] = values[t]
  BY TableShape DEF Kept, Exchanged
<1>2. ASSUME NEW w \in Val
      PROVE  Cardinality(With(keys', values', capacity, w)) <= refs'[w]
  <2>1. Cardinality(With(keys', values', capacity, w)) =
           Cardinality(With(keys, values, capacity, w)) + (IF values'[s] = w THEN 1 ELSE 0)
                                                        - (IF values[s] = w THEN 1 ELSE 0)
    <3>1. capacity \in Nat /\ keys \in Arrays(capacity) /\ values \in Kept(capacity)
          /\ keys' \in Arrays(capacity) /\ values' \in Kept(capacity)
          /\ keys[s] # TOMBSTONE /\ keys'[s] # TOMBSTONE /\ s \in Slots(capacity)
      BY <1>1, TableShape DEF Exchanged
    <3>2. \A t \in Slots(capacity) : t # s => keys'[t] = keys[t] /\ values'[t] = values[t]
      BY <1>1 DEF Exchanged
    <3> QED
      BY <3>1, <3>2, StoredCounted
  <2>2. Cardinality(With(keys, values, capacity, w)) \in Nat
    BY TableShape, WithCounted
  <2>3. Cardinality(With(keys, values, capacity, w)) <= refs[w]
    BY DEF RetainInv
  <2>4. refs'[w] = refs[w] + (IF v = w THEN 1 ELSE 0) - (IF values[s] = w THEN 1 ELSE 0)
    BY TableShape, HashAssumption DEF Retained, Released, Kept, Exchanged
  <2>5. refs[w] \in Int
    BY TableShape
  <2> QED
    BY <1>1, <2>1, <2>2, <2>3, <2>4, <2>5
<1> QED
  BY <1>2 DEF RetainInv, Exchanged

LEMMA ReplaceRetain == \A k \in Key, v \in Val : TableInv /\ RetainInv /\ Replace(k, v) => RetainInv'
<1> SUFFICES ASSUME NEW k \in Key, NEW v \in Val, TableInv, RetainInv, Replace(k, v)
             PROVE  RetainInv'
  OBVIOUS
<1>1. FindIndex(keys, capacity, k) \in Slots(capacity) /\ keys[FindIndex(keys, capacity, k)] # TOMBSTONE
  BY InRange, ProbeStops, HashAssumption DEF Replace
<1> QED
  BY <1>1, ExchangeRetain DEF Replace, Exchanged

LEMMA AssignRetain == \A k \in Key, v \in Val : TableInv /\ RetainInv /\ Assign(k, v) => RetainInv'
<1> SUFFICES ASSUME NEW k \in Key, NEW v \in Val, TableInv, RetainInv, Assign(k, v)
             PROVE  RetainInv'
  OBVIOUS
<1>1. FindIndex(keys, capacity, k) \in Slots(capacity) /\ keys[FindIndex(keys, capacity, k)] # TOMBSTONE
  BY InRange, ProbeStops, HashAssumption DEF Assign
<1> QED
  BY <1>1, ExchangeRetain DEF Assign, Exchanged

(* What the free slot held is overwritten, which costs no count. *)
LEMMA AddRetain == \A k \in Key, v \in Val : TableInv /\ RetainInv /\ Add(k, v) => RetainInv'
<1> SUFFICES ASSUME NEW k \in Key, NEW v \in Val, TableInv, RetainInv, Add(k, v)
             PROVE  RetainInv'
  OBVIOUS
<1> DEFINE s == FindIndex(keys, capacity, k)
<1>1. s \in Slots(capacity) /\ keys[s] # TOMBSTONE
  BY InRange, ProbeStops, HashAssumption DEF Add
<1>2. /\ keys' = [keys EXCEPT ![s] = k] /\ values' = [values EXCEPT ![s] = v]
      /\ refs' = Retained(refs, v) /\ capacity' = capacity /\ pc' = "ready"
  BY DEF Add
<1> HIDE DEF s
<1>3. /\ keys' \in Arrays(capacity) /\ keys'[s] # TOMBSTONE /\ values' \in Kept(capacity) /\ values'[s] = v
      /\ \A t \in Slots(capacity) : t # s => keys'[t] = keys[t] /\ values'[t] = values[t]
  BY <1>1, <1>2, TableShape, HashAssumption DEF Arrays, Kept
<1>4. ASSUME NEW w \in Val
      PROVE  Cardinality(With(keys', values', capacity, w)) <= refs'[w]
  <2>1. Cardinality(With(keys', values', capacity, w)) =
           Cardinality(With(keys, values, capacity, w)) + (IF values'[s] = w THEN 1 ELSE 0)
                                                        - (IF values[s] = w THEN 1 ELSE 0)
    BY <1>1, <1>3, TableShape, StoredCounted
  <2>2. Cardinality(With(keys, values, capacity, w)) \in Nat
    BY TableShape, WithCounted
  <2>3. Cardinality(With(keys, values, capacity, w)) <= refs[w] /\ refs[w] \in Int
    BY TableShape DEF RetainInv
  <2>4. refs'[w] = refs[w] + (IF v = w THEN 1 ELSE 0)
    BY <1>2, TableShape DEF Retained
  <2> QED
    BY <1>3, <2>1, <2>2, <2>3, <2>4
<1> QED
  BY <1>2, <1>4 DEF RetainInv

LEMMA AddAndGrowRetain ==
  \A k \in Key, v \in Val : TableInv /\ RetainInv /\ AddAndGrow(k, v) => RetainInv'
<1> SUFFICES ASSUME NEW k \in Key, NEW v \in Val, TableInv, RetainInv, AddAndGrow(k, v)
             PROVE  RetainInv'
  OBVIOUS
<1> DEFINE s == FindIndex(keys, capacity, k)
<1>1. s \in Slots(capacity) /\ keys[s] # TOMBSTONE
  BY InRange, ProbeStops, HashAssumption DEF AddAndGrow
<1>2. /\ keys' = [keys EXCEPT ![s] = k] /\ i' = 0
      /\ UNCHANGED <<capacity, values, refs>>
      /\ new_keys' = Empty(new_size') /\ new_values' = Empty(new_size')
  BY DEF AddAndGrow
<1> HIDE DEF s
<1>3. \A t \in Slots(capacity) : keys'[t] # TOMBSTONE <=> keys[t] # TOMBSTONE
  BY <1>1, <1>2, TableShape, HashAssumption DEF Arrays
<1>4. \A w \in Val : With(keys', values, capacity, w) = With(keys, values, capacity, w)
  BY <1>3 DEF With
<1>5. \A w \in Val : With(new_keys', new_values', new_size', w) = {} /\ PassedWith(w)' = {}
  BY <1>2, HashAssumption DEF With, PassedWith, Empty, Slots
<1>6. \A t \in Slots(new_size') : new_values'[t] = NOTHING
  BY <1>2 DEF Empty
<1>7. \A w \in Val : Cardinality(With(new_keys', new_values', new_size', w)) <= Cardinality(PassedWith(w)')
  BY <1>5, FS_EmptySet
<1> QED
  BY <1>2, <1>4, <1>6, <1>7 DEF RetainInv

LEMMA DeleteRetain == \A k \in Key : TableInv /\ RetainInv /\ Delete(k) => RetainInv'
<1> SUFFICES ASSUME NEW k \in Key, TableInv, RetainInv, Delete(k)
             PROVE  RetainInv'
  OBVIOUS
<1> DEFINE s == FindIndex(keys, capacity, k)
<1>1. s \in Slots(capacity) /\ keys[s] # TOMBSTONE
  BY InRange, ProbeStops, HashAssumption DEF Delete
<1>2. /\ keys' = [keys EXCEPT ![s] = TOMBSTONE] /\ refs' = Released(refs, values[s])
      /\ UNCHANGED <<capacity, values>> /\ pc' = "ready"
  BY DEF Delete
<1> HIDE DEF s
<1>3. keys'[s] = TOMBSTONE /\ \A t \in Slots(capacity) : t # s => keys'[t] = keys[t]
  BY <1>1, <1>2, TableShape DEF Arrays
<1>4. ASSUME NEW w \in Val
      PROVE  Cardinality(With(keys', values, capacity, w)) <= refs'[w]
  <2> DEFINE W == With(keys, values, capacity, w)
  <2>1. With(keys', values, capacity, w) = W \ {s}
    BY <1>3 DEF With
  <2>2. s \in W <=> values[s] = w
    BY <1>1 DEF With
  <2>3. IsFiniteSet(W) /\ Cardinality(W) \in Nat /\ Cardinality(W) <= refs[w] /\ refs[w] \in Int
    BY TableShape, WithCounted DEF RetainInv
  <2>4. refs'[w] = refs[w] - (IF values[s] = w THEN 1 ELSE 0)
    BY <1>1, <1>2, TableShape, HashAssumption DEF Released, Kept
  <2> HIDE DEF W
  <2>5. Cardinality(W \ {s}) = IF s \in W THEN Cardinality(W) - 1 ELSE Cardinality(W)
    BY <2>3, FS_RemoveElement
  <2> QED
    BY <2>1, <2>2, <2>3, <2>4, <2>5
<1> QED
  BY <1>2, <1>4 DEF RetainInv

(* A turn that stores an entry has passed one more slot with its value. *)
LEMMA MigrateRetain == TableInv /\ RetainInv /\ Migrate => RetainInv'
<1> SUFFICES ASSUME TableInv, RetainInv, Migrate
             PROVE  RetainInv'
  OBVIOUS
<1>1. /\ pc = "rehash" /\ i < capacity /\ i \in Nat /\ i \in Slots(capacity)
      /\ new_size \in Lengths /\ new_size \in Nat
      /\ new_keys \in Arrays(new_size) /\ new_values \in Kept(new_size)
  BY TableShape DEF Migrate, TableInv, Moved, Slots
<1>2. UNCHANGED <<capacity, keys, values, refs, new_size>>
  BY DEF Migrate
<1>3. /\ \A t \in Slots(new_size) : new_keys[t] = NOTHING => new_values[t] = NOTHING
      /\ \A v \in Val :
           Cardinality(With(new_keys, new_values, new_size, v)) <= Cardinality(PassedWith(v))
  BY <1>1 DEF RetainInv
<1> DEFINE t == FindIndex(new_keys, new_size, keys[i])
           Stays == \A s \in Slots(new_size) : new_keys'[s] = NOTHING => new_values'[s] = NOTHING
           Bounded == \A v \in Val :
             Cardinality(With(new_keys', new_values', new_size, v)) <= Cardinality(PassedWith(v)')
<1>4. CASE keys[i] \in {NOTHING, TOMBSTONE} /\ i' = i + 1 /\ UNCHANGED <<new_keys, new_values>>
  <2>1. \A v \in Val : PassedWith(v)' = PassedWith(v)
    BY <1>1, <1>2, <1>4, HashAssumption DEF PassedWith, Slots
  <2>2. Stays
    BY <1>3, <1>4
  <2>3. Bounded
    BY <1>3, <1>4, <2>1
  <2> QED
    BY <1>2, <2>2, <2>3 DEF RetainInv
<1>5. CASE /\ keys[i] \in Key /\ ~Cycles(new_keys, new_size, keys[i]) /\ i' = i + 1
           /\ new_keys[t] = NOTHING
           /\ new_keys' = [new_keys EXCEPT ![t] = keys[i]]
           /\ new_values' = [new_values EXCEPT ![t] = values[i]]
  <2>1. t \in Slots(new_size)
    BY <1>1, <1>5, ProbeStops
  <2> HIDE DEF t
  <2>2. values[i] \in Val \cup {NOTHING}
    BY <1>1, TableShape DEF Kept
  <2>3. /\ new_keys' \in Arrays(new_size) /\ new_keys'[t] = keys[i]
        /\ new_values' \in Kept(new_size) /\ new_values'[t] = values[i]
        /\ \A s \in Slots(new_size) : s # t => new_keys'[s] = new_keys[s] /\ new_values'[s] = new_values[s]
    BY <1>1, <1>5, <2>1, <2>2 DEF Arrays, Kept
  <2>4. Stays
    BY <1>3, <1>5, <2>1, <2>3, HashAssumption
  <2>5. ASSUME NEW v \in Val
        PROVE  Cardinality(With(new_keys', new_values', new_size, v)) <= Cardinality(PassedWith(v)')
    <3>1. new_keys[t] # TOMBSTONE /\ new_keys'[t] # TOMBSTONE /\ new_values[t] # v
      BY <1>3, <1>5, <2>1, <2>3, HashAssumption
    <3>2. Cardinality(With(new_keys', new_values', new_size, v)) =
            Cardinality(With(new_keys, new_values, new_size, v)) + (IF new_values'[t] = v THEN 1 ELSE 0)
                                                                 - (IF new_values[t] = v THEN 1 ELSE 0)
      <4>1. /\ new_size \in Nat /\ new_keys \in Arrays(new_size) /\ new_keys' \in Arrays(new_size)
            /\ new_values \in Kept(new_size) /\ new_values' \in Kept(new_size) /\ t \in Slots(new_size)
            /\ new_keys[t] # TOMBSTONE /\ new_keys'[t] # TOMBSTONE
        BY <1>1, <2>1, <2>3, <3>1
      <4>2. \A s \in Slots(new_size) : s # t => new_keys'[s] = new_keys[s] /\ new_values'[s] = new_values[s]
        BY <2>3
      <4> QED
        BY <4>1, <4>2, StoredCounted
    <3>3. Cardinality(With(new_keys, new_values, new_size, v)) \in Nat
      BY <1>1, WithCounted
    <3>4. PassedWith(v) \in SUBSET Slots(capacity)
      BY <1>1, TableShape DEF PassedWith, Slots
    <3>5. Cardinality(PassedWith(v)') = Cardinality(PassedWith(v)) + (IF values[i] = v THEN 1 ELSE 0)
      <4>1. Cardinality(PassedWith(v)) \in Nat
        BY <3>4, TableShape, SlotsFinite
      <4>2. CASE values[i] = v
        <5>1. PassedWith(v)' = PassedWith(v) \cup {i} /\ i \notin PassedWith(v)
          BY <1>1, <1>2, <1>5, <4>2 DEF PassedWith, Slots
        <5>2. Cardinality(PassedWith(v)') = Cardinality(PassedWith(v)) + 1
          BY <3>4, <5>1, TableShape, OneMore
        <5> QED
          BY <4>2, <5>2
      <4>3. CASE values[i] # v
        <5>1. PassedWith(v)' = PassedWith(v)
          BY <1>1, <1>2, <1>5, <4>3 DEF PassedWith, Slots
        <5> QED
          BY <4>1, <4>3, <5>1
      <4> QED
        BY <4>2, <4>3
    <3>6. Cardinality(With(new_keys, new_values, new_size, v)) <= Cardinality(PassedWith(v))
      BY <1>3
    <3>7. Cardinality(PassedWith(v)) \in Nat
      BY <3>4, TableShape, SlotsFinite
    <3> QED
      BY <2>3, <3>1, <3>2, <3>3, <3>5, <3>6, <3>7
  <2> QED
    BY <1>2, <2>4, <2>5 DEF RetainInv
<1>6. CASE pc' # "rehash"
  BY <1>2, <1>6 DEF RetainInv
<1> QED
  BY <1>1, <1>4, <1>5, <1>6 DEF Migrate

LEMMA FinishGrowthRetain == TableInv /\ RetainInv /\ FinishGrowth => RetainInv'
<1> SUFFICES ASSUME TableInv, RetainInv, FinishGrowth
             PROVE  RetainInv'
  OBVIOUS
<1>1. /\ pc = "rehash" /\ i = capacity /\ pc' = "ready" /\ refs' = Retained(refs, pending)
      /\ capacity' = new_size /\ keys' = new_keys /\ values' = new_values
  BY DEF FinishGrowth
<1>2. ASSUME NEW v \in Val
      PROVE  Cardinality(With(new_keys, new_values, new_size, v)) <= refs'[v]
  <2> DEFINE W == With(keys, values, capacity, v)
  <2>1. PassedWith(v) \in SUBSET W
    BY <1>1, HashAssumption DEF PassedWith, With
  <2>2. IsFiniteSet(W) /\ Cardinality(W) \in Nat /\ Cardinality(W) <= refs[v]
    BY TableShape, WithCounted DEF RetainInv
  <2>3. Cardinality(With(new_keys, new_values, new_size, v)) <= Cardinality(PassedWith(v))
    BY <1>1 DEF RetainInv
  <2>4. refs[v] \in Int /\ refs'[v] >= refs[v]
    BY <1>1, TableShape DEF Retained
  <2> HIDE DEF W
  <2>5. Cardinality(PassedWith(v)) <= Cardinality(W) /\ Cardinality(PassedWith(v)) \in Nat
    BY <2>1, <2>2, FS_Subset, FS_CardinalityType
  <2>6. Cardinality(With(new_keys, new_values, new_size, v)) \in Nat /\ refs'[v] \in Int
    BY <1>1, TableShape, WithCounted DEF Retained
  <2> QED
    BY <2>2, <2>3, <2>4, <2>5, <2>6
<1> QED
  BY <1>1, <1>2 DEF RetainInv

LEMMA Retaining == Spec => []RetainInv
<1>1. TableInv /\ RetainInv /\ [Next]_vars => RetainInv'
  <2> SUFFICES ASSUME TableInv, RetainInv, [Next]_vars PROVE RetainInv'
    OBVIOUS
  <2>1. CASE UNCHANGED vars
    BY <2>1 DEF vars, growth, RetainInv, With, PassedWith
  <2>2. ASSUME NEW k \in Key, Hang(k)
        PROVE  RetainInv'
    BY <2>2 DEF Hang, growth, RetainInv, With, PassedWith
  <2> QED
    BY <2>1, <2>2, ReplaceRetain, AssignRetain, AddRetain, AddAndGrowRetain, DeleteRetain,
       MigrateRetain, FinishGrowthRetain DEF Next, Insert
<1> QED
  BY RetainInit, Invariance, <1>1, PTL DEF Spec

(* A value that a lookup can return has at least as many counts as keys map *)
(* to it, stale values in free slots and growths in the middle included     *)
(* (sbV_retain and sbV_release in set_key, delete_key, sbVar_set_value).    *)
THEOREM RetainedAlways == Spec => []ValuesRetained
<1>1. TableInv /\ RetainInv => ValuesRetained
  <2> SUFFICES ASSUME TableInv, RetainInv, NEW v \in Val
               PROVE  Cardinality({s \in Holding(keys, capacity) : values[s] = v}) <= refs[v]
    BY TableShape, SlotsFinite DEF ValuesRetained, Holding
  <2> DEFINE H == {s \in Holding(keys, capacity) : values[s] = v}
             W == With(keys, values, capacity, v)
  <2>1. H \in SUBSET W
    BY HashAssumption DEF Holding, With
  <2>2. IsFiniteSet(W) /\ Cardinality(W) \in Nat /\ Cardinality(W) <= refs[v] /\ refs[v] \in Int
    BY TableShape, WithCounted DEF RetainInv
  <2> HIDE DEF W, H
  <2>3. Cardinality(H) <= Cardinality(W) /\ Cardinality(H) \in Nat
    BY <2>1, <2>2, FS_Subset, FS_CardinalityType
  <2>4. Cardinality(H) <= refs[v]
    BY <2>2, <2>3
  <2> QED
    BY <2>4 DEF H
<1> QED
  BY Invariance, Retaining, <1>1, PTL

-------------------------------------------------------------------------------
(* The map.  What a lookup answers for a key depends on the slot that holds *)
(* it and on nothing else, so that an operation that leaves this slot alone *)
(* leaves the answer alone.                                                 *)
Absent(ks, n, k) == \A s \in Slots(n) : ks[s] # k

LEMMA LookupHeld ==
  ASSUME NEW n \in Lengths, NEW ks \in Arrays(n), NEW vs, Findable(ks, n), NEW k \in Key,
         NEW s \in Slots(n), ks[s] = k
  PROVE  Lookup(ks, vs, n, k) = vs[s]
BY FoundWhereHeld, HashAssumption DEF Lookup

LEMMA LookupAbsent ==
  ASSUME NEW n \in Lengths, NEW ks, NEW vs, NEW k \in Key, Absent(ks, n, k)
  PROVE  Lookup(ks, vs, n, k) = ABSENT
<1>1. CASE Cycles(ks, n, k)
  BY <1>1 DEF Lookup
<1>2. CASE ~Cycles(ks, n, k)
  BY <1>2, ProbeStops DEF Lookup, Absent
<1> QED
  BY <1>1, <1>2

LEMMA LookupKept ==
  ASSUME NEW n \in Lengths, NEW ks \in Arrays(n), NEW ks2 \in Arrays(n), NEW vs, NEW vs2,
         Findable(ks, n), Findable(ks2, n), NEW q \in Key,
         \A s \in Slots(n) : ks2[s] = q <=> ks[s] = q,
         \A s \in Slots(n) : ks[s] = q => vs2[s] = vs[s]
  PROVE  Lookup(ks2, vs2, n, q) = Lookup(ks, vs, n, q)
<1>1. CASE Absent(ks, n, q)
  <2>1. Absent(ks2, n, q)
    BY <1>1 DEF Absent
  <2> QED
    BY <1>1, <2>1, LookupAbsent
<1>2. CASE ~Absent(ks, n, q)
  <2>1. PICK s \in Slots(n) : ks[s] = q
    BY <1>2 DEF Absent
  <2>2. Lookup(ks, vs, n, q) = vs[s]
    BY <2>1, LookupHeld
  <2>3. Lookup(ks2, vs2, n, q) = vs2[s]
    BY <2>1, LookupHeld
  <2> QED
    BY <2>1, <2>2, <2>3
<1> QED
  BY <1>1, <1>2

LEMMA AnswersAre ==
  ASSUME TableInv
  PROVE  /\ capacity \in Lengths /\ keys \in Arrays(capacity) /\ Findable(keys, capacity)
         /\ values \in Kept(capacity)
         /\ \A s \in Slots(capacity) : keys[s] \in Key => Answers[keys[s]] = values[s]
         /\ \A k \in Key : Absent(keys, capacity, k) => Answers[k] = ABSENT
<1>1. capacity \in Lengths /\ keys \in Arrays(capacity) /\ Findable(keys, capacity)
      /\ values \in Kept(capacity)
  BY InRange, TableShape DEF TableInv, KeysFindable
<1>2. \A s \in Slots(capacity) : keys[s] \in Key => Answers[keys[s]] = values[s]
  BY <1>1, LookupHeld DEF Answers
<1>3. \A k \in Key : Absent(keys, capacity, k) => Answers[k] = ABSENT
  BY <1>1, LookupAbsent DEF Answers
<1> QED
  BY <1>1, <1>2, <1>3

(* What a step does to one key, when it leaves all the others alone. *)
LEMMA OnlyOne ==
  ASSUME TableInv, TableInv', capacity' = capacity, NEW k \in Key,
         \A q \in Key, s \in Slots(capacity) :
           q # k => /\ keys'[s] = q <=> keys[s] = q
                    /\ keys[s] = q => values'[s] = values[s],
         NEW x, Answers'[k] = x
  PROVE  Answers' = [Answers EXCEPT ![k] = x]
<1>1. keys \in Arrays(capacity) /\ keys' \in Arrays(capacity) /\ capacity \in Lengths
      /\ Findable(keys, capacity) /\ Findable(keys', capacity)
  BY InRange DEF TableInv, KeysFindable, TypeOK, Arrays
<1>2. ASSUME NEW q \in Key, q # k
      PROVE  Answers'[q] = Answers[q]
  <2>1. Lookup(keys', values', capacity, q) = Lookup(keys, values, capacity, q)
    BY <1>1, <1>2, LookupKept
  <2> QED
    BY <2>1 DEF Answers
<1>3. Answers \in [Key -> {Answers[q] : q \in Key}] /\ DOMAIN Answers = Key /\ DOMAIN Answers' = Key
  BY DEF Answers
<1>4. Answers' = [q \in Key |-> Answers'[q]]
  BY DEF Answers
<1>5. Answers = [q \in Key |-> Answers[q]]
  BY DEF Answers
<1> QED
  BY <1>2, <1>3, <1>4, <1>5

LEMMA AfterStep ==
  ASSUME TableInv, TableInv', capacity' = capacity, NEW k \in Key
  PROVE  /\ \A s \in Slots(capacity) : keys'[s] = k => Answers'[k] = values'[s]
         /\ Absent(keys', capacity, k) => Answers'[k] = ABSENT
<1>1. capacity \in Lengths /\ keys' \in Arrays(capacity) /\ Findable(keys', capacity)
  BY InRange DEF TableInv, KeysFindable, TypeOK, Arrays
<1>2. Answers'[k] = Lookup(keys', values', capacity, k)
  BY DEF Answers
<1> QED
  BY <1>1, <1>2, LookupHeld, LookupAbsent

LEMMA PutIn ==
  ASSUME NEW k \in Key, NEW v \in Val, Answers' = [Answers EXCEPT ![k] = v]
  PROVE  Map!Next
BY DEF Map!Next, Map!Put

LEMMA ReplaceMaps ==
  \A k \in Key, v \in Val : TableInv /\ TableInv' /\ Replace(k, v) => Map!Next
<1> SUFFICES ASSUME NEW k \in Key, NEW v \in Val, TableInv, TableInv', Replace(k, v)
             PROVE  Map!Next
  OBVIOUS
<1> DEFINE s == FindIndex(keys, capacity, k)
<1>1. s \in Slots(capacity) /\ keys[s] = k
  BY InRange, ProbeStops DEF Replace
<1>2. keys' = keys /\ capacity' = capacity /\ values' = [values EXCEPT ![s] = v]
  BY DEF Replace
<1> HIDE DEF s
<1>3. values'[s] = v /\ \A t \in Slots(capacity) : t # s => values'[t] = values[t]
  BY <1>1, <1>2, TableShape DEF Kept
<1>4. Answers'[k] = v
  BY <1>1, <1>2, <1>3, AfterStep
<1>5. \A q \in Key, t \in Slots(capacity) :
        q # k => /\ keys'[t] = q <=> keys[t] = q
                 /\ keys[t] = q => values'[t] = values[t]
  BY <1>1, <1>2, <1>3
<1>6. Answers' = [Answers EXCEPT ![k] = v]
  BY <1>2, <1>4, <1>5, OnlyOne
<1> QED
  BY <1>6, PutIn

LEMMA AddAnswers ==
  ASSUME NEW k \in Key, NEW v \in Val, TableInv, TableInv', Add(k, v)
  PROVE  Answers' = [Answers EXCEPT ![k] = v]
<1> DEFINE s == FindIndex(keys, capacity, k)
<1>1. s \in Slots(capacity) /\ keys[s] = NOTHING
  BY InRange, ProbeStops DEF Add
<1>2. keys' = [keys EXCEPT ![s] = k] /\ capacity' = capacity /\ values' = [values EXCEPT ![s] = v]
  BY DEF Add
<1> HIDE DEF s
<1>3. /\ keys'[s] = k /\ values'[s] = v
      /\ \A t \in Slots(capacity) : t # s => keys'[t] = keys[t] /\ values'[t] = values[t]
  BY <1>1, <1>2, TableShape DEF Kept, Arrays
<1>4. Answers'[k] = v
  BY <1>1, <1>2, <1>3, AfterStep
<1>5. \A q \in Key, t \in Slots(capacity) :
        q # k => /\ keys'[t] = q <=> keys[t] = q
                 /\ keys[t] = q => values'[t] = values[t]
  BY <1>1, <1>3, HashAssumption
<1> QED
  BY <1>2, <1>4, <1>5, OnlyOne

(* The key is recorded with what its slot happened to hold. *)
LEMMA AddAndGrowAnswers ==
  ASSUME NEW k \in Key, NEW v \in Val, TableInv, TableInv', AddAndGrow(k, v)
  PROVE  /\ Answers[k] = ABSENT
         /\ \E s \in Slots(capacity) :
              /\ keys[s] = NOTHING /\ values[s] \in Val \cup {NOTHING}
              /\ Answers' = [Answers EXCEPT ![k] = values[s]]
<1> DEFINE s == FindIndex(keys, capacity, k)
<1>1. s \in Slots(capacity) /\ keys[s] = NOTHING /\ ~Cycles(keys, capacity, k)
  BY InRange, ProbeStops DEF AddAndGrow
<1>2. Absent(keys, capacity, k)
  BY <1>1, AnswersAre, NotHeld DEF Absent
<1>3. keys' = [keys EXCEPT ![s] = k] /\ capacity' = capacity /\ values' = values
  BY DEF AddAndGrow
<1> HIDE DEF s
<1>4. keys'[s] = k /\ \A t \in Slots(capacity) : t # s => keys'[t] = keys[t]
  BY <1>1, <1>3, TableShape DEF Arrays
<1>5. Answers'[k] = values[s]
  BY <1>1, <1>3, <1>4, AfterStep
<1>6. values[s] \in Val \cup {NOTHING}
  BY <1>1, TableShape DEF Kept
<1>7. \A q \in Key, t \in Slots(capacity) :
        q # k => /\ keys'[t] = q <=> keys[t] = q
                 /\ keys[t] = q => values'[t] = values[t]
  BY <1>1, <1>3, <1>4, HashAssumption
<1>8. Answers' = [Answers EXCEPT ![k] = values[s]]
  BY <1>3, <1>5, <1>7, OnlyOne
<1>9. Answers[k] = ABSENT
  BY <1>2, AnswersAre
<1> QED
  BY <1>1, <1>6, <1>8, <1>9

(* Through a reference to a free slot nothing is put that a lookup sees. *)
LEMMA AssignMaps ==
  \A k \in Key, v \in Val :
    TableInv /\ TableInv' /\ Assign(k, v) => Map!Next \/ Answers' = Answers
<1> SUFFICES ASSUME NEW k \in Key, NEW v \in Val, TableInv, TableInv', Assign(k, v)
             PROVE  Map!Next \/ Answers' = Answers
  OBVIOUS
<1> DEFINE s == FindIndex(keys, capacity, k)
<1>1. s \in Slots(capacity) /\ keys[s] \in {k, NOTHING} /\ ~Cycles(keys, capacity, k)
  BY InRange, ProbeStops DEF Assign
<1>2. keys' = keys /\ capacity' = capacity /\ values' = [values EXCEPT ![s] = v]
  BY DEF Assign
<1>3. keys[s] = NOTHING => Absent(keys, capacity, k)
  BY <1>1, AnswersAre, NotHeld DEF Absent
<1> HIDE DEF s
<1>4. values'[s] = v /\ \A t \in Slots(capacity) : t # s => values'[t] = values[t]
  BY <1>1, <1>2, TableShape DEF Kept
<1>5. \A q \in Key, t \in Slots(capacity) :
        q # k => /\ keys'[t] = q <=> keys[t] = q
                 /\ keys[t] = q => values'[t] = values[t]
  BY <1>1, <1>2, <1>4, HashAssumption
<1>6. CASE keys[s] = k
  <2>1. Answers'[k] = v
    BY <1>1, <1>2, <1>4, <1>6, AfterStep
  <2>2. Answers' = [Answers EXCEPT ![k] = v]
    BY <1>2, <1>5, <2>1, OnlyOne
  <2> QED
    BY <2>2, PutIn
<1>7. CASE keys[s] = NOTHING
  <2>1. Absent(keys, capacity, k) /\ Absent(keys', capacity, k)
    BY <1>2, <1>3, <1>7
  <2>2. Answers'[k] = ABSENT /\ Answers[k] = ABSENT
    BY <1>2, <2>1, AfterStep, AnswersAre
  <2>3. Answers' = [Answers EXCEPT ![k] = ABSENT]
    BY <1>2, <1>5, <2>2, OnlyOne
  <2>4. Answers = [q \in Key |-> Answers[q]]
    BY DEF Answers
  <2> QED
    BY <2>2, <2>3, <2>4
<1> QED
  BY <1>1, <1>6, <1>7

LEMMA DeleteMaps ==
  \A k \in Key : TableInv /\ TableInv' /\ Delete(k) => Map!Next
<1> SUFFICES ASSUME NEW k \in Key, TableInv, TableInv', Delete(k)
             PROVE  Map!Next
  OBVIOUS
<1> DEFINE s == FindIndex(keys, capacity, k)
<1>1. s \in Slots(capacity) /\ keys[s] = k
  BY InRange, ProbeStops DEF Delete
<1>2. \A t \in Slots(capacity) : keys[t] = k => t = s
  BY AnswersAre, FoundWhereHeld
<1>3. keys' = [keys EXCEPT ![s] = TOMBSTONE] /\ capacity' = capacity /\ values' = values
  BY DEF Delete
<1> HIDE DEF s
<1>4. keys'[s] = TOMBSTONE /\ \A t \in Slots(capacity) : t # s => keys'[t] = keys[t]
  BY <1>1, <1>3, TableShape DEF Arrays
<1>5. Absent(keys', capacity, k)
  BY <1>2, <1>4, HashAssumption DEF Absent
<1>6. Answers'[k] = ABSENT
  BY <1>3, <1>5, AfterStep
<1>7. \A q \in Key, t \in Slots(capacity) :
        q # k => /\ keys'[t] = q <=> keys[t] = q
                 /\ keys[t] = q => values'[t] = values[t]
  BY <1>1, <1>3, <1>4, HashAssumption
<1>8. Answers' = [Answers EXCEPT ![k] = ABSENT]
  BY <1>3, <1>6, <1>7, OnlyOne
<1>9. Answers[k] # ABSENT
  <2>1. Answers[k] = values[s] /\ values[s] \in Val \cup {NOTHING}
    BY <1>1, AnswersAre, TableShape DEF Kept
  <2> QED
    BY <2>1, HashAssumption
<1> QED
  BY <1>8, <1>9 DEF Map!Next, Map!Remove

(* The new arrays answer as the old ones did. *)
LEMMA FinishGrowthMaps == TableInv /\ TableInv' /\ FinishGrowth => Answers' = Answers
<1> SUFFICES ASSUME TableInv, TableInv', FinishGrowth
             PROVE  Answers' = Answers
  OBVIOUS
<1>1. /\ pc = "rehash" /\ i = capacity
      /\ capacity' = new_size /\ keys' = new_keys /\ values' = new_values
  BY DEF FinishGrowth
<1>2. /\ new_size \in Lengths /\ new_keys \in Arrays(new_size) /\ Findable(new_keys, new_size)
      /\ \A s \in Slots(capacity) : keys[s] \in Key =>
           \E t \in Slots(new_size) : new_keys[t] = keys[s]
      /\ \A t \in Slots(new_size) : new_keys[t] \in Key =>
           \E s \in Slots(capacity) : keys[s] = new_keys[t] /\ values[s] = new_values[t]
  BY <1>1, TableShape DEF TableInv, KeysFindable, Moved, Holding
<1>3. ASSUME NEW k \in Key
      PROVE  Lookup(new_keys, new_values, new_size, k) = Answers[k]
  <2>1. CASE Absent(new_keys, new_size, k)
    <3>1. Absent(keys, capacity, k)
      BY <1>2, <2>1 DEF Absent
    <3> QED
      BY <1>2, <2>1, <3>1, LookupAbsent, AnswersAre
  <2>2. CASE ~Absent(new_keys, new_size, k)
    <3>1. PICK t \in Slots(new_size) : new_keys[t] = k
      BY <2>2 DEF Absent
    <3>2. PICK s \in Slots(capacity) : keys[s] = k /\ values[s] = new_values[t]
      BY <1>2, <3>1
    <3>3. Lookup(new_keys, new_values, new_size, k) = new_values[t]
      BY <1>2, <3>1, LookupHeld
    <3>4. Answers[k] = values[s]
      BY <3>2, AnswersAre
    <3> QED
      BY <3>2, <3>3, <3>4
  <2> QED
    BY <2>1, <2>2
<1>4. Answers' = [k \in Key |-> Lookup(new_keys, new_values, new_size, k)]
  BY <1>1 DEF Answers
<1>5. Answers = [k \in Key |-> Answers[k]]
  BY DEF Answers
<1> QED
  BY <1>3, <1>4, <1>5

LEMMA InitAnswers == Init => Answers = [k \in Key |-> ABSENT]
<1> SUFFICES ASSUME Init PROVE Answers = [k \in Key |-> ABSENT]
  OBVIOUS
<1>1. TableInv /\ keys = Empty(capacity)
  BY InitInv DEF Init
<1>2. \A k \in Key : Absent(keys, capacity, k)
  BY <1>1, HashAssumption DEF Absent, Empty
<1>3. \A k \in Key : Answers[k] = ABSENT
  BY <1>1, <1>2, AnswersAre
<1>4. Answers = [k \in Key |-> Answers[k]]
  BY DEF Answers
<1> QED
  BY <1>3, <1>4

(* Every table behaves as a map in which no operation on one key touches    *)
(* another, deletions, stale values and growths included (hashtable.c).     *)
THEOREM Refinement == Spec => ImplementsKVMap
<1>1. Init => Map!Init
  BY InitAnswers DEF Map!Init
<1>2. TableInv /\ TableInv' /\ [Next]_vars => [Map!Next]_Answers
  <2> SUFFICES ASSUME TableInv, TableInv', [Next]_vars PROVE [Map!Next]_Answers
    OBVIOUS
  <2>1. ASSUME UNCHANGED <<capacity, keys, values>>
        PROVE  Answers' = Answers
    BY <2>1 DEF Answers, Lookup, Cycles, Stops, FindIndex
  <2>2. CASE UNCHANGED vars
    BY <2>1, <2>2 DEF vars
  <2>3. ASSUME NEW k \in Key, Hang(k)
        PROVE  Answers' = Answers
    BY <2>1, <2>3 DEF Hang
  <2>4. CASE Migrate
    BY <2>1, <2>4 DEF Migrate
  <2>5. ASSUME NEW k \in Key, NEW v \in Val, Insert(k, v) \/ Assign(k, v)
        PROVE  Map!Next \/ Answers' = Answers
    <3>1. CASE Add(k, v)
      BY <3>1, AddAnswers, PutIn
    <3>2. CASE AddAndGrow(k, v)
      BY <3>2, AddAndGrowAnswers DEF Map!Next, Map!PutLosing
    <3> QED
      BY <2>5, <3>1, <3>2, ReplaceMaps, AssignMaps DEF Insert
  <2> QED
    BY <2>2, <2>3, <2>4, <2>5, DeleteMaps, FinishGrowthMaps DEF Next
<1> QED
  BY <1>1, <1>2, Invariance, PTL DEF Spec, ImplementsKVMap, Map!Spec
===============================================================================
