------------------------------ MODULE PoolProofs ------------------------------
(***************************************************************************)
(* Proofs about Pool.tla for every block size, table capacity, address set *)
(* and content.  Since nothing is ever freed, the blocks fill one after    *)
(* the other: every block but the last is full, the search starts at the   *)
(* last one, and its used entries are a prefix that ends at its cursor.    *)
(* That is what PoolInv says; the properties of Pool.tla follow from it.   *)
(***************************************************************************)
EXTENDS Pool, FiniteSetTheorems, TLAPS

Last == num_blocks - 1
Used == used_counts[Last]

BlocksInPlace ==
  /\ \A b \in Blocks : block_ptrs[b] \in Addr
  /\ \A b, c \in Blocks : block_ptrs[b] = block_ptrs[c] => b = c
  /\ DOMAIN memory = {block_ptrs[b] : b \in Blocks}

FilledInOrder ==
  /\ next_block_id = Last
  /\ \A b \in Blocks : b # Last => /\ used_counts[b] = BlockSize
                                   /\ memory[block_ptrs[b]].flags = Elems
  /\ Used \in 0 .. BlockSize
  /\ memory[block_ptrs[Last]].flags = 0 .. Used - 1
  /\ memory[block_ptrs[Last]].last_index = (IF Used = 0 THEN 0 ELSE Used - 1)
  /\ num_blocks = 1 \/ Used > 0

IssuedInPlace ==
  /\ DOMAIN issued = 0 .. Last * BlockSize + Used - 1
  /\ \A h \in DOMAIN issued : issued[h] = GetEntry(h)

FreshIsZero ==
  \A a \in DOMAIN memory : \A e \in Elems :
    e \notin memory[a].flags => memory[a].data[e] = Zero

PoolInv == TypeOK /\ BlocksInPlace /\ FilledInOrder /\ IssuedInPlace /\ FreshIsZero

-------------------------------------------------------------------------------
(* A handle determines its block and its entry. *)
LEMMA HandleInverse ==
  ASSUME NEW b \in Nat, NEW e \in Elems
  PROVE  Handle(b, e) \div BlockSize = b /\ Handle(b, e) % BlockSize = e
BY PoolAssumption DEF Elems, Handle

LEMMA HandleCover ==
  ASSUME NEW h \in Nat
  PROVE  /\ h \div BlockSize \in Nat
         /\ h % BlockSize \in Elems
         /\ h = Handle(h \div BlockSize, h % BlockSize)
BY PoolAssumption DEF Elems, Handle

(* The scan inside a block, from the last used entry, finds the next one. *)
LEMMA ScanFindsNext ==
  ASSUME NEW u \in 0 .. BlockSize - 1
  PROVE  FirstFrom(IF u = 0 THEN 0 ELSE u - 1, BlockSize, Elems \ (0 .. u - 1)) = u
<1> DEFINE c == IF u = 0 THEN 0 ELSE u - 1
           S == Elems \ (0 .. u - 1)
<1>1. u \in S /\ \A k \in S : k \in Int /\ k >= u /\ k < BlockSize
  BY PoolAssumption DEF Elems
<1>2. \A k \in S : Ahead(c, k, BlockSize) = k - c
  BY <1>1, PoolAssumption DEF Ahead
<1>3. \A k \in S : Ahead(c, u, BlockSize) <= Ahead(c, k, BlockSize)
  BY <1>1, <1>2, PoolAssumption
<1>4. ASSUME NEW j \in S, \A k \in S : Ahead(c, j, BlockSize) <= Ahead(c, k, BlockSize)
      PROVE  j = u
  BY <1>1, <1>2, <1>4, PoolAssumption
<1> QED
  BY <1>1, <1>3, <1>4 DEF FirstFrom

(* The search over a single candidate block returns it. *)
LEMMA ScanSingleton ==
  ASSUME NEW i \in Int, NEW n \in Int, NEW b \in Int
  PROVE  FirstFrom(i, n, {b}) = b
BY DEF FirstFrom, Ahead

LEMMA LastAndUsed ==
  ASSUME PoolInv
  PROVE  /\ Last \in Nat /\ num_blocks = Last + 1 /\ Last \in Blocks
         /\ Used \in 0 .. BlockSize
         /\ num_blocks = 1 \/ Used > 0
<1>1. num_blocks \in Nat \ {0}
  BY DEF PoolInv, TypeOK
<1>2. Used \in 0 .. BlockSize /\ (num_blocks = 1 \/ Used > 0)
  BY DEF PoolInv, FilledInOrder
<1> QED
  BY <1>1, <1>2 DEF Last, Blocks

(* Only the last block can have room. *)
LEMMA NonFullIsLast ==
  ASSUME PoolInv
  PROVE  NonFull = IF Used = BlockSize THEN {} ELSE {Last}
BY DEF PoolInv, TypeOK, FilledInOrder, NonFull, Blocks, Last, Used
-------------------------------------------------------------------------------
LEMMA InitInv == Init => PoolInv
<1> SUFFICES ASSUME Init PROVE PoolInv
  OBVIOUS
<1>1. PICK a \in Addr :
        /\ block_ptrs = [i \in 0 .. InitialCapacity - 1 |-> IF i = 0 THEN a ELSE NULL]
        /\ used_counts = [i \in 0 .. InitialCapacity - 1 |-> 0]
        /\ num_blocks = 1
        /\ block_ptr_capacity = InitialCapacity
        /\ next_block_id = 0
        /\ memory = [x \in {a} |-> NewBlock]
        /\ issued = [h \in {} |-> <<a, 0>>]
  BY DEF Init
<1>2. NewBlock \in [last_index : Elems, flags : SUBSET Elems, data : [Elems -> Content]]
  BY PoolAssumption DEF NewBlock, Elems
<1>3. TypeOK
  BY <1>1, <1>2, PoolAssumption DEF TypeOK, Blocks
<1>4. BlocksInPlace
  BY <1>1, PoolAssumption DEF BlocksInPlace, Blocks
<1>5. FilledInOrder
  BY <1>1, PoolAssumption DEF FilledInOrder, Blocks, Last, Used, NewBlock, Elems
<1>6. IssuedInPlace
  BY <1>1, PoolAssumption DEF IssuedInPlace, Last, Used
<1>7. FreshIsZero
  BY <1>1 DEF FreshIsZero, NewBlock
<1> QED
  BY <1>3, <1>4, <1>5, <1>6, <1>7 DEF PoolInv

-------------------------------------------------------------------------------
(* What sbPool_alloc does when the last block has room: entry Used of it is *)
(* taken.                                                                    *)
LEMMA AllocFromBlockEffect ==
  ASSUME PoolInv, AllocFromBlock
  PROVE  /\ Used \in 0 .. BlockSize - 1
         /\ next_block_id' = Last
         /\ block_ptrs' = block_ptrs
         /\ used_counts' = [used_counts EXCEPT ![Last] = Used + 1]
         /\ memory' = [memory EXCEPT ![block_ptrs[Last]].last_index = Used,
                                     ![block_ptrs[Last]].flags = @ \cup {Used}]
         /\ issued' = [x \in DOMAIN issued \cup {Handle(Last, Used)} |->
                         IF x = Handle(Last, Used) THEN <<block_ptrs[Last], Used>>
                                                   ELSE issued[x]]
         /\ num_blocks' = num_blocks
         /\ block_ptr_capacity' = block_ptr_capacity
<1>1. Last \in Nat /\ num_blocks = Last + 1
  BY LastAndUsed
<1>2. NonFull = {Last} /\ Used \in 0 .. BlockSize - 1
  BY NonFullIsLast, LastAndUsed, PoolAssumption DEF AllocFromBlock
<1>3. FirstFrom(next_block_id, num_blocks, NonFull) = Last
  BY <1>1, <1>2, ScanSingleton DEF PoolInv, FilledInOrder
<1>4. FirstFrom(memory[block_ptrs[Last]].last_index, BlockSize,
                Elems \ memory[block_ptrs[Last]].flags) = Used
  BY <1>2, ScanFindsNext DEF PoolInv, FilledInOrder
<1>5. (Used + 1) % CountWidth = Used + 1
  BY <1>2, PoolAssumption
<1> QED
  BY <1>2, <1>3, <1>4, <1>5 DEF AllocFromBlock, TakeSlot, Used

LEMMA AllocFromBlockInv == PoolInv /\ AllocFromBlock => PoolInv'
<1> SUFFICES ASSUME PoolInv, AllocFromBlock PROVE PoolInv'
  OBVIOUS
<1> USE DEF PoolInv
<1> DEFINE a == block_ptrs[Last]
           u == Used
           h == Handle(Last, u)
<1>1. Last \in Blocks /\ Last \in Nat /\ num_blocks = Last + 1 /\ num_blocks \in Nat
  BY LastAndUsed
<1>4. a \in Addr /\ a \in DOMAIN memory
  BY <1>1 DEF BlocksInPlace
<1>6. /\ u \in 0 .. BlockSize - 1
      /\ next_block_id' = Last
      /\ block_ptrs' = block_ptrs
      /\ used_counts' = [used_counts EXCEPT ![Last] = u + 1]
      /\ memory' = [memory EXCEPT ![a].last_index = u, ![a].flags = @ \cup {u}]
      /\ issued' = [x \in DOMAIN issued \cup {h} |-> IF x = h THEN <<a, u>> ELSE issued[x]]
      /\ num_blocks' = num_blocks
      /\ block_ptr_capacity' = block_ptr_capacity
  BY AllocFromBlockEffect
<1>2. u \in 0 .. BlockSize - 1
  BY <1>6
<1>7. Last' = Last /\ Blocks' = Blocks /\ Used' = u + 1 /\ u + 1 \in 1 .. BlockSize
  <2>1. Last \in DOMAIN used_counts
    BY <1>1 DEF TypeOK
  <2> QED
    BY <1>2, <1>6, <2>1, PoolAssumption DEF Last, Blocks, Used
<1>8. h \in Nat /\ h = Last * BlockSize + u /\ Last * BlockSize \in Nat
  BY <1>1, <1>2, PoolAssumption DEF Handle
<1>9. /\ DOMAIN memory' = DOMAIN memory
      /\ memory'[a].flags = 0 .. u
      /\ memory'[a].last_index = u
      /\ \A b \in DOMAIN memory : b # a => memory'[b] = memory[b]
      /\ \A b \in DOMAIN memory : memory'[b].data = memory[b].data
  <2>1. memory[a].flags \cup {u} = 0 .. u
    BY <1>2 DEF FilledInOrder
  <2> QED
    BY <1>4, <1>6, <2>1 DEF TypeOK
<1>10. TypeOK'
  <2>1. used_counts' \in [0 .. block_ptr_capacity - 1 -> 0 .. CountWidth - 1]
    BY <1>1, <1>2, <1>6, PoolAssumption DEF TypeOK
  <2>2. memory' \in [DOMAIN memory -> [last_index : Elems, flags : SUBSET Elems,
                                       data : [Elems -> Content]]]
    <3>1. u \in Elems
      BY <1>2 DEF Elems
    <3> QED
      BY <1>4, <1>6, <3>1 DEF TypeOK
  <2>3. issued' \in [DOMAIN issued' -> Addr \X Elems] /\ DOMAIN issued' \subseteq Nat
    BY <1>2, <1>4, <1>6, <1>8 DEF TypeOK, Elems
  <2> QED
    BY <1>1, <1>6, <1>7, <1>9, <2>1, <2>2, <2>3 DEF TypeOK
<1>11. BlocksInPlace'
  BY <1>6, <1>7, <1>9 DEF BlocksInPlace
<1>12. FilledInOrder'
  <2>1. \A b \in Blocks : b # Last => used_counts'[b] = used_counts[b]
    BY <1>6 DEF TypeOK, Blocks
  <2>2. \A b \in Blocks : b # Last => memory'[block_ptrs[b]] = memory[block_ptrs[b]]
    BY <1>1, <1>9 DEF BlocksInPlace
  <2>3. /\ Used' \in 0 .. BlockSize /\ Used' > 0 /\ Used' - 1 = u /\ Used' # 0
    BY <1>2, <1>7, PoolAssumption
  <2>4. \A b \in Blocks : b # Last => /\ used_counts'[b] = BlockSize
                                      /\ memory'[block_ptrs[b]].flags = Elems
    BY <2>1, <2>2 DEF FilledInOrder
  <2> QED
    BY <1>6, <1>7, <1>9, <2>3, <2>4 DEF FilledInOrder
<1>13. IssuedInPlace'
  <2>1. GetEntry(h) = <<a, u>>
    BY <1>1, <1>2, HandleInverse DEF GetEntry, Elems
  <2>2. \A x : GetEntry(x)' = GetEntry(x)
    BY <1>6 DEF GetEntry
  <2>3. DOMAIN issued' = 0 .. Last * BlockSize + (u + 1) - 1
    BY <1>2, <1>6, <1>8 DEF IssuedInPlace
  <2>4. \A x \in DOMAIN issued' : issued'[x] = GetEntry(x)
    BY <1>6, <2>1 DEF IssuedInPlace
  <2> QED
    BY <1>7, <2>2, <2>3, <2>4 DEF IssuedInPlace
<1>14. FreshIsZero'
  BY <1>6, <1>4, <1>9 DEF FreshIsZero, FilledInOrder
<1> QED
  BY <1>10, <1>11, <1>12, <1>13, <1>14

-------------------------------------------------------------------------------
(* What sbPool_alloc does when every block is full: a new block, whose     *)
(* first entry is taken.                                                    *)
LEMMA AllocNewBlockEffect ==
  ASSUME PoolInv, AllocNewBlock
  PROVE  \E a \in Addr \ DOMAIN memory, cap \in Nat :
           /\ Used = BlockSize
           /\ cap = block_ptr_capacity' /\ num_blocks < cap
           /\ block_ptr_capacity <= cap
           /\ num_blocks' = num_blocks + 1
           /\ next_block_id' = num_blocks
           /\ block_ptrs' = Grown(block_ptrs, cap, NULL, num_blocks, a)
           /\ used_counts' = Grown(used_counts, cap, 0, num_blocks, 1)
           /\ memory' = [x \in DOMAIN memory \cup {a} |->
                           IF x = a THEN [NewBlock EXCEPT !.last_index = 0, !.flags = {0}]
                                    ELSE memory[x]]
           /\ issued' = [x \in DOMAIN issued \cup {Handle(num_blocks, 0)} |->
                           IF x = Handle(num_blocks, 0) THEN <<a, 0>> ELSE issued[x]]
<1> DEFINE n == num_blocks
           h == Handle(n, 0)
<1>1. n \in Nat \ {0}
  BY DEF PoolInv, TypeOK
<1>2. Used = BlockSize
  BY NonFullIsLast DEF AllocNewBlock
<1>3. n' = n + 1
  BY DEF AllocNewBlock
<1>4. PICK cap \in Nat : cap = block_ptr_capacity' /\ n < cap /\ block_ptr_capacity <= cap
  BY <1>1 DEF AllocNewBlock, PoolInv, TypeOK
<1>4a. n < cap
  BY <1>4
<1>4b. n \in 0 .. cap - 1
  BY <1>1, <1>4a
<1>5. PICK a \in Addr \ DOMAIN memory :
        TakeSlot(n,
                Grown(block_ptrs, cap, NULL, n, a),
                Grown(used_counts, cap, 0, n, 0),
                [x \in DOMAIN memory \cup {a} |-> IF x = a THEN NewBlock ELSE memory[x]])
  BY <1>4 DEF AllocNewBlock
<1>6. FirstFrom(0, BlockSize, Elems \ {}) = 0
  <2>1. 0 \in 0 .. BlockSize - 1 /\ 0 .. 0 - 1 = {}
    BY PoolAssumption
  <2> QED
    BY <2>1, ScanFindsNext
<1>7. /\ next_block_id' = n
      /\ block_ptrs' = Grown(block_ptrs, cap, NULL, n, a)
      /\ used_counts' = Grown(used_counts, cap, 0, n, 1)
      /\ memory' = [x \in DOMAIN memory \cup {a} |->
                           IF x = a THEN [NewBlock EXCEPT !.last_index = 0, !.flags = {0}]
                                    ELSE memory[x]]
      /\ issued' = [x \in DOMAIN issued \cup {h} |-> IF x = h THEN <<a, 0>> ELSE issued[x]]
  <2> DEFINE ptrs == Grown(block_ptrs, cap, NULL, n, a)
             counts == Grown(used_counts, cap, 0, n, 0)
             mem == [x \in DOMAIN memory \cup {a} |-> IF x = a THEN NewBlock ELSE memory[x]]
  <2>1. ptrs[n] = a /\ counts[n] = 0
    BY <1>4b DEF Grown
  <2>2. mem[a] = NewBlock /\ NewBlock.last_index = 0 /\ NewBlock.flags = {}
    BY DEF NewBlock
  <2>3. FirstFrom(mem[ptrs[n]].last_index, BlockSize, Elems \ mem[ptrs[n]].flags) = 0
    BY <1>6, <2>1, <2>2
  <2>4. /\ next_block_id' = n
        /\ block_ptrs' = ptrs
        /\ used_counts' = [counts EXCEPT ![n] = (0 + 1) % CountWidth]
        /\ memory' = [mem EXCEPT ![a] = [NewBlock EXCEPT !.last_index = 0, !.flags = {0}]]
        /\ issued' = [x \in DOMAIN issued \cup {h} |-> IF x = h THEN <<a, 0>> ELSE issued[x]]
    <3> HIDE DEF ptrs, counts, mem
    <3>1. TakeSlot(n, ptrs, counts, mem)
      BY <1>5 DEF ptrs, counts, mem
    <3>2. [mem EXCEPT ![a].last_index = 0, ![a].flags = @ \cup {0}]
            = [mem EXCEPT ![a] = [NewBlock EXCEPT !.last_index = 0, !.flags = {0}]]
      BY <2>2, Zenon DEF mem
    <3> QED
      BY <2>1, <2>3, <3>1, <3>2 DEF TakeSlot
  <2>5. (0 + 1) % CountWidth = 1
    BY PoolAssumption
  <2> QED
    BY <1>4b, <2>4, <2>5 DEF Grown
<1> QED
  BY <1>2, <1>3, <1>4, <1>7

(* Opening a block, with or without growing the block table first,         *)
(* preserves the invariant.                                                 *)
LEMMA AllocNewBlockInv == PoolInv /\ AllocNewBlock => PoolInv'
<1> SUFFICES ASSUME PoolInv, AllocNewBlock PROVE PoolInv'
  OBVIOUS
<1> USE DEF PoolInv
<1> DEFINE n == num_blocks
           h == Handle(n, 0)
<1>1. n \in Nat \ {0} /\ Last \in Blocks /\ Last = n - 1
  BY DEF TypeOK, Blocks, Last
<1>5. PICK a \in Addr \ DOMAIN memory, cap \in Nat :
           /\ Used = BlockSize
           /\ cap = block_ptr_capacity' /\ num_blocks < cap
           /\ block_ptr_capacity <= cap
           /\ num_blocks' = num_blocks + 1
           /\ next_block_id' = num_blocks
           /\ block_ptrs' = Grown(block_ptrs, cap, NULL, num_blocks, a)
           /\ used_counts' = Grown(used_counts, cap, 0, num_blocks, 1)
           /\ memory' = [x \in DOMAIN memory \cup {a} |->
                           IF x = a THEN [NewBlock EXCEPT !.last_index = 0, !.flags = {0}]
                                    ELSE memory[x]]
           /\ issued' = [x \in DOMAIN issued \cup {h} |-> IF x = h THEN <<a, 0>> ELSE issued[x]]
  BY AllocNewBlockEffect
<1>2. Used = BlockSize
  BY <1>5
<1>4. cap = block_ptr_capacity'
  BY <1>5
<1>4a. n < cap /\ block_ptr_capacity <= cap
  BY <1>5
<1>4b. n \in 0 .. cap - 1
  BY <1>1, <1>4a
<1>3. n' = n + 1 /\ Last' = n /\ Blocks' = Blocks \cup {n} /\ n \notin Blocks
  BY <1>1, <1>5 DEF Last, Blocks
<1>7. /\ next_block_id' = n
      /\ block_ptrs' = Grown(block_ptrs, cap, NULL, n, a)
      /\ used_counts' = Grown(used_counts, cap, 0, n, 1)
      /\ DOMAIN memory' = DOMAIN memory \cup {a}
      /\ memory'[a] = [NewBlock EXCEPT !.last_index = 0, !.flags = {0}]
      /\ \A x \in DOMAIN memory : memory'[x] = memory[x]
      /\ issued' = [x \in DOMAIN issued \cup {h} |-> IF x = h THEN <<a, 0>> ELSE issued[x]]
  BY <1>5
<1>7a. memory' = [x \in DOMAIN memory' |-> memory'[x]]
  BY <1>5
<1>8. h = Last * BlockSize + BlockSize /\ h = n * BlockSize /\ h \in Nat
  BY <1>1, PoolAssumption DEF Handle
<1>9. /\ block_ptrs'[n] = a
      /\ used_counts'[n] = 1
      /\ \A b \in Blocks : block_ptrs'[b] = block_ptrs[b] /\ used_counts'[b] = used_counts[b]
      /\ block_ptrs' \in [0 .. cap - 1 -> Addr \cup {NULL}]
      /\ used_counts' \in [0 .. cap - 1 -> 0 .. CountWidth - 1]
  <2>0. 1 \in 0 .. CountWidth - 1 /\ 0 \in 0 .. CountWidth - 1
    BY PoolAssumption
  <2>5. block_ptrs' = [i \in 0 .. cap - 1 |->
                         IF i = n THEN a ELSE IF i \in DOMAIN block_ptrs THEN block_ptrs[i] ELSE NULL]
    BY <1>7 DEF Grown
  <2>6. used_counts' = [i \in 0 .. cap - 1 |->
                         IF i = n THEN 1 ELSE IF i \in DOMAIN used_counts THEN used_counts[i] ELSE 0]
    BY <1>7 DEF Grown
  <2>2. \A b \in Blocks : b # n /\ b \in 0 .. cap - 1 /\ b \in DOMAIN block_ptrs /\ b \in DOMAIN used_counts
    BY <1>1, <1>4a DEF Blocks, TypeOK
  <2>3. block_ptrs' \in [0 .. cap - 1 -> Addr \cup {NULL}]
    BY <2>5 DEF TypeOK
  <2>4. used_counts' \in [0 .. cap - 1 -> 0 .. CountWidth - 1]
    BY <2>0, <2>6 DEF TypeOK
  <2> QED
    BY <1>4b, <2>2, <2>3, <2>4, <2>5, <2>6
<1>10. memory'[a].flags = {0} /\ memory'[a].last_index = 0 /\ memory'[a].data = [e \in Elems |-> Zero]
  BY <1>7 DEF NewBlock
<1>11. TypeOK'
  <2>1. memory'[a] \in [last_index : Elems, flags : SUBSET Elems, data : [Elems -> Content]]
    <3>1. 0 \in Elems
      BY PoolAssumption DEF Elems
    <3>2. PICK b \in [last_index : Elems, flags : SUBSET Elems, data : [Elems -> Content]] : b = NewBlock
      <4>1. NewBlock \in [last_index : Elems, flags : SUBSET Elems, data : [Elems -> Content]]
        BY <3>1, PoolAssumption DEF NewBlock
      <4> QED
        BY <4>1
    <3>3. [b EXCEPT !.last_index = 0, !.flags = {0}]
            \in [last_index : Elems, flags : SUBSET Elems, data : [Elems -> Content]]
      BY <3>1
    <3> QED
      BY <1>7, <3>2, <3>3
  <2>2. memory' \in [DOMAIN memory' -> [last_index : Elems, flags : SUBSET Elems,
                                       data : [Elems -> Content]]]
    BY <1>7, <1>7a, <2>1 DEF TypeOK
  <2>3. issued' \in [DOMAIN issued' -> Addr \X Elems] /\ DOMAIN issued' \subseteq Nat
    BY <1>7, <1>8, PoolAssumption DEF TypeOK, Elems
  <2> QED
    <3>1. n' \in Nat \ {0} /\ n' <= cap /\ next_block_id' \in Blocks'
      BY <1>1, <1>3, <1>4a, <1>7
    <3>2. DOMAIN memory' \subseteq Addr
      BY <1>7 DEF TypeOK
    <3> QED
      BY <1>4, <1>9, <2>2, <2>3, <3>1, <3>2 DEF TypeOK
<1>12. BlocksInPlace'
  <2>1. \A b \in Blocks : block_ptrs'[b] \in DOMAIN memory /\ block_ptrs'[b] # a
    BY <1>9 DEF BlocksInPlace
  <2>2. \A b, c \in Blocks' : block_ptrs'[b] = block_ptrs'[c] => b = c
    BY <1>3, <1>9, <2>1 DEF BlocksInPlace
  <2>3. {block_ptrs'[b] : b \in Blocks'} = {block_ptrs[b] : b \in Blocks} \cup {a}
    BY <1>3, <1>9
  <2> QED
    BY SMTT(30), <1>3, <1>7, <1>9, <2>1, <2>2, <2>3 DEF BlocksInPlace
<1>13. FilledInOrder'
  <2>1. \A b \in Blocks : /\ used_counts'[b] = BlockSize
                          /\ memory'[block_ptrs'[b]].flags = Elems
    <3>1. 0 .. Used - 1 = Elems
      BY <1>2 DEF Elems
    <3> QED
      BY SMTT(30), <1>2, <1>7, <1>9, <3>1 DEF FilledInOrder, BlocksInPlace, Used
  <2>2. Used' = 1 /\ 1 \in 0 .. BlockSize /\ 0 .. 1 - 1 = {0}
    BY <1>3, <1>9, PoolAssumption DEF Used
  <2> QED
    <3>1. \A b \in Blocks' : b # Last' => b \in Blocks
      BY <1>3
    <3>2. 0 .. Used' - 1 = {0} /\ Used' \in 0 .. BlockSize /\ Used' # 0 /\ Used' > 0 /\ Used' - 1 = 0
      BY <2>2
    <3> QED
      BY <1>3, <1>7, <1>9, <1>10, <2>1, <3>1, <3>2 DEF FilledInOrder
<1>14. DOMAIN issued = 0 .. h - 1 /\ DOMAIN issued' = 0 .. h
  <2>1. DOMAIN issued = 0 .. h - 1
    BY <1>1, <1>2, <1>8, PoolAssumption DEF IssuedInPlace
  <2> QED
    BY <1>7, <1>8, <2>1
<1>15. \A x \in 0 .. h : issued'[x] = <<block_ptrs'[x \div BlockSize], x % BlockSize>>
  <2>1. h \div BlockSize = n /\ h % BlockSize = 0
    BY <1>1, HandleInverse, PoolAssumption DEF Elems
  <2>2. ASSUME NEW x \in 0 .. h - 1
        PROVE  issued'[x] = <<block_ptrs'[x \div BlockSize], x % BlockSize>>
    <3>1. x \in Nat /\ x < n * BlockSize /\ x # h
      BY <1>8
    <3>2. x \div BlockSize \in Nat /\ x \div BlockSize < n
      BY <1>1, <3>1, PoolAssumption
    <3>3. x \div BlockSize \in Blocks
      BY <1>1, <3>2 DEF Blocks
    <3>4. issued[x] = <<block_ptrs[x \div BlockSize], x % BlockSize>>
      BY <1>14 DEF IssuedInPlace, GetEntry
    <3> QED
      BY <1>7, <1>9, <1>14, <3>1, <3>3, <3>4
  <2>3. issued'[h] = <<a, 0>>
    BY <1>7
  <2> QED
    BY <1>8, <1>9, <2>1, <2>2, <2>3
<1>16. IssuedInPlace'
  <2>1. Used' = 1 /\ Last' * BlockSize + Used' - 1 = h
    BY <1>1, <1>3, <1>8, <1>9, PoolAssumption DEF Used
  <2> QED
    BY <1>14, <1>15, <2>1 DEF IssuedInPlace, GetEntry
<1>17. FreshIsZero'
  <2>1. ASSUME NEW x \in DOMAIN memory', NEW e \in Elems, e \notin memory'[x].flags
        PROVE  memory'[x].data[e] = Zero
    <3>1. CASE x = a
      BY <1>10, <3>1
    <3>2. CASE x # a
      BY <1>7, <2>1, <3>2 DEF FreshIsZero
    <3> QED
      BY <3>1, <3>2
  <2> QED
    BY <2>1 DEF FreshIsZero
<1> QED
  BY <1>11, <1>12, <1>13, <1>16, <1>17

-------------------------------------------------------------------------------
(* A write through the pointer of an issued handle. *)
(* Comparing products by a common positive factor. *)
LEMMA TimesMonotone ==
  ASSUME NEW i \in Nat, NEW j \in Nat, NEW m \in Nat, i <= j
  PROVE  i * m <= j * m /\ i * m \in Nat /\ (i + 1) * m = i * m + m
OBVIOUS

LEMMA IssuedPointer ==
  ASSUME PoolInv, NEW h \in DOMAIN issued
  PROVE  /\ issued[h][1] \in DOMAIN memory
         /\ issued[h][2] \in Elems
         /\ issued[h][2] \in memory[issued[h][1]].flags
         /\ issued[h] = <<block_ptrs[h \div BlockSize], h % BlockSize>>
         /\ h \div BlockSize \in Blocks
         /\ h \in Nat
<1> DEFINE b == h \div BlockSize
           e == h % BlockSize
<1>1. h \in Nat /\ Last \in Nat /\ Used \in 0 .. BlockSize /\ h < Last * BlockSize + Used
  <2>1. Last \in Nat /\ Used \in 0 .. BlockSize /\ BlockSize \in Nat
    BY PoolAssumption, LastAndUsed
  <2>2. h \in 0 .. Last * BlockSize + Used - 1
    BY DEF PoolInv, IssuedInPlace
  <2> QED
    BY <2>1, <2>2
<1>2. b \in Nat /\ e \in Elems /\ h = b * BlockSize + e
  BY <1>1, HandleCover DEF Handle
<1>3. b <= Last /\ (b = Last => e < Used)
  <2>1. BlockSize \in Nat /\ b \in Nat /\ Last \in Nat /\ e \in Nat /\ e < BlockSize
    BY <1>1, <1>2, PoolAssumption DEF Elems
  <2>2. ASSUME b > Last PROVE FALSE
    <3>1. Last + 1 \in Nat /\ Last + 1 <= b
      BY <2>1, <2>2
    <3>2. (Last + 1) * BlockSize <= b * BlockSize
      BY <2>1, <3>1, TimesMonotone
    <3>3. (Last + 1) * BlockSize = Last * BlockSize + BlockSize /\ Last * BlockSize \in Nat
      BY <2>1, TimesMonotone
    <3>4. b * BlockSize \in Nat
      BY <2>1, TimesMonotone
    <3> QED
      BY <1>1, <1>2, <2>1, <3>2, <3>3, <3>4
  <2>3. ASSUME b = Last PROVE e < Used
    <3>1. h = Last * BlockSize + e /\ Last * BlockSize \in Nat
      BY <1>2, <2>1, <2>3, TimesMonotone
    <3> QED
      BY <1>1, <2>1, <3>1
  <2> QED
    BY <2>1, <2>2, <2>3
<1>4. b \in Blocks
  BY <1>2, <1>3 DEF Blocks, PoolInv, TypeOK, Last
<1>5. issued[h] = <<block_ptrs[b], e>>
  BY DEF PoolInv, IssuedInPlace, GetEntry
<1>6. block_ptrs[b] \in DOMAIN memory
  BY <1>4 DEF PoolInv, BlocksInPlace
<1>7. e \in memory[block_ptrs[b]].flags
  <2>1. CASE b = Last
    BY <1>2, <1>3, <2>1 DEF PoolInv, FilledInOrder, Elems
  <2>2. CASE b # Last
    BY <1>2, <1>4, <2>2 DEF PoolInv, FilledInOrder
  <2> QED
    BY <2>1, <2>2
<1> QED
  BY <1>1, <1>2, <1>4, <1>5, <1>6, <1>7

LEMMA WriteInv ==
  ASSUME PoolInv, NEW h \in DOMAIN issued, NEW c \in Content, Write(h, c)
  PROVE  PoolInv'
<1> DEFINE a == issued[h][1]
           e == issued[h][2]
<1>1. a \in DOMAIN memory /\ e \in Elems /\ e \in memory[a].flags
  BY IssuedPointer
<1>2. memory \in [DOMAIN memory -> [last_index : Elems, flags : SUBSET Elems,
                                    data : [Elems -> Content]]]
  BY DEF PoolInv, TypeOK
<1>3. /\ DOMAIN memory' = DOMAIN memory
      /\ memory'[a] = [memory[a] EXCEPT !.data = [@ EXCEPT ![e] = c]]
      /\ \A x \in DOMAIN memory : x # a => memory'[x] = memory[x]
      /\ memory' = [x \in DOMAIN memory |-> memory'[x]]
  BY <1>1, <1>2 DEF Write
<1>4. /\ memory'[a].flags = memory[a].flags
      /\ memory'[a].last_index = memory[a].last_index
      /\ memory'[a].data = [memory[a].data EXCEPT ![e] = c]
      /\ memory'[a] \in [last_index : Elems, flags : SUBSET Elems, data : [Elems -> Content]]
  BY <1>1, <1>2, <1>3
<1>5. memory' \in [DOMAIN memory' -> [last_index : Elems, flags : SUBSET Elems,
                                      data : [Elems -> Content]]]
  BY <1>2, <1>3, <1>4
<1>6. \A x \in DOMAIN memory : /\ memory'[x].flags = memory[x].flags
                               /\ memory'[x].last_index = memory[x].last_index
  BY <1>3, <1>4
<1>7. UNCHANGED <<block_ptrs, used_counts, num_blocks, block_ptr_capacity, next_block_id, issued>>
  BY DEF Write
<1>8. Last' = Last /\ Used' = Used /\ Blocks' = Blocks /\ Last \in Blocks
  BY <1>7 DEF Last, Used, Blocks, PoolInv, TypeOK
<1>9. TypeOK'
  BY <1>3, <1>5, <1>7, <1>8 DEF PoolInv, TypeOK
<1>10. BlocksInPlace'
  BY <1>3, <1>7, <1>8 DEF PoolInv, BlocksInPlace
<1>11. FilledInOrder'
  BY <1>6, <1>7, <1>8 DEF PoolInv, FilledInOrder, BlocksInPlace
<1>12. IssuedInPlace'
  BY <1>7, <1>8 DEF PoolInv, IssuedInPlace, GetEntry
<1>13. FreshIsZero'
  <2>1. ASSUME NEW x \in DOMAIN memory, NEW f \in Elems, f \notin memory[x].flags
        PROVE  memory'[x].data[f] = Zero
    <3>1. CASE x = a
      BY <1>1, <1>2, <1>4, <2>1, <3>1 DEF PoolInv, FreshIsZero
    <3>2. CASE x # a
      BY <1>3, <2>1, <3>2 DEF PoolInv, FreshIsZero
    <3> QED
      BY <3>1, <3>2
  <2> QED
    BY <1>3, <1>6, <2>1 DEF FreshIsZero
<1> QED
  BY <1>9, <1>10, <1>11, <1>12, <1>13 DEF PoolInv

LEMMA StepInv == PoolInv /\ [Next]_vars => PoolInv'
<1> SUFFICES ASSUME PoolInv, [Next]_vars PROVE PoolInv'
  OBVIOUS
<1>1. CASE AllocFromBlock
  BY <1>1, AllocFromBlockInv
<1>2. CASE AllocNewBlock
  BY <1>2, AllocNewBlockInv
<1>3. CASE \E h \in DOMAIN issued, c \in Content : Write(h, c)
  BY <1>3, WriteInv
<1>4. CASE UNCHANGED vars
  <2>1. Last' = Last /\ Used' = Used /\ Blocks' = Blocks
    BY <1>4 DEF vars, Last, Used, Blocks
  <2>2. TypeOK'
    BY <1>4, <2>1 DEF vars, PoolInv, TypeOK
  <2>3. BlocksInPlace'
    BY <1>4, <2>1 DEF vars, PoolInv, BlocksInPlace
  <2>4. FilledInOrder'
    BY <1>4, <2>1 DEF vars, PoolInv, FilledInOrder
  <2>5. IssuedInPlace'
    BY <1>4, <2>1 DEF vars, PoolInv, IssuedInPlace, GetEntry
  <2>6. FreshIsZero'
    BY <1>4 DEF vars, PoolInv, FreshIsZero
  <2> QED
    BY <2>2, <2>3, <2>4, <2>5, <2>6 DEF PoolInv
<1> QED
  BY <1>1, <1>2, <1>3, <1>4 DEF Next

(* PoolInv holds in every state of every pool. *)
THEOREM Invariance == Spec => []PoolInv
BY InitInv, StepInv, PTL DEF Spec
-------------------------------------------------------------------------------
(* The tables keep their types: no index leaves its table, no counter its  *)
(* 16 bits (sbPool_alloc, alloc_new_block).                                *)
THEOREM TypeCorrect == Spec => []TypeOK
<1>1. PoolInv => TypeOK
  BY DEF PoolInv
<1> QED
  BY <1>1, Invariance, PTL

(* Handles are handed out as 0, 1, 2, ... (sbPool_alloc). *)
THEOREM Dense == Spec => []HandlesDense
<1>1. PoolInv => HandlesDense
  <2> SUFFICES ASSUME PoolInv PROVE HandlesDense
    OBVIOUS
  <2> DEFINE n == Last * BlockSize + Used
  <2>1. /\ Last \in Nat /\ Used \in 0 .. BlockSize /\ num_blocks = Last + 1
        /\ num_blocks = 1 \/ Used > 0
    BY LastAndUsed
  <2>2. n \in 0 .. num_blocks * BlockSize
    BY <2>1, PoolAssumption
  <2>3. num_blocks = 1 \/ (num_blocks - 1) * BlockSize < n
    BY <2>1, PoolAssumption
  <2>4. DOMAIN issued = 0 .. n - 1
    BY <2>1, PoolAssumption DEF PoolInv, IssuedInPlace
  <2> QED
    BY <2>2, <2>3, <2>4 DEF HandlesDense
<1> QED
  BY <1>1, Invariance, PTL

(* A handle always leads to the entry its caller holds a pointer to, and   *)
(* that entry is marked allocated (sbPool_get_entry).                      *)
THEOREM Stable == Spec => []EntriesStable
<1>1. PoolInv => EntriesStable
  BY IssuedPointer DEF EntriesStable, GetEntry, IsAllocated
<1> QED
  BY <1>1, Invariance, PTL

(* A pointer determines its handle. *)
LEMMA OneHandlePerPointer ==
  ASSUME PoolInv, NEW g \in DOMAIN issued, NEW h \in DOMAIN issued, issued[g] = issued[h]
  PROVE  g = h
<1>1. /\ g \in Nat /\ h \in Nat
      /\ block_ptrs[g \div BlockSize] = block_ptrs[h \div BlockSize]
      /\ g % BlockSize = h % BlockSize
      /\ g \div BlockSize \in Blocks /\ h \div BlockSize \in Blocks
  BY IssuedPointer
<1>2. g \div BlockSize = h \div BlockSize
  BY <1>1 DEF PoolInv, BlocksInPlace
<1> QED
  BY <1>1, <1>2, HandleCover

(* The handles of the entries of a block are an interval. *)
LEMMA HandlesOfBlock ==
  ASSUME PoolInv, NEW b \in Blocks
  PROVE  /\ b \in Nat /\ used_counts[b] \in 0 .. BlockSize
         /\ {h \in DOMAIN issued : issued[h][1] = block_ptrs[b]}
              = b * BlockSize .. b * BlockSize + used_counts[b] - 1
<1> DEFINE u == used_counts[b]
           S == {h \in DOMAIN issued : issued[h][1] = block_ptrs[b]}
<1>1. /\ Last \in Nat /\ Used \in 0 .. BlockSize /\ BlockSize \in Nat \ {0}
      /\ b \in Nat /\ b <= Last
  BY LastAndUsed, PoolAssumption DEF Blocks
<1>2. u \in 0 .. BlockSize /\ (b # Last => u = BlockSize) /\ (b = Last => u = Used)
  <2>1. CASE b = Last
    BY <1>1, <2>1 DEF Used
  <2>2. CASE b # Last
    BY <1>1, <2>2 DEF PoolInv, FilledInOrder
  <2> QED
    BY <2>1, <2>2
<1>3. b * BlockSize \in Nat
  BY <1>1, TimesMonotone
<1>4. ASSUME NEW h \in S PROVE h \in b * BlockSize .. b * BlockSize + u - 1
  <2>1. /\ h \in DOMAIN issued /\ h \in Nat
        /\ h \div BlockSize = b
        /\ h % BlockSize \in memory[block_ptrs[b]].flags
    BY IssuedPointer DEF PoolInv, BlocksInPlace
  <2>2. h % BlockSize \in Elems /\ h = b * BlockSize + (h % BlockSize)
    BY <2>1, HandleCover DEF Handle
  <2>3. h % BlockSize \in 0 .. u - 1
    <3>1. CASE b = Last
      BY <1>2, <2>1, <3>1 DEF PoolInv, FilledInOrder
    <3>2. CASE b # Last
      BY <1>2, <2>2, <3>2 DEF Elems
    <3> QED
      BY <3>1, <3>2
  <2> HIDE DEF u
  <2> QED
    BY <1>2, <1>3, <2>1, <2>2, <2>3
<1>5. ASSUME NEW h \in b * BlockSize .. b * BlockSize + u - 1 PROVE h \in S
  <2>1. PICK e \in 0 .. u - 1 : h = b * BlockSize + e
    <3> HIDE DEF u
    <3>1. h - b * BlockSize \in 0 .. u - 1 /\ h = b * BlockSize + (h - b * BlockSize)
      BY <1>2, <1>3, <1>5
    <3> QED
      BY <3>1
  <2>2. e \in Elems
    BY <1>1, <1>2 DEF Elems
  <2>3. h \div BlockSize = b /\ h % BlockSize = e
    BY <1>1, <2>1, <2>2, HandleInverse DEF Handle
  <2>4. h \in DOMAIN issued
    <3>1. CASE b = Last
      BY <1>1, <1>2, <1>3, <2>1, <3>1 DEF PoolInv, IssuedInPlace
    <3>2. CASE b # Last
      <4>1. (b + 1) * BlockSize <= Last * BlockSize
        BY <1>1, <3>2, TimesMonotone
      <4>2. (b + 1) * BlockSize = b * BlockSize + BlockSize
        BY <1>1, TimesMonotone
      <4>3. Last * BlockSize \in Nat
        BY <1>1, TimesMonotone
      <4>4. h \in 0 .. Last * BlockSize + Used - 1
        BY <1>1, <1>2, <1>3, <2>1, <4>1, <4>2, <4>3
      <4> QED
        BY <4>4 DEF PoolInv, IssuedInPlace
    <3> QED
      BY <3>1, <3>2
  <2> QED
    BY <2>3, <2>4 DEF PoolInv, IssuedInPlace, GetEntry
<1> QED
  BY <1>1, <1>2, <1>4, <1>5

LEMMA PoolInvDisjoint == PoolInv => EntriesDisjoint
<1> SUFFICES ASSUME PoolInv PROVE EntriesDisjoint
  OBVIOUS
<1>1. \A g, h \in DOMAIN issued : issued[g] = issued[h] => g = h
  BY OneHandlePerPointer
<1>2. ASSUME NEW b \in Blocks
      PROVE  Cardinality({h \in DOMAIN issued : issued[h][1] = block_ptrs[b]})
               = used_counts[b]
  <2>1. /\ b * BlockSize \in Int
        /\ used_counts[b] \in Nat
        /\ {h \in DOMAIN issued : issued[h][1] = block_ptrs[b]}
              = b * BlockSize .. b * BlockSize + used_counts[b] - 1
    BY HandlesOfBlock, PoolAssumption
  <2>2. Cardinality(b * BlockSize .. b * BlockSize + used_counts[b] - 1) = used_counts[b]
    BY <2>1, FS_Interval
  <2> QED
    BY <2>1, <2>2
<1> QED
  BY <1>1, <1>2 DEF EntriesDisjoint

(* No two callers of sbPool_alloc hold the same entry. *)
THEOREM Disjoint == Spec => []EntriesDisjoint
BY PoolInvDisjoint, Invariance, PTL

-------------------------------------------------------------------------------
(* What a handle shows depends only on the pointer that was issued with it. *)
ByPointer == [h \in DOMAIN issued |-> memory[issued[h][1]].data[issued[h][2]]]

LEMMA ContentsByPointer == PoolInv => Contents = ByPointer
BY IssuedPointer DEF Contents, ByPointer, Read, GetEntry

LEMMA ContentsByPointerNext == (PoolInv => Contents = ByPointer)'
BY ContentsByPointer, PTL

(* An allocation leaves every entry already issued alone and shows a zeroed *)
(* entry for the one handle it adds.                                        *)
LEMMA AllocRefines ==
  ASSUME PoolInv, PoolInv', NEW h, NEW a, NEW e,
         h \notin DOMAIN issued,
         issued' = [x \in DOMAIN issued \cup {h} |-> IF x = h THEN <<a, e>> ELSE issued[x]],
         \A x \in DOMAIN memory : memory'[x].data = memory[x].data,
         memory'[a].data[e] = Zero
  PROVE  Store!Next
<1>1. \A x \in DOMAIN issued :
        memory'[issued[x][1]].data[issued[x][2]] = memory[issued[x][1]].data[issued[x][2]]
  BY IssuedPointer
<1>2. Contents = ByPointer
  BY ContentsByPointer
<1>3. Contents' = ByPointer'
  BY ContentsByPointerNext
<1>4. Contents' = [x \in DOMAIN Contents \cup {h} |-> IF x = h THEN Zero ELSE Contents[x]]
  BY <1>1, <1>2, <1>3 DEF ByPointer
<1>5. h \notin DOMAIN Contents /\ h \in DOMAIN Contents'
  BY <1>2, <1>4 DEF ByPointer
<1> QED
  BY <1>4, <1>5 DEF Store!Next, Store!Alloc

LEMMA AllocFromBlockRefines == PoolInv /\ PoolInv' /\ AllocFromBlock => Store!Next
<1> SUFFICES ASSUME PoolInv, PoolInv', AllocFromBlock PROVE Store!Next
  OBVIOUS
<1> DEFINE a == block_ptrs[Last]
           h == Handle(Last, Used)
<1>1. /\ Used \in 0 .. BlockSize - 1
      /\ memory' = [memory EXCEPT ![a].last_index = Used, ![a].flags = @ \cup {Used}]
      /\ issued' = [x \in DOMAIN issued \cup {h} |-> IF x = h THEN <<a, Used>> ELSE issued[x]]
  BY AllocFromBlockEffect
<1>2. h \notin DOMAIN issued
  BY <1>1, LastAndUsed, PoolAssumption DEF PoolInv, IssuedInPlace, Handle
<1>3. a \in DOMAIN memory
  BY LastAndUsed DEF PoolInv, BlocksInPlace
<1>4. \A x \in DOMAIN memory : memory'[x].data = memory[x].data
  BY <1>1, <1>3 DEF PoolInv, TypeOK
<1>5. Used \in Elems /\ Used \notin memory[a].flags
  BY <1>1 DEF PoolInv, FilledInOrder, Elems
<1>6. memory'[a].data[Used] = Zero
  BY <1>3, <1>4, <1>5 DEF PoolInv, FreshIsZero
<1> QED
  BY <1>1, <1>2, <1>4, <1>6, AllocRefines

LEMMA AllocNewBlockRefines == PoolInv /\ PoolInv' /\ AllocNewBlock => Store!Next
<1> SUFFICES ASSUME PoolInv, PoolInv', AllocNewBlock PROVE Store!Next
  OBVIOUS
<1> DEFINE h == Handle(num_blocks, 0)
<1>1. PICK a \in Addr \ DOMAIN memory :
        /\ Used = BlockSize
        /\ memory' = [x \in DOMAIN memory \cup {a} |->
                        IF x = a THEN [NewBlock EXCEPT !.last_index = 0, !.flags = {0}]
                                 ELSE memory[x]]
        /\ issued' = [x \in DOMAIN issued \cup {h} |-> IF x = h THEN <<a, 0>> ELSE issued[x]]
  BY AllocNewBlockEffect
<1>2. h \notin DOMAIN issued
  <2>1. /\ Last \in Nat /\ num_blocks = Last + 1 /\ BlockSize \in Nat
        /\ (Last + 1) * BlockSize = Last * BlockSize + BlockSize
        /\ Last * BlockSize \in Nat
    BY LastAndUsed, TimesMonotone, PoolAssumption
  <2>2. h = Last * BlockSize + BlockSize
    BY <2>1 DEF Handle
  <2>3. DOMAIN issued = 0 .. Last * BlockSize + BlockSize - 1
    BY <1>1, <2>1 DEF PoolInv, IssuedInPlace
  <2> QED
    BY <2>1, <2>2, <2>3
<1>3. \A x \in DOMAIN memory : memory'[x].data = memory[x].data
  BY <1>1
<1>4. memory'[a].data[0] = Zero
  <2>1. memory'[a] = [NewBlock EXCEPT !.last_index = 0, !.flags = {0}]
    BY <1>1
  <2>2. memory'[a].data = [e \in Elems |-> Zero]
    BY <2>1 DEF NewBlock
  <2>3. 0 \in Elems
    BY PoolAssumption DEF Elems
  <2> QED
    BY <2>2, <2>3
<1> QED
  BY <1>1, <1>2, <1>3, <1>4, AllocRefines

LEMMA WriteRefines ==
  ASSUME PoolInv, PoolInv', NEW h \in DOMAIN issued, NEW c \in Content, Write(h, c)
  PROVE  Store!Next
<1>1. issued' = issued /\ memory' = [memory EXCEPT ![issued[h][1]].data[issued[h][2]] = c]
  BY DEF Write
<1>2. Contents = ByPointer /\ Contents' = ByPointer'
  BY ContentsByPointer, ContentsByPointerNext
<1>3. \A x \in DOMAIN issued :
        /\ issued[x] = <<issued[x][1], issued[x][2]>>
        /\ issued[x][1] \in DOMAIN memory
        /\ issued[x][2] \in Elems
        /\ issued[x] = issued[h] => x = h
  <2>1. \A g, x \in DOMAIN issued : issued[g] = issued[x] => g = x
    BY OneHandlePerPointer
  <2> QED
    BY <2>1, IssuedPointer
<1>4. \A x \in DOMAIN issued :
        memory'[issued[x][1]].data[issued[x][2]]
          = IF x = h THEN c ELSE memory[issued[x][1]].data[issued[x][2]]
  <2> DEFINE a == issued[h][1]
             e == issued[h][2]
  <2>1. memory[a].data \in [Elems -> Content] /\ a \in DOMAIN memory /\ e \in Elems
    BY <1>3 DEF PoolInv, TypeOK
  <2>2. /\ memory'[a].data = [memory[a].data EXCEPT ![e] = c]
        /\ \A b \in DOMAIN memory : b # a => memory'[b] = memory[b]
    BY <1>1, <2>1 DEF PoolInv, TypeOK
  <2> SUFFICES ASSUME NEW x \in DOMAIN issued
               PROVE  memory'[issued[x][1]].data[issued[x][2]]
                        = IF x = h THEN c ELSE memory[issued[x][1]].data[issued[x][2]]
    OBVIOUS
  <2>3. CASE x = h
    BY <2>1, <2>2, <2>3
  <2>4. CASE x # h /\ issued[x][1] = a
    <3>1. issued[x][2] # e
      BY <1>3, <2>4
    <3> QED
      BY <1>3, <2>1, <2>2, <2>4, <3>1
  <2>5. CASE issued[x][1] # a
    BY <1>3, <2>2, <2>5
  <2> QED
    BY <2>3, <2>4, <2>5
<1>5. Contents' = [Contents EXCEPT ![h] = c] /\ h \in DOMAIN Contents
  BY <1>1, <1>2, <1>4 DEF ByPointer
<1> QED
  BY <1>5 DEF Store!Next, Store!Write

(* Every pool behaves as an entry store: allocation yields a zeroed entry   *)
(* under a handle nobody holds, writes stay within their entry, and moving  *)
(* the block table is invisible (mem/pool.c).                               *)
THEOREM Refinement == Spec => ImplementsEntryStore
<1>1. Init => Store!Init
  BY DEF Init, Store!Init, Contents
<1>2. PoolInv /\ PoolInv' /\ [Next]_vars => [Store!Next]_Contents
  <2> SUFFICES ASSUME PoolInv, PoolInv', [Next]_vars PROVE [Store!Next]_Contents
    OBVIOUS
  <2>1. CASE AllocFromBlock
    BY <2>1, AllocFromBlockRefines
  <2>2. CASE AllocNewBlock
    BY <2>2, AllocNewBlockRefines
  <2>3. CASE \E h \in DOMAIN issued, c \in Content : Write(h, c)
    BY <2>3, WriteRefines
  <2>4. CASE UNCHANGED vars
    BY <2>4 DEF vars, Contents, Read, GetEntry
  <2> QED
    BY <2>1, <2>2, <2>3, <2>4 DEF Next
<1> QED
  BY <1>1, <1>2, Invariance, PTL DEF Spec, ImplementsEntryStore, Store!Spec
===============================================================================
