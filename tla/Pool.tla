--------------------------------- MODULE Pool ---------------------------------
(***************************************************************************)
(* The block allocator of mem/pool.c, from which every heap object of the  *)
(* language is taken.  A pool is a growing table of blocks; a block holds  *)
(* BlockSize entries, an allocation flag per entry and a cursor.           *)
(* sbPool_alloc hands out both a pointer and a numeric handle; callers     *)
(* keep either, so an entry must stay where it is when the table grows.    *)
(* There is no operation that frees an entry: the collector is unwritten.  *)
(***************************************************************************)
EXTENDS Integers, FiniteSets

CONSTANTS
  BlockSize,        \* entries per block (256; 1024 for heap variables)
  InitialCapacity,  \* initial length of block_ptrs (8)
  CountWidth,       \* used_counts are u16: they wrap at 2^16
  Addr,             \* addresses calloc can return for a block
  NULL,             \* an unset element of block_ptrs
  Content,          \* what an entry can hold
  Zero              \* the content of zeroed memory

ASSUME PoolAssumption ==
  /\ BlockSize \in Nat \ {0}
  /\ InitialCapacity \in Nat \ {0}
  /\ CountWidth \in Nat
  /\ BlockSize < CountWidth
  /\ NULL \notin Addr
  /\ Zero \in Content

VARIABLES
  block_ptrs,          \* 0..capacity-1 -> address of a block
  used_counts,         \* 0..capacity-1 -> number of entries handed out
  num_blocks,
  block_ptr_capacity,
  next_block_id,       \* the block allocation looks at first
  memory,              \* address -> block
  issued               \* handle -> pointer given to its caller (auxiliary)

vars == <<block_ptrs, used_counts, num_blocks, block_ptr_capacity,
          next_block_id, memory, issued>>

Elems == 0 .. BlockSize - 1
Blocks == 0 .. num_blocks - 1

(* A plausible mistake: blocks from malloc, with what was there before. *)
NewBlockDirty == [last_index |-> 0, flags |-> {},
                  data |-> [e \in Elems |-> CHOOSE c \in Content : c # Zero]]
NewBlock == [last_index |-> 0, flags |-> {}, data |-> [e \in Elems |-> Zero]]

(* The handle of an entry, and what sbPool_get_entry makes of a handle. *)
Handle(b, e) == b * BlockSize + e
GetEntry(h) == <<block_ptrs[h \div BlockSize], h % BlockSize>>
IsAllocated(h) == h % BlockSize \in memory[block_ptrs[h \div BlockSize]].flags
Read(ptr) == memory[ptr[1]].data[ptr[2]]

(* Steps from i to j going upwards in 0..n-1 and wrapping at n. *)
Ahead(i, j, n) == IF j >= i THEN j - i ELSE j + n - i

(* The element of S that a circular scan of 0..n-1 from i meets first. *)
FirstFrom(i, n, S) == CHOOSE j \in S : \A k \in S : Ahead(i, j, n) <= Ahead(i, k, n)

(* A plausible mistake: the old table not copied into the longer one. *)
GrownUncopied(table, capacity, default, n, v) ==
  [i \in 0 .. capacity - 1 |-> IF i = n THEN v ELSE default]

(* A table moved to the given capacity, with v stored at n. *)
Grown(table, capacity, default, n, v) ==
  [i \in 0 .. capacity - 1 |->
     IF i = n THEN v ELSE IF i \in DOMAIN table THEN table[i] ELSE default]

-------------------------------------------------------------------------------
Init ==
  \E a \in Addr :
    /\ block_ptrs = [i \in 0 .. InitialCapacity - 1 |-> IF i = 0 THEN a ELSE NULL]
    /\ used_counts = [i \in 0 .. InitialCapacity - 1 |-> 0]
    /\ num_blocks = 1
    /\ block_ptr_capacity = InitialCapacity
    /\ next_block_id = 0
    /\ memory = [x \in {a} |-> NewBlock]
    /\ issued = [h \in {} |-> <<a, 0>>]

(* A plausible mistake: a block given up with an entry to spare. *)
NonFullButOne == {b \in Blocks : used_counts[b] < BlockSize - 1}
NonFull == {b \in Blocks : used_counts[b] # BlockSize}

(* Plausible mistakes: the cursor left behind the entry taken, where it    *)
(* can leave the block; the flag of the entry never set.                   *)
TakeSlotPast(b, ptrs, counts, mem) ==
  LET a == ptrs[b]
      e == FirstFrom(mem[a].last_index, BlockSize, Elems \ mem[a].flags)
  IN  /\ next_block_id' = b /\ block_ptrs' = ptrs
      /\ used_counts' = [counts EXCEPT ![b] = (@ + 1) % CountWidth]
      /\ memory' = [mem EXCEPT ![a].last_index = e + 1, ![a].flags = @ \cup {e}]
      /\ issued' = [x \in DOMAIN issued \cup {Handle(b, e)} |->
                      IF x = Handle(b, e) THEN <<a, e>> ELSE issued[x]]

TakeSlotUnflagged(b, ptrs, counts, mem) ==
  LET a == ptrs[b]
      e == FirstFrom(mem[a].last_index, BlockSize, Elems)
  IN  /\ next_block_id' = b /\ block_ptrs' = ptrs
      /\ used_counts' = [counts EXCEPT ![b] = (@ + 1) % CountWidth]
      /\ memory' = [mem EXCEPT ![a].last_index = e]
      /\ issued' = [x \in DOMAIN issued \cup {Handle(b, e)} |->
                      IF x = Handle(b, e) THEN <<a, e>> ELSE issued[x]]

(* The tail of sbPool_alloc: take the first unused entry of block b, going *)
(* round from its cursor.  The scan would never end in a block whose flags *)
(* are all set.                                                            *)
TakeSlot(b, ptrs, counts, mem) ==
  LET a == ptrs[b]
      e == FirstFrom(mem[a].last_index, BlockSize, Elems \ mem[a].flags)
      h == Handle(b, e)
  IN  /\ mem[a].flags # Elems
      /\ next_block_id' = b
      /\ block_ptrs' = ptrs
      /\ used_counts' = [counts EXCEPT ![b] = (@ + 1) % CountWidth]
      /\ memory' = [mem EXCEPT ![a].last_index = e, ![a].flags = @ \cup {e}]
      /\ issued' = [x \in DOMAIN issued \cup {h} |->
                      IF x = h THEN <<a, e>> ELSE issued[x]]

(* sbPool_alloc when the circular search for a block finds one with room. *)
AllocFromBlock ==
  /\ NonFull # {}
  /\ TakeSlot(FirstFrom(next_block_id, num_blocks, NonFull),
              block_ptrs, used_counts, memory)
  /\ UNCHANGED <<num_blocks, block_ptr_capacity>>

(* sbPool_alloc when the search comes back to where it began: a new block, *)
(* after doubling the tables that are full.                                *)
AllocNewBlock ==
  /\ NonFull = {}
  /\ block_ptr_capacity' =
       IF num_blocks >= block_ptr_capacity THEN block_ptr_capacity * 2
                                           ELSE block_ptr_capacity
  /\ num_blocks' = num_blocks + 1
  /\ \E a \in Addr \ DOMAIN memory :
       TakeSlot(num_blocks,
                Grown(block_ptrs, block_ptr_capacity', NULL, num_blocks, a),
                Grown(used_counts, block_ptr_capacity', 0, num_blocks, 0),
                [x \in DOMAIN memory \cup {a} |-> IF x = a THEN NewBlock ELSE memory[x]])

(* A caller writes to an entry through the pointer it was given. *)
Write(h, c) ==
  /\ memory' = [memory EXCEPT ![issued[h][1]].data[issued[h][2]] = c]
  /\ UNCHANGED <<block_ptrs, used_counts, num_blocks, block_ptr_capacity,
                 next_block_id, issued>>

Next ==
  \/ AllocFromBlock
  \/ AllocNewBlock
  \/ \E h \in DOMAIN issued, c \in Content : Write(h, c)

Spec == Init /\ [][Next]_vars

-------------------------------------------------------------------------------
(* The types of the tables, the cursors and the blocks. *)
TypeOK ==
  /\ num_blocks \in Nat \ {0}
  /\ block_ptr_capacity \in Nat
  /\ num_blocks <= block_ptr_capacity
  /\ block_ptrs \in [0 .. block_ptr_capacity - 1 -> Addr \cup {NULL}]
  /\ used_counts \in [0 .. block_ptr_capacity - 1 -> 0 .. CountWidth - 1]
  /\ next_block_id \in Blocks
  /\ DOMAIN memory \subseteq Addr
  /\ memory \in [DOMAIN memory -> [last_index : Elems, flags : SUBSET Elems,
                                   data : [Elems -> Content]]]
  /\ issued \in [DOMAIN issued -> Addr \X Elems]
  /\ DOMAIN issued \subseteq Nat

(* The handles handed out are 0, 1, 2, ... without a gap: the circular     *)
(* searches for a block and for an entry never skip a free entry and never *)
(* open a block early, whatever the interleaving of growth and allocation. *)
HandlesDense ==
  \E n \in 0 .. num_blocks * BlockSize :
    /\ DOMAIN issued = 0 .. n - 1
    /\ num_blocks = 1 \/ (num_blocks - 1) * BlockSize < n

(* Looking a handle up (sbPool_get_entry) yields the very entry its caller *)
(* was given a pointer to, and never trips its allocated check: callers    *)
(* hold pointers across allocations that move the block table.             *)
EntriesStable ==
  \A h \in DOMAIN issued : GetEntry(h) = issued[h] /\ IsAllocated(h)

(* No entry is given to two callers: every allocation a block has counted  *)
(* has a handle and a pointer of its own.                                  *)
EntriesDisjoint ==
  /\ \A g, h \in DOMAIN issued : issued[g] = issued[h] => g = h
  /\ \A b \in Blocks :
       Cardinality({h \in DOMAIN issued : issued[h][1] = block_ptrs[b]}) = used_counts[b]

(* The pool is an entry store, seen through its handles: fresh entries are *)
(* zeroed, a write reaches the entry of its handle and no other, and growth *)
(* of the block table changes nothing a holder of a handle can see.         *)
Contents == [h \in DOMAIN issued |-> Read(GetEntry(h))]
Store == INSTANCE EntryStore WITH store <- Contents
ImplementsEntryStore == Store!Spec
===============================================================================
