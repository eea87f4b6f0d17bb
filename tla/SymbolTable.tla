----------------------------- MODULE SymbolTable -----------------------------
(***************************************************************************)
(* data/symbol.c: interning.  A symbol is the address of a private copy of *)
(* its text; the table that maps texts to symbols is a hash table of       *)
(* data/hashtable.c (HashTable.tla) whose keys are the texts and whose     *)
(* values are the symbols.  It is the one table of the program that can    *)
(* grow: a script with enough distinct names makes it.                     *)
(***************************************************************************)
EXTENDS HashTable

CONSTANT EmptyText    \* "", interned by sbSymbol_sys_init

(* Symbols are addresses in an arena that is never reset: fresh numbers. *)
ASSUME SymbolAssumption == EmptyText \in Key /\ Val \subseteq Nat

VARIABLES
  issued,     \* the last symbol new_symbol made
  given       \* text -> the symbols sbSymbol_from_bytes has answered for it

symbolVars == <<vars, issued, given>>

SymInit == Init /\ issued = 0 /\ given = [k \in Key |-> {}]

Found(k) == Lookup(keys, values, capacity, k)

(* A plausible mistake: an entry without a symbol taken for no entry. *)
InternNewAgain(k) ==
  /\ pc = "ready"
  /\ issued = 0 => k = EmptyText
  /\ ~Cycles(keys, capacity, k) /\ Found(k) \in {ABSENT, NOTHING}
  /\ issued + 1 \in Val
  /\ Insert(k, issued + 1)
  /\ issued' = issued + 1
  /\ given' = [given EXCEPT ![k] = @ \cup {issued + 1}]

(* sbSymbol_from_bytes: a text seen for the first time.  The symbol is     *)
(* answered after the insertion, and a growth it causes, are over; nothing *)
(* runs in between.                                                        *)
InternNew(k) ==
  /\ pc = "ready"
  /\ issued = 0 => k = EmptyText
  /\ ~Cycles(keys, capacity, k) /\ Found(k) = ABSENT
  /\ issued + 1 \in Val
  /\ Insert(k, issued + 1)
  /\ issued' = issued + 1
  /\ given' = [given EXCEPT ![k] = @ \cup {issued + 1}]

(* sbSymbol_from_bytes: a text whose entry holds a symbol *)
InternKnown(k) ==
  /\ pc = "ready"
  /\ Found(k) \in Val
  /\ given' = [given EXCEPT ![k] = @ \cup {Found(k)}]
  /\ UNCHANGED <<vars, issued>>

(* sbSymbol_from_bytes: a text whose entry holds something else: PANIC *)
InternPanic(k) ==
  /\ pc = "ready"
  /\ Found(k) = NOTHING
  /\ pc' = "panic"
  /\ UNCHANGED <<capacity, keys, values, used, n_elems, refs, growth, issued, given>>

(* sbSymbol_from_bytes: the probe for the text never ends *)
InternHang(k) == Hang(k) /\ UNCHANGED <<issued, given>>

(* sbSymbol_sentinel: a symbol of its own, not in the table *)
Sentinel ==
  /\ pc = "ready"
  /\ issued > 0
  /\ issued + 1 \in Val
  /\ issued' = issued + 1
  /\ UNCHANGED <<vars, given>>

(* What the table does on its own while an insertion makes it grow *)
Grow == (Migrate \/ FinishGrowth) /\ UNCHANGED <<issued, given>>

SymNext ==
  \/ \E k \in Key : InternNew(k) \/ InternKnown(k) \/ InternPanic(k) \/ InternHang(k)
  \/ Sentinel
  \/ Grow

SymSpec == SymInit /\ [][SymNext]_symbolVars

-------------------------------------------------------------------------------
(* However the table has grown in between, a text always gets the symbol   *)
(* it got first and no two texts get the same one (sbSymbol_from_bytes):   *)
(* comparing symbols is comparing texts.                                   *)
Interned ==
  /\ \A k \in Key : Cardinality(given[k]) <= 1
  /\ \A k, l \in Key : k # l => given[k] \cap given[l] = {}

(* Once a lookup of a text answers a symbol it always does, through every  *)
(* growth and at every step of one (set_hashtbl_size); what a growth loses *)
(* is the entry that caused it, which no lookup has answered yet.          *)
SymbolsKept ==
  [][\A k \in Key : Found(k) \in Val => Found(k)' = Found(k)]_symbolVars

(* The message of the panic: "Only symbol values are allowed in the symbol *)
(* table!"                                                                 *)
OnlySymbols == pc # "panic"
===============================================================================
