-------------------------- MODULE SymbolTableProofs --------------------------
(***************************************************************************)
(* Proofs about SymbolTable.tla for every set of texts, every hash function *)
(* and every table length, on top of those about the table (the steps of   *)
(* HashTableProofs).  What the table answers for a text is the one symbol   *)
(* that was given for it, except for the texts whose insertion made the     *)
(* table grow: they have an entry without a symbol, and are not given one   *)
(* again.                                                                   *)
(***************************************************************************)
EXTENDS SymbolTable, HashTableProofs

(* Slots nobody has taken hold no value: nothing is deleted or assigned     *)
(* here, so that an insertion that grows loses its symbol and finds no      *)
(* other in its slot.                                                       *)
FreeIsEmpty(ks, vs, n) == \A s \in Slots(n) : ks[s] = NOTHING => vs[s] = NOTHING

GivenIs(k) ==
  \/ Answers[k] = ABSENT /\ given[k] = {}
  \/ Answers[k] \in Val /\ given[k] = {Answers[k]}
  \/ Answers[k] = NOTHING /\ \E x \in 1 .. issued : given[k] = {x}

SymInv ==
  /\ pc # "panic" => TableInv
  /\ FreeIsEmpty(keys, values, capacity)
  /\ pc = "rehash" => FreeIsEmpty(new_keys, new_values, new_size)
  /\ issued \in Nat /\ given \in [Key -> SUBSET (1 .. issued)]
  /\ \A k \in Key : GivenIs(k)
  /\ \A k, l \in Key : k # l => given[k] \cap given[l] = {}

-------------------------------------------------------------------------------
LEMMA SymInitInv == SymInit => SymInv
<1> SUFFICES ASSUME SymInit PROVE SymInv
  OBVIOUS
<1>1. TableInv /\ pc = "ready" /\ keys = Empty(capacity) /\ values = Empty(capacity)
  BY InitInv DEF SymInit, Init
<1>2. issued = 0 /\ given = [k \in Key |-> {}]
  BY DEF SymInit
<1>3. \A k \in Key : Answers[k] = ABSENT
  BY InitAnswers DEF SymInit
<1>4. FreeIsEmpty(keys, values, capacity)
  BY <1>1 DEF FreeIsEmpty, Empty
<1> QED
  BY <1>1, <1>2, <1>3, <1>4 DEF SymInv, GivenIs

LEMMA FoundIs == \A k \in Key : Found(k) = Answers[k] /\ Found(k)' = Answers'[k]
BY DEF Found, Answers

(* A new text gets the next number, which no text has been given before. *)
LEMMA InternNewInv ==
  ASSUME SymInv, NEW k \in Key, InternNew(k)
  PROVE  SymInv' /\ \A q \in Key : Answers[q] \in Val => Answers'[q] = Answers[q]
<1>1. pc = "ready" /\ TableInv /\ Answers[k] = ABSENT /\ issued + 1 \in Val /\ issued \in Nat
  BY FoundIs DEF InternNew, SymInv
<1>2. given' = [given EXCEPT ![k] = @ \cup {issued + 1}] /\ issued' = issued + 1
  BY DEF InternNew
<1>3. given[k] = {} /\ given'[k] = {issued + 1} /\ \A q \in Key : q # k => given'[q] = given[q]
  BY <1>1, <1>2, HashAssumption DEF SymInv, GivenIs
<1>4. given' \in [Key -> SUBSET (1 .. issued')]
  BY <1>1, <1>2 DEF SymInv
<1>5. \A q, l \in Key : q # l => given'[q] \cap given'[l] = {}
  <2>1. \A q \in Key : issued + 1 \notin given[q]
    BY <1>1 DEF SymInv
  <2> QED
    BY <1>3, <2>1 DEF SymInv
<1>6. TableInv' /\ pc' # "panic"
  <2>1. TableInv'
    BY <1>1, ReplaceInv, AddInv, AddAndGrowInv DEF InternNew, Insert
  <2> QED
    BY <2>1 DEF TableInv, NoDuplicateOnRehash
<1>7. ~Replace(k, issued + 1)
  <2> SUFFICES ASSUME Replace(k, issued + 1) PROVE FALSE
    OBVIOUS
  <2> DEFINE s == FindIndex(keys, capacity, k)
  <2>1. s \in Slots(capacity) /\ keys[s] = k
    BY <1>1, InRange, ProbeStops DEF Replace
  <2>2. Answers[k] = values[s] /\ values[s] \in Val \cup {NOTHING}
    BY <1>1, <2>1, AnswersAre, TableShape DEF Kept
  <2> QED
    BY <1>1, <2>2, HashAssumption
<1>8. \E x \in {issued + 1, NOTHING} :
        Answers' = [Answers EXCEPT ![k] = x]
  <2>1. CASE Add(k, issued + 1)
    BY <1>1, <1>6, <2>1, AddAnswers
  <2>2. CASE AddAndGrow(k, issued + 1)
    BY <1>1, <1>6, <2>2, AddAndGrowAnswers DEF SymInv, FreeIsEmpty
  <2> QED
    BY <1>7, <2>1, <2>2 DEF InternNew, Insert
<1>9. PICK x \in {issued + 1, NOTHING} : Answers' = [Answers EXCEPT ![k] = x]
  BY <1>8
<1>10. Answers'[k] = x /\ \A q \in Key : q # k => Answers'[q] = Answers[q]
  <2>1. DOMAIN Answers = Key
    BY DEF Answers
  <2> QED
    BY <1>9, <2>1
<1>11. \A q \in Key : GivenIs(q)'
  <2> SUFFICES ASSUME NEW q \in Key PROVE GivenIs(q)'
    OBVIOUS
  <2>1. CASE q = k
    BY <1>1, <1>2, <1>3, <1>9, <1>10, <2>1 DEF GivenIs
  <2>2. CASE q # k
    <3>1. GivenIs(q) /\ 1 .. issued \subseteq 1 .. issued'
      BY <1>1, <1>2 DEF SymInv
    <3> QED
      BY <1>3, <1>10, <2>2, <3>1 DEF GivenIs
  <2> QED
    BY <2>1, <2>2
<1>12. FreeIsEmpty(keys, values, capacity)' /\ (pc = "rehash" => FreeIsEmpty(new_keys, new_values, new_size))'
  <2> DEFINE s == FindIndex(keys, capacity, k)
  <2>1. FreeIsEmpty(keys, values, capacity) /\ keys \in Arrays(capacity) /\ values \in Kept(capacity)
    BY <1>1, TableShape DEF SymInv
  <2>2. CASE Add(k, issued + 1)
    <3>1. /\ keys' = [keys EXCEPT ![s] = k] /\ values' = [values EXCEPT ![s] = issued + 1]
          /\ capacity' = capacity /\ pc' = "ready" /\ s \in Slots(capacity)
      BY <1>1, <2>2, InRange, ProbeStops DEF Add
    <3> HIDE DEF s
    <3> QED
      BY <2>1, <3>1, HashAssumption DEF FreeIsEmpty, Arrays, Kept
  <2>3. CASE AddAndGrow(k, issued + 1)
    <3>1. /\ keys' = [keys EXCEPT ![s] = k] /\ values' = values /\ s \in Slots(capacity)
          /\ capacity' = capacity /\ new_keys' = Empty(new_size') /\ new_values' = Empty(new_size')
      BY <1>1, <2>3, InRange, ProbeStops DEF AddAndGrow
    <3> HIDE DEF s
    <3> QED
      BY <2>1, <3>1, HashAssumption DEF FreeIsEmpty, Arrays, Kept, Empty
  <2> QED
    BY <1>7, <2>2, <2>3 DEF InternNew, Insert
<1>13. SymInv'
  BY <1>1, <1>2, <1>4, <1>5, <1>6, <1>11, <1>12 DEF SymInv
<1>14. \A q \in Key : Answers[q] \in Val => Answers'[q] = Answers[q]
  BY <1>1, <1>10, HashAssumption
<1> QED
  BY <1>13, <1>14

(* What leaves the table and the numbers alone. *)
LEMMA SameTable ==
  ASSUME SymInv, UNCHANGED <<capacity, keys, values, growth, issued, given>>,
         pc' \in {"hung", "panic"}, pc' # "panic" => TableInv'
  PROVE  SymInv' /\ Answers' = Answers
<1>1. Answers' = Answers
  BY DEF Answers, Lookup, Cycles, Stops, FindIndex
<1>2. \A k \in Key : GivenIs(k)'
  BY <1>1 DEF SymInv, GivenIs
<1> QED
  BY <1>1, <1>2 DEF SymInv, FreeIsEmpty

(* A text that has a symbol is answered that symbol: it was given before. *)
LEMMA InternKnownInv ==
  ASSUME SymInv, NEW k \in Key, InternKnown(k)
  PROVE  UNCHANGED symbolVars
<1>1. Answers[k] \in Val /\ UNCHANGED <<vars, issued>>
      /\ given' = [given EXCEPT ![k] = @ \cup {Answers[k]}]
  BY FoundIs DEF InternKnown
<1>2. given[k] = {Answers[k]} /\ given \in [Key -> SUBSET (1 .. issued)]
  BY <1>1, HashAssumption DEF SymInv, GivenIs
<1>3. given[k] \cup {Answers[k]} = given[k]
  BY <1>2
<1>4. given' = given
  BY <1>1, <1>2, <1>3
<1> QED
  BY <1>1, <1>4 DEF symbolVars

LEMMA SentinelInv ==
  ASSUME SymInv, Sentinel
  PROVE  SymInv' /\ Answers' = Answers
<1>1. UNCHANGED <<vars, given>> /\ issued' = issued + 1 /\ issued \in Nat
  BY DEF Sentinel, SymInv
<1>2. Answers' = Answers
  BY <1>1 DEF Answers, Lookup, Cycles, Stops, FindIndex, vars
<1>3. 1 .. issued \subseteq 1 .. issued'
  BY <1>1
<1>4. \A k \in Key : GivenIs(k)'
  BY <1>1, <1>2, <1>3 DEF SymInv, GivenIs
<1>5. pc' # "panic" => TableInv'
  BY <1>1 DEF SymInv, vars, growth, TableInv, TypeOK, KeysFindable, NoDuplicateOnRehash, Moved
<1>6. given' \in [Key -> SUBSET (1 .. issued')]
  BY <1>1, <1>3 DEF SymInv
<1> QED
  BY <1>1, <1>2, <1>4, <1>5, <1>6 DEF SymInv, FreeIsEmpty, vars, growth

(* A growth moves symbols with their texts and leaves the other slots empty. *)
LEMMA GrowInv ==
  ASSUME SymInv, Grow
  PROVE  SymInv' /\ Answers' = Answers
<1>1. pc = "rehash" /\ TableInv /\ UNCHANGED <<issued, given>>
  BY DEF Grow, SymInv, Migrate, FinishGrowth
<1>2. TableInv' /\ pc' # "panic"
  <2>1. TableInv'
    BY <1>1, MigrateInv, FinishGrowthInv DEF Grow
  <2> QED
    BY <2>1 DEF TableInv, NoDuplicateOnRehash
<1>3. Answers' = Answers
  <2>1. CASE Migrate
    BY <2>1 DEF Migrate, Answers, Lookup, Cycles, Stops, FindIndex
  <2>2. CASE FinishGrowth
    BY <1>1, <1>2, <2>2, FinishGrowthMaps
  <2> QED
    BY <2>1, <2>2 DEF Grow
<1>4. FreeIsEmpty(keys, values, capacity)' /\ (pc = "rehash" => FreeIsEmpty(new_keys, new_values, new_size))'
  <2>1. CASE FinishGrowth
    BY <1>1, <2>1 DEF FinishGrowth, SymInv, FreeIsEmpty
  <2>2. CASE Migrate
    <3>1. UNCHANGED <<capacity, keys, values, new_size>>
      BY <2>2 DEF Migrate
    <3>2. FreeIsEmpty(new_keys', new_values', new_size)
      <4>1. CASE UNCHANGED <<new_keys, new_values>>
        BY <1>1, <4>1 DEF SymInv, FreeIsEmpty
      <4> DEFINE t == FindIndex(new_keys, new_size, keys[i])
      <4>2. CASE /\ keys[i] \in Key /\ new_keys' = [new_keys EXCEPT ![t] = keys[i]]
                 /\ new_values' = [new_values EXCEPT ![t] = values[i]]
        <5> HIDE DEF t
        <5>1. new_keys \in Arrays(new_size) /\ new_values \in Kept(new_size)
          BY <1>1, TableShape
        <5> QED
          BY <1>1, <4>2, <5>1, HashAssumption DEF SymInv, FreeIsEmpty, Arrays, Kept
      <4> QED
        BY <1>2, <2>2, <4>1, <4>2 DEF Migrate
    <3> QED
      BY <3>1, <3>2 DEF SymInv, FreeIsEmpty
  <2> QED
    BY <2>1, <2>2 DEF Grow
<1>5. \A k \in Key : GivenIs(k)'
  BY <1>1, <1>3 DEF SymInv, GivenIs
<1> QED
  BY <1>1, <1>2, <1>3, <1>4, <1>5 DEF SymInv

LEMMA SymNextInv ==
  ASSUME SymInv, [SymNext]_symbolVars
  PROVE  SymInv' /\ \A k \in Key : Answers[k] \in Val => Answers'[k] = Answers[k]
<1>1. ASSUME UNCHANGED symbolVars
      PROVE  SymInv' /\ Answers' = Answers
  <2>1. Answers' = Answers
    BY <1>1 DEF symbolVars, vars, Answers, Lookup, Cycles, Stops, FindIndex
  <2>2. pc' # "panic" => TableInv'
    BY <1>1 DEF SymInv, symbolVars, vars, growth, TableInv, TypeOK, KeysFindable, NoDuplicateOnRehash, Moved
  <2> QED
    BY <1>1, <2>1, <2>2 DEF SymInv, GivenIs, FreeIsEmpty, symbolVars, vars, growth
<1>2. ASSUME NEW k \in Key, InternPanic(k)
      PROVE  SymInv' /\ Answers' = Answers
  BY <1>2, SameTable DEF InternPanic, growth
<1>3. ASSUME NEW k \in Key, InternHang(k)
      PROVE  SymInv' /\ Answers' = Answers
  <2>1. TableInv'
    BY <1>3, HangInv DEF InternHang, Hang, SymInv
  <2> QED
    BY <1>3, <2>1, SameTable DEF InternHang, Hang
<1> QED
  BY <1>1, <1>2, <1>3, InternNewInv, InternKnownInv, SentinelInv, GrowInv DEF SymNext

(* What the table knows, and what has been given, in every reachable state. *)
THEOREM SymInvariance == SymSpec => []SymInv
<1>1. SymInv /\ [SymNext]_symbolVars => SymInv'
  BY SymNextInv
<1> QED
  BY <1>1, SymInitInv, PTL DEF SymSpec

(* Symbols stand for texts: one for each, never the same for two, whatever  *)
(* the hashes are and however often the table grows (sbSymbol_from_bytes).  *)
THEOREM InternedAlways == SymSpec => []Interned
<1>1. SymInv => Interned
  <2> SUFFICES ASSUME SymInv PROVE Interned
    OBVIOUS
  <2>1. ASSUME NEW k \in Key
        PROVE  Cardinality(given[k]) <= 1
    <3>1. given[k] = {} \/ \E x : given[k] = {x}
      BY DEF SymInv, GivenIs
    <3>2. Cardinality(given[k]) \in {0, 1}
      BY <3>1, FS_EmptySet, FS_Singleton, Zenon
    <3> QED
      BY <3>2
  <2> QED
    BY <2>1 DEF Interned, SymInv
<1> QED
  BY <1>1, SymInvariance, PTL

(* A text that was answered a symbol is answered it from then on, at every  *)
(* turn of every growth (set_hashtbl_size).                                 *)
THEOREM KeptAlways == SymSpec => SymbolsKept
<1>1. SymInv /\ [SymNext]_symbolVars =>
        [\A k \in Key : Found(k) \in Val => Found(k)' = Found(k)]_symbolVars
  BY SymNextInv, FoundIs
<1> QED
  BY <1>1, SymInvariance, PTL DEF SymSpec, SymbolsKept
===============================================================================
