------------------------------- MODULE Values -------------------------------
(***************************************************************************)
(* Who holds an integer while a program runs: data/variable.c, value.c and  *)
(* the instructions of vm/exec.c that load, store, add and return, over the *)
(* bigints of module BigIntegers.  Variables, items and constants count the *)
(* bigint they hold, the operand stack does not, and arithmetic overwrites  *)
(* an operand that has no count.  The compiler is here with what it leaves  *)
(* to the machine: it stores to variables between expressions, not within.  *)
(***************************************************************************)
EXTENDS BigIntegers

CONSTANTS
    Slots,      \* slots of the locals of a frame
    MaxDepth,   \* bound: frames
    Boxes,      \* variables on the heap there can be
    Items,      \* items of lists
    Consts,     \* constants of the program
    Literals,   \* the digits of a number, as it is written in a program
    BASE,       \* the base it is written in
    MaxStack,   \* bound: operands
    MaxBigs,    \* bound: bigints
    MaxCount,   \* bound: the count of a bigint
    Results     \* bound: the numbers that may be computed

Locals  == (1 .. MaxDepth) \X Slots
Holders == Locals \cup Boxes \cup Items \cup Consts

ASSUME BoundsAssumption == MaxDepth \in Nat \ {0}
ASSUME LiteralAssumption == BASE \in Nat \ {0} /\ Literals \subseteq Seq(0 .. BASE - 1)
\* A base is one piece, and so small that a small number times it is below a
\* piece's square (16 at most, against 10^9 and 2^48 - 1).
ASSUME BaseAssumption == BASE < PIECE /\ BASE <= INT_MAX /\ INT_MAX * BASE < PIECE * PIECE
ASSUME FiniteAssumption == IsFiniteSet(Slots) /\ IsFiniteSet(Boxes) /\ IsFiniteSet(Items) /\ IsFiniteSet(Consts)
ASSUME DisjointAssumption ==
    /\ Locals \cap (Boxes \cup Items \cup Consts) = {}
    /\ Boxes \cap (Items \cup Consts) = {}
    /\ Items \cap Consts = {}

VARIABLES
    bigs,       \* the bigint pool
    held,       \* what each variable, item and constant holds
    stack,      \* the operand stack
    bases,      \* for each frame the height of the operand stack below it
    reading,    \* a number that is being read: the digits left, what they made so far
    status,     \* "compiling", "running", "stopped" or "panic"
    disturbed   \* an item was assigned within a call while operands were waiting:
                \* only OperandsKept reads it
vars == <<bigs, held, stack, bases, reading, status, disturbed>>

NOTHING    == [type |-> "nothing"]
HeapVar(b) == [type |-> "heapvar", box |-> b]
IsNumber(v) == v.type \in {"small", "big"}

Depth   == Len(bases)
Bottom  == IF bases = <<>> THEN 0 ELSE bases[Depth]
Peek(k) == stack[Len(stack) - k]
Popped(n) == SubSeq(stack, 1, Len(stack) - n)
Pushed(n, v) == Append(Popped(n), v)      \* n popped, one pushed
Operands(n)  == Len(stack) >= Bottom + n
Local(s)     == <<Depth, s>>

Idle       == [left |-> <<>>, n |-> Small(0), said |-> 0]
ReadingNow == reading.left # <<>>
Waiting    == ~ReadingNow /\ status \in {"compiling", "running"}
Running    == Waiting /\ status = "running"

\* Nothing is left waiting below an empty stack.
Disturb(by) == disturbed' = IF stack' = <<>> THEN FALSE ELSE disturbed \/ by

Init ==
    /\ bigs = <<>> /\ held = [h \in Holders |-> NOTHING]
    /\ stack = <<>> /\ bases = <<>>
    /\ reading = Idle /\ status = "compiling" /\ disturbed = FALSE

----------------------------------------------------------------------------
(* Numbers that are written down in the program.  (A text that is made a     *)
(* number while the program runs goes through the same loop.)               *)

Read(literal) ==
    /\ Waiting /\ status = "compiling" /\ Len(stack) < MaxStack
    /\ reading' = [Idle EXCEPT !.left = literal]
    /\ UNCHANGED <<bigs, held, stack, bases, status, disturbed>>

\* One turn of the loop: the number so far times the base, and a digit.
ReadDigit ==
    /\ ReadingNow /\ Len(bigs) < MaxBigs
    /\ LET times == sbInteger_mul(bigs, reading.n, Small(BASE))
           plus  == sbInteger_sum(times.bigs, times.n, Small(Head(reading.left)))
           done  == Len(reading.left) = 1
       IN  /\ bigs' = plus.bigs
           /\ stack' = IF done THEN Append(stack, plus.n) ELSE stack
           /\ reading' = IF done THEN Idle
                         ELSE [left |-> Tail(reading.left), n |-> plus.n,
                               said |-> reading.said * BASE + Head(reading.left)]
    /\ UNCHANGED <<held, bases, status, disturbed>>

\* The compiler keeps a constant, and the program starts.
sbVmCompiler_add_constant(c) ==
    /\ Waiting /\ status = "compiling" /\ held[c] = NOTHING /\ Operands(1)
    /\ bigs' = sbInteger_retain(bigs, Peek(0))
    /\ held' = [held EXCEPT ![c] = Peek(0)]
    /\ stack' = Popped(1)
    /\ UNCHANGED <<bases, reading, status>> /\ Disturb(FALSE)

Start ==
    /\ Waiting /\ status = "compiling" /\ stack = <<>> /\ \A c \in Consts : held[c] # NOTHING
    /\ bases' = <<0>> /\ status' = "running"
    /\ UNCHANGED <<bigs, held, stack, reading, disturbed>>

----------------------------------------------------------------------------
(* Loads and stores.                                                        *)

\* Where the value of a variable is: a local may be a pointer to the heap.
PlaceOf(h) == IF held[h].type = "heapvar" THEN held[h].box ELSE h
sbVar_get_value(h) == held[PlaceOf(h)]

Load(h) ==
    /\ Running /\ IsNumber(sbVar_get_value(h)) /\ Len(stack) < MaxStack
    /\ stack' = Append(stack, sbVar_get_value(h))
    /\ UNCHANGED <<bigs, held, bases, reading, status, disturbed>>

\* What a variable held is released before the new value is retained; of a
\* variable on the heap only the pointer is looked at, and nothing released.
\* Mutant: what is stored is not retained.
SetUncounted(old, place, v) ==
    /\ bigs' = sbInteger_release(bigs, old)
    /\ held' = [held EXCEPT ![place] = v]
sbVar_set_value(old, place, v) ==
    /\ bigs' = sbInteger_retain(sbInteger_release(bigs, old), v)
    /\ held' = [held EXCEPT ![place] = v]

Countable(v) == IF v.type = "big" THEN bigs[v.at].refcount < MaxCount ELSE TRUE
Store(old, place) ==
    /\ Running /\ Operands(1) /\ Countable(Peek(0))
    /\ sbVar_set_value(old, place, Peek(0))
    /\ stack' = Popped(1)
    /\ UNCHANGED <<bases, reading, status>>

\* An assignment is a statement: its value is alone on the stack.  Parameters
\* are stored while others wait, in locals that hold nothing yet.
StoreVar(s) ==
    /\ Depth > 0
    /\ held[Local(s)] = NOTHING \/ Len(stack) = Bottom + 1
    /\ Store(held[Local(s)], PlaceOf(Local(s))) /\ Disturb(FALSE)

\* Through a closure: its variables are pointers to the heap.
\* Mutant: what the variable held there is released.
StoreUpvalReleased(b) ==
    /\ held[b] # NOTHING /\ Len(stack) = Bottom + 1
    /\ Store(held[b], b) /\ Disturb(FALSE)
StoreUpval(b) ==
    /\ held[b] # NOTHING /\ Len(stack) = Bottom + 1
    /\ Store(HeapVar(b), b) /\ Disturb(FALSE)

\* Through a reference to an item.
StoreItem(i) ==
    /\ held[i] # NOTHING /\ Len(stack) = Bottom + 1
    /\ Store(held[i], i) /\ Disturb(Bottom > 0)

\* sbList_append, of an item of a list that is being made.
sbList_append(i) ==
    /\ Running /\ held[i] = NOTHING /\ Operands(1)
    /\ bigs' = sbInteger_retain(bigs, Peek(0))
    /\ held' = [held EXCEPT ![i] = Peek(0)]
    /\ stack' = Popped(1)
    /\ UNCHANGED <<bases, reading, status>> /\ Disturb(FALSE)

\* A local that a closure or a reference needs; its count goes with the value.
sbVar_move_to_heap(s, b) ==
    /\ Running /\ Depth > 0 /\ IsNumber(held[Local(s)]) /\ held[b] = NOTHING
    /\ held' = [held EXCEPT ![b] = held[Local(s)], ![Local(s)] = HeapVar(b)]
    /\ UNCHANGED <<bigs, stack, bases, reading, status, disturbed>>

Pop ==
    /\ Running /\ Operands(1)
    /\ stack' = Popped(1)
    /\ UNCHANGED <<bigs, held, bases, reading, status>> /\ Disturb(FALSE)

----------------------------------------------------------------------------
(* Arithmetic and calls.                                                    *)

Operate(r) ==
    /\ bigs' = r.bigs
    /\ stack' = Pushed(2, r.n)
    /\ UNCHANGED <<held, bases, reading, status, disturbed>>
Fail ==
    /\ status' = "panic"
    /\ UNCHANGED <<bigs, held, stack, bases, reading, disturbed>>

\* Bound: the numbers that should come out, and that there is room for a bigint.
Computing == Waiting /\ Operands(2) /\ Len(bigs) < MaxBigs
Left  == sbInteger_fprint(bigs, Peek(1))
Right == sbInteger_fprint(bigs, Peek(0))

\* Also what the compiler folds.
Sum ==
    /\ Computing /\ Left + Right \in Results
    /\ IF CanSum(bigs, Peek(1), Peek(0)) THEN Operate(sbInteger_sum(bigs, Peek(1), Peek(0))) ELSE Fail
Diff ==
    /\ Computing
    /\ IF CanDiff(Peek(1), Peek(0))
       THEN Left - Right \in Results /\ Operate(sbInteger_diff(bigs, Peek(1), Peek(0))) ELSE Fail
Mul ==
    /\ Computing /\ Left * Right \in Results
    /\ Operate(sbInteger_mul(bigs, Peek(1), Peek(0)))

\* The top n operands are the parameters; the frame's locals hold nothing.
Call(n) ==
    /\ Running /\ Depth > 0 /\ Depth < MaxDepth /\ Operands(n)
    /\ bases' = Append(bases, Len(stack) - n)
    /\ UNCHANGED <<bigs, held, stack, reading, status, disturbed>>

\* return_from_block: all locals of the frame are released, those on the heap
\* are not; the value stays on the stack.
Frame       == {Local(s) : s \in Slots}
Released(k) == Cardinality({h \in Frame : held[h] = Big(k)})
Return ==
    /\ Running /\ Depth > 0 /\ Len(stack) = Bottom + 1
    /\ bigs' = [k \in DOMAIN bigs |-> [bigs[k] EXCEPT !.refcount = @ - Released(k)]]
    /\ held' = [h \in Holders |-> IF h \in Frame THEN NOTHING ELSE held[h]]
    /\ bases' = SubSeq(bases, 1, Depth - 1)
    /\ status' = IF Depth = 1 THEN "stopped" ELSE status
    /\ UNCHANGED <<stack, reading, disturbed>>

Loads  == \E h \in Boxes \cup Items \cup Consts \cup (IF Depth = 0 THEN {} ELSE Frame) : Load(h)
Stores == (\E s \in Slots : StoreVar(s)) \/ (\E b \in Boxes : StoreUpval(b)) \/ (\E i \in Items : StoreItem(i))
Next ==
    \/ \E literal \in Literals : Read(literal)
    \/ ReadDigit
    \/ \E c \in Consts : sbVmCompiler_add_constant(c)
    \/ Start \/ Loads \/ Stores \/ Pop
    \/ \E i \in Items : sbList_append(i)
    \/ \E s \in Slots, b \in Boxes : sbVar_move_to_heap(s, b)
    \/ Sum \/ Diff \/ Mul
    \/ \E n \in 0 .. 1 : Call(n)
    \/ Return
Spec == Init /\ [][Next]_vars

----------------------------------------------------------------------------
(* Properties.                                                              *)

\* The handles there are with this pool, and what a variable can hold.
Handle(pool) == [type : {"small"}, i : Int] \cup [type : {"big"}, at : DOMAIN pool]
Content(pool) == Handle(pool) \cup {NOTHING}
PoolOK(pool) ==
    /\ pool \in Seq({pool[k] : k \in DOMAIN pool})
    /\ \A k \in DOMAIN pool :
          pool[k] \in [refcount : Nat, sign_bit : BOOLEAN, pieces : {pool[k].pieces}]
TypeOK ==
    /\ PoolOK(bigs)
    /\ held \in [Holders -> Content(bigs) \cup {HeapVar(b) : b \in Boxes}]
    /\ \A b \in Boxes : held[b] \in Content(bigs)
    /\ stack \in Seq(Handle(bigs))
    /\ bases \in Seq(Nat) /\ Len(bases) <= MaxDepth
    /\ reading \in [left : Seq(0 .. BASE - 1), n : Handle(bigs), said : Nat]
    /\ status \in {"compiling", "running", "stopped", "panic"} /\ disturbed \in BOOLEAN

HoldersOf(k) == {h \in Holders : held[h] = Big(k)}
Counted == \A k \in DOMAIN bigs : Cardinality(HoldersOf(k)) <= bigs[k].refcount

\* A bigint has a count for every variable, item and constant that holds it
\* (sbV_retain and sbV_release in variable.c, list.c, block.c and exec.c), so
\* that a count of zero means that nobody holds it; and every handle names one.
CountsSuffice == TypeOK /\ Counted

SameNumber(v) == bigs'[v.at].pieces = bigs[v.at].pieces /\ bigs'[v.at].sign_bit = bigs[v.at].sign_bit

\* The number of a variable, an item or a constant is another one only after
\* something was stored there: no arithmetic on a handle that others hold as
\* well overwrites it (finalize_bigint).
NumbersKept ==
    [][\A h \in Holders : held'[h] = held[h] /\ held[h].type = "big" => SameNumber(held[h])]_vars

\* The operand stack counts nothing, and still an operand that waits for its
\* operation stays the number it was: whatever could release it, a store, the
\* end of a frame, comes between expressions or leaves a count behind.  Only
\* an item that a call assigns meanwhile makes an exception.
OperandsKept ==
    [][\A i \in DOMAIN stack :
          ~disturbed' /\ i \in DOMAIN stack' /\ stack'[i] = stack[i] /\ stack[i].type = "big"
          /\ (stack' # stack => i < Len(stack')) => SameNumber(stack[i])]_vars

\* Whether the code multiplies these two: not below zero, and a right factor of
\* one piece that does not carry past the last piece of the result.
Multiplies(a, b) ==
    /\ int_sign(bigs, a) >= 0 /\ int_sign(bigs, b) >= 0
    /\ ~is_bigint(b) /\ b.i < PIECE
    /\ ~is_bigint(a) => a.i * b.i < PIECE * PIECE

Result == sbInteger_fprint(bigs', stack'[Len(stack')])
\* Sums are exact, and so are products that the code can do and numbers that
\* are read digit by digit: across the change from small numbers to bigints,
\* with carries, and when an operand is overwritten.
ArithmeticExact ==
    [][/\ Sum /\ status' # "panic" => Result = Left + Right
       /\ Mul /\ Multiplies(Peek(1), Peek(0)) => Result = Left * Right
       /\ ReadDigit =>
             LET n == IF reading' = Idle THEN stack'[Len(stack')] ELSE reading'.n
             IN  sbInteger_fprint(bigs', n) = reading.said * BASE + Head(reading.left)]_vars
=============================================================================
