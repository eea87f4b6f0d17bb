------------------------------ MODULE Variables ------------------------------
(***************************************************************************)
(* Where the machine keeps variables (vm/exec.c, data/variable.c,          *)
(* data/closure.c).  A local lives in a slot of its frame on the return    *)
(* stack until a reference or a closure is made of it; then its value      *)
(* moves to a heap variable, the slot keeps a pointer, and a closure gets  *)
(* a copy of that pointer.  Frames are pushed and popped without clearing, *)
(* and the slots of a frame are reused by scopes that follow each other.   *)
(*                                                                         *)
(* What a script means by a variable is kept beside that, in box, captured *)
(* and content: every execution of a "let" makes a new variable, and       *)
(* content holds the value assigned to it last.                            *)
(***************************************************************************)
EXTENDS Integers, Sequences, FiniteSets

CONSTANTS
  Number,       \* the integers a script stores
  Locals,       \* most slots of a frame; each block has a number of its own
  MaxFrames, MaxVariables, MaxClosures, MaxCaptured, MaxOperands,  \* bounds
  Rebinding,    \* scripts may execute a "let" in a slot that has moved to
                \* the heap: a loop, or a scope after one, around a capture
  Dangling      \* scripts may use a reference to a local of a function that
                \* has returned

ASSUME VariablesAssumption ==
  /\ Number \subseteq Int
  /\ Locals \in Nat \ {0}
  /\ MaxFrames \in Nat \ {0}
  /\ {MaxVariables, MaxClosures, MaxCaptured, MaxOperands} \subseteq Nat
  /\ Rebinding \in BOOLEAN /\ Dangling \in BOOLEAN

VARIABLES
  memory,     \* the return stack, in cells: a header per frame, its slots
  frames,     \* the live frames: where each starts, its number of slots
              \* and the closure it runs
  heap,       \* heap variables
  closures,   \* the variables of each closure
  operands,   \* the operand stack
  box,        \* cell -> the script's variable in it, or 0
  captured,   \* closure -> the script's variables it captured
  content     \* the script's variables: the value of each

machine == <<memory, frames, heap, closures, operands>>
script == <<box, captured, content>>
vars == <<machine, script>>

(* hVal: a tag and what it says.  A reference also names the script's      *)
(* variable it was made to.                                                *)
Nothing == <<"nothing", 0, 0, 0>>
Integer(n) == <<"int", n, 0, 0>>
Function(c) == <<"func", c, 0, 0>>          \* c = 0: not a closure
LocalRef(a, b) == <<"local", a, 0, b>>      \* IT_REF to a slot of a frame
UpvarRef(c, j, b) == <<"upvar", c, j, b>>   \* IT_REF to a closure's variable
HeapVar(h) == <<"heap", h, 0, 0>>           \* ITX_HEAPVAR, only in cells
Header == <<"frame", 0, 0, 0>>              \* the bytes of an sbVmStackFrame

Values ==
  {Nothing} \cup {Integer(n) : n \in Number} \cup {Function(c) : c \in 0 .. MaxClosures}
    \cup {LocalRef(a, b) : a \in DOMAIN memory, b \in 1 .. MaxVariables}
    \cup {UpvarRef(c, j, b) : c \in 1 .. MaxClosures, j \in 1 .. MaxCaptured,
                              b \in 1 .. MaxVariables}

Frame == frames[Len(frames)]
Slot(j) == Frame.base + j

(* Where the next frame starts; a plausible mistake, one cell too low *)
NextBaseLow == Frame.base + Frame.locals
NextBase == Frame.base + Frame.locals + 1
Last(s) == s[Len(s)]
Rest(s) == SubSeq(s, 1, Len(s) - 1)
IsRef(v) == v[1] \in {"local", "upvar"}

(* sbVar_deref, sbVar_get_value *)
Cell(ref) == IF ref[1] = "local" THEN memory[ref[2]] ELSE closures[ref[2]][ref[3]]
(* A plausible mistake: the pointer to a heap variable taken for a value. *)
ValueOfCell(cell) == cell
Value(cell) == IF cell[1] = "heap" THEN heap[cell[2]] ELSE cell

Declared == {j \in 1 .. Frame.locals : box[Slot(j)] # 0}
Upvars == IF Frame.closure = 0 THEN {} ELSE DOMAIN closures[Frame.closure]
Alive(ref) == ref[1] = "local" => box[ref[2]] = ref[4]

-------------------------------------------------------------------------------
(* The machine starts in a frame for the script's own block. *)
Init ==
  /\ memory = [a \in 1 .. MaxFrames * (Locals + 1) |->
                 IF a = 1 THEN Header ELSE Nothing]
  /\ \E n \in 0 .. Locals : frames = <<[base |-> 1, locals |-> n, closure |-> 0]>>
  /\ heap = <<>> /\ closures = <<>> /\ operands = <<>>
  /\ box = [a \in DOMAIN memory |-> 0]
  /\ captured = <<>> /\ content = <<>>

Push(v) ==
  /\ Len(operands) < MaxOperands
  /\ operands' = Append(operands, v)

(* Plausible mistakes: the pointer in the slot replaced by the value, the  *)
(* first variable of a closure written whichever was meant.                *)
SetCellOver(a, v) == memory' = [memory EXCEPT ![a] = v] /\ UNCHANGED heap
SetUpvarFirst(c, j, v) ==
  /\ heap' = [heap EXCEPT ![closures[c][1][2]] = v]
  /\ UNCHANGED memory

(* sbVar_set_value on a cell of the return stack, on a closure's variable *)
SetCell(a, v) ==
  IF memory[a][1] = "heap"
  THEN /\ heap' = [heap EXCEPT ![memory[a][2]] = v]
       /\ UNCHANGED memory
  ELSE /\ memory' = [memory EXCEPT ![a] = v]
       /\ UNCHANGED heap
SetUpvar(c, j, v) ==
  /\ heap' = [heap EXCEPT ![closures[c][j][2]] = v]
  /\ UNCHANGED memory

(* LD_IMM, LD_BLK *)
PushNew ==
  /\ \E v \in {Integer(n) : n \in Number} \cup {Function(0)} : Push(v)
  /\ UNCHANGED <<memory, frames, heap, closures, script>>

(* POP *)
Drop ==
  /\ operands # <<>>
  /\ operands' = Rest(operands)
  /\ UNCHANGED <<memory, frames, heap, closures, script>>

(* LD_VAR *)
LoadVar(j) ==
  /\ j \in Declared
  /\ Push(Value(memory[Slot(j)]))
  /\ UNCHANGED <<memory, frames, heap, closures, script>>

(* A "let" or a parameter: IR_S_BIND, compiled to ST_ARG *)
Let(j) ==
  /\ operands # <<>>
  /\ j <= Frame.locals
  /\ Len(content) < MaxVariables
  /\ Rebinding \/ memory[Slot(j)][1] # "heap"
  /\ SetCell(Slot(j), Last(operands))
  /\ operands' = Rest(operands)
  /\ box' = [box EXCEPT ![Slot(j)] = Len(content) + 1]
  /\ content' = Append(content, Last(operands))
  /\ UNCHANGED <<frames, closures, captured>>

(* An assignment to a local: ST_VAR *)
Assign(j) ==
  /\ operands # <<>>
  /\ j \in Declared
  /\ SetCell(Slot(j), Last(operands))
  /\ operands' = Rest(operands)
  /\ content' = [content EXCEPT ![box[Slot(j)]] = Last(operands)]
  /\ UNCHANGED <<frames, closures, box, captured>>

(* The cells of S, one after the other *)
InTurn(S) ==
  CHOOSE s \in [1 .. Cardinality(S) -> S] : \A a \in S : \E d \in DOMAIN s : s[d] = a

(* sbVar_move_to_heap for the cells of the return stack in S *)
MoveToHeap(S) ==
  LET moving == InTurn({a \in S : memory[a][1] # "heap"})
      place(a) == Len(heap) + CHOOSE d \in DOMAIN moving : moving[d] = a
  IN  /\ memory' = [a \in DOMAIN memory |->
                      IF \E d \in DOMAIN moving : moving[d] = a THEN HeapVar(place(a))
                      ELSE memory[a]]
      /\ heap' = heap \o [d \in DOMAIN moving |-> memory[moving[d]]]

(* LD_RREF *)
RefVar(j) ==
  /\ j \in Declared
  /\ MoveToHeap({Slot(j)})
  /\ Push(LocalRef(Slot(j), box[Slot(j)]))
  /\ UNCHANGED <<frames, closures, script>>

(* LD_UPVAL, ST_UPVAL, LD_UPREF *)
LoadUpvar(j) ==
  /\ j \in Upvars
  /\ Push(Value(closures[Frame.closure][j]))
  /\ UNCHANGED <<memory, frames, heap, closures, script>>

AssignUpvar(j) ==
  /\ operands # <<>>
  /\ j \in Upvars
  /\ SetUpvar(Frame.closure, j, Last(operands))
  /\ operands' = Rest(operands)
  /\ content' = [content EXCEPT ![captured[Frame.closure][j]] = Last(operands)]
  /\ UNCHANGED <<frames, closures, box, captured>>

RefUpvar(j) ==
  /\ j \in Upvars
  /\ Push(UpvarRef(Frame.closure, j, captured[Frame.closure][j]))
  /\ UNCHANGED <<memory, frames, heap, closures, script>>

(* A function expression: LD_RREF or LD_UPREF for each variable it closes  *)
(* over, LD_BLK, CLOSURE, which retains a copy of each cell.  Locals are   *)
(* captured as <<j, TRUE>>, the running closure's variables as             *)
(* <<j, FALSE>>; none is captured twice (register_upvalue).                *)
Sources == {<<j, TRUE>> : j \in Declared} \cup {<<j, FALSE>> : j \in Upvars}

MakeClosure(bound) ==
  /\ Len(closures) < MaxClosures
  /\ \A d, e \in DOMAIN bound : bound[d] = bound[e] => d = e
  /\ MoveToHeap({Slot(bound[d][1]) : d \in {e \in DOMAIN bound : bound[e][2]}})
  /\ closures' = Append(closures,
       [d \in DOMAIN bound |-> IF bound[d][2] THEN memory'[Slot(bound[d][1])]
                               ELSE closures[Frame.closure][bound[d][1]]])
  /\ captured' = Append(captured,
       [d \in DOMAIN bound |-> IF bound[d][2] THEN box[Slot(bound[d][1])]
                               ELSE captured[Frame.closure][bound[d][1]]])
  /\ Push(Function(Len(closures) + 1))
  /\ UNCHANGED <<frames, box, content>>

(* OP_DEREF *)
Deref ==
  /\ operands # <<>> /\ IsRef(Last(operands))
  /\ Dangling \/ Alive(Last(operands))
  /\ operands' = Append(Rest(operands), Value(Cell(Last(operands))))
  /\ UNCHANGED <<memory, frames, heap, closures, script>>

(* REF_PUT: the reference is on top of the value. *)
RefPut ==
  LET ref == Last(operands)
      v == operands[Len(operands) - 1]
  IN  /\ Len(operands) >= 2 /\ IsRef(ref)
      /\ Dangling \/ Alive(ref)
      /\ IF ref[1] = "local" THEN SetCell(ref[2], v) ELSE SetUpvar(ref[2], ref[3], v)
      /\ operands' = SubSeq(operands, 1, Len(operands) - 2)
      /\ content' = [content EXCEPT ![ref[4]] = v]
      /\ UNCHANGED <<frames, closures, box, captured>>

(* CALL of a block or a closure, and the ALLOC_VARS n its block starts     *)
(* with, which clears the new slots.                                       *)
Call(n) ==
  LET base == NextBase
  IN  /\ operands # <<>> /\ Last(operands)[1] = "func"
      /\ Len(frames) < MaxFrames
      /\ frames' = Append(frames, [base |-> base, locals |-> n,
                                  closure |-> Last(operands)[2]])
      /\ memory' = [a \in DOMAIN memory |->
                      IF a = base THEN Header
                      ELSE IF a \in base + 1 .. base + n THEN Nothing
                      ELSE memory[a]]
      /\ operands' = Rest(operands)
      /\ UNCHANGED <<heap, closures, script>>

(* return_from_block: the memory of the frame stays as it is. *)
Return ==
  /\ Len(frames) > 1
  /\ frames' = Rest(frames)
  /\ box' = [a \in DOMAIN box |-> IF a > Frame.base THEN 0 ELSE box[a]]
  /\ UNCHANGED <<memory, heap, closures, operands, captured, content>>

Next ==
  \/ PushNew \/ Drop \/ Deref \/ RefPut \/ Return
  \/ \E n \in 0 .. Locals : Call(n)
  \/ \E j \in 1 .. Locals : LoadVar(j) \/ Let(j) \/ Assign(j) \/ RefVar(j)
  \/ \E j \in 1 .. MaxCaptured : LoadUpvar(j) \/ AssignUpvar(j) \/ RefUpvar(j)
  \/ \E n \in 1 .. MaxCaptured : \E bound \in [1 .. n -> Sources] : MakeClosure(bound)

Spec == Init /\ [][Next]_vars

-------------------------------------------------------------------------------
TypeOK ==
  /\ \A a \in DOMAIN memory :
       memory[a] \in Values \cup {Header} \cup {HeapVar(h) : h \in DOMAIN heap}
  /\ Len(frames) \in 1 .. MaxFrames
  /\ \A h \in DOMAIN heap : heap[h] \in Values
  /\ \A c \in DOMAIN closures : \A j \in DOMAIN closures[c] :
       closures[c][j] \in {HeapVar(h) : h \in DOMAIN heap}
  /\ \A p \in DOMAIN operands : operands[p] \in Values
  /\ box \in [DOMAIN memory -> 0 .. Len(content)]
  /\ DOMAIN captured = DOMAIN closures

(* A local reads as the script's variable that is in its slot, however it  *)
(* was assigned: directly, by a closure that captured it, through a        *)
(* reference, or in a slot an earlier frame left dirty (sbVar_set_value,   *)
(* sbVm_request_var_space).                                                *)
LocalsHoldTheirVariable ==
  \A a \in DOMAIN memory : box[a] # 0 => Value(memory[a]) = content[box[a]]

(* A closure reads the variables it captured: what is assigned to them     *)
(* anywhere shows, what is assigned to any other variable does not         *)
(* (README: "the concept of lexical closures"; sbClosure_set_var).         *)
ClosuresHoldTheirVariables ==
  \A c \in DOMAIN closures : \A j \in DOMAIN closures[c] :
    Value(closures[c][j]) = content[captured[c][j]]

(* A reference that a function returns or stores is used as the variable   *)
(* it was made to, for as long as that variable's frame is there.          *)
References ==
  {operands[p] : p \in DOMAIN operands} \cup {heap[h] : h \in DOMAIN heap}
    \cup {memory[a] : a \in {d \in DOMAIN memory : box[d] # 0}}
ReferencesReachTheirVariable ==
  \A r \in References :
    IsRef(r) /\ Alive(r) => Value(Cell(r)) = content[r[4]]

(* No assignment reaches the header of a live frame, where the return      *)
(* address and the caller's frame are kept (return_from_block).            *)
HeadersKept == \A f \in DOMAIN frames : memory[frames[f].base] = Header
===============================================================================
