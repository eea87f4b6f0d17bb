------------------------------ MODULE Machine ------------------------------
(***************************************************************************)
(* vm/exec.c, vm/operations.c, data/variable.c and data/closure.c as one    *)
(* machine: the record vm is struct sbVm with the heap behind it.           *)
(*   vstack    the operand stack                                            *)
(*   frames    the return stack: block, place in it, closure, locals; also  *)
(*             id, a number of the call, and base, the height of the operand  *)
(*             stack below its parameters, which only the properties read     *)
(*   heap      variables that were moved to the heap                        *)
(*   closures  for each closure its variables                               *)
(*   lists     for each list its items                                      *)
(*   printed   the texts written so far                                     *)
(*   status    "running", "stopped", or "panic" for every end with a panic  *)
(*             or a crash                                                   *)
(* A variable (sbVar: a local, a variable of a closure, an item) holds a    *)
(* value, or is a pointer to the heap.  A reference is the place of one.    *)
(* The numbers of a frame, a closure and a list are never used again, so    *)
(* that a reference into a frame that has returned leads nowhere; module    *)
(* Variables is about where it leads in the program.  Reference counts are  *)
(* left out: they decide only what arithmetic overwrites (module Values).   *)
(***************************************************************************)
EXTENDS Division, Sequences, SequencesExt

VARIABLES
    code,   \* the blocks of the program (sbVmProgram)
    vm

NothingVal == [type |-> "nothing"]
NilVal     == [type |-> "nil"]
Number(n)     == [type |-> "int", i |-> n]
Bool(b)    == [type |-> "boolean", i |-> IF b THEN 1 ELSE 0]
FuncVal(block, closure)   == [type |-> "func", block |-> block, closure |-> closure]
RefVal(kind, owner, slot) == [type |-> "ref", kind |-> kind, owner |-> owner, slot |-> slot]
ListVal(l)     == [type |-> "list", list |-> l]
BuiltinVal(n)  == [type |-> "builtin", name |-> n]
HeapVar(h)     == [type |-> "heapvar", at |-> h]
sbV_c_falsy(v) == v = NilVal \/ v = Bool(FALSE)

Peek(m, k)    == m.vstack[Len(m.vstack) - k]
Push(m, v)    == [m EXCEPT !.vstack = Append(@, v)]
npop_stack(m, n) == [m EXCEPT !.vstack = SubSeq(@, 1, Len(@) - n)]
Replace(m, n, v) == Push(npop_stack(m, n), v)     \* pops n, pushes one
Panicked(m)   == [m EXCEPT !.status = "panic"]
Fp(m)         == m.frames[Len(m.frames)]

----------------------------------------------------------------------------
(* Variables.                                                               *)

IsPlace(m, ref) ==
    ref.type = "ref" /\
    CASE ref.kind = "local" -> \E f \in DOMAIN m.frames : m.frames[f].id = ref.owner
      [] ref.kind = "item"  -> ref.slot \in DOMAIN m.lists[ref.owner]
      [] OTHER -> TRUE
FrameOf(m, ref) == CHOOSE f \in DOMAIN m.frames : m.frames[f].id = ref.owner

\* What the variable holds, a pointer to the heap if it is one.
Held(m, ref) ==
    CASE ref.kind = "local"   -> m.frames[FrameOf(m, ref)].locals[ref.slot]
      [] ref.kind = "closure" -> m.closures[ref.owner][ref.slot]
      [] ref.kind = "item"    -> m.lists[ref.owner][ref.slot]
WithHeld(m, ref, v) ==
    CASE ref.kind = "local"   -> [m EXCEPT !.frames[FrameOf(m, ref)].locals[ref.slot] = v]
      [] ref.kind = "closure" -> [m EXCEPT !.closures[ref.owner][ref.slot] = v]
      [] ref.kind = "item"    -> [m EXCEPT !.lists[ref.owner][ref.slot] = v]

sbVar_get_value(m, ref) ==
    LET v == Held(m, ref) IN IF v.type = "heapvar" THEN m.heap[v.at] ELSE v
\* Mutant of sbVar_set_value: a variable on the heap is written over itself.
SetInPlace(m, ref, v) == WithHeld(m, ref, v)
sbVar_set_value(m, ref, v) ==
    LET old == Held(m, ref)
    IN  IF old.type = "heapvar" THEN [m EXCEPT !.heap[old.at] = v] ELSE WithHeld(m, ref, v)
\* Mutant of sbVar_move_to_heap: the place after the new one.
MoveBeyond(m, ref) ==
    LET v == Held(m, ref)
    IN  IF v.type = "heapvar" THEN m
        ELSE WithHeld([m EXCEPT !.heap = Append(@, v)], ref, HeapVar(Len(m.heap) + 2))
sbVar_move_to_heap(m, ref) ==
    LET v == Held(m, ref)
    IN  IF v.type = "heapvar" THEN m
        ELSE WithHeld([m EXCEPT !.heap = Append(@, v)], ref, HeapVar(Len(m.heap) + 1))

LocalAt(m, slot) == RefVal("local", Fp(m).id, slot + 1)
UpvarAt(m, i)    == RefVal("closure", Fp(m).closure, i + 1)

----------------------------------------------------------------------------
(* Calls.                                                                   *)

call_block(m, block, closure) ==
    LET below == IF m.vstack = <<>> THEN 0 ELSE Len(m.vstack) - 1 - Peek(m, 0).i
    IN  [m EXCEPT !.frames = Append(@, [block |-> block, ip |-> 1, closure |-> closure, locals |-> <<>>,
                                        id |-> m.calls + 1, base |-> below]),
                  !.calls = @ + 1]

\* Returning from the program itself stops the machine and leaves its frame.
return_from_block(m) ==
    IF Len(m.frames) = 1 THEN [m EXCEPT !.status = "stopped"]
    ELSE [m EXCEPT !.frames = Front(@)]

\* print: its parameters, the first on top, each converted to a text; only
\* numbers and texts can be.
print(m) ==
    LET n    == Peek(m, 0).i
        args == [k \in 1 .. n |-> Peek(m, k)]
    IN  IF \E k \in 1 .. n : args[k].type \notin {"int", "string"} THEN Panicked(m)
        ELSE [Replace(m, n + 1, NilVal) EXCEPT !.printed = @ \o args]

\* A value that is not a function is asked for a property: no program here
\* has one to ask for.
sbVm_call_func(m, f) ==
    CASE f.type = "builtin" -> print(m)
      [] f.type = "func"    -> call_block(m, f.block, f.closure)
      [] OTHER -> Panicked(m)

Call(m, op) ==
    LET v == Peek(m, 0)
        w == sbVar_get_value(m, v)
    IN  IF op \in {"CALL", "DOT"} THEN sbVm_call_func(npop_stack(m, 1), v)
        ELSE IF IsPlace(m, v) THEN sbVm_call_func(npop_stack(m, 1), w)
        ELSE Panicked(m)

sbLib_resolve_global(m, symbol) == IF symbol = "print" THEN Push(m, BuiltinVal(symbol)) ELSE Panicked(m)

----------------------------------------------------------------------------
(* One instruction: its parameter p, the machine past it.                   *)

Load(m, op, p) ==
    CASE op = "LD_IMM"   -> Push(m, Number(p))
      [] op = "LD_CONST" -> Push(m, p)
      [] op = "LD_CTX"   -> sbLib_resolve_global(m, p)
      [] op = "LD_VAR"   -> Push(m, sbVar_get_value(m, LocalAt(m, p)))
      [] op = "LD_LREF"  -> Push(m, LocalAt(m, p))
      [] op = "LD_RREF"  -> Push(sbVar_move_to_heap(m, LocalAt(m, p)), LocalAt(m, p))
      [] op = "LD_UPVAL" -> Push(m, sbVar_get_value(m, UpvarAt(m, p)))
      [] op = "LD_UPREF" -> Push(m, UpvarAt(m, p))
      [] op = "LD_BLK"   -> Push(m, FuncVal(p, 0))
      [] op = "LD_TRUE"  -> Push(m, Bool(TRUE))
      [] op = "LD_FALSE" -> Push(m, Bool(FALSE))
      [] op = "LD_NIL"   -> Push(m, NilVal)

\* ST_ARG takes a parameter and leaves the number of those that are left.
\* Mutant: it leaves a number after the last one as well.
StoreArgumentKeep(m, p) ==
    Push(npop_stack(sbVar_set_value(m, LocalAt(m, p), Peek(m, 1)), 2), Number(Peek(m, 0).i - 1))
StoreArgument(m, p) ==
    LET left   == Peek(m, 0).i - 1
        stored == npop_stack(sbVar_set_value(m, LocalAt(m, p), Peek(m, 1)), 2)
    IN  IF left > 0 THEN Push(stored, Number(left)) ELSE stored

Store(m, op, p) ==
    CASE op = "ST_VAR"   -> npop_stack(sbVar_set_value(m, LocalAt(m, p), Peek(m, 0)), 1)
      [] op = "ST_UPVAL" -> npop_stack(sbVar_set_value(m, UpvarAt(m, p), Peek(m, 0)), 1)
      [] op = "ST_ARG"   -> StoreArgument(m, p)
      [] op = "REF_PUT"  ->
           IF IsPlace(m, Peek(m, 0)) THEN npop_stack(sbVar_set_value(m, Peek(m, 0), Peek(m, 1)), 2)
           ELSE Panicked(m)

Arrange(m, op, p) ==
    CASE op = "POP"        -> npop_stack(m, 1)
      [] op = "SWAP"       -> Push(Replace(m, 2, Peek(m, 0)), Peek(m, 1))
      [] op = "ALLOC_VARS" ->
           [m EXCEPT !.frames[Len(m.frames)].locals = @ \o [k \in 1 .. p |-> NothingVal]]

Goto(m, place) == [m EXCEPT !.frames[Len(m.frames)].ip = place]
Jump(m, op, p) ==
    CASE op = "JMP" -> Goto(m, p)
      [] op = "JT"  -> IF sbV_c_falsy(Peek(m, 0)) THEN npop_stack(m, 1) ELSE Goto(npop_stack(m, 1), p)
      [] op = "JF"  -> IF sbV_c_falsy(Peek(m, 0)) THEN Goto(npop_stack(m, 1), p) ELSE npop_stack(m, 1)

\* Division by zero ends the program.
Divides(op, b) == op \in {"OP_FLDIV", "OP_MOD"} => b # 0

\* Operators: only of numbers, but for equality and truth; what has no equality is of the
\* types the switch of sbV_c_eq leaves out.
sbV_c_eq(v, w) == v = w
Arithmetic(op, a, b) ==
    CASE op = "OP_ADD" -> Number(a + b)
      [] op = "OP_SUB" -> Number(a - b)
      [] op = "OP_MUL" -> Number(a * b)
      [] op = "OP_FLDIV" -> Number(FloorDiv(a, b))
      [] op = "OP_MOD" -> Number(Remainder(a, b))
      [] op = "OP_LT"  -> Bool(a < b)
      [] op = "OP_LE"  -> Bool(a <= b)

\* A part of a list: from the first number up to the second.  A negative
\* first number is compared as an unsigned one and is past every end.
sbV_rangeindex(m, of, from, to) ==
    LET items == m.lists[of.list]
        upto  == Min({to, Len(items)})
        whole == from >= 0 /\ from < to /\ from < Len(items) /\ to >= 0
    IN  Push([npop_stack(m, 3) EXCEPT !.lists = Append(@, IF whole THEN SubSeq(items, from + 1, upto) ELSE <<>>)],
             ListVal(Len(m.lists) + 1))

Operate(m, op) ==
    LET v == Peek(m, 1)
        w == Peek(m, 0)
        x == Peek(m, 2)
    IN  CASE op = "OP_EQ"  -> IF v.type = w.type /\ v.type \in {"func", "list", "ref", "builtin"}
                              THEN Panicked(m) ELSE Replace(m, 2, Bool(sbV_c_eq(v, w)))
          [] op = "OP_NOT" -> Replace(m, 1, Bool(sbV_c_falsy(w)))
          [] op = "OP_AND" -> Replace(m, 2, Bool(~(sbV_c_falsy(v) \/ sbV_c_falsy(w))))
          [] op = "OP_OR"  -> Replace(m, 2, Bool(~(sbV_c_falsy(v) /\ sbV_c_falsy(w))))
          [] op = "OP_INCR" -> IF w.type = "int" THEN Replace(m, 1, Number(w.i + 1)) ELSE Panicked(m)
          [] op = "OP_RANGEINDEX" ->
               IF x.type = "list" /\ v.type = "int" /\ w.type = "int"
               THEN sbV_rangeindex(m, x, v.i, w.i) ELSE Panicked(m)
          [] op = "OP_DEREF" -> IF IsPlace(m, w) THEN Replace(m, 1, sbVar_get_value(m, w)) ELSE Panicked(m)
          [] OTHER -> IF v.type = "int" /\ w.type = "int" /\ Divides(op, w.i) THEN Replace(m, 2, Arithmetic(op, v.i, w.i))
                      ELSE Panicked(m)

\* Items by their number, as a value or as a reference.  An item that is not
\* there is read, and written, all the same: any of that ends the program here.
Index(m, op) ==
    LET top  == Peek(m, 0)
        ind  == op \in {"OP_INDEXLREF_IND", "OP_INDEXRREF_IND"}
        a    == IF ind /\ IsPlace(m, top) THEN sbVar_get_value(m, top) ELSE top
        b    == Peek(m, 1)
        item == RefVal("item", a.list, b.i + 1)
    IN  CASE ~(a.type = "list" /\ b.type = "int") -> Panicked(m)
          [] a.type = "list" /\ b.type = "int" ->
               IF b.i + 1 \notin DOMAIN m.lists[a.list] THEN Panicked(m)
               ELSE CASE op = "OP_INDEXVAL" -> Replace(m, 2, sbVar_get_value(m, item))
                      [] op \in {"OP_INDEXLREF", "OP_INDEXLREF_IND"} -> Replace(m, 2, item)
                      [] OTHER -> Replace(sbVar_move_to_heap(m, item), 2, item)

\* LIST_GATHER takes the elements from the top down; LIST_SPILL puts them back
\* the last one first, and cannot put back none.  CLOSURE takes the references
\* its variables are copied from, the last one on top.
Gather(m, op, p) ==
    LET v == Peek(m, 0)
        w == Peek(m, 1)
    IN  CASE op = "LIST_GATHER" ->
               Replace([m EXCEPT !.lists = Append(@, [k \in 1 .. v.i |-> Peek(m, k)])],
                       v.i + 1, ListVal(Len(m.lists) + 1))
          [] op = "LIST_SPILL" ->
               IF v.type # "list" THEN Panicked(m)
               ELSE IF m.lists[v.list] = <<>> THEN Panicked(m)
               ELSE LET items == m.lists[v.list]
                    IN  Push([npop_stack(m, 2) EXCEPT !.vstack = @ \o
                                [k \in 1 .. Len(items) |->
                                    sbVar_get_value(m, RefVal("item", v.list, Len(items) + 1 - k))]],
                             Number(w.i + Len(items)))
          [] op = "CLOSURE" ->
               LET vars == [k \in 1 .. p |-> Held(m, Peek(m, p + 1 - k))]
               IN  Replace([m EXCEPT !.closures = Append(@, vars)], p + 1,
                           [v EXCEPT !.closure = Len(m.closures) + 1])

----------------------------------------------------------------------------
(* execute_instruction, one action for each kind of instruction.            *)

Loads      == {"LD_IMM", "LD_CONST", "LD_CTX", "LD_VAR", "LD_LREF", "LD_RREF", "LD_UPVAL", "LD_UPREF",
               "LD_BLK", "LD_TRUE", "LD_FALSE", "LD_NIL"}
Stores     == {"ST_VAR", "ST_UPVAL", "ST_ARG", "REF_PUT"}
Arranges   == {"POP", "SWAP", "ALLOC_VARS"}
Jumps      == {"JMP", "JT", "JF"}
Calls      == {"CALL", "DOT", "CALL_IND", "DOT_IND"}
Indexes    == {"OP_INDEXVAL", "OP_INDEXLREF", "OP_INDEXLREF_IND", "OP_INDEXRREF", "OP_INDEXRREF_IND"}
Gathers    == {"LIST_GATHER", "LIST_SPILL", "CLOSURE"}
Operations == {"OP_ADD", "OP_SUB", "OP_MUL", "OP_FLDIV", "OP_MOD", "OP_EQ", "OP_LT", "OP_LE", "OP_NOT",
               "OP_AND", "OP_OR", "OP_INCR", "OP_RANGEINDEX", "OP_DEREF"}

\* The machine before its first instruction.
sbVm_initialize ==
    call_block([vstack |-> <<>>, frames |-> <<>>, heap |-> <<>>, closures |-> <<>>, lists |-> <<>>,
                calls |-> 0, printed |-> <<>>, status |-> "running"], 1, 0)

At == LET block == code[Fp(vm).block]
      IN  IF Fp(vm).ip > Len(block) THEN [op |-> "OUTSIDE", arg |-> 0] ELSE block[Fp(vm).ip]
get_opcode(m) == [m EXCEPT !.frames[Len(m.frames)].ip = @ + 1]

\* How many operands the instruction takes from the stack.
CountOnTop(m) == IF m.vstack = <<>> THEN 0 ELSE IF Peek(m, 0).type = "int" THEN Peek(m, 0).i ELSE 0
Taken(m, op, p) ==
    CASE op \in Loads \cup {"JMP", "ALLOC_VARS", "OUTSIDE"} -> 0
      [] op \in {"ST_VAR", "ST_UPVAL", "POP", "JT", "JF", "OP_NOT", "OP_INCR", "OP_DEREF", "RET"} -> 1
      [] op = "OP_RANGEINDEX" -> 3
      [] op = "CLOSURE"       -> p + 1
      [] op = "LIST_GATHER"   -> 1 + CountOnTop(m)
      [] op \in Calls         -> 2 + (IF m.vstack = <<>> THEN 0 ELSE CountOnTop(npop_stack(m, 1)))
      [] OTHER                -> 2

\* What lies below the operand stack is not modelled: no instruction goes on
\* into it.
Executing(ops) ==
    vm.status = "running" /\ At.op \in ops /\ Taken(vm, At.op, At.arg) <= Len(vm.vstack)

ExecuteLoad    == Executing(Loads)    /\ vm' = Load(get_opcode(vm), At.op, At.arg)
ExecuteStore   == Executing(Stores)   /\ vm' = Store(get_opcode(vm), At.op, At.arg)
ExecuteArrange == Executing(Arranges) /\ vm' = Arrange(get_opcode(vm), At.op, At.arg)
ExecuteJump    == Executing(Jumps)    /\ vm' = Jump(get_opcode(vm), At.op, At.arg)
ExecuteOperate == Executing(Operations) /\ vm' = Operate(get_opcode(vm), At.op)
ExecuteIndex   == Executing(Indexes)  /\ vm' = Index(get_opcode(vm), At.op)
ExecuteGather  == Executing(Gathers)  /\ vm' = Gather(get_opcode(vm), At.op, At.arg)
ExecuteCall    == Executing(Calls)    /\ vm' = Call(get_opcode(vm), At.op)
ExecuteReturn  == Executing({"RET"})  /\ vm' = return_from_block(vm)

execute_instruction ==
    /\ \/ ExecuteLoad \/ ExecuteStore \/ ExecuteArrange \/ ExecuteJump \/ ExecuteOperate
       \/ ExecuteIndex \/ ExecuteGather \/ ExecuteCall \/ ExecuteReturn
    /\ UNCHANGED code
============================================================================
