------------------------------ MODULE Codegen ------------------------------
(***************************************************************************)
(* compile/emit.c: from the statements of a chunk to the instructions of a  *)
(* block.  An instruction is its opcode and one parameter, and a place in a *)
(* block is the number of an instruction, from 1 (Bytecode is about bytes).  *)
(* vs are the compiler's variables, which the expressions name by number.   *)
(* A panic of the emitter is the opcode PANIC, which no block may hold.     *)
(***************************************************************************)
EXTENDS Scopes, SequencesExt

emit(op, arg) == <<[op |-> op, arg |-> arg]>>
Plain(op)     == emit(op, 0)
Unsupported   == Plain("PANIC")

\* Instructions that stand for an operator.
Opcode == [op \in {"+", "-", "*", "//", "%", "==", "<", "<=", "not", "and", "or", "rangeindex", "deref"} |->
    CASE op = "+"  -> "OP_ADD" [] op = "-"  -> "OP_SUB" [] op = "*"   -> "OP_MUL"
      [] op = "//" -> "OP_FLDIV" [] op = "%" -> "OP_MOD" [] op = "==" -> "OP_EQ"
      [] op = "<"  -> "OP_LT"  [] op = "<=" -> "OP_LE"  [] op = "not" -> "OP_NOT"
      [] op = "and" -> "OP_AND" [] op = "or" -> "OP_OR" [] op = "rangeindex" -> "OP_RANGEINDEX"
      [] OTHER -> "OP_DEREF"]
compile_op(op) ==
    CASE op \in DOMAIN Opcode -> Plain(Opcode[op])
      [] op = "!="    -> Plain("OP_EQ") \o Plain("OP_NOT")
      [] op = ">"     -> Plain("OP_LE") \o Plain("OP_NOT")
      [] op = ">="    -> Plain("OP_LT") \o Plain("OP_NOT")
      [] op = "index" -> Plain("SWAP") \o Plain("OP_INDEXVAL")
      [] op = "range" -> <<>>
      [] op = "%%"    -> Plain("OP_MOD") \o emit("LD_IMM", 0) \o Plain("OP_EQ")
      [] OTHER        -> Unsupported

IsOp(e, op) == e.type = "op" /\ e.op = op
is_implicit_ref(e) == e.type \in {"var", "dot"} \/ IsOp(e, "index")

LoadVar(vs, v) == emit(IF vs[v].upvalue THEN "LD_UPVAL" ELSE "LD_VAR", vs[v].slot)
Constant(v) ==
    CASE v.type = "nil"     -> Plain("LD_NIL")
      [] v.type = "boolean" -> Plain(IF v.i = 1 THEN "LD_TRUE" ELSE "LD_FALSE")
      [] v.type = "int" /\ v.i < 512 -> emit("LD_IMM", v.i)
      [] OTHER -> emit("LD_CONST", v)

RECURSIVE compile_expr(_, _), compile_ref(_, _, _), compile_maybe_ref(_, _, _, _, _)

\* The elements of a list, last first, and their number on top.  Once a list
\* has been spilled the number is kept on the stack and counted up there.
compile_list(vs, elems) ==
    LET splats == {i \in DOMAIN elems : IsOp(elems[i], "splat")}
        first  == IF splats = {} THEN Len(elems) + 1 ELSE Min(splats)
        elem(i) == IF i \in splats THEN compile_expr(vs, elems[i].left) \o Plain("LIST_SPILL")
                   ELSE compile_expr(vs, elems[i])
                        \o (IF i > first THEN Plain("SWAP") \o Plain("OP_INCR") ELSE <<>>)
    IN  FlattenSeq([i \in DOMAIN elems |-> (IF i = first THEN emit("LD_IMM", i - 1) ELSE <<>>) \o elem(i)])
        \o (IF splats = {} THEN emit("LD_IMM", Len(elems)) ELSE <<>>)

compile_hash(vs, entries) ==
    FlattenSeq([i \in DOMAIN entries |-> compile_expr(vs, entries[i][1]) \o compile_expr(vs, entries[i][2])])
    \o emit("LD_IMM", Len(entries))

\* A function: what it closes over, moved to the heap, and its block.
compile_func(vs, e) ==
    FlattenSeq([i \in DOMAIN e.bound |->
              emit(IF vs[e.bound[i]].upvalue THEN "LD_UPREF" ELSE "LD_RREF", vs[e.bound[i]].slot)])
    \o emit("LD_BLK", e.chunk)
    \o (IF e.bound = <<>> THEN <<>> ELSE emit("CLOSURE", Len(e.bound)))

compile_expr(vs, e) ==
    CASE IsOp(e, "ref") -> compile_ref(vs, e.left, FALSE)
      [] e.type = "op" /\ e.op # "ref" ->
           compile_expr(vs, e.left)
           \o (IF e.right = NO_EXPR THEN <<>> ELSE compile_expr(vs, e.right)) \o compile_op(e.op)
      [] e.type = "call" ->
           compile_list(vs, e.param.elems) \o compile_maybe_ref(vs, e.func, TRUE, "CALL", "CALL_IND")
      [] e.type = "dot" ->
           compile_expr(vs, e.param) \o emit("LD_IMM", 1) \o compile_expr(vs, e.target)
           \o Plain("DOT") \o Plain("OP_DEREF")
      [] e.type = "context" -> emit("LD_CTX", e.symbol)
      [] e.type = "var"   -> LoadVar(vs, e.var) \o (IF vs[e.var].reference THEN Plain("OP_DEREF") ELSE <<>>)
      [] e.type = "func"  -> compile_func(vs, e)
      [] e.type = "list"  -> compile_list(vs, e.elems) \o Plain("LIST_GATHER")
      [] e.type = "hash"  -> compile_hash(vs, e.entries) \o Plain("HASH_GATHER")
      [] e.type = "value" -> Constant(e.value)
      [] OTHER -> Unsupported

\* A reference to a variable or to a part of something; left when it is used
\* at once, on the left of an assignment or to call through it.
compile_ref(vs, e, left) ==
    CASE e.type = "var" ->
           emit(IF vs[e.var].upvalue THEN "LD_UPREF" ELSE IF left THEN "LD_LREF" ELSE "LD_RREF", vs[e.var].slot)
      [] IsOp(e, "index") ->
           compile_expr(vs, e.right)
           \o (IF left THEN compile_maybe_ref(vs, e.left, TRUE, "OP_INDEXLREF", "OP_INDEXLREF_IND")
               ELSE compile_maybe_ref(vs, e.left, FALSE, "OP_INDEXRREF", "OP_INDEXRREF_IND"))
      [] e.type = "dot" ->
           compile_expr(vs, e.param) \o emit("LD_IMM", 1) \o compile_maybe_ref(vs, e.target, left, "DOT", "DOT_IND")
      [] OTHER -> Unsupported

compile_maybe_ref(vs, e, left, op, op_ind) ==
    CASE is_implicit_ref(e) -> compile_ref(vs, e, left) \o Plain(op_ind)
      [] IsOp(e, "deref")   -> compile_expr(vs, e.left) \o Plain(op_ind)
      [] OTHER              -> compile_expr(vs, e) \o Plain(op)

----------------------------------------------------------------------------
(* Statements.                                                              *)

\* Takes what compile_list, or a caller, left on the stack.  Around a splat
\* the number of the elements after it is set aside.
compile_bind_list(vs, list) ==
    LET pre == IF list = <<>> THEN 0 ELSE list[1].pre
        aside(op) == IF pre > 0 THEN emit("LD_IMM", pre) \o op ELSE <<>>
        bind(e) ==
            CASE IsOp(e, "splat") ->
                   aside(Plain("OP_SUB")) \o Plain("LIST_GATHER")
                   \o emit("ST_VAR", vs[e.left.var].slot) \o aside(<<>>)
              [] IsOp(e, "ref") -> emit("ST_ARG", vs[e.left.var].slot)
              [] e.type = "op" /\ e.op \notin {"splat", "ref"} -> <<>>
              [] e.type = "var" -> emit("ST_ARG", vs[e.var].slot)
              [] OTHER -> Unsupported
    IN  FlattenSeq([i \in DOMAIN list |-> bind(list[i].this)])

compile_assign(vs, where) ==
    CASE where.type = "var" ->
           IF vs[where.var].reference THEN LoadVar(vs, where.var) \o Plain("REF_PUT")
           ELSE emit(IF vs[where.var].upvalue THEN "ST_UPVAL" ELSE "ST_VAR", vs[where.var].slot)
      [] IsOp(where, "deref") -> compile_expr(vs, where.left) \o Plain("REF_PUT")
      [] IsOp(where, "index") ->
           compile_expr(vs, where.right)
           \o compile_maybe_ref(vs, where.left, TRUE, "OP_INDEXLREF", "OP_INDEXLREF_IND") \o Plain("REF_PUT")
      [] where.type = "dot" ->
           compile_expr(vs, where.param) \o emit("LD_IMM", 1)
           \o compile_maybe_ref(vs, where.target, TRUE, "DOT", "DOT_IND") \o Plain("REF_PUT")
      [] OTHER -> Unsupported

\* A jump says which label it goes to; compile_chunk turns that into a place.
compile_stmt(vs, s) ==
    CASE s.type = "expr"   -> compile_expr(vs, s.expr) \o Plain("POP")
      [] s.type = "label"  -> <<>>
      [] s.type = "assign" -> compile_expr(vs, s.value) \o compile_assign(vs, s.where)
      [] s.type = "bind"   -> (IF s.values = NO_EXPR THEN <<>> ELSE compile_list(vs, s.values.elems))
                              \o compile_bind_list(vs, s.vars)
      [] s.type = "return" -> (IF s.expr = NO_EXPR THEN <<>> ELSE compile_expr(vs, s.expr)) \o Plain("RET")
      [] s.type = "jump" ->
           IF s.condition = NO_EXPR THEN emit("JMP", s.label)
           ELSE compile_expr(vs, s.condition) \o emit(IF s.inverted THEN "JF" ELSE "JT", s.label)

\* The place of each label that was put; the last one counts.
RECURSIVE LabelPlaces(_, _, _, _)
LabelPlaces(codes, stmts, i, places) ==
    IF i > Len(stmts) THEN places
    ELSE LET at == 1 + Len(FlattenSeq(SubSeq(codes, 1, i - 1)))
         IN  LabelPlaces(codes, stmts, i + 1,
                         IF stmts[i].type = "label" THEN [places EXCEPT ![stmts[i].label] = at] ELSE places)

\* A jump to a label that was never put goes to place 0, where the block
\* starts.  The program itself takes no parameters, and no count of them.
compile_chunk(vs, chunk, id) ==
    LET start  == (IF id > 1 /\ chunk.args = 0 THEN Plain("POP") ELSE <<>>)
                  \o (IF chunk.variable_count > 0 THEN emit("ALLOC_VARS", chunk.variable_count) ELSE <<>>)
        nop    == [type |-> "start"]
        stmts  == <<nop>> \o chunk.stmts
        codes  == [i \in DOMAIN stmts |-> IF i = 1 THEN start ELSE compile_stmt(vs, stmts[i])]
        places == LabelPlaces(codes, stmts, 1, [l \in DOMAIN chunk.aliased |-> 1])
        code   == FlattenSeq(codes)
    IN  [p \in DOMAIN code |->
            IF code[p].op \in {"JMP", "JF", "JT"} THEN [code[p] EXCEPT !.arg = places[@]] ELSE code[p]]

sbEmit_compile_program(ir) == [k \in DOMAIN ir.chunks |-> compile_chunk(ir.vars, ir.chunks[k], k)]
============================================================================
