------------------------------- MODULE Scopes ------------------------------
(***************************************************************************)
(* compile/ir.c and the counting and folding of compile/analyze.c: from the *)
(* syntax tree to chunks of statements.  Names become variables with a slot *)
(* in their chunk or an upvalue, loops and conditions become labels and     *)
(* jumps, and every function is a chunk of its own.                         *)
(*                                                                          *)
(* The compiler's state is a record that every function takes and returns:  *)
(*   chunks   the program's chunks, as far as they are written              *)
(*   map      varmapping: the names in scope, outermost first               *)
(*   vars     every variable there ever was; the others name it by number   *)
(*   k        the chunk that is being written                               *)
(*   e        what the last function returns besides the state              *)
(*   errors   error_count                                                   *)
(*   panic    whether the compiler has stopped (PANIC, a null pointer)      *)
(***************************************************************************)
EXTENDS Division, Sequences, FiniteSets, FiniteSetsExt

LOCAL NoNode == [type |-> "none"]

NO_VAR   == 0      \* the variable create_var returns after an error
NULL_VAR == -1     \* no variable of this name
NO_EXPR  == [type |-> "null"]
Value(v) == [type |-> "value", value |-> v]
NIL_EXPR == Value([type |-> "nil"])

\* sbAst_count_pipe_underscores.  Of an operator, whichever it is, only the left
\* side counts: the return of analyze.c:44 ends with the semicolon of its line,
\* and line 45, "+ ...(node->op.right);", is a statement that is never reached.
\* Of a node with one child (a list, a return) and of a declaration the field
\* that is read is not the one that is set, so nothing does.
RECURSIVE count_pipe_underscores(_)
count_pipe_underscores(node) ==
    LET both == count_pipe_underscores(node.left) + count_pipe_underscores(node.right)
    IN  CASE node.type = "name" -> IF node.symb = "_" THEN 1 ELSE 0
          [] node.type \in {"seq", "next", "multival", "funccall", "dot", "hashentry", "while",
                            "repeat", "func"} -> both
          [] node.type = "if" -> both + count_pipe_underscores(node.center)
          [] node.type = "op" -> count_pipe_underscores(node.left)
          [] OTHER -> 0

Foldable == {"+", "-", "*", "//", "%", "unminus"}
constant_fold(op, a, b) ==
    CASE op = "+"  -> a + b
      [] op = "-"  -> a - b
      [] op = "*"  -> a * b
      [] op = "//" -> FloorDiv(a, b)
      [] op = "%"  -> Remainder(a, b)
      [] OTHER     -> -a

----------------------------------------------------------------------------
(* Variables.                                                               *)

Chunk(c)    == c.chunks[c.k]
Yield(c, e) == [c EXCEPT !.e = e]
Error(c, e) == [c EXCEPT !.errors = @ + 1, !.e = e]
Panic(c)    == [c EXCEPT !.panic = TRUE, !.e = NO_EXPR]

\* The place of a name among those in scope: the outermost there is, or 0.
existing_var(c, name) ==
    LET found == {i \in DOMAIN c.map : c.map[i].name = name}
    IN  IF found = {} THEN 0 ELSE Min(found)

IsInt(e) == e.type = "value" /\ e.value.type = "int"

\* How many locals a chunk needs that has a variable in this slot.
\* Mutant: the slot itself, one too few.
LocalsUpTo(slot)  == slot
LocalsWith(slot)  == slot + 1

create_var(c, name) ==
    LET slot == Len(c.map) - Chunk(c).lowest
        v    == Len(c.vars) + 1
        var  == [slot |-> slot, index |-> Len(c.map) + 1, upvalue |-> FALSE,
                 reference |-> FALSE, introduced |-> "no"]
    IN  IF name # "" /\ existing_var(c, name) # 0
        THEN Error(c, NO_VAR)                              \* redeclaration
        ELSE [c EXCEPT !.vars = Append(@, var),
                       !.map = Append(@, [name |-> name, var |-> v]),
                       !.chunks[c.k].variable_count = Max({@, LocalsWith(slot)}),
                       !.e = v]

Introduce(c, v, how) == IF v = NO_VAR THEN c ELSE [c EXCEPT !.vars[v].introduced = how]

\* The chunk's upvalue for the variable at this place, made when first used.
register_upvalue(c, index) ==
    LET known == {v \in {Chunk(c).closed[i] : i \in DOMAIN Chunk(c).closed} : c.vars[v].index = index}
        outer == c.vars[c.map[index].var]
        var   == [outer EXCEPT !.upvalue = TRUE, !.slot = Len(Chunk(c).closed)]
        v     == Len(c.vars) + 1
    IN  IF known # {} THEN Yield(c, CHOOSE w \in known : TRUE)
        ELSE [c EXCEPT !.vars = Append(@, var), !.chunks[c.k].closed = Append(@, v), !.e = v]

bind_upvalue(c, index) ==
    IF index > Chunk(c).lowest THEN Yield(c, c.map[index].var) ELSE register_upvalue(c, index)

\* The chunk's pipe variable.  Its slot is remembered for the whole chunk,
\* although the scope it was made in may have closed.
RememberPipe(c) == Introduce([c EXCEPT !.chunks[c.k].pipe_var_id = c.vars[c.e].slot], c.e, "implicit")
pipe_var(c) ==
    LET at == Chunk(c).pipe_var_id + Chunk(c).lowest + 1
    IN  IF Chunk(c).pipe_var_id = -1 THEN RememberPipe(create_var(c, ""))
        ELSE Yield(c, IF at <= Len(c.map) THEN c.map[at].var ELSE NO_VAR)

var_name(c, name) ==
    LET index == existing_var(c, name)
    IN  IF name = "_" THEN pipe_var(c)
        ELSE IF index = 0 THEN Yield(c, NULL_VAR)
        ELSE bind_upvalue(c, index)

VarExpr(v) == [type |-> "var", var |-> v]

\* A function where it is made: the variables its chunk closes over, as the
\* chunk around it knows them.
RECURSIVE BindAll(_, _, _)
BindAll(c, closed, bound) ==
    IF closed = <<>> THEN Yield(c, bound)
    ELSE LET b == bind_upvalue(c, c.vars[Head(closed)].index)
         IN  BindAll(b, Tail(closed), Append(bound, b.e))
expr_func(c, func) ==
    LET b == BindAll(c, c.chunks[func].closed, <<>>)
    IN  Yield(b, [type |-> "func", chunk |-> func, bound |-> b.e])

expr_op(op, left, right) ==
    IF op \in Foldable /\ IsInt(left) /\ (right = NO_EXPR \/ IsInt(right))
    THEN Value([type |-> "int", i |-> constant_fold(op, left.value.i, IF IsInt(right) THEN right.value.i ELSE 0)])
    ELSE [type |-> "op", op |-> op, left |-> left, right |-> right]

----------------------------------------------------------------------------
(* Statements and labels.  A label is a number of its chunk; aliased gives  *)
(* the label it stands for, 0 for none.                                     *)

Put(c, stmt) == [c EXCEPT !.chunks[c.k].stmts = Append(@, stmt)]
LastStmt(c)  == IF Chunk(c).stmts = <<>> THEN [type |-> "none"] ELSE Chunk(c).stmts[Len(Chunk(c).stmts)]
new_label(c) == [c EXCEPT !.chunks[c.k].aliased = Append(@, 0), !.e = Len(Chunk(c).aliased) + 1]

alias_label(c, l, other) == [c EXCEPT !.chunks[c.k].aliased[l] = other]

put_label(c, l) ==
    LET last == LastStmt(c)
        a    == IF last.type = "label" THEN alias_label(c, l, last.label) ELSE c
    IN  Put(a, [type |-> "label", label |-> l])

\* A jump, on a condition or (NO_EXPR) without one.  A label right before an
\* unconditional jump stands for where the jump goes.
put_jump(c, inverted, condition, l) ==
    LET last == LastStmt(c)
        a    == IF last.type = "label" /\ condition = NO_EXPR
                THEN alias_label(c, last.label, l) ELSE c
        not  == condition.type = "op" /\ condition.op = "not"
    IN  Put(a, [type |-> "jump", inverted |-> (inverted # not),
                condition |-> IF not THEN condition.left ELSE condition, label |-> l])

put_assign(c, where, value) == Put(c, [type |-> "assign", where |-> where, value |-> value])
put_bind(c, vars, values)   == Put(c, [type |-> "bind", vars |-> vars, values |-> values])
put_return(c, e)            == Put(c, [type |-> "return", expr |-> e])
put_expr(c, e)              == Put(c, [type |-> "expr", expr |-> e])

put_implicit_return(c) ==
    LET last == LastStmt(c)
        stmts == Chunk(c).stmts
    IN  CASE last.type = "return" -> c
          [] last.type = "expr" ->
               put_return([c EXCEPT !.chunks[c.k].stmts = SubSeq(stmts, 1, Len(stmts) - 1)], last.expr)
          [] OTHER -> put_return(c, NIL_EXPR)

RECURSIVE Final(_, _)
Final(aliased, l) == IF aliased[l] = 0 THEN l ELSE Final(aliased, aliased[l])

\* Deletes aliased labels and points jumps at the labels that stay.  i is
\* where the next statement is kept, j the next one to keep: once they are
\* apart, the statement looked at (i) is not the one that is kept (j).
RECURSIVE Consolidate(_, _, _, _)
Consolidate(stmts, aliased, i, j) ==
    LET s       == stmts[i]
        settled == IF s.type = "jump" THEN [stmts EXCEPT ![i].label = Final(aliased, s.label)] ELSE stmts
        keep    == IF s.type = "label" /\ aliased[s.label] # 0 THEN j + 1 ELSE j
    IN  IF j > Len(stmts) \/ keep > Len(stmts) THEN SubSeq(stmts, 1, i - 1)
        ELSE Consolidate(IF keep > i THEN [settled EXCEPT ![i] = stmts[keep]] ELSE settled,
                         aliased, i + 1, keep + 1)

\* misclosed: the closing of a scope has deleted two labels at once.  Only the
\* properties read it.
close_stmtseq_scope(c, lowest_var) ==
    LET ck   == Chunk(c)
        kept == IF ck.stmts = <<>> THEN <<>> ELSE Consolidate(ck.stmts, ck.aliased, 1, 1)
    IN  [c EXCEPT !.chunks[c.k].stmts = kept,
                  !.misclosed = @ \/ Len(ck.stmts) - Len(kept) > 1,
                  !.map = SubSeq(@, 1, lowest_var)]

----------------------------------------------------------------------------
(* Bindings.                                                                *)

\* The elements of a list node: the last one first, as the code walks it.
RECURSIVE LastFirst(_)
LastFirst(node) == IF node = NoNode THEN <<>> ELSE <<node.right>> \o LastFirst(node.left)

\* Expressions and statements hold one another: compile() is either by its
\* name, given what it is told of its surroundings.
RECURSIVE compile(_, _, _, _), CompileEach(_, _, _, _), compile_ast_hash(_, _, _),
          compile_ast_binding(_, _, _, _), BindEach(_, _, _, _, _), Hoist(_, _), Statements(_, _, _)
Expression(c, node) == compile("expr", c, node, FALSE)

IntroduceRead(c, how) == Introduce(Yield(c, VarExpr(c.e)), c.e, how)

\* One thing that is bound: a name, `&' and a name, or an expression.
compile_ast_binding(c, node, create, how) ==
    CASE node.type = "name" ->
           IntroduceRead(IF create THEN create_var(c, node.symb) ELSE var_name(c, node.symb), how)
      [] node.type = "op" /\ node.op = "ref" ->
           LET d == compile_ast_binding(c, node.left, create, how)
           IN  IF d.e.type # "var" THEN Error(d, NIL_EXPR)
               ELSE IF d.e.var = NO_VAR THEN d
               ELSE Yield([d EXCEPT !.vars[d.e.var].reference = TRUE], expr_op("ref", d.e, NO_EXPR))
      [] node.type = "op" /\ node.op # "ref" ->
           LET l == compile_ast_binding(c, node.left, create, how)
               r == IF node.right = NoNode THEN Yield(l, NO_EXPR)
                    ELSE compile_ast_binding(l, node.right, create, how)
           IN  Yield(r, expr_op(node.op, l.e, r.e))
      [] OTHER -> Expression(c, node)

IsSplat(node) == node.type = "op" /\ node.op = "splat"

\* pre is the number of elements after a splat: those bound so far, as the
\* elements come last first.
BindEach(c, nodes, create, how, done) ==
    IF nodes = <<>> THEN Yield(c, done)
    ELSE LET d     == compile_ast_binding(c, Head(nodes), create, how)
             splat == IsSplat(Head(nodes))
             pre   == IF \E i \in DOMAIN done : done[i].splat
                      THEN done[1].pre ELSE Len(done) + (IF splat THEN 0 ELSE 1)
         IN  IF splat /\ \E i \in DOMAIN done : done[i].splat THEN Error(c, <<>>)
             ELSE BindEach(d, Tail(nodes), create, how,
                           <<[this |-> d.e, pre |-> pre, splat |-> splat]>> \o done)

compile_ast_bind_list(c, node, create, how) == BindEach(c, LastFirst(node), create, how, <<>>)

----------------------------------------------------------------------------
(* Blocks and functions.                                                    *)

RECURSIVE NodesOf(_)
NodesOf(seqast) == IF seqast = NoNode THEN <<>> ELSE <<seqast.left>> \o NodesOf(seqast.right)

\* The names of all functions of the block are there before any of it runs.
RECURSIVE CreateDefs(_, _)
CreateDefs(c, nodes) ==
    IF nodes = <<>> THEN c
    ELSE LET d == create_var(c, Head(nodes).left.symb)
         IN  CreateDefs(IF Head(nodes).type # "def" THEN c
                        ELSE IF Head(nodes).left.type # "name" THEN Panic(c)
                        ELSE Introduce(d, d.e, "def"), Tail(nodes))

\* Then, in the order they are written, functions are compiled and the names
\* of `let' are created.
AssignTo(d, where) == put_assign(d, where, d.e)
HoistOne(c, node) ==
    LET var == var_name(c, node.left.symb)
    IN  CASE node.type = "def" /\ node.right.right = NoNode -> Panic(c)
          [] node.type = "def" /\ node.right.right # NoNode ->
               AssignTo(Expression(var, node.right), VarExpr(var.e))
          [] node.type = "let" -> compile_ast_bind_list(c, node.left, TRUE, "let")
          [] OTHER -> c
Hoist(c, nodes) == IF nodes = <<>> \/ c.panic THEN c ELSE Hoist(HoistOne(c, Head(nodes)), Tail(nodes))

\* A `let' may not be used before its line.
Unintroduce(c, lowest_var) ==
    LET lets == {c.map[i].var : i \in lowest_var + 1 .. Len(c.map)}
    IN  FoldSet(LAMBDA v, d : Introduce(d, v, "no"), c, {v \in lets \ {NO_VAR} : c.vars[v].introduced = "let"})

Statements(c, nodes, implicit_return) ==
    LET d == compile("stmt", c, Head(nodes), implicit_return /\ Len(nodes) = 1)
    IN  IF c.panic THEN c
        ELSE IF nodes = <<>> THEN IF implicit_return THEN put_implicit_return(c) ELSE c
        ELSE IF d.errors > 0 THEN d ELSE Statements(d, Tail(nodes), implicit_return)

compile_ast_stmtseq_open(c, seqast, implicit_return) ==
    LET nodes == NodesOf(seqast)
        ready == Unintroduce(Hoist(CreateDefs(c, nodes), nodes), Len(c.map))
    IN  Yield(Statements(ready, nodes, implicit_return), Len(c.map))

CloseScope(c) == IF c.panic THEN c ELSE close_stmtseq_scope(c, c.e)
compile_ast_stmtseq(c, seqast, implicit_return) ==
    CloseScope(compile_ast_stmtseq_open(c, seqast, implicit_return))

\* A function: a chunk whose parameters are its first variables.
NewChunk(c) ==
    [args |-> 0, closed |-> <<>>, aliased |-> <<>>, variable_count |-> 0, lowest |-> Len(c.map),
     pipe_var_id |-> -1, pipe_var_in_use |-> FALSE, stmts |-> <<>>]
\* Mutant of BindParameters: one of them is left out.
BindParametersButOne(c) ==
    IF c.e = <<>> THEN c ELSE put_bind([c EXCEPT !.chunks[c.k].args = 1], Tail(c.e), NO_EXPR)
BindParameters(c) ==
    IF c.e = <<>> THEN c ELSE put_bind([c EXCEPT !.chunks[c.k].args = 1], c.e, NO_EXPR)
compile_ast_function(c, params, body) ==
    LET k     == Len(c.chunks) + 1
        new   == [c EXCEPT !.chunks = Append(@, NewChunk(c)), !.k = k]
        begun == BindParameters(compile_ast_bind_list(new, params, TRUE, "param"))
    IN  [compile_ast_stmtseq(begun, body, TRUE) EXCEPT !.map = c.map, !.k = c.k, !.e = k]

----------------------------------------------------------------------------
(* Expressions.                                                             *)

CompileEach(c, nodes, list_context, done) ==
    IF nodes = <<>> THEN Yield(c, done)
    ELSE LET d == compile("expr", c, Head(nodes), list_context)
         IN  CompileEach(d, Tail(nodes), list_context, Append(done, d.e))

compile_ast_list(c, node) ==
    LET d == CompileEach(c, LastFirst(node), TRUE, <<>>)
    IN  Yield(d, [type |-> "list", elems |-> d.e])

compile_ast_hash(c, node, done) ==
    IF node = NoNode THEN Yield(c, [type |-> "hash", entries |-> done])
    ELSE LET key   == Expression(c, node.left.left)
             value == Expression(key, node.left.right)
         IN  compile_ast_hash(value, node.right, Append(done, <<key.e, value.e>>))

\* Two operands, either of which may be missing, and their operator.
CompileOperator(c, op, left, right) ==
    LET l == Expression(c, left)
        r == Expression(l, right)
    IN  IF l.e = NO_EXPR \/ r.panic THEN Panic(r) ELSE Yield(r, expr_op(op, l.e, r.e))

\* left | right: the left side in the pipe variable when the right side says
\* `_', else the argument of a call.
compile_pipe(c, node, list_context) ==
    LET left  == Expression(c, node.left)
        pipe  == pipe_var(left)
        busy  == [put_assign(pipe, VarExpr(pipe.e), left.e) EXCEPT !.chunks[c.k].pipe_var_in_use = TRUE]
        right == Expression(busy, node.right)
        func  == Expression(c, node.right)
        arg   == Expression(func, node.left)
    IN  IF count_pipe_underscores(node.right) = 0
        THEN Yield(arg, [type |-> "call", func |-> func.e, param |-> [type |-> "list", elems |-> <<arg.e>>]])
        ELSE IF Chunk(c).pipe_var_in_use \/ list_context THEN Panic(c)
        ELSE [right EXCEPT !.chunks[c.k].pipe_var_in_use = FALSE]

compile_operator(c, node, list_context) ==
    CASE node.op = "range" -> Error(c, NO_EXPR)
      [] node.op = "rangeindex" ->
           \* C leaves the order of the three open; it only numbers chunks and upvalues.
           LET of   == Expression(c, node.left)
               from == Expression(of, node.right.left)
               to   == Expression(from, node.right.right)
           IN  Yield(to, expr_op("rangeindex", of.e, expr_op("range", from.e, to.e)))
      [] node.op = "splat" ->
           IF ~list_context THEN Error(c, NO_EXPR) ELSE CompileOperator(c, "splat", node.left, NoNode)
      [] node.op = "|" -> compile_pipe(c, node, list_context)
      [] OTHER -> CompileOperator(c, node.op, node.left, node.right)

ReadVar(c, name) ==
    CASE c.e = NULL_VAR -> Yield(c, [type |-> "context", symbol |-> name])
      [] c.e = NO_VAR \/ c.vars[IF c.e > 0 THEN c.e ELSE 1].introduced = "no" -> Error(c, NO_EXPR)
      [] OTHER -> Yield(c, VarExpr(c.e))
compile_name(c, node) == ReadVar(var_name(c, node.symb), node.symb)

compile_ast_expr(c, node, list_context) ==
    CASE node = NoNode -> Yield(c, NO_EXPR)
      [] node.type = "funccall" ->
           LET called == Expression(c, node.left)
               params == compile_ast_list(called, node.right)
           IN  Yield(params, [type |-> "call", func |-> called.e, param |-> params.e])
      [] node.type = "dot" ->
           LET target == Expression(c, node.left)
               param  == Expression(target, node.right)
           IN  Yield(param, [type |-> "dot", target |-> target.e, param |-> param.e])
      [] node.type = "func" ->
           LET d == compile_ast_function(c, node.left, node.right) IN expr_func(d, d.e)
      [] node.type = "list" -> compile_ast_list(c, node.left)
      [] node.type = "hash" -> compile_ast_hash(c, node.left, <<>>)
      [] node.type = "op"   -> compile_operator(c, node, list_context)
      [] node.type \in {"int", "string", "symbol", "boolean", "nil"} -> Yield(c, Value(node))
      [] node.type = "name" -> compile_name(c, node)
      [] OTHER -> Panic(c)

----------------------------------------------------------------------------
(* Statements.                                                              *)

compile_return(c, node) ==
    LET d == Expression(c, node.left.right)
    IN  IF node.left = NoNode THEN put_return(c, NIL_EXPR) ELSE put_return(d, d.e)

compile_let(c, node) ==
    LET vars   == compile_ast_bind_list(c, node.left, FALSE, "let")
        values == compile_ast_list(vars, node.right)
    IN  IF node.right = NoNode THEN c ELSE put_bind(values, vars.e, values.e)

\* The pairs of a multiple assignment, the last one first; the code walks
\* past the first name of a list on the left into a node that has no such
\* field.
RECURSIVE AssignEach(_, _, _)
AssignEach(c, left, right) ==
    LET where == compile("expr", c, left.right, TRUE)
        value == compile("expr", where, right.right, TRUE)
    IN  IF left = NoNode /\ right = NoNode THEN c
        ELSE IF left = NoNode \/ right = NoNode THEN Error(c, NO_EXPR)
        ELSE IF left.type # "multival" THEN Panic(c)
        ELSE AssignEach(put_assign(value, where.e, value.e), left.left, right.left)

\* The body of a loop or a condition is done: what follows it.
EndAt(c, l) == IF c.panic THEN c ELSE put_label(c, l)
JumpBack(c, condition, l1, l2) == IF c.panic THEN c ELSE put_jump(put_label(c, l2), FALSE, condition, l1)
compile_while(c, node) ==
    LET l1   == new_label(c)
        l2   == new_label(l1)
        cond == Expression(l2, node.left)
        jump == put_label(put_jump(cond, FALSE, NO_EXPR, l2.e), l1.e)
    IN  JumpBack(compile_ast_stmtseq(jump, node.right, FALSE), cond.e, l1.e, l2.e)

ElseBranch(c, l1, l2, branch, implicit_return) ==
    IF c.panic THEN c
    ELSE EndAt(compile_ast_stmtseq(put_label(put_jump(c, FALSE, NO_EXPR, l2), l1), branch, implicit_return), l2)
compile_if(c, node, implicit_return) ==
    LET cond == Expression(c, node.left)
        l1   == new_label(cond)
        l2   == IF node.right = NoNode THEN l1 ELSE new_label(l1)
        then == compile_ast_stmtseq(put_jump(l2, TRUE, cond.e, l1.e), node.center, implicit_return)
    IN  IF node.right = NoNode THEN EndAt(then, l1.e)
        ELSE ElseBranch(then, l1.e, l2.e, node.right, implicit_return)

\* The condition of a repeat is compiled in the scope of its body.
CloseRepeat(c, l1, lowest_var) == close_stmtseq_scope(put_jump(c, FALSE, c.e, l1), lowest_var)
AskAgain(c, condition, l1) == IF c.panic THEN c ELSE CloseRepeat(Expression(c, condition), l1, c.e)
compile_repeat(c, node) ==
    LET l1 == new_label(c)
    IN  AskAgain(compile_ast_stmtseq_open(put_label(l1, l1.e), node.left, FALSE), node.right, l1.e)

compile_ast_stmt(c, node, implicit_return) ==
    CASE node.type = "return" -> compile_return(c, node)
      [] node.type = "let"    -> compile_let(c, node)
      [] node.type = "assign" -> AssignEach(c, node.left, node.right)
      [] node.type = "def"    -> c
      [] node.type = "while"  -> compile_while(c, node)
      [] node.type = "if"     -> compile_if(c, node, implicit_return)
      [] node.type = "repeat" -> compile_repeat(c, node)
      [] OTHER -> LET d == Expression(c, node) IN put_expr(d, d.e)

compile(construct, c, node, surroundings) ==
    IF construct = "expr" THEN compile_ast_expr(c, node, surroundings) ELSE compile_ast_stmt(c, node, surroundings)

\* The program is the first chunk, a function without parameters.
compile_ast(program) ==
    compile_ast_function([chunks |-> <<>>, map |-> <<>>, vars |-> <<>>, k |-> 0, e |-> NO_EXPR,
                          errors |-> 0, panic |-> FALSE, misclosed |-> FALSE], NoNode, program)
============================================================================
