------------------------------- MODULE Parser ------------------------------
(***************************************************************************)
(* parse/parser.c: from the lexer's tokens to the syntax tree.  A parsing   *)
(* function takes the tokens and a reader, the place reached and whether    *)
(* there has been an error, and returns the node with the reader after it.  *)
(* A reader that comes with a node is itself a reader.  Nodes are the       *)
(* records of parse/ast.h without has_us, which nothing reads.              *)
(***************************************************************************)
EXTENDS Integers, Sequences

NO_NODE    == [type |-> "none"]
ERROR_NODE == [type |-> "error"]

Op(op, left, right)            == [type |-> "op", op |-> op, left |-> left, right |-> right]
Unary(op, child)               == Op(op, child, NO_NODE)
Pair(type, left, right)        == [type |-> type, left |-> left, right |-> right]
Triple(type, left, mid, right) == [type |-> type, left |-> left, center |-> mid, right |-> right]
Wrap(type, left)               == Pair(type, left, NO_NODE)
Name(symb)                     == [type |-> "name", symb |-> symb]
SymbolNode(symb)               == [type |-> "symbol", symb |-> symb]

\* binops: how tightly an operator binds on its left and on its right.
Binding(left, right, op) == [left |-> left, right |-> right, op |-> op]
Comparisons == {"==", ">", "<", ">=", "<=", "!=", "%%"}
binops == [t \in Comparisons \cup {"|", "or", "and", "in", "+", "-", "*", "/", "%", "//", "**",
                                   ".", "->", "(", "[", "::"} |->
    CASE t = "|"   -> Binding(6, 7, t)
      [] t = "or"  -> Binding(15, 16, t)
      [] t = "and" -> Binding(20, 21, t)
      [] t = "in"  -> Binding(25, 26, t)
      [] t \in Comparisons -> Binding(30, 31, t)
      [] t \in {"+", "-"}  -> Binding(45, 46, t)
      [] t \in {"*", "/", "%", "//"} -> Binding(60, 61, t)
      [] t = "**"  -> Binding(71, 70, t)
      [] OTHER     -> Binding(90, 91, "index")]

\* unops: how tightly a prefix binds, and what it is.
unops == [t \in {"not", "+", "-", "&", "*", "..."} |->
    CASE t = "not" -> Binding(0, 25, "not")
      [] t = "+"   -> Binding(0, 85, "unplus")
      [] t = "-"   -> Binding(0, 85, "unminus")
      [] t = "&"   -> Binding(0, 85, "ref")
      [] t = "*"   -> Binding(0, 85, "deref")
      [] OTHER     -> Binding(0, 85, "splat")]

----------------------------------------------------------------------------
(* Readers.                                                                 *)

Ahead(ts, r)     == IF r.at <= Len(ts) THEN ts[r.at] ELSE [type |-> "eof", invisible |-> 0]
Sees(ts, r, t)   == Ahead(ts, r).type = t
next_token(r)    == [r EXCEPT !.at = @ + 1]
Give(node, r)    == [node |-> node, at |-> r.at, err |-> r.err]
syntax_error(r)  == [node |-> ERROR_NODE, at |-> r.at, err |-> TRUE]

\* expect(): past the token if it is there.  Must(): an error if it is not.
expect(ts, r, t)     == IF Sees(ts, r, t) THEN next_token(r) ELSE r
Must(ts, r, t, node) == IF Sees(ts, r, t) THEN Give(node, next_token(r)) ELSE syntax_error(r)

\* Expressions and statements hold one another: parse() is either of the two
\* productions by its name.
RECURSIVE parse(_, _, _, _), parse_comma_exprs(_, _, _), parse_inside_hash(_, _), parse_infix(_, _, _, _),
          parse_stmtseq(_, _)
expr(ts, r, min_precedence) == parse("expr", ts, r, min_precedence)

\* Later elements are nearer to the root.
parse_comma_exprs(ts, r, after) ==
    LET splat == Sees(ts, r, "...")
        inner == expr(ts, expect(ts, r, "..."), 0)
        elem  == IF ~splat THEN inner
                 ELSE IF inner.node = NO_NODE THEN Give([type |-> "ellipsis"], inner)
                 ELSE Give(Unary("splat", inner.node), inner)
        so_far == Pair("multival", after, elem.node)
    IN  IF elem.node = NO_NODE THEN Give(after, elem)
        ELSE IF Sees(ts, elem, ",") THEN parse_comma_exprs(ts, next_token(elem), so_far)
        ELSE Give(so_far, elem)

LiteralTypes == {"nil", "true", "false", "integer", "symbol", "string"}
parse_literal(ts, r) ==
    LET t == Ahead(ts, r)
        past(node) == Give(node, next_token(r))
    IN  CASE t.type = "nil"     -> past([type |-> "nil"])
          [] t.type \in {"true", "false"} -> past([type |-> "boolean", i |-> IF t.type = "true" THEN 1 ELSE 0])
          [] t.type = "integer" -> past([type |-> "int", i |-> t.i])
          [] t.type = "symbol"  -> past(SymbolNode(t.symb))
          [] t.type = "string"  -> past([type |-> "string", str |-> t.str])
          [] OTHER -> Give(NO_NODE, r)

parse_name(ts, r) ==
    IF Sees(ts, r, "identifier") THEN Give(Name(Ahead(ts, r).symb), next_token(r)) ELSE Give(NO_NODE, r)
parse_name_as_sym(ts, r) ==
    IF Sees(ts, r, "identifier") THEN Give(SymbolNode(Ahead(ts, r).symb), next_token(r)) ELSE Give(NO_NODE, r)

parse_hash_key(ts, r) ==
    LET literal == parse_literal(ts, r)
        inner   == expr(ts, next_token(r), 0)
    IN  IF literal.node # NO_NODE THEN literal
        ELSE IF Sees(ts, r, "[") THEN Must(ts, inner, "]", inner.node)
        ELSE parse_name_as_sym(ts, r)

\* Entries in order; a semicolon the end of a line put at the end is passed.
parse_inside_hash(ts, r) ==
    LET key   == parse_hash_key(ts, r)
        value == expr(ts, next_token(key), 0)
        rest  == IF Sees(ts, value, ",") THEN parse_inside_hash(ts, next_token(value))
                 ELSE Give(NO_NODE, expect(ts, value, ";"))
    IN  IF ~Sees(ts, key, ":")
        THEN IF key.node = NO_NODE THEN Give(NO_NODE, expect(ts, key, ";")) ELSE syntax_error(key)
        ELSE IF rest.node = ERROR_NODE THEN rest
        ELSE Give(Pair("next", Pair("hashentry", key.node, value.node), rest.node), rest)

parse_block(ts, r) ==
    LET body == parse_stmtseq(ts, next_token(r))
    IN  IF Sees(ts, r, "{") THEN Must(ts, body, "}", body.node) ELSE syntax_error(r)

\* => (params) { body }
parse_function(ts, r) ==
    LET params == parse_comma_exprs(ts, next_token(r), NO_NODE)
        body   == parse_block(ts, next_token(params))
    IN  IF ~Sees(ts, r, "(") THEN syntax_error(r)
        ELSE IF ~Sees(ts, params, ")") THEN syntax_error(params)
        ELSE Give(Pair("func", params.node, body.node), body)

\* What an expression starts with.
Closed(ts, inner, bracket, type) == Must(ts, inner, bracket, Wrap(type, inner.node))
Inside(ts, inner)     == Must(ts, inner, ")", inner.node)
Prefixed(op, operand) == Give(Unary(op, operand.node), operand)
parse_prefix(ts, r) ==
    LET t    == Ahead(ts, r).type
        past == next_token(r)
    IN  CASE t \in LiteralTypes -> parse_literal(ts, r)
          [] t = "identifier" -> parse_name(ts, r)
          [] t = "=>" -> parse_function(ts, past)
          [] t = ":{" -> Closed(ts, parse_stmtseq(ts, past), "}", "imfunc")
          [] t = "["  -> Closed(ts, parse_comma_exprs(ts, past, NO_NODE), "]", "list")
          [] t = "{"  -> Closed(ts, parse_inside_hash(ts, past), "}", "hash")
          [] t = "("  -> Inside(ts, expr(ts, past, 0))
          [] t \in DOMAIN unops -> Prefixed(unops[t].op, expr(ts, past, unops[t].right))
          [] OTHER -> Give(NO_NODE, r)

\* What stands right of an operator, and the node it makes with the left.
parse_suffix(ts, r, lhs, t) ==
    LET args  == parse_comma_exprs(ts, r, NO_NODE)
        first == expr(ts, r, 0)
        last  == expr(ts, next_token(first), 0)
        name  == parse_name_as_sym(ts, r)
        key   == expr(ts, next_token(r), 0)
        value == expr(ts, r, binops[t].right)
    IN  CASE t = "(" -> Must(ts, args, ")", Pair("funccall", lhs, args.node))
          [] t = "[" ->
               IF first.node = NO_NODE THEN syntax_error(first)
               ELSE IF ~Sees(ts, first, "..") THEN Must(ts, first, "]", Op("index", lhs, first.node))
               ELSE IF last.node = NO_NODE THEN syntax_error(last)
               ELSE Must(ts, last, "]", Op("rangeindex", lhs, Op("range", first.node, last.node)))
          [] t \in {".", "->"} ->
               IF name.node = NO_NODE THEN syntax_error(name)
               ELSE Give(Pair("dot", IF t = "." THEN lhs ELSE Unary("deref", lhs), name.node), name)
          [] t = "::" /\ Sees(ts, r, "[") ->
               IF key.node = NO_NODE THEN syntax_error(key)
               ELSE Must(ts, key, "]", Op("index", lhs, key.node))
          [] t = "::" ->
               IF name.node = NO_NODE THEN syntax_error(name) ELSE Give(Op("index", lhs, name.node), name)
          [] OTHER ->
               IF value.node = NO_NODE THEN syntax_error(value)
               ELSE Give(Op(binops[t].op, lhs, value.node), value)

parse_infix(ts, lhs, r, min_precedence) ==
    LET t     == Ahead(ts, r).type
        whole == parse_suffix(ts, next_token(r), lhs, t)
    IN  IF t \notin DOMAIN binops THEN Give(lhs, r)
        ELSE IF binops[t].left < min_precedence THEN Give(lhs, r)
        ELSE IF whole.node = ERROR_NODE THEN whole
        ELSE parse_infix(ts, whole.node, whole, min_precedence)

\* After a syntax error the code may read on; the program is ERROR_NODE then
\* whatever it finds.
Continued(ts, r, lhs, min_precedence) ==
    IF lhs.node = ERROR_NODE \/ (lhs.node = NO_NODE /\ lhs.at = r.at)     \* not an expression
    THEN lhs ELSE parse_infix(ts, lhs.node, lhs, min_precedence)
parse_expr(ts, r, min_precedence) == Continued(ts, r, parse_prefix(ts, r), min_precedence)

----------------------------------------------------------------------------
(* Statements.                                                              *)

Single(stmt) == Pair("seq", stmt, NO_NODE)

\* Where there is no statement a semicolon is passed, and only one more
\* semicolon after it lets the sequence go on.
Followed(ts, stmt) ==
    LET semi == IF stmt.node = NO_NODE THEN expect(ts, stmt, ";") ELSE stmt
        rest == IF Sees(ts, semi, ";") THEN parse_stmtseq(ts, next_token(semi)) ELSE Give(NO_NODE, semi)
    IN  IF stmt.node = NO_NODE THEN rest ELSE Give(Pair("seq", stmt.node, rest.node), rest)
parse_stmtseq(ts, r) == Followed(ts, parse("stmt", ts, r, 0))

\* A condition with the keyword it stands after.
Negated(keyword, condition) ==
    IF keyword \in {"unless", "until"} THEN Unary("not", condition) ELSE condition

with_trailing_conditional(ts, stmt) ==
    LET t         == Ahead(ts, stmt).type
        condition == expr(ts, next_token(stmt), 0)
    IN  IF t \notin {"if", "unless"} THEN stmt
        ELSE Give(Triple("if", Negated(t, condition.node), Single(stmt.node), NO_NODE), condition)

parse_if(ts, r) ==
    LET condition == expr(ts, r, 0)
        then      == parse_block(ts, condition)
        past      == next_token(then)
        inner     == parse("stmt", ts, past, 0)
        else      == IF ~Sees(ts, then, "else") THEN Give(NO_NODE, then)
                     ELSE IF Sees(ts, past, "if") THEN Give(Single(inner.node), inner)
                     ELSE parse_block(ts, past)
    IN  Give(Triple("if", condition.node, then.node, else.node), else)

\* unless, while, until: a condition and a block.
parse_guarded(ts, r, t) ==
    LET condition == expr(ts, r, 0)
        body      == parse_block(ts, condition)
        guard     == Negated(t, condition.node)
    IN  Give(IF t = "unless" THEN Triple("if", guard, body.node, NO_NODE)
             ELSE Pair("while", guard, body.node), body)

parse_repeat(ts, r) ==
    LET body      == parse_block(ts, r)
        t         == Ahead(ts, body).type
        condition == expr(ts, next_token(body), 0)
    IN  IF t \in {"while", "until"} THEN Give(Pair("repeat", body.node, Negated(t, condition.node)), condition)
        ELSE Give(Pair("repeat", body.node, NO_NODE), body)

parse_case(ts, r) ==
    LET values == parse_comma_exprs(ts, r, NO_NODE)
        body   == parse_block(ts, values)
    IN  Give(Pair("case", values.node, body.node), body)

\* The guard of a match starts two tokens after its `if': the code passes
\* the token after the keyword as well.
parse_match(ts, r) ==
    LET pattern == parse_comma_exprs(ts, r, NO_NODE)
        t       == Ahead(ts, pattern).type
        guard   == IF t \in {"if", "unless"} THEN expr(ts, next_token(next_token(pattern)), 0)
                   ELSE Give(NO_NODE, pattern)
        body    == parse_block(ts, guard)
    IN  Give(Triple("match", pattern.node, Negated(t, guard.node), body.node), body)

parse_let(ts, r) ==
    LET bindings == parse_comma_exprs(ts, r, NO_NODE)
        values   == parse_comma_exprs(ts, next_token(bindings), NO_NODE)
    IN  IF Sees(ts, bindings, "=") THEN Give(Pair("let", bindings.node, values.node), values)
        ELSE Give(Pair("let", bindings.node, NO_NODE), bindings)

parse_def(ts, r) ==
    LET name   == parse_name(ts, r)
        params == IF Sees(ts, name, "(") THEN parse_comma_exprs(ts, next_token(name), NO_NODE)
                  ELSE Give(NO_NODE, name)
        closed == IF Sees(ts, name, "(") THEN Must(ts, params, ")", params.node) ELSE params
        body   == parse_block(ts, closed)
    IN  IF closed.node = ERROR_NODE THEN closed
        ELSE Give(Pair("def", name.node, Pair("func", params.node, body.node)), body)

parse_return(ts, r) ==
    LET value == parse_comma_exprs(ts, r, NO_NODE)
    IN  with_trailing_conditional(ts, Give(Wrap("return", value.node), value))

\* A statement that starts with an expression.
parse_expr_stmt(ts, r) ==
    LET first  == expr(ts, r, 0)
        t      == Ahead(ts, first).type
        more   == IF t = "," THEN parse_comma_exprs(ts, next_token(first), first.node) ELSE first
        values == parse_comma_exprs(ts, next_token(more), NO_NODE)
        where  == IF more.node.type = "multival" THEN more.node ELSE Pair("multival", NO_NODE, more.node)
    IN  IF first.node = NO_NODE THEN first
        ELSE with_trailing_conditional(ts,
               CASE t = "++" -> Give(Unary("incr", first.node), next_token(first))
                 [] t = "--" -> Give(Unary("decr", first.node), next_token(first))
                 [] t \notin {"++", "--"} /\ Sees(ts, more, "=") -> Give(Pair("assign", where, values.node), values)
                 [] OTHER -> more)

parse_stmt(ts, r) ==
    LET t    == Ahead(ts, r).type
        past == next_token(r)
    IN  CASE t = "if"     -> parse_if(ts, past)
          [] t \in {"unless", "while", "until"} -> parse_guarded(ts, past, t)
          [] t = "repeat" -> parse_repeat(ts, past)
          [] t = "case"   -> parse_case(ts, past)
          [] t = "match"  -> parse_match(ts, past)
          [] t = "let"    -> parse_let(ts, past)
          [] t = "def"    -> parse_def(ts, past)
          [] t = "return" -> parse_return(ts, past)
          [] OTHER        -> parse_expr_stmt(ts, r)

parse(production, ts, r, min_precedence) ==
    IF production = "expr" THEN parse_expr(ts, r, min_precedence) ELSE parse_stmt(ts, r)

\* The whole program: nothing may follow it, and an error anywhere spoils it.
Whole(ts, program) ==
    IF Sees(ts, program, "eof") /\ ~program.err THEN program.node ELSE ERROR_NODE
do_parse(ts) == Whole(ts, parse_stmtseq(ts, [at |-> 1, err |-> FALSE]))
============================================================================
