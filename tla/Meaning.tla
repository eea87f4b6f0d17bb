------------------------------ MODULE Meaning ------------------------------
(***************************************************************************)
(* What a program means, read off its syntax tree: names are bound to       *)
(* places of a store, a block opens a scope, a function keeps the names     *)
(* that were in scope where it stands, a reference is a place.  There are   *)
(* no slots, no stacks, no labels and no instructions here: this is what    *)
(* module Script compares the compiled program with.                        *)
(*                                                                          *)
(* A state: store, the value at every place; v, the value computed last;    *)
(* vs, the values of a list computed last; returned, whether a `return' is  *)
(* on its way out; printed; bad, whether the program has failed.            *)
(* An environment is a sequence of names and their places, the innermost    *)
(* last; a name that was bound after `&' has the place its value says.      *)
(***************************************************************************)
EXTENDS Integers, Sequences, SequencesExt

LOCAL Nothing == [type |-> "none"]
LOCAL Nil     == [type |-> "nil"]

Num(n)   == [type |-> "int", i |-> n]
Truth(b) == [type |-> "boolean", i |-> IF b THEN 1 ELSE 0]
Falsy(v) == v = Nil \/ v = Truth(FALSE)
Place(p) == [type |-> "place", place |-> p]

Fails(s)    == [s EXCEPT !.bad = TRUE]
Gives(s, v) == [s EXCEPT !.v = v]
Over(s)     == s.bad \/ s.returned

\* The elements of a list node, and the statements of a sequence, in order.
RECURSIVE Children(_), Following(_)
Children(node)  == IF node = Nothing THEN <<>> ELSE Append(Children(node.left), node.right)
Following(node) == IF node = Nothing THEN <<>> ELSE <<node.left>> \o Following(node.right)

IsUnary(e, op) == e.type = "op" /\ e.op = op
NameOf(e)      == IF e.type = "op" THEN e.left.symb ELSE e.symb

\* The place a name stands for, 0 for none.
RECURSIVE Lookup(_, _, _)
Lookup(s, env, name) ==
    IF env = <<>> THEN 0
    ELSE IF Last(env).name # name THEN Lookup(s, Front(env), name)
    ELSE IF Last(env).ref THEN s.store[Last(env).place].place ELSE Last(env).place

Placed(s, values)  == [s EXCEPT !.store = @ \o values]
NewList(s, values) == Gives(Placed(s, values), [type |-> "list", items |-> [i \in DOMAIN values |-> Len(s.store) + i]])
Contents(s, list)  == [i \in DOMAIN list.items |-> s.store[list.items[i]]]
Entries(s, nodes)  == [i \in DOMAIN nodes |->
    [name |-> NameOf(nodes[i]), place |-> Len(s.store) + i, ref |-> IsUnary(nodes[i], "ref")]]

\* Whether the expression speaks of `_', outside functions.
RECURSIVE Mentions(_)
Mentions(e) ==
    CASE e.type = "name" -> e.symb = "_"
      [] e.type = "op"   -> Mentions(e.left) \/ Mentions(e.right)
      [] e.type = "funccall" -> Mentions(e.left) \/ Mentions(e.right)
      [] e.type = "multival" -> Mentions(e.left) \/ Mentions(e.right)
      [] e.type = "list" -> Mentions(e.left)
      [] OTHER -> FALSE

Numeric == {"+", "-", "*", "//", "%", "%%", "<", "<=", ">", ">="}
Operated(s, op, v, w) ==
    CASE op = "=="  -> Gives(s, Truth(v = w))
      [] op = "!="  -> Gives(s, Truth(v # w))
      [] op = "and" -> Gives(s, Truth(~Falsy(v) /\ ~Falsy(w)))
      [] op = "or"  -> Gives(s, Truth(~Falsy(v) \/ ~Falsy(w)))
      [] op \in Numeric ->
           IF ~(v.type = "int" /\ w.type = "int") THEN Fails(s)
           ELSE LET a == v.i
                    b == w.i
                IN  Gives(s, CASE op = "+" -> Num(a + b) [] op = "-" -> Num(a - b) [] op = "*" -> Num(a * b)
                               [] op = "//" -> Num(a \div b) [] op = "%" -> Num(a % b)
                               [] op = "%%" -> Truth(a % b = 0)
                               [] op = "<" -> Truth(a < b) [] op = "<=" -> Truth(a <= b)
                               [] op = ">" -> Truth(a > b) [] op = ">=" -> Truth(a >= b))

----------------------------------------------------------------------------
(* Expressions.                                                             *)

\* Evaluate is for expressions, statements and blocks: they hold one another.
RECURSIVE Evaluate(_, _, _), EvaluateAll(_, _, _, _), EachOf(_, _, _), Repeated(_, _, _, _)

\* Elements are computed from the last to the first; a splat stands for all
\* items of a list.
EvaluateAll(s, env, nodes, done) ==
    IF nodes = <<>> \/ s.bad THEN [s EXCEPT !.vs = done]
    ELSE LET e     == Last(nodes)
             splat == IsUnary(e, "splat")
             t     == Evaluate(s, env, IF splat THEN e.left ELSE e)
         IN  IF t.bad THEN t
             ELSE IF ~splat THEN EvaluateAll(t, env, Front(nodes), <<t.v>> \o done)
             ELSE IF t.v.type # "list" THEN Fails(t)
             ELSE EvaluateAll(t, env, Front(nodes), Contents(t, t.v) \o done)

Deref(s) == IF s.bad THEN s ELSE IF s.v.type = "place" THEN Gives(s, s.store[s.v.place]) ELSE Fails(s)

\* The values of names, one each; the one after a splat has the list of what
\* the others leave.
Shared(s, names, values) ==
    LET splats == {i \in DOMAIN names : IsUnary(names[i], "splat")}
        at     == IF splats = {} THEN Len(names) + 1 ELSE CHOOSE i \in splats : TRUE
        after  == Len(names) - at
        spare  == Len(values) - Len(names)
        rest   == NewList(s, SubSeq(values, at, Len(values) - after))
    IN  IF spare # 0 /\ (splats = {} \/ spare < -1) THEN Fails(s)
        ELSE [IF splats = {} THEN s ELSE rest EXCEPT !.vs = [i \in DOMAIN names |->
                 IF i < at THEN values[i] ELSE IF i = at THEN rest.v ELSE values[i + spare]]]

Applied(s, f, args) ==
    CASE f.type = "func" ->
           LET shared == Shared(s, f.params, args)
               done   == Evaluate(Placed(shared, shared.vs), f.env \o Entries(shared, f.params), f.body)
           IN  IF shared.bad THEN shared ELSE [done EXCEPT !.returned = FALSE]
      [] f.type = "print" ->
           IF \E i \in DOMAIN args : args[i].type \notin {"int", "string"} THEN Fails(s)
           ELSE Gives([s EXCEPT !.printed = @ \o args], Nil)
      [] OTHER -> Fails(s)

\* The place an expression stands for on the left of an assignment and after
\* `&'.  An object is a function that is asked for a name.
PlaceOf(s, env, e) ==
    CASE e.type = "name" ->
           IF Lookup(s, env, e.symb) = 0 THEN Fails(s) ELSE Gives(s, Place(Lookup(s, env, e.symb)))
      [] e.type = "dot" ->
           LET f == Evaluate(s, env, e.left) IN IF f.bad THEN f ELSE Applied(f, f.v, <<e.right>>)
      [] IsUnary(e, "deref") -> Evaluate(s, env, e.left)
      [] IsUnary(e, "index") ->
           LET i == Evaluate(s, env, e.right)
               l == Evaluate(i, env, e.left)
           IN  IF i.bad \/ l.bad THEN Fails(l)
               ELSE IF l.v.type # "list" \/ i.v.type # "int" THEN Fails(l)
               ELSE IF i.v.i + 1 \notin DOMAIN l.v.items THEN Fails(l)
               ELSE Gives(l, Place(l.v.items[i.v.i + 1]))

\* left | right: right with the value of left for `_', else right called with it.
Piped(s, env, e) ==
    LET l == Evaluate(s, env, e.left)
        f == Evaluate(l, env, e.right)
    IN  IF l.bad THEN l
        ELSE IF Mentions(e.right)
        THEN Evaluate(Placed(l, <<l.v>>),
                      Append(env, [name |-> "_", place |-> Len(l.store) + 1, ref |-> FALSE]), e.right)
        ELSE IF f.bad THEN f ELSE Applied(f, f.v, <<l.v>>)

\* of[from..to]
Part(s, env, e) ==
    LET of   == Evaluate(s, env, e.left)
        from == Evaluate(of, env, e.right.left)
        to   == Evaluate(from, env, e.right.right)
        n    == Len(of.v.items)
    IN  IF to.bad THEN to
        ELSE IF of.v.type # "list" \/ from.v.type # "int" \/ to.v.type # "int" THEN Fails(to)
        ELSE NewList(to, SubSeq(Contents(to, of.v), from.v.i + 1, IF to.v.i > n THEN n ELSE to.v.i))

----------------------------------------------------------------------------
(* Statements.                                                              *)

\* The functions of a block have their names before it runs; each sees them
\* all, and the names of the `let's above it.
DefNames(nodes) ==
    LET defs == SelectSeq(nodes, LAMBDA n : n.type = "def") IN [i \in DOMAIN defs |-> defs[i].left]

RECURSIVE Hoisted(_, _, _)
Hoisted(s, env, nodes) ==
    IF nodes = <<>> THEN [s |-> s, env |-> env]
    ELSE LET node  == Head(nodes)
             names == Children(node.left)
             f     == [type |-> "func", params |-> Children(node.right.left),
                       body |-> node.right.right, env |-> env]
         IN  CASE node.type = "def" ->
                    Hoisted([s EXCEPT !.store[Lookup(s, env, node.left.symb)] = f], env, Tail(nodes))
               [] node.type = "let" ->
                    Hoisted(Placed(s, [i \in DOMAIN names |-> Nil]), env \o Entries(s, names), Tail(nodes))
               [] OTHER -> Hoisted(s, env, Tail(nodes))

\* The value of a block is that of its last statement if it is an expression
\* or a condition.
Block(s, env, nodes) ==
    LET defs  == DefNames(nodes)
        ready == Hoisted(Placed(s, [i \in DOMAIN defs |-> Nil]), env \o Entries(s, defs), nodes)
    IN  EachOf(Gives(ready.s, Nil), ready.env, nodes)

EachOf(s, env, nodes) ==
    IF nodes = <<>> \/ Over(s) THEN s
    ELSE EachOf(Evaluate(s, env, Head(nodes)), env, Tail(nodes))

\* The block as long as the condition holds, asked before it or after it.
Repeated(s, env, node, first) ==
    LET isWhile == node.type = "while"
        asked   == IF ~isWhile /\ (first \/ node.right = Nothing) THEN Gives(s, Truth(TRUE))
                   ELSE Evaluate(s, env, IF isWhile THEN node.left ELSE node.right)
        body    == Evaluate(asked, env, IF isWhile THEN node.right ELSE node.left)
    IN  IF asked.bad THEN asked
        ELSE IF Falsy(asked.v) THEN Gives(asked, Nil)
        ELSE IF Over(body) THEN body
        ELSE Repeated(body, env, node, FALSE)

\* A name of a `let' keeps the place the block gave it.
RECURSIVE LetPlace(_, _)
LetPlace(env, name) == IF Last(env).name = name THEN Last(env).place ELSE LetPlace(Front(env), name)
Declared(s, env, node) ==
    LET names  == Children(node.left)
        values == EvaluateAll(s, env, Children(node.right), <<>>)
        shared == Shared(values, names, values.vs)
    IN  IF values.bad \/ shared.bad THEN Fails(s)
        ELSE Gives([shared EXCEPT !.store = [p \in DOMAIN @ |->
                 IF \E i \in DOMAIN names : LetPlace(env, NameOf(names[i])) = p
                 THEN shared.vs[CHOOSE i \in DOMAIN names : LetPlace(env, NameOf(names[i])) = p] ELSE @[p]]], Nil)

Assigned(s, env, node) ==
    LET into  == Evaluate(s, env, node.right.right)
        where == PlaceOf(into, env, node.left.right)
    IN  IF into.bad \/ where.bad THEN Fails(s)
        ELSE IF where.v.type # "place" THEN Fails(s)
        ELSE Gives([where EXCEPT !.store[where.v.place] = into.v], Nil)

StatementTypes == {"let", "def", "assign", "while", "repeat", "if", "return"}
Statement(s, env, node) ==
    LET cond  == Evaluate(s, env, node.left)
        value == Evaluate(s, env, node.left.right)
    IN  CASE node.type = "let"    -> Declared(s, env, node)
          [] node.type = "def"    -> Gives(s, Nil)
          [] node.type = "assign" -> Assigned(s, env, node)
          [] node.type \in {"while", "repeat"} -> Repeated(s, env, node, TRUE)
          [] node.type = "if" ->
               IF cond.bad THEN cond
               ELSE Evaluate(cond, env, IF Falsy(cond.v) THEN node.right ELSE node.center)
          [] node.type = "return" ->
               IF node.left = Nothing THEN [Gives(s, Nil) EXCEPT !.returned = TRUE]
               ELSE IF value.bad THEN value ELSE [value EXCEPT !.returned = TRUE]

Evaluate(s, env, e) ==
    IF s.bad THEN s ELSE
    CASE e.type \in {"seq", "none"} -> Block(s, env, Following(e))
      [] e.type \in StatementTypes -> Statement(s, env, e)
      [] e.type \in {"int", "string", "symbol", "nil", "boolean"} -> Gives(s, e)
      [] e.type = "name" ->
           IF Lookup(s, env, e.symb) # 0 THEN Gives(s, s.store[Lookup(s, env, e.symb)])
           ELSE IF e.symb = "print" THEN Gives(s, [type |-> "print"]) ELSE Fails(s)
      [] e.type = "func" ->
           Gives(s, [type |-> "func", params |-> Children(e.left), body |-> e.right, env |-> env])
      [] e.type = "list" ->
           LET t == EvaluateAll(s, env, Children(e.left), <<>>) IN IF t.bad THEN t ELSE NewList(t, t.vs)
      [] e.type = "funccall" ->
           LET args == EvaluateAll(s, env, Children(e.right), <<>>)
               f    == Evaluate(args, env, e.left)
           IN  IF f.bad THEN f ELSE Applied(f, f.v, args.vs)
      [] e.type = "dot" \/ IsUnary(e, "index") -> Deref(PlaceOf(s, env, e))
      [] IsUnary(e, "deref")      -> Deref(Evaluate(s, env, e.left))
      [] IsUnary(e, "ref")        -> PlaceOf(s, env, e.left)
      [] IsUnary(e, "|")          -> Piped(s, env, e)
      [] IsUnary(e, "rangeindex") -> Part(s, env, e)
      [] IsUnary(e, "not") ->
           LET l == Evaluate(s, env, e.left) IN IF l.bad THEN l ELSE Gives(l, Truth(Falsy(l.v)))
      [] OTHER ->
           LET l == Evaluate(s, env, e.left)
               r == Evaluate(l, env, e.right)
           IN  IF r.bad THEN r ELSE Operated(r, e.op, l.v, r.v)

\* What the program prints, and whether it fails.
MeaningOf(program) ==
    LET s == Block([store |-> <<>>, v |-> Nil, vs |-> <<>>, returned |-> FALSE, printed |-> <<>>, bad |-> FALSE],
                   <<>>, Following(program))
    IN  [printed |-> s.printed, bad |-> s.bad]
============================================================================
