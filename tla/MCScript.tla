------------------------------ MODULE MCScript ------------------------------
(* Scripts for TLC: wrappers around pairs of fragments, and how to write     *)
(* them down.                                                                *)
EXTENDS Script, Parser, Codegen

(* Writing: a token, and a word that is parted from the next by a space.     *)
T(type)    == <<Token(type)>>
Space      == T("space")
W(type)    == T(type) \o Space

Level(e) ==
    IF e.type # "op" THEN 10
    ELSE CASE e.op = "|" -> 0 [] e.op = "or" -> 1 [] e.op = "and" -> 2 [] e.op = "not" -> 3 [] e.op = "in" -> 4
           [] e.op \in Comparisons -> 5 [] e.op \in {"+", "-"} -> 6 [] e.op \in {"*", "/", "//", "%"} -> 7
           [] e.op = "**" -> 8 [] e.op \in {"ref", "deref", "splat", "unplus", "unminus"} -> 9 [] OTHER -> 10
Sign(op) == CASE op = "ref" -> T("&") [] op = "deref" -> T("*") [] op = "splat" -> T("...")
              [] op = "unplus" -> T("+") [] op = "unminus" -> T("-") [] OTHER -> W("not")

RECURSIVE Args(_)
Args(node) == IF node = NO_NODE THEN <<>> ELSE Append(Args(node.left), node.right)
RECURSIVE Nodes(_)
Nodes(node) == IF node = NO_NODE THEN <<>> ELSE <<node.left>> \o Nodes(node.right)
IsDeref(e) == e.type = "op" /\ e.op = "deref"

Break(layout) == IF layout = "words" THEN T("newline") \o Space ELSE W(";")

RECURSIVE Expr(_, _, _, _), Listed(_, _), Stmts(_, _), Stmt(_, _)

Spelled(type, key, value) == <<[type |-> type, invisible |-> 0] @@ (key :> value)>>
Word(symb) == Spelled("identifier", "symb", symb)

\* last: nothing follows the expression before a bracket or the line ends.
Expr(e, level, last, layout) ==
    LET words == layout = "words" /\ last
        left  == Expr(e.left, 10, FALSE, layout)
        param == IF words THEN Listed(Args(e.left), layout) \o (IF e.left = NO_NODE THEN <<>> ELSE Space)
                 ELSE T("(") \o Listed(Args(e.left), layout) \o W(")")
        entry(x) == (CASE x.left.type = "symbol" -> Word(x.left.symb)
                       [] x.left.type = "int" -> Expr(x.left, 0, TRUE, layout)
                       [] OTHER -> T("[") \o Expr(x.left, 0, TRUE, layout) \o T("]"))
                    \o W(":") \o Expr(x.right, 0, TRUE, layout)
        entries == Nodes(e.left)
        body ==
          CASE e.type = "name" -> Word(e.symb)
            [] e.type = "int"  -> Spelled("integer", "i", e.i)
            [] e.type = "string" -> Spelled("string", "str", e.str)
            [] e.type = "symbol" -> Spelled("symbol", "symb", e.symb)
            [] e.type = "boolean" -> T(IF e.i = 1 THEN "true" ELSE "false")
            [] e.type = "ellipsis" -> T("...")
            [] e.type = "nil" -> T("nil")
            [] e.type = "funccall" ->
                 IF words /\ Args(e.right) # <<>> /\ Args(e.right)[1].type = "imfunc"
                 THEN left \o Expr(Args(e.right)[1], 0, FALSE, layout)
                 ELSE IF words /\ e.right # NO_NODE /\ e.left.type # "func"
                 THEN left \o Space \o Listed(Args(e.right), layout)
                 ELSE left \o T("(") \o Listed(Args(e.right), layout) \o T(")")
            [] e.type = "list" -> T("[") \o Listed(Args(e.left), layout) \o T("]")
            [] e.type = "hash" ->
                 W("{") \o FlattenSeq([i \in DOMAIN entries |->
                     entry(entries[i]) \o (IF i < Len(entries) THEN W(",")
                                           ELSE IF layout = "words" THEN T("newline") \o Space ELSE <<>>)]) \o T("}")
            [] e.type = "imfunc" -> W(":{") \o Stmts(e.left, layout) \o T("}")
            [] e.type = "dot" ->
                 IF IsDeref(e.left) /\ layout = "words"
                 THEN Expr(e.left.left, 10, FALSE, layout) \o T("->") \o Word(e.right.symb)
                 ELSE left \o T(".") \o Word(e.right.symb)
            [] e.type = "func" -> W("=>") \o param \o W("{") \o Stmts(e.right, layout) \o T("}")
            [] e.type = "op" /\ e.op = "index" ->
                 IF e.right.type = "symbol" THEN left \o T("::") \o Word(e.right.symb)
                 ELSE left \o (IF e.right.type = "int" \/ layout = "words" THEN <<>> ELSE T("::"))
                      \o T("[") \o Expr(e.right, 0, TRUE, layout) \o T("]")
            [] e.type = "op" /\ e.op = "rangeindex" ->
                 left \o T("[") \o Expr(e.right.left, 1, FALSE, layout) \o T("..")
                 \o Expr(e.right.right, 1, TRUE, layout) \o T("]")
            [] e.type = "op" /\ e.right = NO_NODE ->
                 Sign(e.op) \o Expr(e.left, IF e.op = "not" THEN 4 ELSE 10, last, layout)
            [] e.type = "op" /\ e.op = "**" -> Expr(e.left, 9, FALSE, layout) \o Space \o W("**") \o Expr(e.right, 8, last, layout)
            [] OTHER -> Expr(e.left, Level(e), e.op = "|", layout) \o Space \o W(e.op)
                        \o Expr(e.right, Level(e) + 1, last, layout)
    IN  IF Level(e) < level THEN T("(") \o Expr(e, 0, TRUE, layout) \o T(")") ELSE body

Listed(es, layout) ==
    FlattenSeq([i \in DOMAIN es |-> Expr(es[i], IF layout = "words" THEN 1 ELSE 0, i = Len(es), layout) \o (IF i = Len(es) THEN <<>> ELSE W(","))])

Stmts(node, layout) ==
    LET ss == Nodes(node)
    IN  FlattenSeq([i \in DOMAIN ss |-> Stmt(ss[i], layout) \o Break(layout)])
Braces(node, layout) == W("{") \o Stmts(node, layout) \o T("}")

\* What may stand before a condition at the end of the line.
Simple(s) == s.type \notin {"if", "while", "repeat", "def", "let", "case", "match", "seq"}
Stmt(s, layout) ==
    LET e(x)   == Expr(x, 0, TRUE, layout)
        list(x) == Listed(Args(x), layout)
        words  == layout = "words"
        inner  == Nodes(s.center)
        negated(x) == words /\ x.type = "op" /\ x.op = "not"
        asked(yes, no, x) == IF negated(x) THEN W(no) \o e(x.left) ELSE W(yes) \o e(x)
    IN CASE s.type = "let" ->
              W("let") \o list(s.left) \o (IF s.right = NO_NODE THEN <<>> ELSE Space \o W("=") \o list(s.right))
         [] s.type = "def" ->
              W("def") \o e(s.left)
              \o (IF words THEN Space \o list(s.right.left) \o (IF s.right.left = NO_NODE THEN <<>> ELSE Space)
                  ELSE T("(") \o list(s.right.left) \o W(")"))
              \o Braces(s.right.right, layout)
         [] s.type = "while"  -> asked("while", "until", s.left) \o Space \o Braces(s.right, layout)
         [] s.type = "repeat" ->
              W("repeat") \o Braces(s.left, layout)
              \o (IF s.right = NO_NODE THEN <<>> ELSE Space \o asked("while", "until", s.right))
         [] s.type = "if" /\ s.right = NO_NODE /\ words ->
              IF Len(inner) = 1 /\ Simple(inner[1])
              THEN Stmt(inner[1], layout) \o Space \o asked("if", "unless", s.left)
              ELSE asked("if", "unless", s.left) \o Space \o Braces(s.center, layout)
         [] s.type = "if" /\ ~(s.right = NO_NODE /\ words) ->
              W("if") \o e(s.left) \o Space \o Braces(s.center, layout)
              \o (CASE s.right = NO_NODE -> <<>>
                    [] words /\ s.right.left.type = "if" /\ s.right.left.right # NO_NODE /\ s.right.right = NO_NODE ->
                         Space \o W("else") \o Stmt(s.right.left, layout)
                    [] OTHER -> Space \o W("else") \o Braces(s.right, layout))
         [] s.type = "case"   -> W("case") \o list(s.left) \o Space \o Braces(s.right, layout)
         [] s.type = "match"  -> W("match") \o list(s.left) \o Space \o Braces(s.right, layout)
         [] s.type = "return" -> W("return") \o list(s.left)
         [] s.type = "assign" -> list(s.left) \o Space \o W("=") \o list(s.right)
         [] s.type = "op" /\ s.op \in {"incr", "decr"} -> e(s.left) \o T(IF s.op = "incr" THEN "++" ELSE "--")
         [] OTHER -> e(s)

(* Scripts.                                                                  *)
X == Name("x")
L == Name("l")
I(n) == [type |-> "int", i |-> n]
RECURSIVE Multi(_), Sequence(_)
Multi(es) == IF es = <<>> THEN NO_NODE ELSE Pair("multival", Multi(Front(es)), Last(es))
Sequence(ss) == IF ss = <<>> THEN NO_NODE ELSE Pair("seq", Head(ss), Sequence(Tail(ss)))
CallOf(f, es) == Pair("funccall", f, Multi(es))
Prints(e)    == CallOf(Name("print"), <<e>>)
Let(ns, es)  == Pair("let", Multi(ns), Multi(es))
Assign(w, e) == Pair("assign", Multi(<<w>>), Multi(<<e>>))
Lst(es)      == Wrap("list", Multi(es))
Fn(ps, ss)   == Pair("func", Multi(ps), Sequence(ss))
Def(n, ps, ss) == Pair("def", Name(n), Fn(ps, ss))
If(c, a, b)  == Triple("if", c, Sequence(a), Sequence(b))
While(c, ss) == Pair("while", c, Sequence(ss))
Until(ss, c) == Pair("repeat", Sequence(ss), Unary("not", c))
Hash(es)     == Wrap("hash", es)
RECURSIVE Entered(_)
Entered(es)  == IF es = <<>> THEN NO_NODE ELSE Pair("next", Pair("hashentry", Head(es)[1], Head(es)[2]), Entered(Tail(es)))
Plus(a, b)   == Op("+", a, b)
At1(l, i)    == Op("index", l, i)
Under        == Name("_")
Sym(s)       == SymbolNode(s)
Bare(s)      == Wrap(s, NO_NODE)

Fragments(n) ==
    LET v(s) == Name(s \o ToString(n))
    IN <<
      <<Assign(X, Plus(X, I(1)))>>,
      <<Let(<<v("p")>>, <<Op("*", Plus(X, I(1)), I(2))>>), Prints(v("p"))>>,
      <<Let(<<v("a"), Unary("splat", v("r")), v("z")>>, <<Unary("splat", L), X, I(7)>>), Prints(At1(v("r"), I(1))), Prints(v("z"))>>,
      <<Prints(CallOf(Name("f"), <<X, CallOf(Name("f"), <<I(2), X>>)>>))>>,
      <<Op("|", Op("|", X, CallOf(Name("f"), <<Plus(Under, I(1)), I(3)>>)), Name("print"))>>,
      <<If(Op(">", X, I(1)), <<Let(<<v("t")>>, <<I(4)>>), Prints(v("t"))>>, <<Prints(I(6))>>)>>,
      <<If(Op("<", X, I(3)), <<Assign(X, Plus(X, I(3)))>>, <<>>)>>,
      <<While(Op("<", X, I(3)), <<Assign(X, Plus(X, I(1))), Let(<<v("u")>>, <<X>>), Prints(v("u"))>>)>>,
      <<Let(<<v("s")>>, <<Fn(<<>>, <<Assign(X, Plus(X, I(2))), X>>)>>), Prints(CallOf(v("s"), <<>>))>>,
      <<Let(<<Unary("ref", v("b"))>>, <<Unary("ref", X)>>), Assign(v("b"), Plus(v("b"), I(5)))>>,
      <<Assign(At1(L, I(1)), Op("%", X, I(2))), Prints(At1(L, I(1)))>>,
      <<Let(<<v("o")>>, <<Fn(<<v("m")>>, <<Unary("ref", X)>>)>>), Assign(Pair("dot", v("o"), SymbolNode("k")), I(8)),
        Prints(Pair("dot", v("o"), SymbolNode("k")))>>,
      <<Prints(At1(Op("rangeindex", L, Op("range", I(1), I(3))), I(0)))>>,
      <<If(Op("or", Op("and", Unary("not", Op("==", X, I(2))), Op("<=", X, I(3))), Op("!=", At1(L, I(0)), I(1))),
           <<Prints(I(1))>>, <<If(Op("%%", X, I(2)), <<Prints(I(2))>>, <<Prints(I(3))>>)>>)>>,
      <<Def("g" \o ToString(n), <<v("n")>>, <<If(Op("<=", v("n"), I(0)), <<Pair("return", Multi(<<X>>), NO_NODE)>>, <<>>),
           Plus(v("n"), CallOf(v("g"), <<Op("-", v("n"), I(1))>>))>>), Prints(CallOf(v("g"), <<I(2)>>))>>,
      <<Prints(CallOf(Name("f"), <<Unary("splat", Op("rangeindex", L, Op("range", I(0), I(2))))>>))>>,
      <<Until(<<Assign(X, Plus(X, I(1)))>>, Op(">=", X, I(2)))>>,
      <<Prints(Name("zz"))>> >>

Wrapped(w, ss) ==
    CASE w = "plain" -> ss
      [] w = "if"    -> <<If(Op("==", X, I(1)), ss, <<Prints(I(0))>>)>>
      [] w = "while" -> <<Let(<<Name("i")>>, <<I(0)>>),
                          While(Op("<", Name("i"), I(2)), <<Assign(Name("i"), Plus(Name("i"), I(1)))>> \o ss)>>
      [] w = "repeat" -> <<Let(<<Name("i")>>, <<I(0)>>),
                          Until(ss \o <<Assign(Name("i"), Plus(Name("i"), I(1)))>>, Op(">=", Name("i"), I(2)))>>
      [] w = "def"   -> <<Def("h", <<Name("y")>>, ss), CallOf(Name("h"), <<I(5)>>)>>
      [] w = "func"  -> <<Let(<<Name("k")>>, <<Fn(<<Name("y")>>, <<Let(<<Name("j")>>, <<Fn(<<>>, ss)>>), CallOf(Name("j"), <<>>)>>)>>),
                          CallOf(Name("k"), <<I(2)>>)>>

Prelude == <<Let(<<X, L>>, <<I(1), Lst(<<I(1), I(2), I(3)>>)>>),
             Def("f", <<Name("a"), Name("b")>>, <<Plus(Op("*", Name("a"), I(10)), Name("b"))>>)>>
Coda    == <<Prints(X)>>


\* Statements and expressions that the compiler does not have, or that the
\* other scripts do not write: they are only read.
SyntaxFragments == <<
    Pair("case", Multi(<<X, Plus(X, I(1))>>), Sequence(<<
        Triple("match", Multi(<<I(1), [type |-> "ellipsis"]>>), NO_NODE, Sequence(<<Prints(X)>>)),
        Triple("match", Multi(<<Name("q")>>), NO_NODE, Sequence(<<Prints(I(0))>>))>>)),
    CallOf(Name("f"), <<Wrap("imfunc", Sequence(<<Prints(X)>>))>>),
    Let(<<Name("o")>>, <<Hash(Entered(<< <<Sym("a"), I(1)>>, <<Plus(X, I(1)), CallOf(Name("f"), <<X>>)>>,
                                         <<I(3), Hash(NO_NODE)>> >>))>>),
    If(Op("in", X, L), <<Unary("decr", X)>>, <<>>),
    Assign(Pair("dot", Unary("deref", Name("p")), Sym("k")), Op("index", Name("m"), Sym("n"))),
    Prints(Op("index", L, Op("index", L, I(0)))),
    If(Op("<", X, I(1)), <<Pair("return", Multi(<<X, L>>), NO_NODE)>>, <<>>),
    If(Unary("not", X), <<Prints(I(1)), Prints(I(2))>>, <<>>),
    If(X, <<Prints(I(1))>>, <<If(L, <<Prints(I(2))>>, <<If(Under, <<Prints(I(3))>>, <<Prints(I(4))>>)>>)>>),
    While(Unary("not", CallOf(Name("f"), <<X>>)), <<Pair("return", NO_NODE, NO_NODE)>>),
    Pair("repeat", Sequence(<<Unary("incr", At1(L, I(0)))>>), NO_NODE),
    Pair("repeat", Sequence(<<Prints([type |-> "string", str |-> "a text"])>>), X),
    Pair("let", Multi(<<Name("u"), Name("w")>>), NO_NODE),
    Pair("assign", Multi(<<At1(L, I(0))>>), Multi(<<I(1), [type |-> "boolean", i |-> 1]>>)),
    Op("**", Unary("unminus", X), Unary("unplus", Unary("unminus", I(2)))),
    CallOf(Pair("dot", At1(CallOf(CallOf(Name("f"), <<>>), <<I(1), Lst(<<>>)>>), I(0)), Sym("n")), <<Sym("s"), [type |-> "nil"]>>),
    CallOf(Name("f"), <<Fn(<<X, Unary("splat", Name("r"))>>, <<Pair("return", Multi(<<[type |-> "boolean", i |-> 0]>>), NO_NODE)>>),
                        Op("|", X, CallOf(Name("f"), <<L, X>>))>>) >>
BinaryOps == <<"|", "or", "and", "in", "==", "<", "%%", "+", "-", "*", "/", "//", "**">>

\* Two operators, one inside the other, on either side.
Nested(o, p) == CallOf(Name("f"), <<Op(o, Op(p, X, I(1)), I(2)), Op(o, X, Op(p, I(1), L)), Unary("not", Op(o, X, L)),
                                    Op(o, Unary("not", X), I(1)), Op(o, X, Unary("not", L))>>)

N == Len(Fragments(1))
M == Len(SyntaxFragments)

\* A script is the wrapper, the two fragments, and how it is written: in the
\* one way or the other by turns, or in both if it is only read.
\* Two conditions inside one another and a loop right after them: closing a
\* scope deletes two labels at once there.  They are left out where what is
\* lost is also the label of a jump, with which no code fits the machine.
Surroundings == {"plain", "if", "while", "repeat", "def", "func"}
LabelLost(w, i, j) == i = 14 /\ j = 17 /\ w \in {"plain", "def", "func"}
MCScripts ==
    {<<w, i, j, IF (i + j) % 2 = 0 THEN "words" ELSE "parens">> :
        <<w, i, j>> \in {p \in Surroundings \X (1 .. N) \X (1 .. N) : ~LabelLost(p[1], p[2], p[3])}}
    \cup {"syntax"} \X (1 .. M) \X (1 .. M) \X {"words", "parens"}
    \cup {"operators"} \X (DOMAIN BinaryOps) \X (DOMAIN BinaryOps) \X {"words", "parens"}
MCUnfinished(s) == s[1] \in {"syntax", "operators"}
MCProgram(s) ==
    CASE s[1] = "syntax" -> Sequence(<<SyntaxFragments[s[2]], SyntaxFragments[s[3]], Unary("incr", X)>>)
      [] s[1] = "operators" -> Sequence(<<Nested(BinaryOps[s[2]], BinaryOps[s[3]]), Unary("incr", X)>>)
      [] OTHER -> Sequence(Prelude \o Wrapped(s[1], Fragments(1)[s[2]] \o Fragments(2)[s[3]]) \o Coda)
MCWritten(s) == Stmts(MCProgram(s), s[4])
Meant == INSTANCE Meaning
MCMeaning(s) == Meant!MeaningOf(MCProgram(s))
=============================================================================
