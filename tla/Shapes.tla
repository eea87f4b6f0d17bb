------------------------------- MODULE Shapes -------------------------------
(***************************************************************************)
(* What the emitter (compile/emit.c) promises the machine (vm/exec.c): in   *)
(* front of every instruction of a block it is known what the block has on  *)
(* the operand stack, how many locals it has, and that the instruction      *)
(* finds there what it takes.  The shape of a stack is a sequence of        *)
(*   value      any value                                                   *)
(*   place      a reference to a variable that is there                     *)
(*   number n   the number n                                                *)
(*   block k    a function without the variables that it closes over        *)
(*   group e    values with their number on top, which counts e too few:    *)
(*              arguments, whose number only the machine knows              *)
(* This is an account of the code c of a program, not a part of it: a shape *)
(* is the same on every way through the block k.                            *)
(***************************************************************************)
EXTENDS Machine

\* Whether this is a sequence, of whatever.
IsSeq(s) == Len(s) \in Nat /\ s = [i \in 1 .. Len(s) |-> s[i]]

Some(kind)   == [kind |-> kind]
Counted(n)   == [kind |-> "number", n |-> n]
Unclosed(k)  == [kind |-> "block", block |-> k]
Group(extra) == [kind |-> "group", extra |-> extra]

\* The last n of these are single values, all there is of each of them.
Singles(its, n) == n <= Len(its) /\ \A j \in 0 .. n - 1 : its[Len(its) - j].kind \in {"value", "place", "number"}
Topmost(its)    == IF its = <<>> THEN Some("none") ELSE its[Len(its)]
Less(its, n)    == SubSeq(its, 1, Len(its) - n)
Then(its, it)   == Append(its, it)

\* Arguments with their number on top, and what is below them.
Numbered(its)  == Topmost(its).kind = "number" /\ Singles(its, Topmost(its).n + 1)
Arguments(its) == Topmost(its) = Group(0) \/ Numbered(its)
BelowArguments(its) == IF Numbered(its) THEN Less(its, Topmost(its).n + 1) ELSE Less(its, 1)

\* A function is given the variables that its block counts on.
Upvalues    == {"LD_UPVAL", "LD_UPREF", "ST_UPVAL"}
Closes(c, k, n) == \A i \in DOMAIN c[k] : c[k][i].op \in Upvalues => c[k][i].arg < n

\* Whether the names after this one take more of the values they are given.
OpAt(c, k, i) == IF i \in DOMAIN c[k] THEN c[k][i].op ELSE "OUTSIDE"
TakesMore(c, k, i) ==
    \/ OpAt(c, k, i + 1) \in {"ST_ARG", "LIST_GATHER"}
    \/ (OpAt(c, k, i + 1) = "LD_IMM" /\ OpAt(c, k, i + 2) = "OP_SUB")

----------------------------------------------------------------------------
(* The shape s in front of instruction i of block k, and behind it.         *)

ConstantThere(v) == v.type \in {"int", "string", "symbol"} /\ (v.type = "int" => v.i \in Int)
LocalThere(s, p) == p \in 0 .. s.locals - 1
Drops(op, its) ==
    CASE op = "OP_SUB" -> \/ Singles(its, 2)
                          \/ (Len(its) > 1 /\ Topmost(its).kind = "number" /\ its[Len(its) - 1].kind = "group")
      [] op = "OP_INCR" -> Singles(its, 1) \/ (Topmost(its).kind = "group" /\ Topmost(its).extra > 0)
      [] op = "OP_RANGEINDEX" -> Singles(its, 3)
      [] op \in {"OP_NOT", "OP_DEREF"} -> Singles(its, 1)
      [] OTHER -> Singles(its, 2)

Ready(c, k, i, s) ==
    LET op  == c[k][i].op
        p   == c[k][i].arg
        its == s.items
    IN  CASE op = "LD_IMM"   -> p \in Nat
          [] op = "LD_CONST" -> ConstantThere(p)
          [] op \in {"LD_CTX", "LD_TRUE", "LD_FALSE", "LD_NIL"} -> TRUE
          [] op \in {"LD_VAR", "LD_LREF", "LD_RREF"} -> LocalThere(s, p)
          [] op \in {"LD_UPVAL", "LD_UPREF"} -> p \in Nat
          [] op = "LD_BLK"   -> p \in 2 .. Len(c) /\ (OpAt(c, k, i + 1) = "CLOSURE" \/ Closes(c, p, 0))
          [] op = "ST_VAR"   -> LocalThere(s, p) /\ Singles(its, 1)
          [] op = "ST_UPVAL" -> p \in Nat /\ Singles(its, 1)
          [] op = "ST_ARG"   ->
               /\ LocalThere(s, p)
               /\ Topmost(its) = Group(0) \/ (Numbered(its) /\ Topmost(its).n > 0)
          [] op = "REF_PUT"  -> Singles(its, 2)
          [] op = "POP"      -> Singles(its, 1) \/ (Topmost(its) = Group(0) /\ i = 1)
          [] op = "SWAP"     -> Singles(its, 2) \/ (Singles(its, 1) /\ Topmost(Less(its, 1)).kind = "group")
          [] op = "ALLOC_VARS" -> p \in Nat
          [] op \in Jumps    -> Len(its) = (IF op = "JMP" THEN 0 ELSE 1) /\ Singles(its, Len(its))
          [] op \in Operations -> Drops(op, its)
          [] op \in Indexes  -> Singles(its, 2)
          [] op \in Calls    -> Singles(its, 1) /\ Arguments(Less(its, 1))
          [] op = "LIST_GATHER" -> Topmost(its).kind = "group" \/ Numbered(its)
          [] op = "LIST_SPILL"  -> Singles(its, 1) /\ Arguments(Less(its, 1))
          [] op = "CLOSURE"  ->
               /\ p \in Nat /\ Topmost(its).kind = "block" /\ Closes(c, Topmost(its).block, p)
               /\ p < Len(its) /\ \A j \in 1 .. p : its[Len(its) - j].kind = "place"
          [] op = "RET"      -> Len(its) = 1 /\ Singles(its, 1)
          [] OTHER -> FALSE

Loaded(c, k, i) ==
    LET op == c[k][i].op
    IN  CASE op = "LD_IMM" -> Counted(c[k][i].arg)
          [] op \in {"LD_LREF", "LD_RREF", "LD_UPREF"} -> Some("place")
          [] op = "LD_BLK" /\ OpAt(c, k, i + 1) = "CLOSURE" -> Unclosed(c[k][i].arg)
          [] OTHER -> Some("value")

Stored(c, k, i, its) ==
    LET n == Topmost(its).n
    IN  IF c[k][i].op = "REF_PUT" THEN Less(its, 2)
        ELSE IF c[k][i].op # "ST_ARG" THEN Less(its, 1)
        ELSE IF Numbered(its) THEN IF n = 1 THEN Less(its, 2) ELSE Then(Less(its, 2), Counted(n - 1))
        ELSE IF TakesMore(c, k, i) THEN its ELSE Less(its, 1)

Swapped(its) ==
    LET under == its[Len(its) - 1]
    IN  IF under.kind = "group" THEN Then(Less(its, 2), Group(under.extra + 1))
        ELSE Then(Then(Less(its, 2), Topmost(its)), under)

Operated(op, its) ==
    LET top == Topmost(its)
    IN  IF op = "OP_SUB" /\ its[Len(its) - 1].kind = "group"
        THEN Then(Less(its, 2), Group(its[Len(its) - 1].extra + top.n))
        ELSE IF op = "OP_INCR" /\ top.kind = "group" THEN Then(Less(its, 1), Group(top.extra - 1))
        ELSE IF op \in {"OP_NOT", "OP_DEREF", "OP_INCR"} THEN Then(Less(its, 1), Some("value"))
        ELSE Then(Less(its, IF op = "OP_RANGEINDEX" THEN 3 ELSE 2), Some("value"))

Gathered(op, p, its) ==
    LET top == Topmost(its)
    IN  IF op = "CLOSURE" THEN Then(Less(its, p + 1), Some("value"))
        ELSE IF op = "LIST_SPILL" THEN Then(BelowArguments(Less(its, 1)), Group(0))
        ELSE IF top.kind = "group" THEN Less(its, 1) \o [j \in 1 .. top.extra + 1 |-> Some("value")]
        ELSE Then(BelowArguments(its), Some("value"))

Behind(c, k, i, s) ==
    LET op  == c[k][i].op
        its == s.items
    IN  CASE op \in Loads      -> [s EXCEPT !.items = Then(@, Loaded(c, k, i))]
          [] op \in Stores     -> [s EXCEPT !.items = Stored(c, k, i, @)]
          [] op = "POP"        -> [s EXCEPT !.items = Less(@, 1)]
          [] op = "SWAP"       -> [s EXCEPT !.items = Swapped(@)]
          [] op = "ALLOC_VARS" -> [s EXCEPT !.locals = @ + c[k][i].arg]
          [] op \in Operations -> [s EXCEPT !.items = Operated(op, @)]
          [] op \in Indexes    -> [s EXCEPT !.items = Then(Less(@, 2), Some("value"))]
          [] op \in Calls      -> [s EXCEPT !.items = Then(BelowArguments(Less(@, 1)), Some("value"))]
          [] op \in Gathers    -> [s EXCEPT !.items = Gathered(op, c[k][i].arg, @)]
          [] OTHER             -> [s EXCEPT !.items = <<>>]

\* The program finds an empty stack, a function its arguments.
Entry(k) == [locals |-> 0, items |-> IF k = 1 THEN <<>> ELSE <<Group(0)>>]
ShapeAt(c, k) ==
    LET shape[i \in 1 .. Len(c[k])] == IF i = 1 THEN Entry(k) ELSE Behind(c, k, i - 1, shape[i - 1])
    IN  shape

\* Every instruction of the block finds what it takes; a jump goes where the
\* stack is as it leaves it, between two statements; no way leads to the end.
BlockFits(c, k) ==
    /\ IsSeq(c[k]) /\ c[k] # <<>> /\ OpAt(c, k, Len(c[k])) \in {"RET", "JMP"}
    /\ \A i \in DOMAIN c[k] : Ready(c, k, i, ShapeAt(c, k)[i])
    /\ \A i \in DOMAIN c[k] : c[k][i].op \in Jumps =>
          /\ c[k][i].arg \in DOMAIN c[k]
          /\ ShapeAt(c, k)[c[k][i].arg] = [ShapeAt(c, k)[i] EXCEPT !.items = <<>>]
\* All blocks do, and the program itself closes over nothing.
CodeFits(c) == IsSeq(c) /\ c # <<>> /\ Closes(c, 1, 0) /\ \A k \in DOMAIN c : BlockFits(c, k)
============================================================================
