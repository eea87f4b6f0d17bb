----------------------------- MODULE CFunctions -----------------------------
(***************************************************************************)
(* Methods written in C that call back into the script (vm/exec.c,         *)
(* lib/lib.c, lib/method/list.c, lib/module/global.c).  Such a function    *)
(* cannot wait for its callback: it keeps its state in the locals of a     *)
(* frame and on the operand stack, calls the callback and returns, and the *)
(* machine calls it again when the callback has left its value on the      *)
(* stack.  Callbacks may call further methods, append to the very list     *)
(* being walked, or be methods or built-in functions themselves.           *)
(*                                                                         *)
(* "calls" is kept beside the machine: what each call in progress was      *)
(* given, and what was delivered to it.  The properties are stated in it.  *)
(***************************************************************************)
EXTENDS Integers, Sequences, SequencesExt

CONSTANTS
  Texts,                                      \* the texts a script uses
  MaxLists, MaxLength, MaxFrames, MaxTemps    \* bounds

ASSUME CFunctionsAssumption ==
  {MaxLists, MaxLength, MaxFrames, MaxTemps} \subseteq Nat

VARIABLES
  vstack,     \* the operand stack
  frames,     \* the return stack: what runs, whether it was started, locals
  items,      \* the lists
  panic,      \* "no", or who is to blame for the end of the program
  calls       \* for each frame: the parameters, the object a method is of,
              \* the elements its callback was to get, the values delivered

vars == <<vstack, frames, items, panic, calls>>

(* hVal: a tag and what it says. *)
Nil == <<"nil">>
Text(s) == <<"text", s>>              \* or a number: both convert to a text
Boolean(b) == <<"boolean", b>>
Integer(n) == <<"integer", n>>        \* only counts
Convert == <<"symbol", "convert">>    \* S_OP_TO_STRING
List(l) == <<"list", l>>
Block == <<"block">>                  \* a function of the script
PrintLn == <<"builtin", "println">>
Bound(method, l) == <<"bound", method, l>>
Ref(v) == <<"ref", v>>                \* a reference to a variable holding v

Falsy(v) == v \in {Nil, Boolean(FALSE)}
Methods == {"push", "each", "map", "filter", "reduce", "any", "all"}
Arity(method) == IF method = "reduce" THEN 2 ELSE 1

Machine ==
  [vstack |-> vstack, frames |-> frames, items |-> items, panic |-> panic, calls |-> calls]
Become(m) ==
  /\ vstack' = m.vstack /\ frames' = m.frames /\ items' = m.items
  /\ panic' = m.panic /\ calls' = m.calls

-------------------------------------------------------------------------------
(* The machine's stacks.  Peek(m, 0) is the top. *)
Peek(m, k) == m.vstack[Len(m.vstack) - k]
Pushed(m, s) == [m EXCEPT !.vstack = @ \o s]
Popped(m, n) == [m EXCEPT !.vstack = SubSeq(@, 1, Len(@) - n)]
TopArgs(m, n) == [k \in 1 .. n |-> Peek(m, k - 1)]
Local(m, k) == Last(m.frames).locals[k + 1]
(* A plausible mistake: the frame still counts as not started. *)
WithLocalsAgain(m, locals) == [m EXCEPT !.frames[Len(m.frames)].locals = locals]
WithLocals(m, locals) ==
  [m EXCEPT !.frames[Len(m.frames)].locals = locals, !.frames[Len(m.frames)].fresh = FALSE]
WithLocal(m, k, v) == [m EXCEPT !.frames[Len(m.frames)].locals[k + 1] = v]
Appended(m, list, v) == [m EXCEPT !.items[list[2]] = Append(@, v)]
Panicked(m, who) == [m EXCEPT !.panic = who]

(* A value left on the stack for whoever waits for it *)
Delivered(m, v) ==
  [Pushed(m, <<v>>) EXCEPT !.calls[Len(m.calls)].given = Append(@, v)]

(* call_block, sbVm_call_c_func: a frame.  A C function runs at once, which *)
(* is the next step here.                                                   *)
Entered(m, f, args, object) ==
  [m EXCEPT !.frames = Append(@, [c_func |-> f, fresh |-> f # "block", locals |-> <<>>]),
            !.calls = Append(@, [args |-> args, on |-> object, asked |-> <<>>, given |-> <<>>])]

(* return_from_block *)
Left(m) == [m EXCEPT !.frames = Front(@), !.calls = Front(@)]
Finished(m, v) == Delivered(Left(m), v)

(* sbLib_resolve_method of a list, its own parameters popped *)
MethodCalled(m, method, l, n) ==
  IF n # Arity(method) THEN Panicked(m, "script")
  ELSE IF method = "push" THEN Delivered(Appended(Popped(m, 1), List(l), Peek(m, 0)), Nil)
  ELSE Entered(Pushed(m, <<List(l)>>), method, TopArgs(m, n), List(l))

(* sbVm_call_func: the parameters are on the stack, first on top, and the  *)
(* count above them.  A block starts by taking them (ST_ARG, POP).         *)
FuncCalled(m, f) ==
  LET n == Peek(m, 0)[2]
      args == TopArgs(Popped(m, 1), n)
  IN  IF f[1] \notin {"block", "builtin", "bound"} THEN Panicked(m, "script")
      ELSE IF Peek(m, 0)[1] # "integer" THEN Panicked(m, "internal")
      ELSE CASE f[1] = "block" -> Entered(Popped(m, n + 1), "block", args, f)
             [] f[1] = "builtin" -> Entered(m, "println", args, f)
             [] f[1] = "bound" -> MethodCalled(Popped(m, 1), f[2], f[3], n)

-------------------------------------------------------------------------------
(* The list methods (list_each_cfunc ... list_all_cfunc).  Locals: the     *)
(* list, the index, the callback, and what map, filter and reduce gather.  *)
Started(m, f) ==
  CASE f \in {"each", "any", "all"} ->
         Popped(WithLocals(m, <<Peek(m, 0), 0, Peek(m, 1)>>), 2)
    [] f \in {"map", "filter"} ->
         LET result == List(Len(m.items) + 1)
         IN  [Popped(WithLocals(m, <<Peek(m, 0), 0, Peek(m, 1), result>>), 2)
                EXCEPT !.items = Append(@, <<>>)]
    [] f = "reduce" ->
         Popped(WithLocals(m, <<Peek(m, 0), 0, Peek(m, 2), Peek(m, 1)>>), 3)

(* Plausible mistakes: filter leaves its copy of an element behind, or     *)
(* gathers what the callback said.                                         *)
ResumedLeaving(m, f) ==
  CASE f = "map" -> Popped(Appended(m, Local(m, 3), Peek(m, 0)), 1)
    [] f = "reduce" -> Popped(WithLocal(m, 3, Peek(m, 0)), 1)
    [] f = "filter" /\ ~Falsy(Peek(m, 0)) ->
         Popped(Appended(m, Local(m, 3), Peek(m, 1)), 1)
    [] OTHER -> Popped(m, 1)
ResumedAnswer(m, f) ==
  CASE f = "map" -> Popped(Appended(m, Local(m, 3), Peek(m, 0)), 1)
    [] f = "reduce" -> Popped(WithLocal(m, 3, Peek(m, 0)), 1)
    [] f = "filter" ->
         Popped(IF Falsy(Peek(m, 0)) THEN m ELSE Appended(m, Local(m, 3), Peek(m, 0)), 2)
    [] OTHER -> Popped(m, 1)

(* The callback has left its value on the stack. *)
Resumed(m, f) ==
  CASE f \in {"each", "any", "all"} -> Popped(m, 1)
    [] f = "map" -> Popped(Appended(m, Local(m, 3), Peek(m, 0)), 1)
    [] f = "filter" ->
         Popped(IF Falsy(Peek(m, 0)) THEN m ELSE Appended(m, Local(m, 3), Peek(m, 1)), 2)
    [] f = "reduce" -> Popped(WithLocal(m, 3, Peek(m, 0)), 1)

(* A plausible mistake: the value so far goes on top. *)
OperandsSwapped(m, f, element) ==
  CASE f = "filter" -> <<element, element, Integer(1)>>
    [] f = "reduce" -> <<element, Local(m, 3), Integer(2)>>
    [] OTHER -> <<element, Integer(1)>>

(* What is pushed for one element: filter keeps a copy for itself. *)
Operands(m, f, element) ==
  CASE f = "filter" -> <<element, element, Integer(1)>>
    [] f = "reduce" -> <<Local(m, 3), element, Integer(2)>>
    [] OTHER -> <<element, Integer(1)>>

Result(m, f) ==
  CASE f = "each" -> Nil
    [] f = "any" -> Boolean(FALSE)
    [] f = "all" -> Boolean(TRUE)
    [] OTHER -> Local(m, 3)

(* The rest of each method: the next element, if there is one.  The list's *)
(* length and buffer are fetched again every time.  "asked" is counted     *)
(* from what was delivered, not from the index.                            *)
Asking(m) ==
  LET c == Last(m.calls)
  IN  [m EXCEPT !.calls[Len(m.calls)].asked = Append(@, m.items[c.on[2]][Len(c.given) + 1])]
Advanced(m, f) ==
  LET index == Local(m, 1)
      list == m.items[Local(m, 0)[2]]
      next == WithLocal(m, 1, index + 1)
  IN  IF index < Len(list)
      THEN FuncCalled(Pushed(Asking(next), Operands(m, f, list[index + 1])), Local(m, 2))
      ELSE Finished(next, Result(m, f))

ListFunctions == {"each", "map", "filter", "reduce", "any", "all"}
ListFunction(m, f) ==
  IF Last(m.frames).fresh THEN Advanced(Started(m, f), f)
  ELSE CASE f = "any" /\ ~Falsy(Peek(m, 0)) -> Finished(Popped(m, 1), Boolean(TRUE))
         [] f = "all" /\ Falsy(Peek(m, 0)) -> Finished(Popped(m, 1), Boolean(FALSE))
         [] OTHER -> Advanced(Resumed(m, f), f)

(* println_cfunc: print's nil, left on the stack, becomes println's. *)
PrintLnFunction(m) ==
  IF Last(m.frames).fresh
  THEN Entered(WithLocals(m, <<>>), "print", Last(m.calls).args, Nil)
  ELSE Finished(Popped(m, 1), Peek(m, 0))

(* sbLib_resolve_method for the conversion of a value to a text: at once   *)
(* for a text, by calling a function twice (please_call_again).            *)
Converted(m, v) ==
  CASE v[1] = "text" -> Delivered(m, v)
    [] v[1] \in {"block", "bound"} ->
         Entered(Pushed(m, <<Integer(0), Convert, Integer(1), v>>), "again", <<>>, v)
    [] OTHER -> Panicked(m, "script")

(* A plausible mistake: the count of the parameters left is not put back. *)
NextPrintedUncounted(m) ==
  LET left == Peek(m, 0)
      asking == [m EXCEPT !.calls[Len(m.calls)].asked = Append(@, Peek(m, 1))]
  IN  IF left[1] # "integer" THEN Panicked(m, "internal")
      ELSE IF left[2] = 0 THEN Finished(Popped(m, 1), Nil)
      ELSE Converted(Popped(asking, 2), Peek(m, 1))

(* print_cfunc: the count of the parameters left stays below the one that  *)
(* is being converted.  The code checks that it is a count on the first    *)
(* call and trusts it on the others; a lost one is a failure here as well. *)
NextPrinted(m) ==
  LET left == Peek(m, 0)
      asking == [m EXCEPT !.calls[Len(m.calls)].asked = Append(@, Peek(m, 1))]
  IN  IF left[1] # "integer" THEN Panicked(m, "internal")
      ELSE IF left[2] = 0 THEN Finished(Popped(m, 1), Nil)
      ELSE Converted(Pushed(Popped(asking, 2), <<Integer(left[2] - 1)>>), Peek(m, 1))
PrintFunction(m) ==
  IF Last(m.frames).fresh THEN NextPrinted(WithLocals(m, <<>>))
  ELSE IF Peek(m, 0)[1] # "text" THEN Panicked(m, "script")
  ELSE NextPrinted(Popped(m, 1))

(* please_call_again: the first call asks the object for its method, the   *)
(* second calls the method in place of this frame.                         *)
CallAgainFunction(m) ==
  LET target == Peek(m, 0)
  IN  IF Last(m.frames).fresh THEN FuncCalled(WithLocals(Popped(m, 1), <<>>), target)
      ELSE IF target[1] # "ref" THEN Panicked(m, "script")
      ELSE FuncCalled(Left(Popped(m, 1)), target[2])

CFunction(m) ==
  LET f == Last(m.frames).c_func
  IN  CASE f \in ListFunctions -> ListFunction(m, f)
        [] f = "println" -> PrintLnFunction(m)
        [] f = "print" -> PrintFunction(m)
        [] f = "again" -> CallAgainFunction(m)

-------------------------------------------------------------------------------
Bounded(m) ==
  /\ Len(m.items) <= MaxLists
  /\ \A l \in DOMAIN m.items : Len(m.items[l]) <= MaxLength
  /\ Len(m.frames) <= MaxFrames

Texting == {Text(s) : s \in Texts}
Mine == 1       \* the list the script starts with and calls methods of
Printing == {<<>>} \cup {<<v, Block>> : v \in Texting}     \* what is printed
Functions == {Block, PrintLn} \cup {Bound(f, Mine) : f \in Methods}

(* The script's own block runs; it has one list. *)
Init ==
  /\ vstack = <<>>
  /\ frames = <<[c_func |-> "block", fresh |-> FALSE, locals |-> <<>>]>>
  /\ items = <<<<>>>>
  /\ panic = "no"
  /\ calls = <<[args |-> <<>>, on |-> Nil, asked |-> <<>>, given |-> <<>>]>>

(* execute_instruction while a C function is on top *)
RunCFunction ==
  /\ panic = "no" /\ Last(frames).c_func # "block"
  /\ Bounded(CFunction(Machine))
  /\ Become(CFunction(Machine))

(* The script's code: values left on the stack and taken from it, calls,   *)
(* returns with one value.                                                 *)
Running == panic = "no" /\ Last(frames).c_func = "block"

Compute(v) ==
  /\ Running
  /\ Len(Last(calls).given) < MaxTemps
  /\ Become(Delivered(Machine, v))

Discard ==
  /\ Running
  /\ Last(calls).given # <<>>
  /\ Become([Popped(Machine, 1) EXCEPT !.calls[Len(calls)].given = Front(@)])

Call(f, args) ==
  /\ Running
  /\ Len(Last(calls).given) < MaxTemps
  /\ LET m == FuncCalled(Pushed(Machine, Append(Reverse(args), Integer(Len(args)))), f)
     IN  Bounded(m) /\ Become(m)

Return(v) ==
  /\ Running
  /\ Len(frames) > 1 /\ Last(calls).given = <<>>
  /\ Become(Finished(Machine, v))

Next ==
  \/ RunCFunction
  \/ Discard
  \/ Compute(Nil)
  \/ \E v \in Texting \cup {Nil, Ref(Block)} : Return(v)
  \/ \E v \in Texting \cup {Block} : Call(Bound("push", Mine), <<v>>)
  \/ \E f \in Methods \ {"push", "reduce"}, g \in Functions : Call(Bound(f, Mine), <<g>>)
  \/ \E v \in Texting, g \in Functions : Call(Bound("reduce", Mine), <<v, g>>)
  \/ \E args \in Printing : Call(PrintLn, args)

Spec == Init /\ [][Next]_vars

-------------------------------------------------------------------------------
TypeOK ==
  /\ panic \in {"no", "script", "internal"}
  /\ Len(calls) = Len(frames)
  /\ \A k \in DOMAIN frames :
       /\ frames[k].c_func \in ListFunctions \cup {"block", "println", "print", "again"}
       /\ frames[k].fresh => k = Len(frames) /\ frames[k].locals = <<>>
  /\ \A l \in DOMAIN items : Len(items[l]) <= MaxLength

(* What a call in progress has on the operand stack: the parameters it has *)
(* not taken, what it keeps, the value it has been given.                  *)
Holds(f, fresh, c) ==
  LET answer == IF c.given # <<>> /\ Len(c.given) = Len(c.asked) THEN <<Last(c.given)>> ELSE <<>>
      rest == Reverse(SubSeq(c.args, Len(c.asked) + 1, Len(c.args)))
  IN  CASE f = "block" -> c.given
        [] f \in ListFunctions /\ fresh -> Append(Reverse(c.args), c.on)
        [] f = "filter" /\ ~fresh -> <<Last(c.asked)>> \o answer
        [] f \in ListFunctions \ {"filter"} /\ ~fresh -> answer
        [] f = "println" -> IF fresh THEN Append(rest, Integer(Len(c.args))) ELSE c.given
        [] f = "print" -> Append(rest, Integer(Len(rest))) \o answer
        [] f = "again" -> IF fresh THEN <<Integer(0), Convert, Integer(1), c.on>>
                          ELSE <<Integer(0)>> \o c.given

(* The operand stack is exactly what the calls in progress need, each      *)
(* above its caller's: a method leaves one value in place of its           *)
(* parameters, however often it was interrupted and by what (list.c,       *)
(* global.c, lib.c; "leave function arguments and function return values   *)
(* on the normal stack").                                                  *)
OperandsExact ==
  panic = "no" =>
    vstack = FlattenSeq([k \in DOMAIN frames |-> Holds(frames[k].c_func, frames[k].fresh, calls[k])])

(* The callback of a method gets the elements one by one as they are in    *)
(* the list by then; that of reduce the value of the one before as well.   *)
CallbackGetsElement ==
  \A k \in 1 .. Len(frames) - 1 :
    LET c == calls[k]
        sofar == IF c.given = <<>> THEN c.args[1] ELSE Last(c.given)
    IN  /\ frames[k].c_func \in ListFunctions
        /\ frames[k + 1].c_func \notin {"again", "print"}
        => calls[k + 1].args = IF frames[k].c_func = "reduce" THEN <<Last(c.asked), sofar>>
                               ELSE <<Last(c.asked)>>

(* The positions of the elements a callback said yes to, and the elements  *)
(* there in their order                                                    *)
Picked(c) == {k \in DOMAIN c.given : ~Falsy(c.given[k])}
AreKept(kept, c) ==
  \E from \in [DOMAIN kept -> Picked(c)] :
    /\ \A k \in Picked(c) : \E j \in DOMAIN kept : from[j] = k
    /\ \A i, j \in DOMAIN kept : i < j => from[i] < from[j]
    /\ \A j \in DOMAIN kept : kept[j] = c.asked[from[j]]

(* A method ends with the value its name promises: a function of the       *)
(* elements and of what its callback said of each of them, the elements    *)
(* appended meanwhile included, whatever calls came between.               *)
Promised(f, c, value) ==
  LET all == Len(c.given) = Len(items[c.on[2]])
  IN  CASE f = "each" -> value = Nil /\ all
        [] f = "map" -> items'[value[2]] = c.given /\ all
        [] f = "filter" -> AreKept(items'[value[2]], c) /\ all
        [] f = "reduce" -> all /\ value = IF c.given = <<>> THEN c.args[1] ELSE Last(c.given)
        [] f = "any" -> value = Boolean(Picked(c) # {}) /\ (all \/ Picked(c) # {})
        [] f = "all" -> /\ value = Boolean(Picked(c) = DOMAIN c.given)
                        /\ all \/ Picked(c) # DOMAIN c.given
        [] f = "println" -> value = Nil
        [] f = "print" -> value = Nil /\ c.asked = c.args
        [] OTHER -> TRUE
Finishes == panic' = "no" /\ Len(calls') = Len(calls) - 1
ResultsAsPromised ==
  [][Finishes => Promised(Last(frames).c_func, Last(calls), Last(Last(calls').given))]_vars

(* The program never ends in a CHECK: no chain of calls, however the       *)
(* callbacks are mixed, loses the count of its parameters (lib.c, exec.c). *)
NoInternalFailure == panic # "internal"
===============================================================================
