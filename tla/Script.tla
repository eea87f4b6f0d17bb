------------------------------- MODULE Script -------------------------------
(***************************************************************************)
(* main.c: a script from its tokens to what it prints.  The lexer, the      *)
(* parser, the compiler, the emitter and the machine follow each other;     *)
(* each gets what the one before it made, and gives up its own state.  The  *)
(* three in the middle keep none and are constants here.                    *)
(***************************************************************************)
EXTENDS Lexer, Shapes

CONSTANTS
    Scripts,           \* the scripts
    Program(_),        \* the syntax tree that is meant by a script
    Written(_),        \* the scanner's tokens of it as it is written down
    Unfinished(_),     \* scripts with syntax the compiler does not have yet
    Meaning(_),        \* what a script prints and whether it fails (module Meaning)
    ParseTokens(_),    \* do_parse of module Parser
    CompileTree(_),    \* compile_ast of module Scopes
    EmitProgram(_),    \* sbEmit_compile_program of module Codegen
    MaxSteps           \* instructions after which a script is given up

VARIABLES
    phase,    \* "lex", "parsed", "compiled", "run" or "failed"
    meant,    \* the script: only the properties read it
    ast,
    ir,       \* once emitted, only the properties read it (misclosed)
    steps     \* instructions executed, which only the bound and the properties read

vars == <<lexerVars, code, vm, phase, meant, ast, ir, steps>>

\* The scanner writes no invisible tokens.
ScannerTokens(tokens) == IsSeq(tokens) /\ \A i \in DOMAIN tokens : tokens[i].invisible = 0
ASSUME WrittenAssumption == \A s \in Scripts : ScannerTokens(Written(s))

NO_AST == [type |-> "none"]
NO_IR  == [chunks |-> <<>>, misclosed |-> FALSE]

Init ==
    /\ phase = "lex" /\ ast = NO_AST /\ ir = NO_IR /\ code = <<>>
    /\ vm = [status |-> "none"] /\ steps = 0
    /\ meant \in Scripts
    /\ LexerInit(Written(meant))

Lex ==
    /\ phase = "lex"
    /\ compute_next_token
    /\ UNCHANGED <<code, vm, phase, meant, ast, ir, steps>>

Parse ==
    /\ phase = "lex" /\ input = <<>>
    /\ ast' = ParseTokens(output)
    /\ phase' = IF ast'.type = "error" THEN "failed" ELSE "parsed"
    /\ output' = <<>>
    /\ UNCHANGED <<input, brackets_stack, last_token_seen, code, vm, meant, ir, steps>>

Compile ==
    /\ phase = "parsed"
    /\ ir' = CompileTree(ast)
    /\ phase' = IF ir'.panic \/ ir'.errors > 0 THEN "failed" ELSE "compiled"
    /\ ast' = NO_AST
    /\ UNCHANGED <<lexerVars, code, vm, meant, steps>>

Supported(blocks) == \A k \in DOMAIN blocks : \A p \in DOMAIN blocks[k] : blocks[k][p].op # "PANIC"

Emit ==
    /\ phase = "compiled"
    /\ code' = EmitProgram(ir)
    /\ phase' = IF Supported(code') THEN "run" ELSE "failed"
    /\ vm' = sbVm_initialize
    /\ ir' = [NO_IR EXCEPT !.misclosed = ir.misclosed]
    /\ UNCHANGED <<lexerVars, meant, ast, steps>>

Execute ==
    /\ phase = "run" /\ steps <= MaxSteps
    /\ execute_instruction
    /\ steps' = steps + 1
    /\ UNCHANGED <<lexerVars, phase, meant, ast, ir>>

Ended == phase = "failed" \/ (phase = "run" /\ vm.status # "running")

Next == Lex \/ Parse \/ Compile \/ Emit \/ Execute
Spec == Init /\ [][Next]_vars

----------------------------------------------------------------------------
(* Properties.                                                              *)

\* Whether the pointers among these variables point into the heap.
Pointed(m, held) == \A i \in DOMAIN held : held[i].type = "heapvar" => held[i].at \in DOMAIN m.heap
\* Phases, and the shapes of what the machine keeps.
TypeOK ==
    /\ phase \in {"lex", "parsed", "compiled", "run", "failed"}
    /\ \A i \in DOMAIN brackets_stack : brackets_stack[i] \in Opening \cup {"G", "H", "B"}
    /\ phase = "run" =>
          /\ vm.status \in {"running", "stopped", "panic"}
          /\ \A f \in DOMAIN vm.frames :
                /\ vm.frames[f].block \in DOMAIN code
                /\ vm.frames[f].ip \in 1 .. Len(code[vm.frames[f].block]) + 1
                /\ vm.frames[f].closure \in 0 .. Len(vm.closures)
                /\ vm.frames[f].base \in 0 .. Len(vm.vstack)
                /\ Pointed(vm, vm.frames[f].locals)
          /\ \A k \in DOMAIN vm.closures : Pointed(vm, vm.closures[k])
          /\ \A l \in DOMAIN vm.lists : Pointed(vm, vm.lists[l])

\* The marks of the brackets that output leaves open, found by counting.
LeftOpen(tokens) ==
    LET open[i \in 0 .. Len(tokens)] ==
            IF i = 0 THEN <<>>
            ELSE IF tokens[i].type \in Opening THEN Append(open[i - 1], Mark(tokens[i]))
            ELSE IF tokens[i].type \in Closing THEN Front(open[i - 1])
            ELSE open[i - 1]
    IN  open[Len(tokens)]

\* The marks of a stack without those of headers.
Brackets(stack) ==
    LET kept[i \in 0 .. Len(stack)] ==
            IF i = 0 THEN <<>>
            ELSE IF stack[i] = "B" THEN kept[i - 1] ELSE Append(kept[i - 1], stack[i])
    IN  kept[Len(stack)]

\* The lexer's brackets are those of the tokens it has written, headers aside:
\* an invisible parenthesis is closed before whatever it stands in, as long as
\* no bracket that is written closes one of another kind.
\* (brackets_stack in lexer.c, and the queue of tokens the parser will see.)
BracketsTracked ==
    phase = "lex" /\ (\A i \in DOMAIN output : output[i].type # "wrongbracket")
        => Brackets(brackets_stack) = LeftOpen(output)

\* Written with spaces and lines or with brackets and semicolons, a program
\* has one syntax tree: the one it was written from.
ReadAsMeant == phase = "parsed" => ast = Program(meant)


\* A list of names is given as many values as it has: what the last of them
\* takes is the last value, a splat leaves those for the names after it, and a
\* function without parameters is given none.
ArgumentsMatch ==
    LET count == Peek(vm, 0).i
    IN  /\ At.op = "ST_ARG" => count > 0 /\ (count = 1 <=> ~TakesMore(code, Fp(vm).block, Fp(vm).ip))
        /\ At.op = "LIST_GATHER" => count >= 0
        /\ At.op = "POP" /\ Fp(vm).ip = 1 => count = 0

\* The code that is emitted fits the machine: there is a shape of the operand
\* stack in front of every instruction with which it finds what it takes; and
\* the number of arguments, which no code can know, is that of the parameters
\* (ST_ARG counts it down; emit.c:97 leaves it to the script).
CodeFitsMachine ==
    phase = "run" => /\ steps = 0 => CodeFits(code)
                     /\ vm.status = "running" => ArgumentsMatch

\* An instruction finds the variable it names: the frame has as many locals
\* and the closure as many variables as its block counts on.
VariablesThere ==
    phase = "run" /\ vm.status = "running" =>
        /\ At.op \in {"LD_VAR", "LD_LREF", "LD_RREF", "ST_VAR", "ST_ARG"} => At.arg < Len(Fp(vm).locals)
        /\ At.op \in {"LD_UPVAL", "LD_UPREF", "ST_UPVAL"} =>
              Fp(vm).closure # 0 /\ At.arg < Len(vm.closures[Fp(vm).closure])

\* An instruction finds its operands above what the caller had on the stack,
\* and a function returns with exactly its value there: what it was given
\* has been taken.  No block is left at its end.
OperandsThere ==
    phase = "run" /\ vm.status = "running" =>
        /\ At.op # "OUTSIDE"
        /\ Fp(vm).base + Taken(vm, At.op, At.arg) <= Len(vm.vstack)
        /\ At.op = "RET" => Len(vm.vstack) = Fp(vm).base + 1

\* The program prints what its syntax tree means, and fails when that does;
\* and it comes to its end far sooner than it is given up: no jump leads into a
\* loop that is not the program's.  It is otherwise with one fault alone, the
\* one named above: a loop has then lost the statement that would end it, and
\* the program is given up.
RunsAsMeant ==
    /\ steps > MaxSteps => ir.misclosed
    /\ phase = "failed" => Unfinished(meant)
    /\ Ended /\ phase = "run" =>
          /\ ~ir.misclosed
          /\ vm.printed = Meaning(meant).printed
          /\ vm.status = IF Meaning(meant).bad THEN "panic" ELSE "stopped"
=============================================================================
