------------------------------- MODULE Lexer -------------------------------
(***************************************************************************)
(* parse/lexer.c: the pass between the scanner and the parser.  It reads    *)
(* the scanner's tokens, spaces and newlines among them, and writes the     *)
(* tokens the parser sees: spaces and newlines are gone, and in their place *)
(* stand invisible parentheses around the arguments of a call written       *)
(* without them and invisible semicolons at the ends of lines.              *)
(*                                                                          *)
(* A token is a record with its type and its invisible flag (0: written in  *)
(* the program; 1: inserted; 2: the sticky parenthesis before a `:{'), and, *)
(* where the type has one, its value.  A type of one character is that      *)
(* character, as in parse/token.h.  A token keeps neither its place nor its *)
(* spelling: they are for messages.                                         *)
(***************************************************************************)
EXTENDS Integers, Sequences, FiniteSets, FiniteSetsExt

VARIABLES
    input,           \* the scanner's tokens that have not been read
    output,          \* the tokens written for the parser
    brackets_stack,  \* brackets that are open, and "B" in the header of a block
    last_token_seen  \* the last token that was neither a space nor a newline

lexerVars == <<input, output, brackets_stack, last_token_seen>>

Token(type)         == [type |-> type, invisible |-> 0]
Inserted(type, how) == [type |-> type, invisible |-> how]

Literals  == {"identifier", "string", "integer", "symbol", "true", "false", "nil"}
Opening   == {"(", "[", "{", ":{"}
Closing   == {")", "]", "}"}

InsertSemicolonAfter  == Literals \cup Closing \cup {"++", "--"}
CancelSemicolonBefore == Closing \cup {".", "|"}

\* What a word and a space can be followed by for the word to be a call.
CanOnlyStartExpression(inHeader) ==
    Literals \cup {"(", "[", ":{", "=>", "~>", "not", "do"} \cup (IF inHeader THEN {} ELSE {"{"})
MaybeStartExpression == {"+", "-", "*", "&", "..."}
StartWithoutSpace(inHeader) == CanOnlyStartExpression(inHeader) \ {"[", "("}

CanOpenParenAfter == {"identifier", "<~", ")", "]"}

\* Tokens that open the header of a block, which lasts until its brace.
BeginsHeader            == {"def", "while", "until", "do", "repeat", "case", "match", "when", "=>", "~>"}
BeginsHeaderAtLineStart == {"if", "unless"}
LineStart               == {";", "{", "}", "else"}
HeaderEndsAfter ==
    CanOpenParenAfter \cup Literals \cup {"=>", "~>", "case", "repeat", "...", "do"}

\* Mutant of CloseParensBefore: a pipe is taken into the call before it.
CloseParensBeforeWords == {";", "if", "unless"}
CloseParensBefore == {";", "if", "unless", "|"}

----------------------------------------------------------------------------
(* The lexer's own state during one step: its brackets, its output.         *)

TopOf(stack) == IF stack = <<>> THEN "none" ELSE stack[Len(stack)]
Popped(stack) == SubSeq(stack, 1, Len(stack) - 1)

\* The mark a token that opens a bracket leaves on the stack.
Mark(token) ==
    IF token.type = "(" /\ token.invisible = 1 THEN "G"
    ELSE IF token.type = "(" /\ token.invisible = 2 THEN "H"
    ELSE token.type

\* Whether, invisible parentheses aside, the header of a block is open.
InHeader(stack) ==
    LET visible == {i \in DOMAIN stack : stack[i] \notin {"G", "H"}}
    IN  visible # {} /\ stack[Max(visible)] = "B"

\* Closes the invisible parentheses with this mark that are open on top.
Unstack(lx, mark) ==
    LET n == Max({k \in 0 .. Len(lx.stack) :
                     \A i \in 0 .. k - 1 : lx.stack[Len(lx.stack) - i] = mark})
    IN  [stack |-> SubSeq(lx.stack, 1, Len(lx.stack) - n),
         out   |-> lx.out \o [i \in 1 .. n |-> Inserted(")", 1)]]

\* Mutant of UnstackVisible: invisible parentheses are forgotten, not closed.
UnstackUnwritten(lx, token) ==
    IF lx.stack = <<>> THEN lx ELSE [lx EXCEPT !.stack = Popped(Unstack(lx, "G").stack)]

\* Before a bracket that is written closes: its own mark must be on top.
UnstackVisible(lx, token) ==
    LET l == Unstack(lx, "G")
        opener == [x \in Closing |-> CASE x = ")" -> {"("} [] x = "]" -> {"["} [] OTHER -> {"{", ":{"}]
    IN  IF TopOf(l.stack) \in opener[token.type]
        THEN [l EXCEPT !.stack = Popped(@)]
        ELSE [l EXCEPT !.out = Append(@, Token("wrongbracket"))]

Enqueue(lx, token) ==
    LET closes == token.type \in Closing /\ token.invisible = 0
        before == IF closes THEN UnstackVisible(lx, token) ELSE lx
        placed == [before EXCEPT !.out = Append(@, token)]
        after  == IF closes THEN Unstack(placed, "H") ELSE placed
    IN  IF token.type \in Opening THEN [after EXCEPT !.stack = Append(@, Mark(token))] ELSE after

----------------------------------------------------------------------------
(* One token of the input.                                                  *)

\* An arrow takes its parameters in parentheses, written or not.
OpenParameters(lx, token) ==
    IF last_token_seen.type \in {"=>", "~>"} /\ token.type \notin {"space", "newline", "("}
    THEN Enqueue(lx, Inserted("(", 1)) ELSE lx

\* A brace after the end of an expression ends the header of a block.
LeaveHeader(lx, token) ==
    IF InHeader(lx.stack) /\ last_token_seen.type \in HeaderEndsAfter /\ token.type = "{"
    THEN LET l == Unstack(lx, "G") IN [l EXCEPT !.stack = Popped(@)]
    ELSE lx

CloseParens(lx, token) == IF token.type \in CloseParensBefore THEN Unstack(lx, "G") ELSE lx

EnterHeader(lx, token) ==
    IF /\ \/ token.type \in BeginsHeader
          \/ token.type \in BeginsHeaderAtLineStart /\ last_token_seen.type \in LineStart
       /\ last_token_seen.type # "}"
    THEN [lx EXCEPT !.stack = Append(@, "B")] ELSE lx

Output(lx, token) == IF token.type \in {"space", "newline"} THEN lx ELSE Enqueue(lx, token)

\* The type of the k-th token that has not been read, counted from 0.
PeekType(rest, k) == IF k < Len(rest) THEN rest[k + 1].type ELSE "eof"

\* A word, or a closing bracket, followed by an argument: a call.
OpenCall(lx, token, rest) ==
    LET inHeader == InHeader(lx.stack)
        spaced   == PeekType(rest, 0) = "space"
        noSpace  == token.type # "identifier" /\ PeekType(rest, 0) \in StartWithoutSpace(inHeader)
        offset   == IF spaced THEN 1 ELSE 0
        next     == PeekType(rest, offset)
    IN  IF token.type \notin CanOpenParenAfter THEN lx
        ELSE IF PeekType(rest, 0) = ":{" THEN Enqueue(lx, Inserted("(", 2))
        ELSE IF /\ spaced \/ noSpace
                /\ \/ next \in CanOnlyStartExpression(inHeader)
                   \/ next \in MaybeStartExpression /\ PeekType(rest, offset + 1) # "space"
        THEN Enqueue(lx, Inserted("(", 1))
        ELSE lx

\* The end of a line: a semicolon, unless the next line goes on.
EndsLine(token, last) == token.type = "newline" /\ last.type \in InsertSemicolonAfter
EndsStatement(token, last, rest) ==
    EndsLine(token, last) /\ PeekType(rest, 0) \notin CancelSemicolonBefore
EndLine(lx, token, last, rest) ==
    IF ~EndsLine(token, last) THEN lx
    ELSE IF ~EndsStatement(token, last, rest) THEN Unstack(lx, "G")
    ELSE LET l == Enqueue(Unstack(lx, "G"), Inserted(";", 1))
         IN  IF TopOf(l.stack) = "B" THEN [l EXCEPT !.stack = Popped(@)] ELSE l

LexerInit(tokens) ==
    /\ input = tokens
    /\ output = <<>>
    /\ brackets_stack = <<>>
    /\ last_token_seen = Token("null")

compute_next_token ==
    /\ input # <<>>
    /\ LET token == Head(input)
           rest  == Tail(input)
           last  == IF token.type \in {"space", "newline"} THEN last_token_seen ELSE token
           l0    == [stack |-> brackets_stack, out |-> output]
           l1    == EnterHeader(CloseParens(LeaveHeader(OpenParameters(l0, token), token), token), token)
           l2    == EndLine(OpenCall(Output(l1, token), token, rest), token, last, rest)
       IN  /\ input' = rest
           /\ output' = l2.out
           /\ brackets_stack' = l2.stack
           /\ last_token_seen' = IF EndsStatement(token, last, rest) THEN Inserted(";", 1) ELSE last
============================================================================
