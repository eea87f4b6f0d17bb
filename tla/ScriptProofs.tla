------------------------------ MODULE ScriptProofs ------------------------------
(***************************************************************************)
(* Proofs about Script.tla, for every script and whatever the parser, the   *)
(* compiler and the emitter are.                                            *)
(*                                                                          *)
(* The lexer keeps its brackets: LexerInv relates its stack to what counting *)
(* the tokens it has written leaves open.                                   *)
(*                                                                          *)
(* The machine is safe with code that fits it, as a machine with a bytecode *)
(* verifier is: CodeFits gives every instruction a shape of the operand     *)
(* stack, and MachInv says that the stack, the locals and the closure of    *)
(* every frame are laid out as the shape of its next instruction asks, that *)
(* what points somewhere points to something that is there, and that a      *)
(* frame that has called waits for one value.  The theorems assume what no  *)
(* such check can know and the run Script checks: CodeFitsMachine.          *)
(***************************************************************************)
EXTENDS Script, SequenceTheorems, WellFoundedInduction, TLAPS

-------------------------------------------------------------------------------
(***************************************************************************)
(* Induction over sets, which needs no operator as a parameter.             *)
(***************************************************************************)
LEMMA LeastElement ==
  ASSUME NEW S \in SUBSET Nat, S # {}
  PROVE  \E j \in S : \A l \in S : j <= l
<1>1. PICK j \in S : \A l \in S : ~(<<l, j>> \in OpToRel(<, Nat))
  BY NatLessThanWellFounded, WFMin, Zenon
<1>2. \A l \in S : ~(l < j)
  BY <1>1 DEF OpToRel
<1> QED
  BY <1>2

(* A set that holds 0 and with each number the next one holds all. *)
LEMMA Reached ==
  ASSUME NEW S, 0 \in S, \A n \in Nat : n \in S => n + 1 \in S
  PROVE  Nat \subseteq S
<1> DEFINE Out == {n \in Nat : n \notin S}
<1>1. SUFFICES ASSUME Out # {} PROVE FALSE
  OBVIOUS
<1>2. PICK n \in Out : \A l \in Out : n <= l
  <2>1. Out \in SUBSET Nat
    OBVIOUS
  <2> HIDE DEF Out
  <2> QED
    BY <1>1, <2>1, LeastElement
<1>3. n \in Nat /\ n \notin S /\ n # 0
  OBVIOUS
<1>4. n - 1 \in Nat /\ (n - 1) + 1 = n /\ ~(n <= n - 1)
  BY <1>3
<1>5. n - 1 \notin Out
  <2> HIDE DEF Out
  <2> QED
    BY <1>2, <1>4
<1> QED
  BY <1>3, <1>4, <1>5

-------------------------------------------------------------------------------
(***************************************************************************)
(* The lexer.  Its stack holds marks, its queues tokens.                     *)
(***************************************************************************)
Marks  == Opening \cup {"G", "H"}
Levels == Marks \cup {"B"}
Scanned == {t \in UNION {{Written(s)[i] : i \in DOMAIN Written(s)} : s \in Scripts} : t.invisible = 0}
Made    == {Inserted("(", 1), Inserted("(", 2), Inserted(")", 1), Inserted(";", 1), Token("wrongbracket")}
Tokens  == Scanned \cup Made

LEMMA WrittenIsScanned ==
  ASSUME NEW s \in Scripts
  PROVE  Written(s) \in Seq(Scanned)
<1>1. ScannerTokens(Written(s))
  BY WrittenAssumption
<1> DEFINE n == Len(Written(s))
<1>2. n \in Nat /\ Written(s) = [i \in 1 .. n |-> Written(s)[i]]
  BY <1>1 DEF ScannerTokens, IsSeq
<1>3. DOMAIN Written(s) = 1 .. n
  BY <1>2
<1>4. \A i \in 1 .. n : Written(s)[i] \in Scanned
  BY <1>1, <1>3 DEF ScannerTokens, Scanned
<1> HIDE DEF n
<1>5. [i \in 1 .. n |-> Written(s)[i]] \in [1 .. n -> Scanned]
  BY <1>4
<1>6. Written(s) \in [1 .. n -> Scanned]
  BY <1>2, <1>5
<1> QED
  BY <1>2, <1>6

(* Brackets is computed step by step. *)
Kept(g, stack, n) ==
  g = [i \in 0 .. n |-> IF i = 0 THEN <<>> ELSE IF stack[i] = "B" THEN g[i - 1] ELSE Append(g[i - 1], stack[i])]
LEMMA KeptExists ==
  ASSUME NEW stack, NEW n \in Nat
  PROVE  \E g : Kept(g, stack, n)
<1> DEFINE S == {m \in Nat : \E g : Kept(g, stack, m)}
<1>1. 0 \in S
  <2> DEFINE g == [i \in 0 .. 0 |-> <<>>]
  <2>1. Kept(g, stack, 0)
    BY DEF Kept
  <2> QED
    BY <2>1
<1>2. ASSUME NEW m \in Nat, m \in S PROVE m + 1 \in S
  <2>1. PICK g : Kept(g, stack, m)
    BY <1>2
  <2> DEFINE x == IF stack[m + 1] = "B" THEN g[m] ELSE Append(g[m], stack[m + 1])
             h == [i \in 0 .. m + 1 |-> IF i = m + 1 THEN x ELSE g[i]]
  <2>2. \A i \in 0 .. m : h[i] = g[i]
    OBVIOUS
  <2>3. h[m + 1] = x /\ h = [i \in 0 .. m + 1 |-> h[i]]
    OBVIOUS
  <2>4. \A i \in 0 .. m : g[i] = IF i = 0 THEN <<>> ELSE IF stack[i] = "B" THEN g[i - 1] ELSE Append(g[i - 1], stack[i])
    BY <2>1 DEF Kept
  <2>5. ASSUME NEW i \in 0 .. m + 1
        PROVE h[i] = IF i = 0 THEN <<>> ELSE IF stack[i] = "B" THEN h[i - 1] ELSE Append(h[i - 1], stack[i])
    <3>1. CASE i = m + 1
      <4>1. h[i - 1] = g[m] /\ i # 0
        BY <2>2, <3>1
      <4> QED
        BY <2>3, <3>1, <4>1
    <3>2. CASE i # m + 1 /\ i # 0
      <4>1. i \in 0 .. m /\ i - 1 \in 0 .. m
        BY <3>2
      <4>2. h[i] = g[i] /\ h[i - 1] = g[i - 1]
        BY <2>2, <4>1
      <4> HIDE DEF h
      <4> QED
        BY <2>4, <3>2, <4>1, <4>2
    <3>3. CASE i = 0
      BY <2>1, <2>2, <2>4, <3>3
    <3> QED
      BY <3>1, <3>2, <3>3
  <2> HIDE DEF h
  <2>6. Kept(h, stack, m + 1)
    BY <2>3, <2>5 DEF Kept
  <2> QED
    BY <2>6
<1> HIDE DEF S
<1>3. n \in S
  BY <1>1, <1>2, Reached
<1> QED
  BY <1>3 DEF S

LEMMA KeptAgree ==
  ASSUME NEW s, NEW t, NEW m \in Nat, NEW n \in Nat, NEW g, NEW h, Kept(g, s, m), Kept(h, t, n),
         NEW k \in Nat, k <= m, k <= n, \A i \in 1 .. k : s[i] = t[i]
  PROVE  g[k] = h[k]
<1> DEFINE S == {j \in Nat : j <= k => g[j] = h[j]}
<1>1. 0 \in S
  BY DEF Kept
<1>2. ASSUME NEW j \in Nat, j \in S PROVE j + 1 \in S
  <2>1. SUFFICES ASSUME j + 1 <= k PROVE g[j + 1] = h[j + 1]
    OBVIOUS
  <2>2. g[j] = h[j] /\ s[j + 1] = t[j + 1]
    BY <1>2, <2>1
  <2>3. j + 1 \in 0 .. m /\ j + 1 \in 0 .. n /\ j + 1 # 0 /\ (j + 1) - 1 = j
    BY <2>1
  <2>4. g[j + 1] = IF s[j + 1] = "B" THEN g[j] ELSE Append(g[j], s[j + 1])
    BY <2>3 DEF Kept
  <2>5. h[j + 1] = IF t[j + 1] = "B" THEN h[j] ELSE Append(h[j], t[j + 1])
    BY <2>3 DEF Kept
  <2> QED
    BY <2>2, <2>4, <2>5
<1> HIDE DEF S
<1>3. k \in S
  BY <1>1, <1>2, Reached
<1> QED
  BY <1>3 DEF S

LEMMA BracketsIs ==
  ASSUME NEW stack, Len(stack) \in Nat
  PROVE  \E g : Kept(g, stack, Len(stack)) /\ Brackets(stack) = g[Len(stack)]
<1> DEFINE f == CHOOSE g : Kept(g, stack, Len(stack))
<1>1. Brackets(stack) = f[Len(stack)]
  BY Zenon DEF Brackets, Kept
<1>2. \E g : Kept(g, stack, Len(stack))
  BY KeptExists
<1>3. Kept(f, stack, Len(stack))
  BY <1>2, Zenon
<1> QED
  BY <1>1, <1>3, Zenon

(* LeftOpen is computed step by step. *)
OpenAfter(token, open) ==
  IF token.type \in Opening THEN Append(open, Mark(token))
  ELSE IF token.type \in Closing THEN Front(open) ELSE open
Opened(g, tokens, n) == g = [i \in 0 .. n |-> IF i = 0 THEN <<>> ELSE OpenAfter(tokens[i], g[i - 1])]
LEMMA OpenedExists ==
  ASSUME NEW tokens, NEW n \in Nat
  PROVE  \E g : Opened(g, tokens, n)
<1> DEFINE S == {m \in Nat : \E g : Opened(g, tokens, m)}
<1>1. 0 \in S
  <2> DEFINE g == [i \in 0 .. 0 |-> <<>>]
  <2>1. Opened(g, tokens, 0)
    BY DEF Opened
  <2> QED
    BY <2>1
<1>2. ASSUME NEW m \in Nat, m \in S PROVE m + 1 \in S
  <2>1. PICK g : Opened(g, tokens, m)
    BY <1>2
  <2> DEFINE x == OpenAfter(tokens[m + 1], g[m])
             h == [i \in 0 .. m + 1 |-> IF i = m + 1 THEN x ELSE g[i]]
  <2>2. \A i \in 0 .. m : h[i] = g[i]
    OBVIOUS
  <2>3. h[m + 1] = x /\ h = [i \in 0 .. m + 1 |-> h[i]]
    OBVIOUS
  <2>4. \A i \in 0 .. m : g[i] = IF i = 0 THEN <<>> ELSE OpenAfter(tokens[i], g[i - 1])
    BY <2>1 DEF Opened
  <2>5. ASSUME NEW i \in 0 .. m + 1
        PROVE h[i] = IF i = 0 THEN <<>> ELSE OpenAfter(tokens[i], h[i - 1])
    <3>1. CASE i = m + 1
      <4>1. h[i - 1] = g[m] /\ i # 0
        BY <2>2, <3>1
      <4> QED
        BY <2>3, <3>1, <4>1
    <3>2. CASE i # m + 1 /\ i # 0
      <4>1. i \in 0 .. m /\ i - 1 \in 0 .. m
        BY <3>2
      <4>2. h[i] = g[i] /\ h[i - 1] = g[i - 1]
        BY <2>2, <4>1
      <4> HIDE DEF h
      <4> QED
        BY <2>4, <3>2, <4>1, <4>2
    <3>3. CASE i = 0
      BY <2>1, <2>2, <2>4, <3>3
    <3> QED
      BY <3>1, <3>2, <3>3
  <2> HIDE DEF h
  <2>6. Opened(h, tokens, m + 1)
    BY <2>3, <2>5 DEF Opened
  <2> QED
    BY <2>6
<1> HIDE DEF S
<1>3. n \in S
  BY <1>1, <1>2, Reached
<1> QED
  BY <1>3 DEF S

LEMMA OpenedAgree ==
  ASSUME NEW s, NEW t, NEW m \in Nat, NEW n \in Nat, NEW g, NEW h, Opened(g, s, m), Opened(h, t, n),
         NEW k \in Nat, k <= m, k <= n, \A i \in 1 .. k : s[i] = t[i]
  PROVE  g[k] = h[k]
<1> DEFINE S == {j \in Nat : j <= k => g[j] = h[j]}
<1>1. 0 \in S
  BY DEF Opened
<1>2. ASSUME NEW j \in Nat, j \in S PROVE j + 1 \in S
  <2>1. SUFFICES ASSUME j + 1 <= k PROVE g[j + 1] = h[j + 1]
    OBVIOUS
  <2>2. g[j] = h[j] /\ s[j + 1] = t[j + 1]
    BY <1>2, <2>1
  <2>3. j + 1 \in 0 .. m /\ j + 1 \in 0 .. n /\ j + 1 # 0 /\ (j + 1) - 1 = j
    BY <2>1
  <2>4. g[j + 1] = OpenAfter(s[j + 1], g[j])
    BY <2>3 DEF Opened
  <2>5. h[j + 1] = OpenAfter(t[j + 1], h[j])
    BY <2>3 DEF Opened
  <2> QED
    BY <2>2, <2>4, <2>5
<1> HIDE DEF S
<1>3. k \in S
  BY <1>1, <1>2, Reached
<1> QED
  BY <1>3 DEF S

LEMMA LeftOpenIs ==
  ASSUME NEW tokens, Len(tokens) \in Nat
  PROVE  \E g : Opened(g, tokens, Len(tokens)) /\ LeftOpen(tokens) = g[Len(tokens)]
<1> DEFINE f == CHOOSE g : Opened(g, tokens, Len(tokens))
<1>1. LeftOpen(tokens) = f[Len(tokens)]
  BY Zenon DEF LeftOpen, Opened, OpenAfter
<1>2. \E g : Opened(g, tokens, Len(tokens))
  BY OpenedExists
<1>3. Opened(f, tokens, Len(tokens))
  BY <1>2, Zenon
<1> QED
  BY <1>1, <1>3, Zenon

(* What one more mark, or one more token, makes of it. *)
LEMMA AppendedIs ==
  ASSUME NEW S, NEW s \in Seq(S), NEW x \in S
  PROVE  /\ Append(s, x) \in Seq(S) /\ Len(Append(s, x)) = Len(s) + 1
         /\ Append(s, x)[Len(s) + 1] = x /\ \A i \in 1 .. Len(s) : Append(s, x)[i] = s[i]
OBVIOUS

LEMMA BracketsEmpty == Brackets(<<>>) = <<>>
<1>1. Len(<<>>) = 0 /\ Len(<<>>) \in Nat
  OBVIOUS
<1>2. PICK g : Kept(g, <<>>, 0) /\ Brackets(<<>>) = g[0]
  BY <1>1, BracketsIs
<1> QED
  BY <1>2 DEF Kept

LEMMA BracketsAppend ==
  ASSUME NEW s \in Seq(Levels), NEW x \in Levels
  PROVE  Brackets(Append(s, x)) = IF x = "B" THEN Brackets(s) ELSE Append(Brackets(s), x)
<1> DEFINE t == Append(s, x)
           n == Len(s)
<1>1. n \in Nat /\ Len(t) = n + 1 /\ t[n + 1] = x /\ \A i \in 1 .. n : t[i] = s[i]
  BY AppendedIs
<1> HIDE DEF t, n
<1>2. PICK g : Kept(g, s, n) /\ Brackets(s) = g[n]
  BY <1>1, BracketsIs DEF n
<1>3. PICK h : Kept(h, t, n + 1) /\ Brackets(t) = h[n + 1]
  BY <1>1, BracketsIs
<1>4. g[n] = h[n]
  BY <1>1, <1>2, <1>3, KeptAgree
<1>5. h[n + 1] = IF x = "B" THEN h[n] ELSE Append(h[n], x)
  <2>1. n + 1 \in 0 .. n + 1 /\ n + 1 # 0 /\ (n + 1) - 1 = n
    BY <1>1
  <2>2. h[n + 1] = IF t[n + 1] = "B" THEN h[n] ELSE Append(h[n], t[n + 1])
    BY <1>3, <2>1 DEF Kept
  <2> QED
    BY <1>1, <2>2, Zenon
<1>6. Brackets(t) = IF x = "B" THEN Brackets(s) ELSE Append(Brackets(s), x)
  BY <1>2, <1>3, <1>4, <1>5, Zenon
<1> QED
  BY <1>6 DEF t

LEMMA LeftOpenEmpty == LeftOpen(<<>>) = <<>>
<1>1. Len(<<>>) = 0 /\ Len(<<>>) \in Nat
  OBVIOUS
<1>2. PICK g : Opened(g, <<>>, 0) /\ LeftOpen(<<>>) = g[0]
  BY <1>1, LeftOpenIs
<1> QED
  BY <1>2 DEF Opened

LEMMA LeftOpenAppend ==
  ASSUME NEW s \in Seq(Tokens), NEW x \in Tokens
  PROVE  LeftOpen(Append(s, x)) = OpenAfter(x, LeftOpen(s))
<1> DEFINE t == Append(s, x)
           n == Len(s)
<1>1. n \in Nat /\ Len(t) = n + 1 /\ t[n + 1] = x /\ \A i \in 1 .. n : t[i] = s[i]
  BY AppendedIs
<1> HIDE DEF t, n
<1>2. PICK g : Opened(g, s, n) /\ LeftOpen(s) = g[n]
  BY <1>1, LeftOpenIs DEF n
<1>3. PICK h : Opened(h, t, n + 1) /\ LeftOpen(t) = h[n + 1]
  BY <1>1, LeftOpenIs
<1>4. g[n] = h[n]
  BY <1>1, <1>2, <1>3, OpenedAgree
<1>5. h[n + 1] = OpenAfter(x, h[n])
  BY <1>1, <1>3 DEF Opened
<1> QED
  BY <1>2, <1>3, <1>4, <1>5 DEF t

(* The first n of a sequence. *)
LEMMA FirstIs ==
  ASSUME NEW S, NEW s \in Seq(S), NEW n \in 0 .. Len(s)
  PROVE  /\ SubSeq(s, 1, n) \in Seq(S) /\ Len(SubSeq(s, 1, n)) = n
         /\ \A i \in 1 .. n : SubSeq(s, 1, n)[i] = s[i]
OBVIOUS

LEMMA FirstNone ==
  ASSUME NEW S, NEW s \in Seq(S)
  PROVE  SubSeq(s, 1, 0) = <<>>
<1>1. SubSeq(s, 1, 0) \in Seq(S) /\ Len(SubSeq(s, 1, 0)) = 0
  BY FirstIs
<1> QED
  BY <1>1, EmptySeq

LEMMA FirstAll ==
  ASSUME NEW S, NEW s \in Seq(S)
  PROVE  SubSeq(s, 1, Len(s)) = s
<1>1. Len(s) \in 0 .. Len(s)
  OBVIOUS
<1> QED
  BY <1>1, FirstIs, SeqEqual

LEMMA FirstMore ==
  ASSUME NEW S, NEW s \in Seq(S), NEW n \in Nat, n + 1 <= Len(s)
  PROVE  /\ SubSeq(s, 1, n + 1) = Append(SubSeq(s, 1, n), s[n + 1])
         /\ SubSeq(s, 1, n) \in Seq(S) /\ s[n + 1] \in S
<1>1. n \in 0 .. Len(s) /\ n + 1 \in 0 .. Len(s) /\ n + 1 \in 1 .. Len(s)
  OBVIOUS
<1> DEFINE t == SubSeq(s, 1, n)
           u == SubSeq(s, 1, n + 1)
<1>2. t \in Seq(S) /\ Len(t) = n /\ \A i \in 1 .. n : t[i] = s[i]
  BY <1>1, FirstIs
<1>3. u \in Seq(S) /\ Len(u) = n + 1 /\ \A i \in 1 .. n + 1 : u[i] = s[i]
  BY <1>1, FirstIs
<1>4. s[n + 1] \in S
  BY <1>1
<1> HIDE DEF t, u
<1>5. Append(t, s[n + 1]) \in Seq(S) /\ Len(Append(t, s[n + 1])) = n + 1
      /\ Append(t, s[n + 1])[n + 1] = s[n + 1] /\ \A i \in 1 .. n : Append(t, s[n + 1])[i] = t[i]
  BY <1>2, <1>4, AppendedIs
<1>6. \A i \in 1 .. n + 1 : Append(t, s[n + 1])[i] = u[i]
  <2> TAKE i \in 1 .. n + 1
  <2>1. CASE i = n + 1
    BY <1>3, <1>5, <2>1
  <2>2. CASE i # n + 1
    <3>1. i \in 1 .. n
      BY <2>2
    <3> QED
      BY <1>2, <1>3, <1>5, <3>1
  <2> QED
    BY <2>1, <2>2
<1>7. u = Append(t, s[n + 1])
  BY <1>3, <1>5, <1>6, SeqEqual
<1> QED
  BY <1>2, <1>4, <1>7 DEF t, u

(* A stack that is not empty is what is under its top, and that. *)
LEMMA TopAndRest ==
  ASSUME NEW S, NEW s \in Seq(S), s # <<>>
  PROVE  /\ SubSeq(s, 1, Len(s) - 1) \in Seq(S) /\ s[Len(s)] \in S
         /\ Len(SubSeq(s, 1, Len(s) - 1)) = Len(s) - 1 /\ Len(s) \in Nat \ {0}
         /\ s = Append(SubSeq(s, 1, Len(s) - 1), s[Len(s)])
         /\ \A i \in 1 .. Len(s) - 1 : SubSeq(s, 1, Len(s) - 1)[i] = s[i]
<1>1. Len(s) \in Nat /\ Len(s) # 0
  BY EmptySeq
<1>2. Len(s) - 1 \in Nat /\ Len(s) - 1 \in 0 .. Len(s) /\ (Len(s) - 1) + 1 = Len(s)
  BY <1>1
<1> DEFINE n == Len(s) - 1
<1>3. /\ SubSeq(s, 1, n + 1) = Append(SubSeq(s, 1, n), s[n + 1])
      /\ SubSeq(s, 1, n) \in Seq(S) /\ s[n + 1] \in S
  BY <1>2, FirstMore
<1>4. Len(SubSeq(s, 1, n)) = n /\ \A i \in 1 .. n : SubSeq(s, 1, n)[i] = s[i]
  BY <1>2, FirstIs
<1>5. SubSeq(s, 1, n + 1) = s
  BY <1>2, FirstAll
<1> QED
  BY <1>1, <1>2, <1>3, <1>4, <1>5

(* A sequence of marks. *)
LEMMA BracketsType ==
  ASSUME NEW s \in Seq(Levels)
  PROVE  Brackets(s) \in Seq(Marks)
<1> DEFINE n == Len(s)
           S == {m \in Nat : m <= n => Brackets(SubSeq(s, 1, m)) \in Seq(Marks)}
<1>1. 0 \in S
  <2>1. SubSeq(s, 1, 0) = <<>>
    BY FirstNone
  <2>2. Brackets(SubSeq(s, 1, 0)) = <<>>
    BY <2>1, BracketsEmpty
  <2>3. <<>> \in Seq(Marks)
    OBVIOUS
  <2> QED
    BY <2>2, <2>3
<1>2. ASSUME NEW m \in Nat, m \in S PROVE m + 1 \in S
  <2>1. SUFFICES ASSUME m + 1 <= n PROVE Brackets(SubSeq(s, 1, m + 1)) \in Seq(Marks)
    OBVIOUS
  <2> DEFINE t == SubSeq(s, 1, m)
  <2>2. SubSeq(s, 1, m + 1) = Append(t, s[m + 1]) /\ t \in Seq(Levels) /\ s[m + 1] \in Levels
    BY <2>1, FirstMore
  <2>3. Brackets(t) \in Seq(Marks)
    BY <1>2, <2>1
  <2>4. s[m + 1] # "B" => s[m + 1] \in Marks
    BY <2>2 DEF Levels
  <2> HIDE DEF t
  <2>5. Brackets(Append(t, s[m + 1])) = IF s[m + 1] = "B" THEN Brackets(t) ELSE Append(Brackets(t), s[m + 1])
    BY <2>2, BracketsAppend
  <2>6. Brackets(Append(t, s[m + 1])) \in Seq(Marks)
    BY <2>3, <2>4, <2>5
  <2> QED
    BY <2>2, <2>6
<1> HIDE DEF S
<1>3. n \in S
  BY <1>1, <1>2, Reached
<1>4. SubSeq(s, 1, n) = s
  BY FirstAll
<1>5. n \in Nat /\ n <= n
  OBVIOUS
<1>6. Brackets(SubSeq(s, 1, n)) \in Seq(Marks)
  BY <1>3, <1>5 DEF S
<1> QED
  BY <1>4, <1>6

LEMMA FrontAppend ==
  ASSUME NEW S, NEW a \in Seq(S), NEW x \in S
  PROVE  Front(Append(a, x)) = a
<1> DEFINE b == Append(a, x)
<1>1. b \in Seq(S) /\ Len(b) = Len(a) + 1 /\ \A i \in 1 .. Len(a) : b[i] = a[i]
  BY AppendedIs
<1>2. Len(a) \in Nat
  OBVIOUS
<1> HIDE DEF b
<1>3. Len(a) \in 0 .. Len(b) /\ Len(b) - 1 = Len(a)
  BY <1>1, <1>2
<1>4. SubSeq(b, 1, Len(a)) \in Seq(S) /\ Len(SubSeq(b, 1, Len(a))) = Len(a)
      /\ \A i \in 1 .. Len(a) : SubSeq(b, 1, Len(a))[i] = b[i]
  BY <1>1, <1>3, FirstIs
<1>5. SubSeq(b, 1, Len(a)) = a
  BY <1>1, <1>4, SeqEqual
<1> QED
  BY <1>3, <1>5 DEF Front, b

(***************************************************************************)
(* What the lexer works on, and that it is in step: what it has written      *)
(* leaves open what its stack says, as long as all brackets match.           *)
(***************************************************************************)
Lx == [stack : Seq(Levels), out : Seq(Tokens)]
AllMatch(out) == \A i \in DOMAIN out : out[i].type # "wrongbracket"
Tracked(lx) == lx \in Lx /\ (AllMatch(lx.out) => Brackets(lx.stack) = LeftOpen(lx.out))

LEMMA AllMatchAppend ==
  ASSUME NEW t \in Seq(Tokens), NEW x \in Tokens, AllMatch(Append(t, x))
  PROVE  AllMatch(t) /\ x.type # "wrongbracket"
<1> DEFINE u == Append(t, x)
<1>1. Len(u) = Len(t) + 1 /\ u[Len(t) + 1] = x /\ (\A i \in 1 .. Len(t) : u[i] = t[i]) /\ u \in Seq(Tokens)
  BY AppendedIs
<1>2. Len(t) \in Nat /\ DOMAIN t = 1 .. Len(t)
  OBVIOUS
<1> HIDE DEF u
<1>3. DOMAIN u = 1 .. Len(t) + 1
  BY <1>1
<1>4. \A i \in 1 .. Len(t) + 1 : u[i].type # "wrongbracket"
  BY <1>3 DEF AllMatch, u
<1> QED
  BY <1>1, <1>2, <1>4 DEF AllMatch

(* A closing token takes what lies on top. *)
LEMMA ClosesOne ==
  ASSUME NEW lx, Tracked(lx), lx.stack # <<>>, lx.stack[Len(lx.stack)] # "B",
         NEW x \in Tokens, x.type \in Closing
  PROVE  Tracked([stack |-> SubSeq(lx.stack, 1, Len(lx.stack) - 1), out |-> Append(lx.out, x)])
<1> DEFINE s == lx.stack
           t == lx.out
           r == SubSeq(s, 1, Len(s) - 1)
<1>1. s \in Seq(Levels) /\ t \in Seq(Tokens)
  BY DEF Tracked, Lx
<1>2. s # <<>> /\ s[Len(s)] # "B" /\ (AllMatch(t) => Brackets(s) = LeftOpen(t))
  BY DEF Tracked
<1> HIDE DEF s, t
<1>3. r \in Seq(Levels) /\ s[Len(s)] \in Levels /\ s = Append(r, s[Len(s)])
  BY <1>1, <1>2, TopAndRest
<1> HIDE DEF r
<1>4. Append(t, x) \in Seq(Tokens)
  BY <1>1, AppendedIs
<1>5. ASSUME AllMatch(Append(t, x)) PROVE Brackets(r) = LeftOpen(Append(t, x))
  <2>1. Brackets(s) = LeftOpen(t)
    BY <1>1, <1>2, <1>5, AllMatchAppend
  <2>2. Brackets(Append(r, s[Len(s)])) = Append(Brackets(r), s[Len(s)])
    BY <1>2, <1>3, BracketsAppend
  <2>3. LeftOpen(Append(t, x)) = Front(LeftOpen(t))
    <3>1. LeftOpen(Append(t, x)) = OpenAfter(x, LeftOpen(t))
      BY <1>1, LeftOpenAppend
    <3>2. x.type \notin Opening
      BY Zenon DEF Closing, Opening
    <3> QED
      BY <3>1, <3>2 DEF OpenAfter
  <2>4. Brackets(r) \in Seq(Marks) /\ s[Len(s)] \in Marks
    BY <1>2, <1>3, BracketsType DEF Levels
  <2>5. Front(Append(Brackets(r), s[Len(s)])) = Brackets(r)
    BY <2>4, FrontAppend
  <2>6. LeftOpen(t) = Append(Brackets(r), s[Len(s)])
    BY <1>3, <2>1, <2>2
  <2> QED
    BY <2>3, <2>5, <2>6
<1>6. [stack |-> r, out |-> Append(t, x)] \in Lx
  BY <1>3, <1>4 DEF Lx
<1> QED
  BY <1>5, <1>6 DEF Tracked, r, s, t

(* The marks that Unstack closes: all there are on top. *)
OnTop(s, mark, n) ==
  /\ n \in 0 .. Len(s) /\ \A i \in 0 .. n - 1 : s[Len(s) - i] = mark
  /\ n # Len(s) => s[Len(s) - n] # mark
Closers(n) == [i \in 1 .. n |-> Inserted(")", 1)]

LEMMA UnstackIs ==
  ASSUME NEW lx \in Lx, NEW mark
  PROVE  \E n : /\ OnTop(lx.stack, mark, n)
                /\ Unstack(lx, mark) = [stack |-> SubSeq(lx.stack, 1, Len(lx.stack) - n), out |-> lx.out \o Closers(n)]
<1> DEFINE s == lx.stack
           K == {k \in 0 .. Len(s) : \A i \in 0 .. k - 1 : s[Len(s) - i] = mark}
           n == Max(K)
<1>1. s \in Seq(Levels) /\ Len(s) \in Nat
  BY DEF Lx
<1> HIDE DEF s
<1>2. n \in K /\ \A k \in K : n >= k
  <2> DEFINE D == {Len(s) - k : k \in K}
  <2>1. 0 \in K
    BY <1>1
  <2>2. D \in SUBSET Nat /\ D # {}
    BY <1>1, <2>1
  <2>3. PICK d \in D : \A e \in D : d <= e
    <3> HIDE DEF D
    <3> QED
      BY <2>2, LeastElement
  <2>4. PICK k \in K : d = Len(s) - k
    BY <2>3
  <2>5. \A l \in K : k >= l
    <3> TAKE l \in K
    <3>1. Len(s) - l \in D /\ l \in Nat /\ k \in Nat
      BY <1>1
    <3>2. d <= Len(s) - l
      <4> HIDE DEF D, K
      <4> QED
        BY <2>3, <3>1
    <3> QED
      BY <1>1, <2>4, <3>1, <3>2
  <2> HIDE DEF K
  <2> QED
    BY <2>4, <2>5, Zenon DEF Max
<1>3. n \in 0 .. Len(s) /\ \A i \in 0 .. n - 1 : s[Len(s) - i] = mark
  BY <1>2
<1>4. ASSUME n # Len(s), s[Len(s) - n] = mark PROVE FALSE
  <2>1. n + 1 \in 0 .. Len(s)
    <3> HIDE DEF n
    <3> QED
      BY <1>1, <1>3, <1>4
  <2>2. \A i \in 0 .. (n + 1) - 1 : s[Len(s) - i] = mark
    <3> HIDE DEF n
    <3> TAKE i \in 0 .. (n + 1) - 1
    <3>1. i = n \/ i \in 0 .. n - 1
      BY <1>1, <1>3
    <3> QED
      BY <1>3, <1>4, <3>1
  <2>3. n + 1 \in K
    <3> HIDE DEF n
    <3> QED
      BY <2>1, <2>2
  <2>4. n >= n + 1
    <3> HIDE DEF K
    <3> QED
      BY <1>2, <2>3
  <2> HIDE DEF n
  <2> QED
    BY <1>1, <1>3, <2>4
<1>5. OnTop(s, mark, n)
  <2> HIDE DEF n
  <2> QED
    BY <1>3, <1>4 DEF OnTop
<1>6. Unstack(lx, mark) = [stack |-> SubSeq(s, 1, Len(s) - n), out |-> lx.out \o Closers(n)]
  BY Zenon DEF Unstack, Closers, s
<1> HIDE DEF n
<1> QED
  BY <1>5, <1>6 DEF s

LEMMA ClosersMore ==
  ASSUME NEW t \in Seq(Tokens), NEW k \in Nat
  PROVE  /\ t \o Closers(k) \in Seq(Tokens)
         /\ t \o Closers(k + 1) = Append(t \o Closers(k), Inserted(")", 1))
         /\ t \o Closers(0) = t
<1> DEFINE x == Inserted(")", 1)
<1>1. x \in Tokens
  BY Zenon DEF Tokens, Made
<1>2. \A n \in Nat : Closers(n) \in Seq(Tokens) /\ Len(Closers(n)) = n /\ \A i \in 1 .. n : Closers(n)[i] = x
  BY <1>1 DEF Closers
<1> HIDE DEF x
<1>3. \A n \in Nat : /\ t \o Closers(n) \in Seq(Tokens) /\ Len(t \o Closers(n)) = Len(t) + n
                     /\ \A i \in 1 .. Len(t) : (t \o Closers(n))[i] = t[i]
                     /\ \A i \in 1 .. n : (t \o Closers(n))[Len(t) + i] = x
  <2> TAKE n \in Nat
  <2> DEFINE c == Closers(n)
  <2>1. c \in Seq(Tokens) /\ Len(c) = n /\ \A i \in 1 .. n : c[i] = x
    BY <1>2
  <2> HIDE DEF c
  <2>2. t \o c \in Seq(Tokens) /\ Len(t \o c) = Len(t) + n
    BY <2>1
  <2>3. \A i \in 1 .. Len(t) : (t \o c)[i] = t[i]
    BY <2>1
  <2>4. \A i \in 1 .. n : (t \o c)[Len(t) + i] = x
    BY <2>1
  <2> QED
    BY <2>2, <2>3, <2>4 DEF c
<1>4. t \o Closers(0) = t
  <2> DEFINE a == t \o Closers(0)
  <2>1. 0 \in Nat /\ Len(t) + 0 = Len(t)
    OBVIOUS
  <2>2. a \in Seq(Tokens) /\ Len(a) = Len(t) + 0 /\ \A i \in 1 .. Len(t) : a[i] = t[i]
    BY <1>3, <2>1, Zenon
  <2> HIDE DEF a
  <2>3. Len(a) = Len(t) /\ \A i \in 1 .. Len(a) : a[i] = t[i]
    BY <2>1, <2>2
  <2>4. a = t
    BY <2>2, <2>3, SeqEqual
  <2> QED
    BY <2>4 DEF a
<1>5. t \o Closers(k + 1) = Append(t \o Closers(k), x)
  <2> DEFINE a == t \o Closers(k)
             b == t \o Closers(k + 1)
  <2>1. /\ a \in Seq(Tokens) /\ Len(a) = Len(t) + k
        /\ \A i \in 1 .. Len(t) : a[i] = t[i]
        /\ \A i \in 1 .. k : a[Len(t) + i] = x
    BY <1>3
  <2>2. /\ b \in Seq(Tokens) /\ Len(b) = Len(t) + (k + 1)
        /\ \A i \in 1 .. Len(t) : b[i] = t[i]
        /\ \A i \in 1 .. k + 1 : b[Len(t) + i] = x
    <3>1. k + 1 \in Nat
      OBVIOUS
    <3> QED
      BY <1>3, <3>1
  <2>3. Len(t) \in Nat
    OBVIOUS
  <2> HIDE DEF a, b
  <2>4. /\ Append(a, x) \in Seq(Tokens) /\ Len(Append(a, x)) = Len(t) + k + 1
        /\ Append(a, x)[Len(t) + k + 1] = x /\ \A i \in 1 .. Len(t) + k : Append(a, x)[i] = a[i]
    BY <1>1, <2>1, AppendedIs
  <2>5. \A i \in 1 .. Len(t) + (k + 1) : b[i] = Append(a, x)[i]
    <3> TAKE i \in 1 .. Len(t) + (k + 1)
    <3>1. CASE i \in 1 .. Len(t)
      <4>1. i \in 1 .. Len(t) + k
        BY <2>3, <3>1
      <4> QED
        BY <2>1, <2>2, <2>4, <3>1, <4>1
    <3>2. CASE i = Len(t) + k + 1
      <4>1. k + 1 \in 1 .. k + 1 /\ i = Len(t) + (k + 1)
        BY <2>3, <3>2
      <4>2. b[i] = x
        BY <2>2, <4>1
      <4> QED
        BY <2>4, <3>2, <4>2
    <3>3. CASE i \notin 1 .. Len(t) /\ i # Len(t) + k + 1
      <4>1. i - Len(t) \in 1 .. k /\ i - Len(t) \in 1 .. k + 1 /\ Len(t) + (i - Len(t)) = i
            /\ i \in 1 .. Len(t) + k
        BY <2>3, <3>3
      <4>2. b[i] = x
        BY <2>2, <4>1
      <4>3. a[i] = x
        BY <2>1, <4>1
      <4> QED
        BY <2>4, <4>1, <4>2, <4>3
    <3> QED
      BY <3>1, <3>2, <3>3
  <2>6. b = Append(a, x)
    BY <2>2, <2>3, <2>4, <2>5, SeqEqual
  <2> QED
    BY <2>6 DEF a, b
<1> QED
  BY <1>3, <1>4, <1>5 DEF x

LEMMA UnstackTracked ==
  ASSUME NEW lx, Tracked(lx), NEW mark \in {"G", "H"}
  PROVE  Tracked(Unstack(lx, mark))
<1>1. PICK n : /\ OnTop(lx.stack, mark, n)
               /\ Unstack(lx, mark) = [stack |-> SubSeq(lx.stack, 1, Len(lx.stack) - n), out |-> lx.out \o Closers(n)]
  BY UnstackIs DEF Tracked
<1> DEFINE s == lx.stack
           t == lx.out
           cut(k) == [stack |-> SubSeq(s, 1, Len(s) - k), out |-> t \o Closers(k)]
           S == {k \in Nat : k <= n => Tracked(cut(k))}
<1>2. s \in Seq(Levels) /\ t \in Seq(Tokens) /\ Len(s) \in Nat /\ n \in 0 .. Len(s)
  BY <1>1 DEF Tracked, Lx, OnTop
<1>3. 0 \in S
  <2>1. SubSeq(s, 1, Len(s) - 0) = s
    BY <1>2, FirstAll
  <2>2. t \o Closers(0) = t
    BY <1>2, ClosersMore
  <2>3. cut(0) = lx
    BY <2>1, <2>2 DEF Tracked, Lx
  <2> QED
    BY <2>3
<1>4. ASSUME NEW k \in Nat, k \in S PROVE k + 1 \in S
  <2>1. SUFFICES ASSUME k + 1 <= n PROVE Tracked(cut(k + 1))
    OBVIOUS
  <2> DEFINE r == SubSeq(s, 1, Len(s) - k)
             u == t \o Closers(k)
  <2>2. Tracked([stack |-> r, out |-> u])
    BY <1>2, <1>4, <2>1
  <2>3. Len(s) - k \in 0 .. Len(s) /\ Len(s) - k # 0 /\ (Len(s) - k) - 1 = Len(s) - (k + 1)
        /\ (Len(s) - k) - 1 \in 0 .. Len(s)
    BY <1>2, <2>1
  <2>4. r \in Seq(Levels) /\ Len(r) = Len(s) - k /\ \A i \in 1 .. Len(s) - k : r[i] = s[i]
    BY <1>2, <2>3, FirstIs
  <2>5. r # <<>>
    BY <2>3, <2>4
  <2>6. r[Len(r)] = mark
    <3>1. Len(s) - k \in 1 .. Len(s) - k /\ k \in 0 .. n - 1
      BY <1>2, <2>1, <2>3
    <3>2. r[Len(r)] = s[Len(s) - k]
      BY <2>4, <3>1
    <3> QED
      BY <1>1, <3>1, <3>2 DEF OnTop
  <2>7. SubSeq(r, 1, Len(r) - 1) = SubSeq(s, 1, Len(s) - (k + 1))
    <3> DEFINE m == Len(s) - (k + 1)
    <3>1. m \in 0 .. Len(s) /\ m \in 0 .. Len(r) /\ m <= Len(s) - k /\ Len(r) - 1 = m
      BY <1>2, <2>1, <2>3, <2>4
    <3>2. SubSeq(r, 1, m) \in Seq(Levels) /\ Len(SubSeq(r, 1, m)) = m /\ \A i \in 1 .. m : SubSeq(r, 1, m)[i] = r[i]
      BY <2>4, <3>1, FirstIs
    <3>3. SubSeq(s, 1, m) \in Seq(Levels) /\ Len(SubSeq(s, 1, m)) = m /\ \A i \in 1 .. m : SubSeq(s, 1, m)[i] = s[i]
      BY <1>2, <3>1, FirstIs
    <3>4. \A i \in 1 .. m : SubSeq(r, 1, m)[i] = SubSeq(s, 1, m)[i]
      BY <1>2, <2>4, <3>1, <3>2, <3>3
    <3>5. SubSeq(r, 1, m) = SubSeq(s, 1, m)
      BY <3>2, <3>3, <3>4, SeqEqual
    <3> QED
      BY <3>1, <3>5
  <2>8. t \o Closers(k + 1) = Append(u, Inserted(")", 1))
    BY <1>2, ClosersMore
  <2>9. Inserted(")", 1) \in Tokens /\ Inserted(")", 1).type \in Closing
    BY DEF Tokens, Made, Inserted, Closing
  <2> HIDE DEF r, u
  <2>10. Tracked([stack |-> SubSeq(r, 1, Len(r) - 1), out |-> Append(u, Inserted(")", 1))])
    <3> DEFINE l == [stack |-> r, out |-> u]
               x == Inserted(")", 1)
    <3>1. l.stack = r /\ l.out = u /\ Tracked(l)
      BY <2>2
    <3>2. x \in Tokens /\ x.type \in Closing
      BY <2>9
    <3>3. mark # "B"
      OBVIOUS
    <3> HIDE DEF l, x
    <3>4. l.stack # <<>> /\ l.stack[Len(l.stack)] # "B"
      BY <2>5, <2>6, <3>1, <3>3
    <3>5. Tracked([stack |-> SubSeq(l.stack, 1, Len(l.stack) - 1), out |-> Append(l.out, x)])
      BY <3>1, <3>2, <3>4, ClosesOne
    <3> QED
      BY <3>1, <3>5 DEF x
  <2> QED
    BY <2>7, <2>8, <2>10
<1> HIDE DEF S
<1>5. n \in S
  BY <1>2, <1>3, <1>4, Reached
<1>6. Tracked(cut(n))
  BY <1>2, <1>5 DEF S
<1> QED
  BY <1>1, <1>6

(***************************************************************************)
(* The mark of a sticky parenthesis lies right under that of its `:{'.       *)
(***************************************************************************)
Inner(s)  == \A i \in 1 .. Len(s) - 1 : s[i] = "H" => s[i + 1] = ":{"
Capped(s) == Inner(s) /\ (s # <<>> => s[Len(s)] # "H")

LEMMA CutInner ==
  ASSUME NEW s \in Seq(Levels), Inner(s), NEW n \in 0 .. Len(s), NEW r, r = SubSeq(s, 1, Len(s) - n)
  PROVE  /\ r \in Seq(Levels) /\ Inner(r) /\ Len(r) = Len(s) - n /\ \A i \in 1 .. Len(r) : r[i] = s[i]
         /\ r # <<>> => Len(r) # 0
<1>1. Len(s) \in Nat /\ Len(s) - n \in 0 .. Len(s)
  OBVIOUS
<1>2. r \in Seq(Levels) /\ Len(r) = Len(s) - n /\ \A i \in 1 .. Len(s) - n : r[i] = s[i]
  BY <1>1, FirstIs
<1>3. Inner(r)
  <2>1. ASSUME NEW i \in 1 .. Len(r) - 1, r[i] = "H" PROVE r[i + 1] = ":{"
    <3>1. i \in 1 .. Len(s) - 1 /\ i \in 1 .. Len(s) - n /\ i + 1 \in 1 .. Len(s) - n
      BY <1>1, <1>2
    <3> QED
      BY <1>2, <2>1, <3>1, Zenon DEF Inner
  <2> QED
    BY <2>1, Zenon DEF Inner
<1>4. r # <<>> => Len(r) # 0
  BY <1>2, EmptySeq
<1> QED
  BY <1>2, <1>3, <1>4

LEMMA UnstackCapped ==
  ASSUME NEW lx \in Lx, NEW mark, (mark = "G" /\ Capped(lx.stack)) \/ (mark = "H" /\ Inner(lx.stack))
  PROVE  /\ Capped(Unstack(lx, mark).stack)
         /\ \E n : /\ OnTop(lx.stack, mark, n)
                   /\ Unstack(lx, mark).stack = SubSeq(lx.stack, 1, Len(lx.stack) - n)
<1>1. PICK n : /\ OnTop(lx.stack, mark, n)
               /\ Unstack(lx, mark) = [stack |-> SubSeq(lx.stack, 1, Len(lx.stack) - n), out |-> lx.out \o Closers(n)]
  BY UnstackIs
<1> DEFINE s == lx.stack
           r == SubSeq(s, 1, Len(s) - n)
<1>2. s \in Seq(Levels) /\ Inner(s) /\ n \in 0 .. Len(s) /\ Len(s) \in Nat
  BY <1>1 DEF Lx, OnTop, Capped
<1>3. /\ r \in Seq(Levels) /\ Inner(r) /\ Len(r) = Len(s) - n /\ \A i \in 1 .. Len(r) : r[i] = s[i]
      /\ r # <<>> => Len(r) # 0
  BY <1>2, CutInner
<1>4. ASSUME r # <<>>, r[Len(r)] = "H" PROVE FALSE
  <2> HIDE DEF r
  <2>1. Len(r) \in 1 .. Len(r) /\ n # Len(s)
    BY <1>2, <1>3, <1>4
  <2>2. s[Len(s) - n] = "H"
    BY <1>3, <1>4, <2>1
  <2>3. mark # "H"
    BY <1>1, <2>1, <2>2 DEF OnTop
  <2>4. mark = "G" /\ Capped(s)
    BY <2>3
  <2>5. CASE n = 0
    <3>1. s # <<>>
      BY <1>2, <2>1, <2>5
    <3> QED
      BY <1>2, <2>2, <2>4, <2>5, <3>1 DEF Capped
  <2>6. CASE n # 0
    <3>1. Len(s) - n \in 1 .. Len(s) - 1 /\ n - 1 \in 0 .. n - 1 /\ Len(s) - (n - 1) = (Len(s) - n) + 1
      BY <1>2, <1>3, <2>1, <2>6
    <3>2. s[(Len(s) - n) + 1] = ":{"
      BY <1>2, <2>2, <3>1, Zenon DEF Inner
    <3>3. s[(Len(s) - n) + 1] = mark
      BY <1>1, <3>1 DEF OnTop
    <3> QED
      BY <2>4, <3>2, <3>3, Zenon
  <2> QED
    BY <2>5, <2>6
<1> HIDE DEF r
<1>5. Capped(r)
  BY <1>3, <1>4 DEF Capped
<1>6. Unstack(lx, mark).stack = r
  <2>1. Unstack(lx, mark) = [stack |-> r, out |-> lx.out \o Closers(n)]
    BY <1>1 DEF r
  <2>2. [stack |-> r, out |-> lx.out \o Closers(n)].stack = r
    OBVIOUS
  <2> QED
    BY <2>1, <2>2
<1>7. OnTop(s, mark, n) /\ r = SubSeq(s, 1, Len(s) - n)
  BY <1>1 DEF r
<1> QED
  BY <1>5, <1>6, <1>7, Zenon

LEMMA PoppedCapped ==
  ASSUME NEW s \in Seq(Levels), Capped(s), s # <<>>
  PROVE  /\ SubSeq(s, 1, Len(s) - 1) \in Seq(Levels) /\ Inner(SubSeq(s, 1, Len(s) - 1))
         /\ s[Len(s)] # ":{" => Capped(SubSeq(s, 1, Len(s) - 1))
<1> DEFINE r == SubSeq(s, 1, Len(s) - 1)
<1>1. Len(s) \in Nat \ {0} /\ 1 \in 0 .. Len(s)
  BY EmptySeq
<1>2. /\ r \in Seq(Levels) /\ Inner(r) /\ Len(r) = Len(s) - 1 /\ \A i \in 1 .. Len(r) : r[i] = s[i]
      /\ r # <<>> => Len(r) # 0
  BY <1>1, CutInner DEF Capped
<1> HIDE DEF r
<1>3. ASSUME s[Len(s)] # ":{", r # <<>>, r[Len(r)] = "H" PROVE FALSE
  <2>0. Len(r) # 0
    BY <1>2, <1>3, Zenon
  <2>1. Len(r) \in 1 .. Len(r) /\ Len(r) \in 1 .. Len(s) - 1 /\ Len(r) + 1 = Len(s)
    BY <1>1, <1>2, <2>0
  <2>2. s[Len(r)] = "H"
    BY <1>2, <1>3, <2>1, Zenon
  <2>3. s[Len(r) + 1] = ":{"
    BY <2>1, <2>2, Zenon DEF Capped, Inner
  <2> QED
    BY <1>3, <2>1, <2>3, Zenon
<1> QED
  BY <1>2, <1>3, Zenon DEF Capped, r

GoesOn(s, x) == Capped(s) \/ (Inner(s) /\ x = ":{")
LEMMA PushedCapped ==
  ASSUME NEW s \in Seq(Levels), NEW x \in Levels, GoesOn(s, x)
  PROVE  /\ Append(s, x) \in Seq(Levels) /\ Inner(Append(s, x)) /\ (x # "H" => Capped(Append(s, x)))
         /\ Append(s, x) # <<>> /\ Append(s, x)[Len(Append(s, x))] = x
<1> DEFINE t == Append(s, x)
<1>1. t \in Seq(Levels) /\ Len(t) = Len(s) + 1 /\ t[Len(s) + 1] = x /\ \A i \in 1 .. Len(s) : t[i] = s[i]
  BY AppendedIs
<1>2. Len(s) \in Nat
  OBVIOUS
<1> HIDE DEF t
<1>3. ASSUME NEW i \in 1 .. Len(t) - 1, t[i] = "H" PROVE t[i + 1] = ":{"
  <2>1. i \in 1 .. Len(s) /\ s[i] = "H"
    BY <1>1, <1>2, <1>3
  <2>2. CASE i = Len(s)
    <3>1. s # <<>>
      BY <1>2, <2>1
    <3>2. ~Capped(s)
      BY <2>1, <2>2, <3>1 DEF Capped
    <3>3. x = ":{"
      BY <3>2, Zenon DEF GoesOn
    <3> QED
      BY <1>1, <2>2, <3>3, Zenon
  <2>3. CASE i # Len(s)
    <3>1. i \in 1 .. Len(s) - 1 /\ i + 1 \in 1 .. Len(s)
      BY <1>2, <2>1, <2>3
    <3>2. Inner(s)
      BY Zenon DEF GoesOn, Capped
    <3>3. s[i + 1] = ":{"
      BY <2>1, <3>1, <3>2, Zenon DEF Inner
    <3> QED
      BY <1>1, <3>1, <3>3, Zenon
  <2> QED
    BY <2>2, <2>3, Zenon
<1>4. t # <<>>
  BY <1>1, <1>2
<1> QED
  BY <1>1, <1>2, <1>3, <1>4, Zenon DEF Inner, Capped, t

(***************************************************************************)
(* What each part of a step makes of the brackets.                           *)
(***************************************************************************)
Fine(lx) == Tracked(lx) /\ Capped(lx.stack)

LEMMA LxShape ==
  ASSUME NEW lx \in Lx
  PROVE  /\ lx.stack \in Seq(Levels) /\ lx.out \in Seq(Tokens)
         /\ lx = [stack |-> lx.stack, out |-> lx.out]
         /\ \A s : [lx EXCEPT !.stack = s] = [stack |-> s, out |-> lx.out]
         /\ \A t : [lx EXCEPT !.out = t] = [stack |-> lx.stack, out |-> t]
BY DEF Lx

LEMMA UnstackGFine ==
  ASSUME NEW lx, Fine(lx)
  PROVE  /\ Fine(Unstack(lx, "G"))
         /\ \E n : /\ OnTop(lx.stack, "G", n)
                   /\ Unstack(lx, "G").stack = SubSeq(lx.stack, 1, Len(lx.stack) - n)
<1>1. Tracked(Unstack(lx, "G"))
  BY UnstackTracked DEF Fine
<1>2. lx \in Lx /\ Capped(lx.stack)
  BY DEF Fine, Tracked
<1> QED
  BY <1>1, <1>2, UnstackCapped DEF Fine

(* A token that is no bracket. *)
LEMMA EnqueueOther ==
  ASSUME NEW lx, Fine(lx), NEW x \in Tokens, x.type \notin Opening, x.type \notin Closing
  PROVE  Fine(Enqueue(lx, x)) /\ Enqueue(lx, x).stack = lx.stack
<1> DEFINE e == [stack |-> lx.stack, out |-> Append(lx.out, x)]
<1>1. lx \in Lx /\ Tracked(lx) /\ Capped(lx.stack)
  BY DEF Fine, Tracked
<1>2. Enqueue(lx, x) = e
  BY <1>1, LxShape DEF Enqueue
<1>3. lx.stack \in Seq(Levels) /\ lx.out \in Seq(Tokens)
  BY <1>1, LxShape
<1>4. Append(lx.out, x) \in Seq(Tokens)
  BY <1>3, AppendedIs
<1>5. e \in Lx
  BY <1>3, <1>4 DEF Lx
<1>6. LeftOpen(Append(lx.out, x)) = LeftOpen(lx.out)
  BY <1>3, LeftOpenAppend DEF OpenAfter
<1>7. AllMatch(Append(lx.out, x)) => AllMatch(lx.out)
  BY <1>3, AllMatchAppend
<1> QED
  BY <1>1, <1>2, <1>5, <1>6, <1>7 DEF Tracked, Fine

(* A token that opens a bracket. *)
LEMMA MarkIs ==
  ASSUME NEW x \in Tokens, x.type \in Opening
  PROVE  Mark(x) \in Marks /\ (Mark(x) = "H" <=> x = Inserted("(", 2)) /\ (x.type = ":{" => Mark(x) = ":{")
<1>1. CASE x \in Scanned
  <2>1. x.invisible = 0
    BY <1>1 DEF Scanned
  <2>2. Mark(x) = x.type
    BY <2>1 DEF Mark
  <2>3. Inserted("(", 2).invisible = 2
    BY DEF Inserted
  <2>4. x # Inserted("(", 2)
    BY <2>1, <2>3
  <2>5. x.type # "H"
    BY Zenon DEF Opening
  <2> QED
    BY <2>2, <2>4, <2>5, Zenon DEF Marks
<1>2. CASE x \in Made
  <2>1. x = Inserted("(", 1) \/ x = Inserted("(", 2)
    <3>1. Inserted(")", 1).type = ")" /\ Inserted(";", 1).type = ";" /\ Token("wrongbracket").type = "wrongbracket"
      BY DEF Inserted, Token
    <3>2. x.type \notin {")", ";", "wrongbracket"}
      BY Zenon DEF Opening
    <3> QED
      BY <1>2, <3>1, <3>2, Zenon DEF Made
  <2>2. Inserted("(", 1).type = "(" /\ Inserted("(", 1).invisible = 1
    BY DEF Inserted
  <2>3. Inserted("(", 2).type = "(" /\ Inserted("(", 2).invisible = 2
    BY DEF Inserted
  <2>4. CASE x = Inserted("(", 1)
    <3>1. x.type = "(" /\ x.invisible = 1
      BY <2>2, <2>4
    <3>2. Mark(x) = "G" /\ x.type # ":{"
      BY <3>1 DEF Mark
    <3>3. x # Inserted("(", 2)
      BY <2>3, <3>1
    <3> QED
      BY <3>2, <3>3, Zenon DEF Marks
  <2>5. CASE x = Inserted("(", 2)
    <3>1. x.type = "(" /\ x.invisible = 2
      BY <2>3, <2>5
    <3>2. Mark(x) = "H" /\ x.type # ":{"
      BY <3>1 DEF Mark
    <3> QED
      BY <2>5, <3>2, Zenon DEF Marks
  <2> QED
    BY <2>1, <2>4, <2>5, Zenon
<1> QED
  BY <1>1, <1>2, Zenon DEF Tokens

LEMMA EnqueueOpen ==
  ASSUME NEW lx, Tracked(lx), NEW x \in Tokens, x.type \in Opening, GoesOn(lx.stack, Mark(x))
  PROVE  /\ Tracked(Enqueue(lx, x)) /\ Inner(Enqueue(lx, x).stack)
         /\ x # Inserted("(", 2) => Fine(Enqueue(lx, x))
<1> DEFINE m == Mark(x)
           e == [stack |-> Append(lx.stack, m), out |-> Append(lx.out, x)]
<1>1. lx \in Lx
  BY DEF Tracked
<1>2. x.type \notin Closing
  BY Zenon DEF Opening, Closing
<1>3. Enqueue(lx, x) = e
  <2> DEFINE o == Append(lx.out, x)
  <2>1. Enqueue(lx, x) = [[lx EXCEPT !.out = o] EXCEPT !.stack = Append(@, m)]
    BY <1>2, Zenon DEF Enqueue
  <2> HIDE DEF o, m
  <2>2. [lx EXCEPT !.out = o] = [stack |-> lx.stack, out |-> o]
    BY <1>1, LxShape
  <2> QED
    BY <2>1, <2>2 DEF o, m
<1>4. lx.stack \in Seq(Levels) /\ lx.out \in Seq(Tokens)
  BY <1>1, LxShape
<1>5. m \in Marks /\ m \in Levels /\ m # "B" /\ (m = "H" <=> x = Inserted("(", 2))
  BY MarkIs, Zenon DEF Levels, Marks, Opening
<1>6. GoesOn(lx.stack, m)
  OBVIOUS
<1>7. Append(lx.out, x) \in Seq(Tokens)
  BY <1>4, AppendedIs
<1>8. Append(lx.stack, m) \in Seq(Levels) /\ Inner(Append(lx.stack, m)) /\ (m # "H" => Capped(Append(lx.stack, m)))
  <2> HIDE DEF m
  <2> QED
    BY <1>4, <1>5, <1>6, PushedCapped
<1>9. e \in Lx
  BY <1>7, <1>8 DEF Lx
<1>10. LeftOpen(Append(lx.out, x)) = Append(LeftOpen(lx.out), m)
  BY <1>4, LeftOpenAppend DEF OpenAfter
<1>11. Brackets(Append(lx.stack, m)) = Append(Brackets(lx.stack), m)
  <2> HIDE DEF m
  <2> QED
    BY <1>4, <1>5, BracketsAppend
<1>12. AllMatch(Append(lx.out, x)) => AllMatch(lx.out)
  BY <1>4, AllMatchAppend
<1> HIDE DEF m
<1>13. Tracked(e)
  BY <1>9, <1>10, <1>11, <1>12 DEF Tracked
<1> QED
  BY <1>3, <1>5, <1>8, <1>13 DEF Fine

(* A bracket that is written closes. *)
LEMMA WrongTracked ==
  ASSUME NEW lx, Fine(lx), NEW x \in Tokens
  PROVE  Tracked([stack |-> lx.stack, out |-> Append(Append(lx.out, Token("wrongbracket")), x)])
<1> DEFINE w == Token("wrongbracket")
           t == Append(lx.out, w)
<1>1. lx \in Lx
  BY DEF Fine, Tracked
<1>2. lx.stack \in Seq(Levels) /\ lx.out \in Seq(Tokens)
  BY <1>1, LxShape
<1>3. w \in Tokens /\ w.type = "wrongbracket"
  BY Zenon DEF Tokens, Made, Token
<1> HIDE DEF w
<1>4. t \in Seq(Tokens)
  BY <1>2, <1>3, AppendedIs
<1>5. ~AllMatch(t)
  BY <1>2, <1>3, AllMatchAppend
<1> HIDE DEF t
<1>6. Append(t, x) \in Seq(Tokens)
  BY <1>4, AppendedIs
<1>7. ~AllMatch(Append(t, x))
  BY <1>4, <1>5, AllMatchAppend
<1> QED
  BY <1>2, <1>6, <1>7 DEF Tracked, Lx, t, w

LEMMA EnqueueClose ==
  ASSUME NEW lx, Fine(lx), NEW x \in Tokens, x.type \in Closing, x.invisible = 0
  PROVE  Fine(Enqueue(lx, x))
<1> DEFINE l == Unstack(lx, "G")
           v == UnstackVisible(lx, x)
           placed == [v EXCEPT !.out = Append(@, x)]
<1>1. Fine(l) /\ l \in Lx
  BY UnstackGFine DEF Fine, Tracked
<1>2. l.stack \in Seq(Levels) /\ l.out \in Seq(Tokens) /\ Capped(l.stack)
  BY <1>1, LxShape DEF Fine
<1>3. Tracked(placed) /\ Inner(placed.stack)
  <2>1. CASE v = [l EXCEPT !.stack = Popped(@)] /\ l.stack # <<>> /\ l.stack[Len(l.stack)] # "B"
    <3> DEFINE r == SubSeq(l.stack, 1, Len(l.stack) - 1)
    <3> HIDE DEF l, v
    <3>1. placed = [stack |-> r, out |-> Append(l.out, x)]
      <4>1. v = [stack |-> r, out |-> l.out]
        BY <1>1, <2>1, LxShape DEF Popped
      <4> HIDE DEF r
      <4> QED
        BY <4>1
    <3>2. Tracked([stack |-> r, out |-> Append(l.out, x)])
      BY <1>1, <2>1, ClosesOne DEF Fine
    <3>3. Inner(r)
      BY <1>2, <2>1, PoppedCapped, Zenon
    <3> HIDE DEF r, placed
    <3> QED
      BY <3>1, <3>2, <3>3
  <2>2. CASE v = [l EXCEPT !.out = Append(@, Token("wrongbracket"))]
    <3> HIDE DEF l, v
    <3>1. placed = [stack |-> l.stack, out |-> Append(Append(l.out, Token("wrongbracket")), x)]
      <4> DEFINE s == l.stack
                 t == Append(l.out, Token("wrongbracket"))
      <4>1. v = [stack |-> s, out |-> t]
        BY <1>1, <2>2, LxShape
      <4> HIDE DEF s, t
      <4>2. placed = [stack |-> s, out |-> Append(t, x)]
        BY ONLY <4>1 DEF placed
      <4> QED
        BY <4>2 DEF s, t
    <3>2. Tracked([stack |-> l.stack, out |-> Append(Append(l.out, Token("wrongbracket")), x)])
      BY <1>1, WrongTracked
    <3> HIDE DEF placed
    <3> QED
      BY <1>2, <3>1, <3>2 DEF Capped
  <2>3. \/ v = [l EXCEPT !.stack = Popped(@)] /\ TopOf(l.stack) \in {"(", "[", "{", ":{"}
        \/ v = [l EXCEPT !.out = Append(@, Token("wrongbracket"))]
    BY Zenon DEF UnstackVisible, Closing
  <2>4. TopOf(l.stack) \in {"(", "[", "{", ":{"} => l.stack # <<>> /\ l.stack[Len(l.stack)] # "B"
    BY Zenon DEF TopOf
  <2> QED
    BY <2>1, <2>2, <2>3, <2>4, Zenon
<1>4. x.type \notin Opening
  BY Zenon DEF Opening, Closing
<1>5. Enqueue(lx, x) = Unstack(placed, "H")
  BY <1>4, Zenon DEF Enqueue
<1> HIDE DEF placed
<1>6. placed \in Lx
  BY <1>3 DEF Tracked
<1>7. Tracked(Unstack(placed, "H")) /\ Capped(Unstack(placed, "H").stack)
  BY <1>3, <1>6, UnstackTracked, UnstackCapped
<1> QED
  BY <1>5, <1>7 DEF Fine

(* The header of a block begins and ends. *)
LEMMA HeaderBegins ==
  ASSUME NEW lx, Fine(lx)
  PROVE  Fine([lx EXCEPT !.stack = Append(@, "B")])
<1> DEFINE e == [stack |-> Append(lx.stack, "B"), out |-> lx.out]
<1>1. lx \in Lx /\ Tracked(lx) /\ Capped(lx.stack)
  BY DEF Fine, Tracked
<1>2. [lx EXCEPT !.stack = Append(@, "B")] = e
  BY <1>1, LxShape
<1>3. lx.stack \in Seq(Levels) /\ lx.out \in Seq(Tokens)
  BY <1>1, LxShape
<1>4. "B" \in Levels /\ "B" # "H" /\ GoesOn(lx.stack, "B")
  BY <1>1 DEF Levels, GoesOn
<1>5. Append(lx.stack, "B") \in Seq(Levels) /\ Capped(Append(lx.stack, "B"))
  BY <1>3, <1>4, PushedCapped
<1>6. Brackets(Append(lx.stack, "B")) = Brackets(lx.stack)
  BY <1>3, <1>4, BracketsAppend
<1> QED
  BY <1>1, <1>2, <1>3, <1>5, <1>6 DEF Fine, Tracked, Lx

LEMMA HeaderEnds ==
  ASSUME NEW lx, Fine(lx), lx.stack # <<>>, lx.stack[Len(lx.stack)] = "B"
  PROVE  Fine([lx EXCEPT !.stack = Popped(@)])
<1> DEFINE r == SubSeq(lx.stack, 1, Len(lx.stack) - 1)
           e == [stack |-> r, out |-> lx.out]
<1>1. lx \in Lx /\ Tracked(lx) /\ Capped(lx.stack)
  BY DEF Fine, Tracked
<1>2. [lx EXCEPT !.stack = Popped(@)] = e
  BY <1>1, LxShape DEF Popped
<1>3. lx.stack \in Seq(Levels) /\ lx.out \in Seq(Tokens)
  BY <1>1, LxShape
<1>4. r \in Seq(Levels) /\ Capped(r) /\ lx.stack = Append(r, "B")
  <2>1. r \in Seq(Levels) /\ Capped(r)
    BY <1>1, <1>3, PoppedCapped, Zenon
  <2>2. lx.stack = Append(r, lx.stack[Len(lx.stack)])
    BY <1>3, TopAndRest
  <2> QED
    BY <2>1, <2>2
<1> HIDE DEF r
<1>5. Brackets(lx.stack) = Brackets(r)
  <2>1. "B" \in Levels
    BY DEF Levels
  <2>2. Brackets(Append(r, "B")) = Brackets(r)
    BY <1>4, <2>1, BracketsAppend
  <2> QED
    BY <1>4, <2>2
<1> QED
  BY <1>1, <1>2, <1>3, <1>4, <1>5 DEF Fine, Tracked, Lx

(***************************************************************************)
(* The parts of a step, one after the other.                                 *)
(***************************************************************************)
LEMMA OpenParenFine ==
  ASSUME NEW lx, Fine(lx)
  PROVE  Fine(Enqueue(lx, Inserted("(", 1)))
<1> DEFINE x == Inserted("(", 1)
<1>1. x \in Tokens /\ x.type = "(" /\ x.invisible = 1 /\ Inserted("(", 2).invisible = 2
  BY DEF Tokens, Made, Inserted
<1>2. x # Inserted("(", 2) /\ x.type \in Opening
  <2> HIDE DEF x
  <2> QED
    BY <1>1 DEF Opening
<1>3. GoesOn(lx.stack, Mark(x)) /\ Tracked(lx)
  BY DEF GoesOn, Fine
<1> HIDE DEF x
<1>4. Fine(Enqueue(lx, x))
  BY <1>1, <1>2, <1>3, EnqueueOpen
<1> QED
  BY <1>4 DEF x

LEMMA OpenParametersFine ==
  ASSUME NEW lx, Fine(lx), NEW token
  PROVE  Fine(OpenParameters(lx, token))
BY OpenParenFine DEF OpenParameters

(* What InHeader finds is the top once the invisible parentheses are closed. *)
LEMMA HeaderOnTop ==
  ASSUME NEW lx, Fine(lx), InHeader(lx.stack)
  PROVE  LET l == Unstack(lx, "G") IN l.stack # <<>> /\ l.stack[Len(l.stack)] = "B"
<1> DEFINE l == Unstack(lx, "G")
           s == lx.stack
           r == l.stack
           visible == {i \in DOMAIN s : s[i] \notin {"G", "H"}}
<1>1. PICK n : OnTop(s, "G", n) /\ r = SubSeq(s, 1, Len(s) - n)
  BY UnstackGFine
<1>2. Capped(r)
  BY UnstackGFine DEF Fine
<1>3. lx \in Lx /\ Inner(s)
  BY DEF Fine, Tracked, Capped
<1>4. s \in Seq(Levels)
  BY <1>3, LxShape
<1>5. visible # {} /\ s[Max(visible)] = "B"
  BY DEF InHeader
<1> HIDE DEF s, r, visible
<1>6. Len(s) \in Nat /\ DOMAIN s = 1 .. Len(s) /\ n \in 0 .. Len(s) /\ n \in Nat
  BY <1>1, <1>4 DEF OnTop
<1>0. (\A i \in 0 .. n - 1 : s[Len(s) - i] = "G") /\ (n # Len(s) => s[Len(s) - n] # "G")
  BY <1>1 DEF OnTop
<1>7. /\ r \in Seq(Levels) /\ Len(r) = Len(s) - n /\ \A i \in 1 .. Len(r) : r[i] = s[i]
      /\ r # <<>> => Len(r) # 0
  BY <1>1, <1>3, <1>4, <1>6, CutInner, Zenon
<1>8. \A i \in visible : i <= Len(s) - n
  <2> TAKE i \in visible
  <2>1. i \in 1 .. Len(s) /\ s[i] # "G"
    BY <1>6 DEF visible
  <2>2. SUFFICES ASSUME i > Len(s) - n PROVE FALSE
    BY <1>6, <2>1
  <2>3. Len(s) - i \in 0 .. n - 1 /\ Len(s) - (Len(s) - i) = i
    BY <1>6, <2>1, <2>2
  <2> QED
    BY <1>0, <2>1, <2>3
<1>9. n # Len(s)
  <2>1. PICK i : i \in visible
    BY <1>5
  <2>2. i \in 1 .. Len(s)
    BY <1>6, <2>1 DEF visible
  <2>3. i <= Len(s) - n
    BY <1>8, <2>1
  <2>4. Len(s) \in Nat /\ n \in Nat
    BY <1>6
  <2> QED
    BY <2>2, <2>3, <2>4
<1>10. Len(r) \in 1 .. Len(r) /\ Len(r) \in 1 .. Len(s) /\ r # <<>> /\ r[Len(r)] = s[Len(r)]
  <2>1. Len(r) \in 1 .. Len(r) /\ Len(r) \in 1 .. Len(s)
    <3>1. Len(r) = Len(s) - n
      BY <1>7
    <3>2. Len(s) \in Nat /\ n \in 0 .. Len(s)
      BY <1>6
    <3> QED
      BY <3>1, <3>2, <1>9
  <2>2. r # <<>>
    BY <2>1
  <2> QED
    BY <1>7, <2>1, <2>2
<1>11. s[Len(r)] \notin {"G", "H"}
  <2>1. r[Len(r)] # "H"
    BY <1>2, <1>10 DEF Capped
  <2>2. s[Len(r)] # "G"
    BY <1>0, <1>7, <1>9
  <2> QED
    BY <1>10, <2>1, <2>2
<1>12. Len(r) \in visible /\ \A i \in visible : Len(r) >= i
  BY <1>6, <1>7, <1>8, <1>10, <1>11, Zenon DEF visible
<1>13. Max(visible) = Len(r)
  <2>1. \A i \in visible : i \in Int
    BY <1>6 DEF visible
  <2>2. \A j \in visible : (\A i \in visible : j >= i) => j = Len(r)
    BY <1>12, <2>1
  <2>3. Max(visible) \in visible /\ \A i \in visible : Max(visible) >= i
    BY <1>12, Zenon DEF Max
  <2> QED
    BY <2>2, <2>3
<1>14. r # <<>> /\ r[Len(r)] = "B"
  BY <1>5, <1>10, <1>13
<1> QED
  BY <1>14 DEF r

LEMMA LeaveHeaderFine ==
  ASSUME NEW lx, Fine(lx), NEW token
  PROVE  Fine(LeaveHeader(lx, token))
<1> DEFINE l == Unstack(lx, "G")
<1>1. ASSUME InHeader(lx.stack) PROVE Fine([l EXCEPT !.stack = Popped(@)])
  <2>1. l.stack # <<>> /\ l.stack[Len(l.stack)] = "B"
    BY <1>1, HeaderOnTop
  <2>2. Fine(l)
    BY UnstackGFine
  <2> HIDE DEF l
  <2> QED
    BY <2>1, <2>2, HeaderEnds
<1>2. \/ LeaveHeader(lx, token) = lx
      \/ InHeader(lx.stack) /\ LeaveHeader(lx, token) = [l EXCEPT !.stack = Popped(@)]
  BY Zenon DEF LeaveHeader
<1> HIDE DEF l
<1> QED
  BY <1>1, <1>2

LEMMA CloseParensFine ==
  ASSUME NEW lx, Fine(lx), NEW token
  PROVE  Fine(CloseParens(lx, token))
BY UnstackGFine DEF CloseParens

LEMMA EnterHeaderFine ==
  ASSUME NEW lx, Fine(lx), NEW token
  PROVE  Fine(EnterHeader(lx, token))
<1>1. EnterHeader(lx, token) = lx \/ EnterHeader(lx, token) = [lx EXCEPT !.stack = Append(@, "B")]
  BY DEF EnterHeader
<1> QED
  BY <1>1, HeaderBegins

LEMMA OutputFine ==
  ASSUME NEW lx, Fine(lx), NEW token \in Scanned
  PROVE  Fine(Output(lx, token))
<1>1. token \in Tokens /\ token.invisible = 0 /\ Inserted("(", 2).invisible = 2
  BY DEF Tokens, Scanned, Inserted
<1>2. token # Inserted("(", 2)
  BY <1>1
<1>3. CASE token.type \in Opening
  <2>1. GoesOn(lx.stack, Mark(token)) /\ Tracked(lx)
    BY DEF GoesOn, Fine
  <2>2. Fine(Enqueue(lx, token))
    BY <1>1, <1>2, <1>3, <2>1, EnqueueOpen
  <2> QED
    BY <2>2 DEF Output
<1>4. CASE token.type \in Closing
  BY <1>1, <1>4, EnqueueClose DEF Output
<1>5. CASE token.type \notin Opening /\ token.type \notin Closing
  BY <1>1, <1>5, EnqueueOther DEF Output
<1> QED
  BY <1>3, <1>4, <1>5

(* The parenthesis before a `:{' is the only mark that waits for its brace. *)
LEMMA OpenCallFine ==
  ASSUME NEW lx, Fine(lx), NEW token, NEW rest
  PROVE  LET l == OpenCall(lx, token, rest)
         IN  \/ Fine(l)
             \/ /\ Tracked(l) /\ Inner(l.stack)
                /\ token.type \in CanOpenParenAfter /\ PeekType(rest, 0) = ":{"
<1> DEFINE l == OpenCall(lx, token, rest)
           x == Inserted("(", 2)
<1>1. \/ l = lx \/ l = Enqueue(lx, Inserted("(", 1))
      \/ l = Enqueue(lx, x) /\ token.type \in CanOpenParenAfter /\ PeekType(rest, 0) = ":{"
  BY Zenon DEF OpenCall
<1>2. x \in Tokens /\ x.type \in Opening
  BY DEF Tokens, Made, Inserted, Opening
<1>3. GoesOn(lx.stack, Mark(x)) /\ Tracked(lx)
  BY DEF GoesOn, Fine
<1>4. Tracked(Enqueue(lx, x)) /\ Inner(Enqueue(lx, x).stack)
  <2> HIDE DEF x
  <2> QED
    BY <1>2, <1>3, EnqueueOpen
<1>5. Fine(Enqueue(lx, Inserted("(", 1)))
  BY OpenParenFine
<1> HIDE DEF l, x
<1>6. \/ Fine(l)
      \/ Tracked(l) /\ Inner(l.stack) /\ token.type \in CanOpenParenAfter /\ PeekType(rest, 0) = ":{"
  BY <1>1, <1>4, <1>5, Zenon
<1> QED
  BY <1>6, Zenon DEF l

LEMMA EndLineFine ==
  ASSUME NEW lx, Fine(lx), NEW token, NEW last, NEW rest
  PROVE  Fine(EndLine(lx, token, last, rest))
<1> DEFINE x == Inserted(";", 1)
           u == Unstack(lx, "G")
           l == Enqueue(u, x)
<1>1. Fine(u)
  BY UnstackGFine
<1>2. x \in Tokens /\ x.type \notin Opening /\ x.type \notin Closing
  BY DEF Tokens, Made, Inserted, Opening, Closing
<1>3. Fine(l)
  <2> HIDE DEF u, x
  <2> QED
    BY <1>1, <1>2, EnqueueOther
<1>4. TopOf(l.stack) = "B" => l.stack # <<>> /\ l.stack[Len(l.stack)] = "B"
  BY Zenon DEF TopOf
<1>5. TopOf(l.stack) = "B" => Fine([l EXCEPT !.stack = Popped(@)])
  <2> HIDE DEF l
  <2> QED
    BY <1>3, <1>4, HeaderEnds
<1>6. \/ EndLine(lx, token, last, rest) = lx \/ EndLine(lx, token, last, rest) = u
      \/ EndLine(lx, token, last, rest) = l
      \/ TopOf(l.stack) = "B" /\ EndLine(lx, token, last, rest) = [l EXCEPT !.stack = Popped(@)]
  BY Zenon DEF EndLine
<1> HIDE DEF l, u
<1> QED
  BY <1>1, <1>3, <1>5, <1>6

(***************************************************************************)
(* The lexer's invariant: what it tracks, and that a sticky parenthesis on   *)
(* top waits for the `:{' which is the next token.                           *)
(***************************************************************************)
Pending == brackets_stack # <<>> /\ brackets_stack[Len(brackets_stack)] = "H"
LexerInv ==
    /\ input \in Seq(Scanned)
    /\ Tracked([stack |-> brackets_stack, out |-> output]) /\ Inner(brackets_stack)
    /\ Pending => PeekType(input, 0) = ":{" /\ last_token_seen.type \in CanOpenParenAfter

(* The token that is read and those that stay. *)
LEMMA HeadAndTail ==
  ASSUME NEW s \in Seq(Scanned), s # <<>>
  PROVE  Head(s) \in Scanned /\ Tail(s) \in Seq(Scanned) /\ PeekType(s, 0) = Head(s).type
<1>1. Len(s) \in Nat /\ Len(s) > 0 /\ Head(s) = s[1] /\ s[1] \in Scanned /\ Tail(s) \in Seq(Scanned)
  BY EmptySeq, HeadTailProperties
<1>2. PeekType(s, 0) = s[1].type
  BY <1>1 DEF PeekType
<1> QED
  BY <1>1, <1>2

(* Up to the token itself: all brackets but those of the input are closed. *)
LEMMA ReadFine ==
  ASSUME LexerInv, NEW token \in Scanned, token.type = PeekType(input, 0)
  PROVE  LET l0 == [stack |-> brackets_stack, out |-> output]
             l1 == EnterHeader(CloseParens(LeaveHeader(OpenParameters(l0, token), token), token), token)
         IN  Fine(Output(l1, token))
<1> DEFINE l0 == [stack |-> brackets_stack, out |-> output]
           l1 == EnterHeader(CloseParens(LeaveHeader(OpenParameters(l0, token), token), token), token)
<1>1. Tracked(l0) /\ Inner(l0.stack) /\ l0.stack = brackets_stack
  BY Zenon DEF LexerInv
<1>2. CASE ~Pending
  <2>1. Fine(l0)
    BY <1>1, <1>2 DEF Fine, Capped, Pending
  <2> HIDE DEF l0
  <2>2. Fine(OpenParameters(l0, token))
    BY <2>1, OpenParametersFine
  <2>3. Fine(LeaveHeader(OpenParameters(l0, token), token))
    BY <2>2, LeaveHeaderFine
  <2>4. Fine(CloseParens(LeaveHeader(OpenParameters(l0, token), token), token))
    BY <2>3, CloseParensFine
  <2>5. Fine(l1)
    BY <2>4, EnterHeaderFine
  <2> HIDE DEF l1
  <2>6. Fine(Output(l1, token))
    BY <2>5, OutputFine
  <2> QED
    BY <2>6 DEF l1, l0
<1>3. CASE Pending
  <2>1. token.type = ":{" /\ last_token_seen.type \in CanOpenParenAfter
    BY <1>3, Zenon DEF LexerInv
  <2> HIDE DEF l0
  <2>2. OpenParameters(l0, token) = l0
    BY <2>1, Zenon DEF OpenParameters, CanOpenParenAfter
  <2>3. LeaveHeader(l0, token) = l0
    BY <2>1, Zenon DEF LeaveHeader
  <2>4. CloseParens(l0, token) = l0
    BY <2>1, Zenon DEF CloseParens, CloseParensBefore
  <2>5. EnterHeader(l0, token) = l0
    BY <2>1, Zenon DEF EnterHeader, BeginsHeader, BeginsHeaderAtLineStart
  <2>6. l1 = l0
    BY <2>2, <2>3, <2>4, <2>5
  <2> HIDE DEF l1
  <2>7. Output(l1, token) = Enqueue(l0, token)
    BY <2>1, <2>6, Zenon DEF Output
  <2>8. token \in Tokens /\ token.type \in Opening /\ Mark(token) = ":{"
    BY <2>1, Zenon DEF Tokens, Opening, Mark
  <2>9. token # Inserted("(", 2)
    <3>1. Inserted("(", 2).type = "("
      BY DEF Inserted
    <3> QED
      BY <2>1, <3>1, Zenon
  <2>10. GoesOn(l0.stack, Mark(token))
    BY <1>1, <2>8, Zenon DEF GoesOn
  <2>11. Fine(Enqueue(l0, token))
    BY <1>1, <2>8, <2>9, <2>10, EnqueueOpen, Zenon
  <2>12. Fine(Output(l1, token))
    BY <2>7, <2>11
  <2> QED
    BY <2>12 DEF l1, l0
<1> QED
  BY <1>2, <1>3

(* One token: the invariant is kept. *)
LEMMA TokenRead ==
  ASSUME LexerInv, compute_next_token
  PROVE  LexerInv'
<1> DEFINE token == Head(input)
           rest  == Tail(input)
           last  == IF token.type \in {"space", "newline"} THEN last_token_seen ELSE token
           l0    == [stack |-> brackets_stack, out |-> output]
           l1    == EnterHeader(CloseParens(LeaveHeader(OpenParameters(l0, token), token), token), token)
           o     == Output(l1, token)
           c     == OpenCall(o, token, rest)
           l2    == EndLine(c, token, last, rest)
           seen  == IF EndsStatement(token, last, rest) THEN Inserted(";", 1) ELSE last
<1>1. input # <<>> /\ input' = rest /\ output' = l2.out /\ brackets_stack' = l2.stack /\ last_token_seen' = seen
  BY Zenon DEF compute_next_token
<1>2. token \in Scanned /\ rest \in Seq(Scanned) /\ PeekType(input, 0) = token.type
  BY <1>1, HeadAndTail, Zenon DEF LexerInv
<1>3. Fine(o)
  BY <1>2, ReadFine
<1> HIDE DEF o, token, rest, last
<1>4. \/ Fine(c)
      \/ Tracked(c) /\ Inner(c.stack) /\ token.type \in CanOpenParenAfter /\ PeekType(rest, 0) = ":{"
  BY <1>3, OpenCallFine, Zenon
<1> HIDE DEF c
<1>5. CASE Fine(c)
  <2>1. Fine(l2)
    BY <1>5, EndLineFine
  <2> HIDE DEF l2
  <2>2. l2 = [stack |-> l2.stack, out |-> l2.out] /\ Tracked(l2) /\ Inner(l2.stack)
    BY <2>1, LxShape DEF Fine, Tracked, Capped
  <2>3. ~Pending'
    BY <1>1, <2>1, Zenon DEF Pending, Fine, Capped
  <2>4. Tracked([stack |-> brackets_stack', out |-> output'])
    BY <1>1, <2>2, Zenon
  <2> QED
    BY <1>1, <1>2, <2>2, <2>3, <2>4, Zenon DEF LexerInv
<1>6. CASE /\ Tracked(c) /\ Inner(c.stack)
           /\ token.type \in CanOpenParenAfter /\ PeekType(rest, 0) = ":{"
  <2>1. token.type # "newline" /\ token.type # "space"
    BY <1>6, Zenon DEF CanOpenParenAfter
  <2>2. l2 = c /\ last = token /\ seen = token
    BY <2>1, Zenon DEF EndLine, EndsLine, EndsStatement, last
  <2>3. c = [stack |-> c.stack, out |-> c.out]
    BY <1>6, LxShape, Zenon DEF Tracked
  <2> HIDE DEF l2, seen
  <2>4. Tracked([stack |-> brackets_stack', out |-> output']) /\ Inner(brackets_stack')
    BY <1>1, <1>6, <2>2, <2>3, Zenon
  <2>5. PeekType(input', 0) = ":{" /\ last_token_seen'.type \in CanOpenParenAfter
    BY <1>1, <1>6, <2>2, Zenon
  <2> QED
    BY <1>1, <1>2, <2>4, <2>5, Zenon DEF LexerInv
<1> QED
  BY <1>4, <1>5, <1>6, Zenon

LexInv == brackets_stack \in Seq(Levels) /\ (phase = "lex" => LexerInv)

(* A script starts with no bracket open and nothing written. *)
LEMMA LexInvInit == Init => LexInv
<1> SUFFICES ASSUME Init PROVE LexInv
  OBVIOUS
<1>1. /\ input = Written(meant) /\ meant \in Scripts /\ output = <<>> /\ brackets_stack = <<>>
  BY DEF Init, LexerInit
<1>2. input \in Seq(Scanned)
  BY <1>1, WrittenIsScanned
<1>3. <<>> \in Seq(Levels) /\ <<>> \in Seq(Tokens) /\ Len(<<>>) = 0
  OBVIOUS
<1>4. Tracked([stack |-> brackets_stack, out |-> output])
  BY <1>1, <1>3, BracketsEmpty, LeftOpenEmpty DEF Tracked, Lx
<1>5. Inner(brackets_stack) /\ ~Pending
  BY <1>1, <1>3 DEF Inner, Pending
<1> QED
  BY <1>1, <1>2, <1>3, <1>4, <1>5, Zenon DEF LexInv, LexerInv

LEMMA LexInvStep == LexInv /\ [Next]_vars => LexInv'
<1> SUFFICES ASSUME LexInv, [Next]_vars PROVE LexInv'
  OBVIOUS
<1> USE DEF LexInv
<1>1. CASE Lex
  <2>1. LexerInv'
    BY <1>1, TokenRead DEF Lex
  <2>2. brackets_stack' \in Seq(Levels)
    BY <2>1, Zenon DEF LexerInv, Tracked, Lx
  <2> QED
    BY <2>1, <2>2
<1>2. CASE Parse
  <2>1. phase' # "lex" /\ brackets_stack' = brackets_stack
    BY <1>2 DEF Parse
  <2> QED
    BY <2>1
<1>3. CASE Compile
  <2>1. phase' # "lex" /\ brackets_stack' = brackets_stack
    BY <1>3 DEF Compile, lexerVars
  <2> QED
    BY <2>1
<1>4. CASE Emit
  <2>1. phase' # "lex" /\ brackets_stack' = brackets_stack
    BY <1>4 DEF Emit, lexerVars
  <2> QED
    BY <2>1
<1>5. CASE Execute
  <2>1. phase' # "lex" /\ brackets_stack' = brackets_stack
    BY <1>5 DEF Execute, lexerVars
  <2> QED
    BY <2>1
<1>6. CASE UNCHANGED vars
  BY <1>6, Zenon DEF vars, lexerVars, LexerInv, Pending, Tracked, Lx, Inner
<1> QED
  BY <1>1, <1>2, <1>3, <1>4, <1>5, <1>6 DEF Next

(* BracketsTracked for every script the scanner can give the lexer. *)
(* As long as no written bracket closes one of another kind, the lexer's    *)
(* stack holds the brackets that the tokens it has written leave open, those *)
(* of headers aside: every invisible parenthesis is closed within the        *)
(* bracket it was opened in (brackets_stack in lexer.c).                     *)
THEOREM BracketsAlwaysTracked == Spec => []BracketsTracked
<1>1. LexInv => BracketsTracked
  BY Zenon DEF LexInv, LexerInv, Tracked, AllMatch, BracketsTracked
<1> QED
  BY <1>1, LexInvInit, LexInvStep, PTL DEF Spec

-------------------------------------------------------------------------------
(***************************************************************************)
(* The machine.  c is the code, m the machine; a value is sound when it     *)
(* points to something that is there, a variable when what it holds is.     *)
(***************************************************************************)
IsMachine(m) ==
    m = [vstack |-> m.vstack, frames |-> m.frames, heap |-> m.heap, closures |-> m.closures, lists |-> m.lists,
         calls |-> m.calls, printed |-> m.printed, status |-> m.status]
IsFrame(fr) ==
    fr = [block |-> fr.block, ip |-> fr.ip, closure |-> fr.closure, locals |-> fr.locals, id |-> fr.id,
          base |-> fr.base]

\* A closure, 0 if there is none, with variables enough for the block.
Supplied(c, m, block, closure) ==
    \/ closure = 0 /\ Closes(c, block, 0)
    \/ closure \in DOMAIN m.closures /\ Closes(c, block, Len(m.closures[closure]))
\* A reference to a local is to a slot of its frame while that is live; the
\* frames that have returned keep their numbers.
RefThere(m, v) ==
    \/ /\ v.kind = "local" /\ v.owner \in 1 .. m.calls
       /\ \A f \in DOMAIN m.frames : m.frames[f].id = v.owner => v.slot \in DOMAIN m.frames[f].locals
    \/ v.kind = "closure" /\ v.owner \in DOMAIN m.closures /\ v.slot \in DOMAIN m.closures[v.owner]
    \/ v.kind = "item" /\ v.owner \in DOMAIN m.lists /\ v.slot \in DOMAIN m.lists[v.owner]
Sound(c, m, v) ==
    /\ v.type # "heapvar"
    /\ v.type = "int"  => v.i \in Int
    /\ v.type = "func" => v.block \in 2 .. Len(c) /\ Supplied(c, m, v.block, v.closure)
    /\ v.type = "ref"  => RefThere(m, v)
    /\ v.type = "list" => v.list \in DOMAIN m.lists
SoundVar(c, m, v) == IF v.type = "heapvar" THEN v.at \in DOMAIN m.heap ELSE Sound(c, m, v)
SoundVars(c, m, vs) == IsSeq(vs) /\ \A i \in DOMAIN vs : SoundVar(c, m, vs[i])

\* The memory of the machine: all it holds is sound, and each call has a number.
Memory(c, m) ==
    /\ IsMachine(m) /\ m.calls \in Nat
    /\ IsSeq(m.vstack) /\ IsSeq(m.frames) /\ IsSeq(m.heap) /\ IsSeq(m.closures) /\ IsSeq(m.lists)
    /\ \A h \in DOMAIN m.heap : Sound(c, m, m.heap[h])
    /\ \A k \in DOMAIN m.closures : SoundVars(c, m, m.closures[k])
    /\ \A l \in DOMAIN m.lists : SoundVars(c, m, m.lists[l])
    /\ \A f \in DOMAIN m.frames :
          /\ IsFrame(m.frames[f]) /\ SoundVars(c, m, m.frames[f].locals)
          /\ m.frames[f].id \in 1 .. m.calls
    /\ \A f, g \in DOMAIN m.frames : m.frames[f].id = m.frames[g].id => f = g

\* The items of Shapes.tla.
Item(c) == [kind : {"value", "place"}] \cup [kind : {"number"}, n : Nat]
           \cup [kind : {"block"}, block : 2 .. Len(c)] \cup [kind : {"group"}, extra : Nat]
Shape(c) == [locals : Nat, items : Seq(Item(c))]

\* One operand as its item says, in the frame with the number id.
Fits(c, m, id, it, v) ==
    /\ it.kind # "block"  => Sound(c, m, v)
    /\ it.kind = "place"  => v.type = "ref" /\ (v.kind = "local" => v.owner = id)
    /\ it.kind = "number" => v = Number(it.n)
    /\ it.kind = "block"  => v = FuncVal(it.block, 0)
\* Arguments and on top their number, which the item need not tell.
Grouped(c, m, it, a, b) ==
    (\A i \in a + 1 .. b : Sound(c, m, m.vstack[i])) /\ m.vstack[b] = Number(b - a - 1 - it.extra)
ItemAt(c, m, id, it, a, b) ==
    /\ a < b
    /\ it.kind = "group" => Grouped(c, m, it, a, b)
    /\ it.kind # "group" => b = a + 1 /\ Fits(c, m, id, it, m.vstack[b])
\* The operands from lo to hi are the items, one after another.
Laid(c, m, id, lo, hi, its) ==
    \E at \in [0 .. Len(its) -> lo .. hi] :
        /\ at[0] = lo /\ at[Len(its)] = hi
        /\ \A j \in 1 .. Len(its) : ItemAt(c, m, id, its[j], at[j - 1], at[j])

\* A frame that has called: when it goes on it has one value more.
Waits(c, m, f) ==
    LET fr == m.frames[f]
        s  == ShapeAt(c, fr.block)[fr.ip]
    IN  /\ fr.block \in DOMAIN c /\ fr.ip \in DOMAIN c[fr.block] /\ s \in Shape(c)
        /\ Len(fr.locals) = s.locals /\ Supplied(c, m, fr.block, fr.closure)
        /\ s.items # <<>> /\ Topmost(s.items) = Some("value")
        /\ Laid(c, m, fr.id, fr.base, m.frames[f + 1].base, Less(s.items, 1))
\* All frames but the top one wait.
Below(c, m) ==
    /\ Memory(c, m) /\ m.frames # <<>>
    /\ \A f \in DOMAIN m.frames : m.frames[f].base \in Nat
    /\ \A f, g \in DOMAIN m.frames : f <= g => m.frames[f].base <= m.frames[g].base
    /\ \A f \in 1 .. Len(m.frames) - 1 : Waits(c, m, f)
\* The top frame is in front of instruction i of block k, with the shape s.
Stands(c, m, k, i, s) ==
    /\ Fp(m).block = k /\ Fp(m).ip = i /\ s \in Shape(c)
    /\ Len(Fp(m).locals) = s.locals /\ Supplied(c, m, k, Fp(m).closure)
    /\ Laid(c, m, Fp(m).id, Fp(m).base, Len(m.vstack), s.items)
\* The machine between two instructions.
Good(c, m) ==
    /\ m.status = "running" /\ Below(c, m)
    /\ Fp(m).block \in DOMAIN c /\ Fp(m).ip \in DOMAIN c[Fp(m).block]
    /\ Stands(c, m, Fp(m).block, Fp(m).ip, ShapeAt(c, Fp(m).block)[Fp(m).ip])

-------------------------------------------------------------------------------
(***************************************************************************)
(* Sequences, whatever their elements.                                       *)
(***************************************************************************)
LEMMA IsSeqIn ==
  ASSUME NEW s, IsSeq(s), NEW S, \A i \in DOMAIN s : s[i] \in S
  PROVE  s \in Seq(S) /\ Len(s) \in Nat /\ DOMAIN s = 1 .. Len(s)
<1>1. Len(s) \in Nat /\ s = [i \in 1 .. Len(s) |-> s[i]]
  BY DEF IsSeq
<1>2. DOMAIN s = 1 .. Len(s)
  BY <1>1
<1>3. [i \in 1 .. Len(s) |-> s[i]] \in [1 .. Len(s) -> S]
  BY <1>2
<1> QED
  BY <1>1, <1>2, <1>3

LEMMA SeqIs ==
  ASSUME NEW S, NEW s \in Seq(S)
  PROVE  IsSeq(s) /\ Len(s) \in Nat /\ DOMAIN s = 1 .. Len(s) /\ \A i \in DOMAIN s : s[i] \in S
<1>1. Len(s) \in Nat /\ s \in [1 .. Len(s) -> S]
  BY LenProperties
<1> QED
  BY <1>1 DEF IsSeq

LEMMA SeqDomain ==
  ASSUME NEW s, IsSeq(s)
  PROVE  Len(s) \in Nat /\ DOMAIN s = 1 .. Len(s) /\ (s = <<>> <=> Len(s) = 0)
<1>1. s \in Seq({s[i] : i \in DOMAIN s})
  BY IsSeqIn
<1> QED
  BY <1>1, IsSeqIn, EmptySeq

LEMMA EmptyIs == IsSeq(<<>>) /\ Len(<<>>) = 0 /\ DOMAIN <<>> = {}
<1>1. <<>> \in Seq({}) /\ Len(<<>>) = 0 /\ DOMAIN <<>> = {}
  OBVIOUS
<1> QED
  BY <1>1, SeqIs

(* A sequence with one element more. *)
LEMMA Longer ==
  ASSUME NEW s, IsSeq(s), NEW v
  PROVE  LET t == Append(s, v)
         IN  /\ IsSeq(t) /\ Len(t) = Len(s) + 1 /\ t[Len(s) + 1] = v /\ t[Len(t)] = v /\ DOMAIN t = 1 .. Len(s) + 1
             /\ \A i \in 1 .. Len(s) : t[i] = s[i]
<1> DEFINE S == {s[i] : i \in DOMAIN s} \cup {v}
           t == Append(s, v)
<1>1. s \in Seq(S) /\ v \in S
  BY IsSeqIn
<1> HIDE DEF S
<1>2. t \in Seq(S) /\ Len(t) = Len(s) + 1 /\ t[Len(s) + 1] = v /\ \A i \in 1 .. Len(s) : t[i] = s[i]
  BY <1>1, AppendProperties
<1> HIDE DEF t
<1>3. IsSeq(t) /\ DOMAIN t = 1 .. Len(t)
  BY <1>2, SeqIs
<1>4. t[Len(t)] = v
  BY <1>2
<1> QED
  BY <1>2, <1>3, <1>4 DEF t

(* The first n elements of a sequence. *)
LEMMA Cut ==
  ASSUME NEW s, IsSeq(s), NEW n \in 0 .. Len(s)
  PROVE  LET t == SubSeq(s, 1, n)
         IN  IsSeq(t) /\ Len(t) = n /\ DOMAIN t = 1 .. n /\ \A i \in 1 .. n : t[i] = s[i]
<1> DEFINE S == {s[i] : i \in DOMAIN s}
           t == SubSeq(s, 1, n)
<1>1. s \in Seq(S) /\ Len(s) \in Nat /\ DOMAIN s = 1 .. Len(s)
  BY IsSeqIn
<1> HIDE DEF S
<1>2. \A i \in 1 .. n : s[i] \in S
  BY <1>1, SeqIs
<1>3. t \in Seq(S) /\ Len(t) = n /\ \A i \in 1 .. n : t[i] = s[i]
  BY <1>1, <1>2, SubSeqProperties
<1> HIDE DEF t
<1>4. IsSeq(t) /\ DOMAIN t = 1 .. Len(t)
  BY <1>3, SeqIs
<1> QED
  BY <1>3, <1>4 DEF t

(* Two sequences, one after the other. *)
LEMMA Joined ==
  ASSUME NEW s, IsSeq(s), NEW t, IsSeq(t)
  PROVE  LET u == s \o t
         IN  /\ IsSeq(u) /\ Len(u) = Len(s) + Len(t) /\ DOMAIN u = 1 .. Len(s) + Len(t)
             /\ \A i \in 1 .. Len(s) : u[i] = s[i]
             /\ \A i \in 1 .. Len(t) : u[Len(s) + i] = t[i]
<1> DEFINE S == {s[i] : i \in DOMAIN s} \cup {t[i] : i \in DOMAIN t}
           u == s \o t
<1>1. s \in Seq(S) /\ t \in Seq(S)
  BY IsSeqIn
<1> HIDE DEF S
<1>2. u \in Seq(S) /\ Len(u) = Len(s) + Len(t) /\ \A i \in 1 .. Len(u) : u[i] = IF i <= Len(s) THEN s[i] ELSE t[i - Len(s)]
  BY <1>1, ConcatProperties
<1>3. Len(s) \in Nat /\ Len(t) \in Nat
  BY SeqDomain
<1> HIDE DEF u
<1>4. IsSeq(u) /\ DOMAIN u = 1 .. Len(u)
  BY <1>2, SeqIs
<1>5. \A i \in 1 .. Len(s) : u[i] = s[i]
  BY <1>2, <1>3
<1>6. \A i \in 1 .. Len(t) : u[Len(s) + i] = t[i]
  <2> TAKE i \in 1 .. Len(t)
  <2>1. Len(s) + i \in 1 .. Len(u) /\ ~(Len(s) + i <= Len(s)) /\ (Len(s) + i) - Len(s) = i
    BY <1>2, <1>3
  <2> QED
    BY <1>2, <2>1
<1> QED
  BY <1>2, <1>4, <1>5, <1>6 DEF u

(* A sequence with one element changed. *)
LEMMA Changed ==
  ASSUME NEW s, IsSeq(s), NEW k \in DOMAIN s, NEW v
  PROVE  LET t == [s EXCEPT ![k] = v]
         IN  /\ IsSeq(t) /\ Len(t) = Len(s) /\ DOMAIN t = DOMAIN s
             /\ t[k] = v /\ \A i \in DOMAIN s : i # k => t[i] = s[i]
<1> DEFINE S == {s[i] : i \in DOMAIN s} \cup {v}
           t == [s EXCEPT ![k] = v]
<1>1. s \in Seq(S) /\ v \in S /\ Len(s) \in Nat /\ DOMAIN s = 1 .. Len(s)
  BY IsSeqIn
<1> HIDE DEF S
<1>2. t \in Seq(S) /\ Len(t) = Len(s)
  BY <1>1, ExceptSeq
<1>3. DOMAIN t = DOMAIN s /\ t[k] = v /\ \A i \in DOMAIN s : i # k => t[i] = s[i]
  OBVIOUS
<1> HIDE DEF t
<1>4. IsSeq(t)
  BY <1>2, SeqIs
<1> QED
  BY <1>2, <1>3, <1>4 DEF t

(* A sequence given by its elements. *)
LEMMA Listed ==
  ASSUME NEW n \in Nat, NEW t, DOMAIN t = 1 .. n, t = [i \in 1 .. n |-> t[i]]
  PROVE  IsSeq(t) /\ Len(t) = n
<1> DEFINE S == {t[i] : i \in 1 .. n}
<1>1. [i \in 1 .. n |-> t[i]] \in [1 .. n -> S]
  OBVIOUS
<1>2. t \in [1 .. n -> S]
  BY <1>1
<1> HIDE DEF S
<1>3. t \in Seq(S)
  BY <1>2
<1>4. Len(t) = n
  BY <1>3, LenProperties
<1> QED
  BY <1>3, <1>4, SeqIs

-------------------------------------------------------------------------------
(* The machine as a record: what a change of one field leaves alone. *)
With(m, s) == [m EXCEPT !.vstack = s]

LEMMA StackSet ==
  ASSUME NEW m, IsMachine(m), NEW x
  PROVE  LET n == With(m, x)
         IN  /\ IsMachine(n) /\ n.vstack = x /\ n.frames = m.frames /\ n.heap = m.heap /\ n.closures = m.closures
             /\ n.lists = m.lists /\ n.calls = m.calls /\ n.printed = m.printed /\ n.status = m.status
BY DEF IsMachine, With

LEMMA FramesSet ==
  ASSUME NEW m, IsMachine(m), NEW x
  PROVE  LET n == [m EXCEPT !.frames = x]
         IN  /\ IsMachine(n) /\ n.vstack = m.vstack /\ n.frames = x /\ n.heap = m.heap /\ n.closures = m.closures
             /\ n.lists = m.lists /\ n.calls = m.calls /\ n.printed = m.printed /\ n.status = m.status
BY DEF IsMachine

LEMMA HeapSet ==
  ASSUME NEW m, IsMachine(m), NEW x
  PROVE  LET n == [m EXCEPT !.heap = x]
         IN  /\ IsMachine(n) /\ n.vstack = m.vstack /\ n.frames = m.frames /\ n.heap = x /\ n.closures = m.closures
             /\ n.lists = m.lists /\ n.calls = m.calls /\ n.printed = m.printed /\ n.status = m.status
BY DEF IsMachine

LEMMA ClosuresSet ==
  ASSUME NEW m, IsMachine(m), NEW x
  PROVE  LET n == [m EXCEPT !.closures = x]
         IN  /\ IsMachine(n) /\ n.vstack = m.vstack /\ n.frames = m.frames /\ n.heap = m.heap /\ n.closures = x
             /\ n.lists = m.lists /\ n.calls = m.calls /\ n.printed = m.printed /\ n.status = m.status
BY DEF IsMachine

LEMMA ListsSet ==
  ASSUME NEW m, IsMachine(m), NEW x
  PROVE  LET n == [m EXCEPT !.lists = x]
         IN  /\ IsMachine(n) /\ n.vstack = m.vstack /\ n.frames = m.frames /\ n.heap = m.heap /\ n.closures = m.closures
             /\ n.lists = x /\ n.calls = m.calls /\ n.printed = m.printed /\ n.status = m.status
BY DEF IsMachine

LEMMA PrintedSet ==
  ASSUME NEW m, IsMachine(m), NEW x
  PROVE  LET n == [m EXCEPT !.printed = x]
         IN  /\ IsMachine(n) /\ n.vstack = m.vstack /\ n.frames = m.frames /\ n.heap = m.heap /\ n.closures = m.closures
             /\ n.lists = m.lists /\ n.calls = m.calls /\ n.printed = x /\ n.status = m.status
BY DEF IsMachine

LEMMA StatusSet ==
  ASSUME NEW m, IsMachine(m), NEW x
  PROVE  LET n == [m EXCEPT !.status = x]
         IN  /\ IsMachine(n) /\ n.vstack = m.vstack /\ n.frames = m.frames /\ n.heap = m.heap /\ n.closures = m.closures
             /\ n.lists = m.lists /\ n.calls = m.calls /\ n.printed = m.printed /\ n.status = x
BY DEF IsMachine

(***************************************************************************)
(* What a step does to the memory: places stay places (Extends); frames     *)
(* keep all but the values of their locals (SameFrames).                     *)
(***************************************************************************)
Extends(m, n) ==
    /\ m.calls \in Nat /\ n.calls \in Nat /\ m.calls <= n.calls
    /\ DOMAIN m.heap \subseteq DOMAIN n.heap
    /\ \A k \in DOMAIN m.closures :
          k \in DOMAIN n.closures /\ Len(n.closures[k]) = Len(m.closures[k]) /\ DOMAIN n.closures[k] = DOMAIN m.closures[k]
    /\ \A l \in DOMAIN m.lists : l \in DOMAIN n.lists /\ DOMAIN n.lists[l] = DOMAIN m.lists[l]
    /\ \A f \in DOMAIN n.frames : n.frames[f].id \in 1 .. m.calls =>
          \E g \in DOMAIN m.frames :
             m.frames[g].id = n.frames[f].id /\ DOMAIN m.frames[g].locals \subseteq DOMAIN n.frames[f].locals
SameFrame(a, b) ==
    /\ a.block = b.block /\ a.ip = b.ip /\ a.closure = b.closure /\ a.id = b.id /\ a.base = b.base
    /\ Len(a.locals) = Len(b.locals) /\ DOMAIN a.locals = DOMAIN b.locals
SameFrames(m, n) ==
    /\ n.calls = m.calls /\ Len(n.frames) = Len(m.frames) /\ DOMAIN n.frames = DOMAIN m.frames
    /\ \A f \in DOMAIN m.frames : SameFrame(n.frames[f], m.frames[f])
Alike(m, n) == n.status = m.status /\ SameFrames(m, n) /\ Extends(m, n)

LEMMA SuppliedKept ==
  ASSUME NEW c, NEW m, NEW n, Extends(m, n), NEW block, NEW closure, Supplied(c, m, block, closure)
  PROVE  Supplied(c, n, block, closure)
BY DEF Supplied, Extends

LEMMA RefKept ==
  ASSUME NEW m, NEW n, Extends(m, n), NEW v, RefThere(m, v)
  PROVE  RefThere(n, v)
<1>1. CASE /\ v.kind = "local" /\ v.owner \in 1 .. m.calls
           /\ \A f \in DOMAIN m.frames : m.frames[f].id = v.owner => v.slot \in DOMAIN m.frames[f].locals
  <2>1. v.owner \in 1 .. n.calls
    BY <1>1 DEF Extends
  <2>2. ASSUME NEW f \in DOMAIN n.frames, n.frames[f].id = v.owner PROVE v.slot \in DOMAIN n.frames[f].locals
    <3>1. PICK g \in DOMAIN m.frames :
             m.frames[g].id = n.frames[f].id /\ DOMAIN m.frames[g].locals \subseteq DOMAIN n.frames[f].locals
      BY <1>1, <2>2 DEF Extends
    <3> QED
      BY <1>1, <2>2, <3>1
  <2> QED
    BY <1>1, <2>1, <2>2 DEF RefThere
<1>2. CASE v.kind = "closure" /\ v.owner \in DOMAIN m.closures /\ v.slot \in DOMAIN m.closures[v.owner]
  BY <1>2 DEF RefThere, Extends
<1>3. CASE v.kind = "item" /\ v.owner \in DOMAIN m.lists /\ v.slot \in DOMAIN m.lists[v.owner]
  BY <1>3 DEF RefThere, Extends
<1> QED
  BY <1>1, <1>2, <1>3 DEF RefThere

LEMMA SoundKept ==
  ASSUME NEW c, NEW m, NEW n, Extends(m, n), NEW v, Sound(c, m, v)
  PROVE  Sound(c, n, v)
<1>1. v.type = "list" => v.list \in DOMAIN n.lists
  BY DEF Sound, Extends
<1>2. v.type = "func" => v.block \in 2 .. Len(c) /\ Supplied(c, n, v.block, v.closure)
  BY SuppliedKept DEF Sound
<1>3. v.type = "ref" => RefThere(n, v)
  BY RefKept DEF Sound
<1> QED
  BY <1>1, <1>2, <1>3 DEF Sound

LEMMA SoundVarKept ==
  ASSUME NEW c, NEW m, NEW n, Extends(m, n), NEW v, SoundVar(c, m, v)
  PROVE  SoundVar(c, n, v)
BY SoundKept DEF SoundVar, Extends

LEMMA SoundVarsKept ==
  ASSUME NEW c, NEW m, NEW n, Extends(m, n), NEW s, SoundVars(c, m, s)
  PROVE  SoundVars(c, n, s)
BY SoundVarKept DEF SoundVars

(* A change of the operand stack alone. *)
LEMMA StackOnly ==
  ASSUME NEW c, NEW m, NEW q, Memory(c, q), Alike(m, q), NEW s, IsSeq(s)
  PROVE  LET n == With(q, s) IN Memory(c, n) /\ Alike(m, n) /\ n.vstack = s /\ n.frames = q.frames
<1> DEFINE n == With(q, s)
<1>1. /\ IsMachine(n) /\ n.vstack = s /\ n.frames = q.frames /\ n.heap = q.heap /\ n.closures = q.closures
      /\ n.lists = q.lists /\ n.calls = q.calls /\ n.printed = q.printed /\ n.status = q.status
  BY StackSet DEF Memory
<1> HIDE DEF n
<1>2. Alike(m, n)
  BY <1>1 DEF Alike, SameFrames, Extends
<1>3. Extends(q, n)
  BY <1>1 DEF Extends, Memory
<1>4. \A v : Sound(c, q, v) => Sound(c, n, v)
  BY <1>3, SoundKept
<1>5. \A v : SoundVars(c, q, v) => SoundVars(c, n, v)
  BY <1>3, SoundVarsKept
<1>6. Memory(c, n)
  BY <1>1, <1>4, <1>5 DEF Memory
<1> QED
  BY <1>1, <1>2, <1>6 DEF n

LEMMA AlikeItself ==
  ASSUME NEW c, NEW m, Memory(c, m)
  PROVE  Alike(m, m)
BY DEF Memory, Alike, SameFrames, SameFrame, Extends

(***************************************************************************)
(* Changes of one part of the memory.                                        *)
(***************************************************************************)
LEMMA HeapPut ==
  ASSUME NEW c, NEW m, Memory(c, m), NEW x, IsSeq(x), DOMAIN m.heap \subseteq DOMAIN x,
         \A h \in DOMAIN x : Sound(c, m, x[h])
  PROVE  LET n == [m EXCEPT !.heap = x]
         IN  Memory(c, n) /\ Alike(m, n) /\ n.vstack = m.vstack /\ n.frames = m.frames /\ n.heap = x
<1> DEFINE n == [m EXCEPT !.heap = x]
<1>1. /\ IsMachine(n) /\ n.vstack = m.vstack /\ n.frames = m.frames /\ n.heap = x /\ n.closures = m.closures
      /\ n.lists = m.lists /\ n.calls = m.calls /\ n.printed = m.printed /\ n.status = m.status
  BY HeapSet DEF Memory
<1> HIDE DEF n
<1>2. Alike(m, n)
  BY <1>1 DEF Alike, SameFrames, SameFrame, Extends, Memory
<1>3. Extends(m, n)
  BY <1>2 DEF Alike
<1>4. \A v : Sound(c, m, v) => Sound(c, n, v)
  BY <1>3, SoundKept
<1>5. \A v : SoundVars(c, m, v) => SoundVars(c, n, v)
  BY <1>3, SoundVarsKept
<1>6. Memory(c, n)
  BY <1>1, <1>4, <1>5 DEF Memory
<1> QED
  BY <1>1, <1>2, <1>6 DEF n

LEMMA ClosuresPut ==
  ASSUME NEW c, NEW m, Memory(c, m), NEW x, IsSeq(x),
         \A k \in DOMAIN m.closures :
            k \in DOMAIN x /\ Len(x[k]) = Len(m.closures[k]) /\ DOMAIN x[k] = DOMAIN m.closures[k],
         \A k \in DOMAIN x : SoundVars(c, m, x[k])
  PROVE  LET n == [m EXCEPT !.closures = x]
         IN  Memory(c, n) /\ Alike(m, n) /\ n.vstack = m.vstack /\ n.frames = m.frames /\ n.closures = x
<1> DEFINE n == [m EXCEPT !.closures = x]
<1>1. /\ IsMachine(n) /\ n.vstack = m.vstack /\ n.frames = m.frames /\ n.heap = m.heap /\ n.closures = x
      /\ n.lists = m.lists /\ n.calls = m.calls /\ n.printed = m.printed /\ n.status = m.status
  BY ClosuresSet DEF Memory
<1> HIDE DEF n
<1>2. Alike(m, n)
  BY <1>1 DEF Alike, SameFrames, SameFrame, Extends, Memory
<1>3. Extends(m, n)
  BY <1>2 DEF Alike
<1>4. \A v : Sound(c, m, v) => Sound(c, n, v)
  BY <1>3, SoundKept
<1>5. \A v : SoundVars(c, m, v) => SoundVars(c, n, v)
  BY <1>3, SoundVarsKept
<1>6. Memory(c, n)
  BY <1>1, <1>4, <1>5 DEF Memory
<1> QED
  BY <1>1, <1>2, <1>6 DEF n

LEMMA ListsPut ==
  ASSUME NEW c, NEW m, Memory(c, m), NEW x, IsSeq(x),
         \A k \in DOMAIN m.lists : k \in DOMAIN x /\ DOMAIN x[k] = DOMAIN m.lists[k],
         \A k \in DOMAIN x : SoundVars(c, m, x[k])
  PROVE  LET n == [m EXCEPT !.lists = x]
         IN  Memory(c, n) /\ Alike(m, n) /\ n.vstack = m.vstack /\ n.frames = m.frames /\ n.lists = x
<1> DEFINE n == [m EXCEPT !.lists = x]
<1>1. /\ IsMachine(n) /\ n.vstack = m.vstack /\ n.frames = m.frames /\ n.heap = m.heap /\ n.closures = m.closures
      /\ n.lists = x /\ n.calls = m.calls /\ n.printed = m.printed /\ n.status = m.status
  BY ListsSet DEF Memory
<1> HIDE DEF n
<1>2. Alike(m, n)
  BY <1>1 DEF Alike, SameFrames, SameFrame, Extends, Memory
<1>3. Extends(m, n)
  BY <1>2 DEF Alike
<1>4. \A v : Sound(c, m, v) => Sound(c, n, v)
  BY <1>3, SoundKept
<1>5. \A v : SoundVars(c, m, v) => SoundVars(c, n, v)
  BY <1>3, SoundVarsKept
<1>6. Memory(c, n)
  BY <1>1, <1>4, <1>5 DEF Memory
<1> QED
  BY <1>1, <1>2, <1>6 DEF n

(* A frame is changed, with at least the locals it had. *)
LEMMA FramePut ==
  ASSUME NEW c, NEW m, Memory(c, m), NEW f \in DOMAIN m.frames, NEW fr, IsFrame(fr), fr.id = m.frames[f].id,
         SoundVars(c, m, fr.locals), DOMAIN m.frames[f].locals \subseteq DOMAIN fr.locals
  PROVE  LET n == [m EXCEPT !.frames = [m.frames EXCEPT ![f] = fr]]
         IN  /\ Memory(c, n) /\ Extends(m, n) /\ n.vstack = m.vstack /\ n.status = m.status
             /\ n.calls = m.calls /\ n.frames[f] = fr
             /\ Len(n.frames) = Len(m.frames) /\ DOMAIN n.frames = DOMAIN m.frames
             /\ \A g \in DOMAIN m.frames : g # f => n.frames[g] = m.frames[g]
<1> DEFINE x == [m.frames EXCEPT ![f] = fr]
           n == [m EXCEPT !.frames = x]
<1>0. /\ IsSeq(x) /\ Len(x) = Len(m.frames) /\ DOMAIN x = DOMAIN m.frames
      /\ x[f] = fr /\ \A g \in DOMAIN m.frames : g # f => x[g] = m.frames[g]
  BY Changed DEF Memory
<1> HIDE DEF x
<1>1. /\ IsMachine(n) /\ n.vstack = m.vstack /\ n.frames = x /\ n.heap = m.heap /\ n.closures = m.closures
      /\ n.lists = m.lists /\ n.calls = m.calls /\ n.printed = m.printed /\ n.status = m.status
  BY FramesSet DEF Memory
<1> HIDE DEF n
<1>2. \A g \in DOMAIN m.frames :
         x[g].id = m.frames[g].id /\ DOMAIN m.frames[g].locals \subseteq DOMAIN x[g].locals /\ IsFrame(x[g])
  BY <1>0 DEF Memory
<1>3. Extends(m, n)
  BY <1>0, <1>1, <1>2 DEF Extends, Memory
<1>4. \A v : Sound(c, m, v) => Sound(c, n, v)
  BY <1>3, SoundKept
<1>5. \A v : SoundVars(c, m, v) => SoundVars(c, n, v)
  BY <1>3, SoundVarsKept
<1>6. \A g \in DOMAIN m.frames : SoundVars(c, m, x[g].locals)
  BY <1>0 DEF Memory
<1>7. Memory(c, n)
  BY <1>0, <1>1, <1>2, <1>4, <1>5, <1>6 DEF Memory
<1> QED
  BY <1>0, <1>1, <1>3, <1>7 DEF n, x

LEMMA LocalsSet ==
  ASSUME NEW fr, IsFrame(fr), NEW x
  PROVE  LET n == [fr EXCEPT !.locals = x]
         IN  /\ IsFrame(n) /\ n.block = fr.block /\ n.ip = fr.ip /\ n.closure = fr.closure /\ n.locals = x
             /\ n.id = fr.id /\ n.base = fr.base
BY DEF IsFrame

LEMMA IpSet ==
  ASSUME NEW fr, IsFrame(fr), NEW x
  PROVE  LET n == [fr EXCEPT !.ip = x]
         IN  /\ IsFrame(n) /\ n.block = fr.block /\ n.ip = x /\ n.closure = fr.closure /\ n.locals = fr.locals
             /\ n.id = fr.id /\ n.base = fr.base
BY DEF IsFrame

(***************************************************************************)
(* Places: what a reference leads to.                                        *)
(***************************************************************************)
Alive(m, ref) ==
    /\ RefThere(m, ref)
    /\ ref.kind = "local" => \E f \in DOMAIN m.frames : m.frames[f].id = ref.owner

LEMMA FrameFound ==
  ASSUME NEW m, NEW ref, Alive(m, ref), ref.kind = "local"
  PROVE  LET f == FrameOf(m, ref)
         IN  f \in DOMAIN m.frames /\ m.frames[f].id = ref.owner /\ ref.slot \in DOMAIN m.frames[f].locals
<1>1. \E f \in DOMAIN m.frames : m.frames[f].id = ref.owner
  BY DEF Alive
<1> DEFINE f == FrameOf(m, ref)
<1>2. f \in DOMAIN m.frames /\ m.frames[f].id = ref.owner
  BY <1>1, Zenon DEF FrameOf
<1> HIDE DEF f
<1>3. ref.slot \in DOMAIN m.frames[f].locals
  BY <1>2 DEF Alive, RefThere
<1> QED
  BY <1>2, <1>3 DEF f

LEMMA HeldSound ==
  ASSUME NEW c, NEW m, Memory(c, m), NEW ref, Alive(m, ref)
  PROVE  SoundVar(c, m, Held(m, ref))
<1>1. CASE ref.kind = "local"
  <2> DEFINE f == FrameOf(m, ref)
  <2>1. f \in DOMAIN m.frames /\ ref.slot \in DOMAIN m.frames[f].locals
    BY <1>1, FrameFound
  <2>2. Held(m, ref) = m.frames[f].locals[ref.slot]
    BY <1>1 DEF Held
  <2> HIDE DEF f
  <2> QED
    BY <2>1, <2>2 DEF Memory, SoundVars
<1>2. CASE ref.kind = "closure"
  <2>1. ref.owner \in DOMAIN m.closures /\ ref.slot \in DOMAIN m.closures[ref.owner]
    BY <1>2 DEF Alive, RefThere
  <2>2. Held(m, ref) = m.closures[ref.owner][ref.slot]
    BY <1>2 DEF Held
  <2> QED
    BY <2>1, <2>2 DEF Memory, SoundVars
<1>3. CASE ref.kind = "item"
  <2>1. ref.owner \in DOMAIN m.lists /\ ref.slot \in DOMAIN m.lists[ref.owner]
    BY <1>3 DEF Alive, RefThere
  <2>2. Held(m, ref) = m.lists[ref.owner][ref.slot]
    BY <1>3 DEF Held
  <2> QED
    BY <2>1, <2>2 DEF Memory, SoundVars
<1> QED
  BY <1>1, <1>2, <1>3 DEF Alive, RefThere

LEMMA ValueSound ==
  ASSUME NEW c, NEW m, Memory(c, m), NEW ref, Alive(m, ref)
  PROVE  Sound(c, m, sbVar_get_value(m, ref))
<1> DEFINE v == Held(m, ref)
<1>1. SoundVar(c, m, v)
  BY HeldSound
<1>2. sbVar_get_value(m, ref) = IF v.type = "heapvar" THEN m.heap[v.at] ELSE v
  BY DEF sbVar_get_value
<1> HIDE DEF v
<1> QED
  BY <1>1, <1>2 DEF SoundVar, Memory

(* A sequence of variables with one of them changed. *)
LEMMA VarsChanged ==
  ASSUME NEW c, NEW m, NEW s, SoundVars(c, m, s), NEW k \in DOMAIN s, NEW v, SoundVar(c, m, v)
  PROVE  LET t == [s EXCEPT ![k] = v]
         IN  SoundVars(c, m, t) /\ Len(t) = Len(s) /\ DOMAIN t = DOMAIN s
<1> DEFINE t == [s EXCEPT ![k] = v]
<1>1. IsSeq(t) /\ Len(t) = Len(s) /\ DOMAIN t = DOMAIN s /\ t[k] = v /\ \A i \in DOMAIN s : i # k => t[i] = s[i]
  BY Changed DEF SoundVars
<1> HIDE DEF t
<1>2. SoundVars(c, m, t)
  BY <1>1 DEF SoundVars
<1> QED
  BY <1>1, <1>2 DEF t

LEMMA HeldPut ==
  ASSUME NEW c, NEW m, Memory(c, m), NEW ref, Alive(m, ref), NEW v, SoundVar(c, m, v)
  PROVE  LET n == WithHeld(m, ref, v) IN Memory(c, n) /\ Alike(m, n) /\ n.vstack = m.vstack
<1> DEFINE n == WithHeld(m, ref, v)
<1>1. CASE ref.kind = "local"
  <2> DEFINE f  == FrameOf(m, ref)
             s  == m.frames[f].locals
             t  == [s EXCEPT ![ref.slot] = v]
             fr == [m.frames[f] EXCEPT !.locals = t]
             x  == [m.frames EXCEPT ![f] = fr]
             q  == [m EXCEPT !.frames = x]
  <2>1. f \in DOMAIN m.frames /\ ref.slot \in DOMAIN s
    BY <1>1, FrameFound
  <2>2. n = q
    BY <1>1 DEF WithHeld
  <2> HIDE DEF f, n, q
  <2>3. SoundVars(c, m, s) /\ IsFrame(m.frames[f])
    BY <2>1 DEF Memory
  <2> HIDE DEF s
  <2>4. SoundVars(c, m, t) /\ Len(t) = Len(s) /\ DOMAIN t = DOMAIN s
    BY <2>1, <2>3, VarsChanged
  <2> HIDE DEF t
  <2>5. /\ IsFrame(fr) /\ fr.block = m.frames[f].block /\ fr.ip = m.frames[f].ip /\ fr.closure = m.frames[f].closure
        /\ fr.locals = t /\ fr.id = m.frames[f].id /\ fr.base = m.frames[f].base
    BY <2>3, LocalsSet
  <2> HIDE DEF fr
  <2>6. SameFrame(fr, m.frames[f])
    BY <2>4, <2>5 DEF SameFrame, s
  <2>7. /\ Memory(c, q) /\ Extends(m, q) /\ q.vstack = m.vstack /\ q.status = m.status
        /\ q.calls = m.calls /\ q.frames[f] = fr
        /\ Len(q.frames) = Len(m.frames) /\ DOMAIN q.frames = DOMAIN m.frames
        /\ \A g \in DOMAIN m.frames : g # f => q.frames[g] = m.frames[g]
    BY <2>1, <2>4, <2>5, FramePut DEF q, s
  <2>8. SameFrames(m, q)
    BY <2>6, <2>7 DEF SameFrames, SameFrame
  <2>9. Memory(c, n) /\ Alike(m, n) /\ n.vstack = m.vstack
    BY <2>2, <2>7, <2>8 DEF Alike
  <2> QED
    BY <2>9 DEF n
<1>2. CASE ref.kind = "closure"
  <2> DEFINE k == ref.owner
             s == m.closures[k]
             t == [s EXCEPT ![ref.slot] = v]
             x == [m.closures EXCEPT ![k] = t]
             q == [m EXCEPT !.closures = x]
  <2>1. k \in DOMAIN m.closures /\ ref.slot \in DOMAIN s
    BY <1>2 DEF Alive, RefThere
  <2>2. n = q
    BY <1>2 DEF WithHeld
  <2> HIDE DEF n, q
  <2>3. SoundVars(c, m, s)
    BY <2>1 DEF Memory
  <2>4. SoundVars(c, m, t) /\ Len(t) = Len(s) /\ DOMAIN t = DOMAIN s
    <3> HIDE DEF s
    <3> QED
      BY <2>1, <2>3, VarsChanged
  <2> HIDE DEF t
  <2>5. /\ IsSeq(x) /\ DOMAIN x = DOMAIN m.closures
        /\ x[k] = t /\ \A g \in DOMAIN m.closures : g # k => x[g] = m.closures[g]
    BY <2>1, Changed DEF Memory
  <2> HIDE DEF x
  <2>6. \A g \in DOMAIN x : SoundVars(c, m, x[g])
    BY <2>4, <2>5 DEF Memory
  <2>7. Memory(c, q) /\ Alike(m, q) /\ q.vstack = m.vstack
    BY <2>4, <2>5, <2>6, ClosuresPut DEF q
  <2> QED
    BY <2>2, <2>7 DEF n
<1>3. CASE ref.kind = "item"
  <2> DEFINE k == ref.owner
             s == m.lists[k]
             t == [s EXCEPT ![ref.slot] = v]
             x == [m.lists EXCEPT ![k] = t]
             q == [m EXCEPT !.lists = x]
  <2>1. k \in DOMAIN m.lists /\ ref.slot \in DOMAIN s
    BY <1>3 DEF Alive, RefThere
  <2>2. n = q
    BY <1>3 DEF WithHeld
  <2> HIDE DEF n, q
  <2>3. SoundVars(c, m, s)
    BY <2>1 DEF Memory
  <2>4. SoundVars(c, m, t) /\ Len(t) = Len(s) /\ DOMAIN t = DOMAIN s
    <3> HIDE DEF s
    <3> QED
      BY <2>1, <2>3, VarsChanged
  <2> HIDE DEF t
  <2>5. /\ IsSeq(x) /\ DOMAIN x = DOMAIN m.lists
        /\ x[k] = t /\ \A g \in DOMAIN m.lists : g # k => x[g] = m.lists[g]
    BY <2>1, Changed DEF Memory
  <2> HIDE DEF x
  <2>6. \A g \in DOMAIN x : SoundVars(c, m, x[g])
    BY <2>4, <2>5 DEF Memory
  <2>7. Memory(c, q) /\ Alike(m, q) /\ q.vstack = m.vstack
    BY <2>4, <2>5, <2>6, ListsPut DEF q
  <2> QED
    BY <2>2, <2>7 DEF n
<1> QED
  BY <1>1, <1>2, <1>3 DEF Alive, RefThere

LEMMA AlikeTwice ==
  ASSUME NEW m, NEW q, NEW n, Alike(m, q), Alike(q, n)
  PROVE  Alike(m, n)
<1>1. SameFrames(m, n) /\ n.status = m.status
  BY DEF Alike, SameFrames, SameFrame
<1>2. /\ m.calls \in Nat /\ n.calls \in Nat /\ m.calls <= n.calls /\ n.calls = m.calls /\ q.calls = m.calls
      /\ DOMAIN m.heap \subseteq DOMAIN n.heap
      /\ \A l \in DOMAIN m.lists : l \in DOMAIN n.lists /\ DOMAIN n.lists[l] = DOMAIN m.lists[l]
  BY DEF Alike, Extends, SameFrames
<1>3. \A k \in DOMAIN m.closures :
         k \in DOMAIN n.closures /\ Len(n.closures[k]) = Len(m.closures[k]) /\ DOMAIN n.closures[k] = DOMAIN m.closures[k]
  BY DEF Alike, Extends
<1>4. ASSUME NEW f \in DOMAIN n.frames, n.frames[f].id \in 1 .. m.calls
      PROVE  \E g \in DOMAIN m.frames :
                m.frames[g].id = n.frames[f].id /\ DOMAIN m.frames[g].locals \subseteq DOMAIN n.frames[f].locals
  BY <1>1, <1>4 DEF SameFrames, SameFrame
<1> QED
  BY <1>1, <1>2, <1>3, <1>4 DEF Alike, Extends

LEMMA AliveKept ==
  ASSUME NEW m, NEW n, Alike(m, n), NEW ref, Alive(m, ref)
  PROVE  Alive(n, ref)
<1>1. RefThere(n, ref)
  BY RefKept DEF Alive, Alike
<1>2. ASSUME ref.kind = "local" PROVE \E f \in DOMAIN n.frames : n.frames[f].id = ref.owner
  BY <1>2 DEF Alive, Alike, SameFrames, SameFrame
<1> QED
  BY <1>1, <1>2 DEF Alive

LEMMA SetKeeps ==
  ASSUME NEW c, NEW m, Memory(c, m), NEW ref, Alive(m, ref), NEW v, Sound(c, m, v)
  PROVE  LET n == sbVar_set_value(m, ref, v) IN Memory(c, n) /\ Alike(m, n) /\ n.vstack = m.vstack
<1> DEFINE n   == sbVar_set_value(m, ref, v)
           old == Held(m, ref)
           x   == [m.heap EXCEPT ![old.at] = v]
           q   == [m EXCEPT !.heap = x]
<1>1. SoundVar(c, m, old)
  BY HeldSound
<1>2. n = IF old.type = "heapvar" THEN q ELSE WithHeld(m, ref, v)
  BY DEF sbVar_set_value
<1> HIDE DEF n, old, q
<1>3. CASE old.type = "heapvar"
  <2>1. old.at \in DOMAIN m.heap
    BY <1>1, <1>3 DEF SoundVar
  <2>2. /\ IsSeq(x) /\ DOMAIN x = DOMAIN m.heap
        /\ x[old.at] = v /\ \A g \in DOMAIN m.heap : g # old.at => x[g] = m.heap[g]
    BY <2>1, Changed DEF Memory
  <2> HIDE DEF x
  <2>3. \A h \in DOMAIN x : Sound(c, m, x[h])
    BY <2>2 DEF Memory
  <2>4. Memory(c, q) /\ Alike(m, q) /\ q.vstack = m.vstack
    BY <2>2, <2>3, HeapPut DEF q
  <2> QED
    BY <1>2, <1>3, <2>4 DEF n
<1>4. CASE old.type # "heapvar"
  <2>1. SoundVar(c, m, v)
    BY DEF SoundVar, Sound
  <2>2. Memory(c, WithHeld(m, ref, v)) /\ Alike(m, WithHeld(m, ref, v)) /\ WithHeld(m, ref, v).vstack = m.vstack
    BY <2>1, HeldPut
  <2> QED
    BY <1>2, <1>4, <2>2 DEF n
<1> QED
  BY <1>3, <1>4

LEMMA MoveKeeps ==
  ASSUME NEW c, NEW m, Memory(c, m), NEW ref, Alive(m, ref)
  PROVE  LET n == sbVar_move_to_heap(m, ref) IN Memory(c, n) /\ Alike(m, n) /\ n.vstack = m.vstack
<1> DEFINE n == sbVar_move_to_heap(m, ref)
           v == Held(m, ref)
           x == Append(m.heap, v)
           q == [m EXCEPT !.heap = x]
           w == HeapVar(Len(m.heap) + 1)
           o == WithHeld(q, ref, w)
<1>1. SoundVar(c, m, v)
  BY HeldSound
<1>2. n = IF v.type = "heapvar" THEN m ELSE o
  BY DEF sbVar_move_to_heap
<1>3. w.type = "heapvar" /\ w.at = Len(m.heap) + 1
  BY DEF HeapVar
<1> HIDE DEF n, v, o, w
<1>4. CASE v.type = "heapvar"
  BY <1>2, <1>4, AlikeItself DEF n
<1>5. CASE v.type # "heapvar"
  <2>1. Sound(c, m, v)
    BY <1>1, <1>5 DEF SoundVar
  <2>2. IsSeq(m.heap) /\ Len(m.heap) \in Nat /\ DOMAIN m.heap = 1 .. Len(m.heap)
    BY SeqDomain DEF Memory
  <2>3. /\ IsSeq(x) /\ x[Len(m.heap) + 1] = v /\ DOMAIN x = 1 .. Len(m.heap) + 1
        /\ \A i \in 1 .. Len(m.heap) : x[i] = m.heap[i]
    BY <2>2, Longer
  <2> HIDE DEF x
  <2>4. \A h \in DOMAIN x : Sound(c, m, x[h])
    <3> TAKE h \in DOMAIN x
    <3>1. h \in 1 .. Len(m.heap) \/ h = Len(m.heap) + 1
      BY <2>2, <2>3
    <3> QED
      BY <2>1, <2>2, <2>3, <3>1 DEF Memory
  <2>5. DOMAIN m.heap \subseteq DOMAIN x
    BY <2>2, <2>3
  <2>6. Memory(c, q) /\ Alike(m, q) /\ q.vstack = m.vstack /\ q.heap = x
    BY <2>3, <2>4, <2>5, HeapPut
  <2> HIDE DEF q
  <2>7. Alive(q, ref)
    BY <2>6, AliveKept
  <2>8. SoundVar(c, q, w)
    BY <1>3, <2>2, <2>3, <2>6 DEF SoundVar
  <2>9. Memory(c, o) /\ Alike(q, o) /\ o.vstack = q.vstack
    BY <2>6, <2>7, <2>8, HeldPut DEF o
  <2>10. Alike(m, o)
    BY <2>6, <2>9, AlikeTwice
  <2>11. Memory(c, n) /\ Alike(m, n) /\ n.vstack = m.vstack
    BY <1>2, <1>5, <2>6, <2>9, <2>10
  <2> QED
    BY <2>11 DEF n
<1> QED
  BY <1>4, <1>5

-------------------------------------------------------------------------------
(***************************************************************************)
(* The operand stack of a frame, laid out as a shape says.                   *)
(***************************************************************************)
LEMMA FitsKept ==
  ASSUME NEW c, NEW m, NEW n, Extends(m, n), NEW id, NEW it, NEW v, Fits(c, m, id, it, v)
  PROVE  Fits(c, n, id, it, v)
BY SoundKept DEF Fits

LEMMA ItemKept ==
  ASSUME NEW c, NEW m, NEW n, Extends(m, n), NEW id, NEW it, NEW a \in Nat, NEW b \in Nat, ItemAt(c, m, id, it, a, b),
         \A i \in a + 1 .. b : n.vstack[i] = m.vstack[i]
  PROVE  ItemAt(c, n, id, it, a, b)
<1>1. a < b /\ b \in a + 1 .. b
  BY DEF ItemAt
<1>2. n.vstack[b] = m.vstack[b]
  BY <1>1
<1>3. ASSUME it.kind = "group" PROVE Grouped(c, n, it, a, b)
  <2>1. \A i \in a + 1 .. b : Sound(c, n, m.vstack[i])
    BY <1>3, SoundKept DEF ItemAt, Grouped
  <2>2. \A i \in a + 1 .. b : Sound(c, n, n.vstack[i])
    BY <2>1
  <2> QED
    BY <1>2, <1>3, <2>2 DEF ItemAt, Grouped
<1>4. ASSUME it.kind # "group" PROVE b = a + 1 /\ Fits(c, n, id, it, n.vstack[b])
  BY <1>2, <1>4, FitsKept DEF ItemAt
<1> QED
  BY <1>1, <1>3, <1>4 DEF ItemAt

LEMMA LaidKept ==
  ASSUME NEW c, NEW m, NEW n, Extends(m, n), NEW id, NEW lo \in Nat, NEW hi \in Nat, NEW its,
         Len(its) \in Nat, Laid(c, m, id, lo, hi, its), \A i \in lo + 1 .. hi : n.vstack[i] = m.vstack[i]
  PROVE  Laid(c, n, id, lo, hi, its)
<1>1. PICK at \in [0 .. Len(its) -> lo .. hi] :
         /\ at[0] = lo /\ at[Len(its)] = hi
         /\ \A j \in 1 .. Len(its) : ItemAt(c, m, id, its[j], at[j - 1], at[j])
  BY DEF Laid
<1>2. ASSUME NEW j \in 1 .. Len(its) PROVE ItemAt(c, n, id, its[j], at[j - 1], at[j])
  <2>1. j - 1 \in 0 .. Len(its) /\ j \in 0 .. Len(its)
    OBVIOUS
  <2>2. at[j - 1] \in lo .. hi /\ at[j] \in lo .. hi
    BY <2>1
  <2>3. at[j - 1] \in Nat /\ at[j] \in Nat /\ at[j - 1] + 1 .. at[j] \subseteq lo + 1 .. hi
    BY <2>2
  <2>4. \A i \in at[j - 1] + 1 .. at[j] : n.vstack[i] = m.vstack[i]
    BY <2>3
  <2>5. ItemAt(c, m, id, its[j], at[j - 1], at[j])
    BY <1>1
  <2> QED
    BY <2>3, <2>4, <2>5, ItemKept
<1> QED
  BY <1>1, <1>2 DEF Laid

LEMMA LaidNone ==
  ASSUME NEW c, NEW m, NEW id, NEW lo \in Nat
  PROVE  Laid(c, m, id, lo, lo, <<>>)
<1> DEFINE at == [i \in 0 .. Len(<<>>) |-> lo]
<1>1. Len(<<>>) = 0
  BY EmptyIs
<1>2. at \in [0 .. Len(<<>>) -> lo .. lo] /\ at[0] = lo /\ at[Len(<<>>)] = lo
  BY <1>1
<1>3. 1 .. Len(<<>>) = {}
  BY <1>1
<1> HIDE DEF at
<1> QED
  BY <1>2, <1>3 DEF Laid

LEMMA LaidBounds ==
  ASSUME NEW c, NEW m, NEW id, NEW lo \in Nat, NEW hi \in Nat, NEW its, Len(its) \in Nat, Laid(c, m, id, lo, hi, its)
  PROVE  lo <= hi /\ (Len(its) = 0 => lo = hi)
<1>1. PICK at \in [0 .. Len(its) -> lo .. hi] : at[0] = lo /\ at[Len(its)] = hi
  BY DEF Laid
<1>2. at[0] \in lo .. hi
  BY <1>1
<1> QED
  BY <1>1, <1>2

(* One item more on top. *)
LEMMA LaidMore ==
  ASSUME NEW c, NEW m, NEW id, NEW lo \in Nat, NEW b \in Nat, NEW hi \in Nat, NEW its, IsSeq(its), NEW it,
         Laid(c, m, id, lo, b, its), ItemAt(c, m, id, it, b, hi)
  PROVE  Laid(c, m, id, lo, hi, Append(its, it))
<1>1. PICK at \in [0 .. Len(its) -> lo .. b] :
         /\ at[0] = lo /\ at[Len(its)] = b
         /\ \A j \in 1 .. Len(its) : ItemAt(c, m, id, its[j], at[j - 1], at[j])
  BY DEF Laid
<1> DEFINE new == Append(its, it)
           to  == [i \in 0 .. Len(new) |-> IF i = Len(new) THEN hi ELSE at[i]]
<1>2. /\ Len(its) \in Nat /\ Len(new) = Len(its) + 1 /\ new[Len(its) + 1] = it
      /\ \A i \in 1 .. Len(its) : new[i] = its[i]
  BY SeqDomain, Longer
<1>3. lo <= b /\ b < hi
  BY <1>2, LaidBounds DEF ItemAt
<1> HIDE DEF new
<1>4. to \in [0 .. Len(new) -> lo .. hi]
  <2>1. ASSUME NEW i \in 0 .. Len(new) PROVE to[i] \in lo .. hi
    <3>1. CASE i = Len(new)
      BY <1>3, <3>1
    <3>2. CASE i # Len(new)
      <4>1. i \in 0 .. Len(its)
        BY <1>2, <3>2
      <4>2. at[i] \in lo .. b
        BY <4>1
      <4> QED
        BY <1>3, <3>2, <4>2
    <3> QED
      BY <3>1, <3>2
  <2> QED
    BY <2>1
<1>5. to[Len(new)] = hi /\ to[Len(its)] = b /\ to[0] = lo /\ \A i \in 0 .. Len(its) : to[i] = at[i]
  BY <1>1, <1>2
<1> HIDE DEF to
<1>6. ASSUME NEW j \in 1 .. Len(new) PROVE ItemAt(c, m, id, new[j], to[j - 1], to[j])
  <2>1. CASE j = Len(new)
    <3>1. j - 1 = Len(its) /\ j = Len(its) + 1
      BY <1>2, <2>1
    <3> QED
      BY <1>2, <1>5, <2>1, <3>1
  <2>2. CASE j # Len(new)
    <3>1. j \in 1 .. Len(its) /\ j - 1 \in 0 .. Len(its) /\ j \in 0 .. Len(its)
      BY <1>2, <2>2
    <3>2. new[j] = its[j] /\ to[j - 1] = at[j - 1] /\ to[j] = at[j]
      BY <1>2, <1>5, <3>1
    <3> QED
      BY <1>1, <3>1, <3>2
  <2> QED
    BY <2>1, <2>2
<1>7. Laid(c, m, id, lo, hi, new)
  BY <1>4, <1>5, <1>6 DEF Laid
<1> QED
  BY <1>7 DEF new

(* The item on top, and those below. *)
LEMMA LaidTop ==
  ASSUME NEW c, NEW m, NEW id, NEW lo \in Nat, NEW hi \in Nat, NEW its, IsSeq(its), its # <<>>,
         Laid(c, m, id, lo, hi, its)
  PROVE  \E b \in lo .. hi : Laid(c, m, id, lo, b, Less(its, 1)) /\ ItemAt(c, m, id, Topmost(its), b, hi)
<1>1. PICK at \in [0 .. Len(its) -> lo .. hi] :
         /\ at[0] = lo /\ at[Len(its)] = hi
         /\ \A j \in 1 .. Len(its) : ItemAt(c, m, id, its[j], at[j - 1], at[j])
  BY DEF Laid
<1> DEFINE n == Len(its) - 1
           new == Less(its, 1)
           b == at[n]
<1>2. Len(its) \in Nat /\ Len(its) # 0
  BY SeqDomain
<1>3. n \in 0 .. Len(its) /\ n \in Nat /\ Len(its) \in 1 .. Len(its) /\ Len(its) = n + 1
  BY <1>2
<1>4. Len(new) = n /\ \A i \in 1 .. n : new[i] = its[i]
  BY <1>3, Cut DEF Less
<1>5. b \in lo .. hi
  BY <1>3
<1>6. Topmost(its) = its[Len(its)]
  BY DEF Topmost
<1>7. ItemAt(c, m, id, Topmost(its), b, hi)
  BY <1>1, <1>3, <1>6
<1> DEFINE to == [i \in 0 .. n |-> at[i]]
<1> HIDE DEF new
<1>8. \A i \in 0 .. n : at[i] \in lo .. b
  <2> DEFINE S == {i \in Nat : i <= n => at[n - i] \in lo .. b}
  <2>1. 0 \in S
    BY <1>3, <1>5
  <2>2. ASSUME NEW i \in Nat, i \in S PROVE i + 1 \in S
    <3>1. SUFFICES ASSUME i + 1 <= n PROVE at[n - (i + 1)] \in lo .. b
      OBVIOUS
    <3>2. n - i \in 1 .. Len(its) /\ (n - i) - 1 = n - (i + 1) /\ i <= n /\ n - (i + 1) \in 0 .. Len(its)
      BY <1>3, <3>1
    <3>3. ItemAt(c, m, id, its[n - i], at[(n - i) - 1], at[n - i])
      BY <1>1, <3>2
    <3>4. at[n - i] \in lo .. b /\ at[n - (i + 1)] \in lo .. hi
      BY <2>2, <3>2
    <3>5. at[n - (i + 1)] < at[n - i]
      BY <3>2, <3>3 DEF ItemAt
    <3> QED
      BY <1>5, <3>4, <3>5
  <2> HIDE DEF S
  <2>3. Nat \subseteq S
    BY <2>1, <2>2, Reached
  <2>4. ASSUME NEW i \in 0 .. n PROVE at[i] \in lo .. b
    <3>1. n - i \in Nat /\ n - i <= n /\ n - (n - i) = i
      BY <1>3
    <3>2. n - i \in S
      BY <2>3, <3>1
    <3> QED
      BY <3>1, <3>2 DEF S
  <2> QED
    BY <2>4
<1>9. to \in [0 .. Len(new) -> lo .. b] /\ to[0] = lo /\ to[Len(new)] = b /\ \A i \in 0 .. n : to[i] = at[i]
  <2>1. at[n] = b /\ Len(new) = n /\ n \in Nat
    BY <1>3, <1>4
  <2> HIDE DEF n, b
  <2>2. to \in [0 .. n -> lo .. b]
    BY <1>8
  <2>3. \A i \in 0 .. n : to[i] = at[i]
    OBVIOUS
  <2>4. 0 \in 0 .. n /\ n \in 0 .. n
    BY <2>1
  <2> HIDE DEF to
  <2> QED
    BY <1>1, <2>1, <2>2, <2>3, <2>4
<1> HIDE DEF to, b
<1>10. ASSUME NEW j \in 1 .. Len(new) PROVE ItemAt(c, m, id, new[j], to[j - 1], to[j])
  <2>1. j \in 1 .. n /\ j \in 1 .. Len(its) /\ j \in 0 .. n /\ j - 1 \in 0 .. n
    BY <1>3, <1>4
  <2> QED
    BY <1>1, <1>4, <1>9, <2>1
<1>11. Laid(c, m, id, lo, b, new)
  BY <1>9, <1>10 DEF Laid
<1> QED
  BY <1>5, <1>7, <1>11 DEF new

LEMMA SeqSame ==
  ASSUME NEW s, IsSeq(s), NEW t, IsSeq(t), Len(s) = Len(t), \A i \in 1 .. Len(s) : s[i] = t[i]
  PROVE  s = t
<1>1. s = [i \in 1 .. Len(s) |-> s[i]] /\ t = [i \in 1 .. Len(t) |-> t[i]]
  BY DEF IsSeq
<1>2. [i \in 1 .. Len(s) |-> s[i]] = [i \in 1 .. Len(t) |-> t[i]]
  OBVIOUS
<1> QED
  BY <1>1, <1>2

(* Items without the n on top. *)
LEMMA LessIs ==
  ASSUME NEW its, IsSeq(its), NEW n \in 0 .. Len(its)
  PROVE  /\ IsSeq(Less(its, n)) /\ Len(Less(its, n)) = Len(its) - n /\ DOMAIN Less(its, n) = 1 .. Len(its) - n
         /\ \A i \in 1 .. Len(its) - n : Less(its, n)[i] = its[i]
         /\ n < Len(its) => Less(its, n) # <<>> /\ Topmost(Less(its, n)) = its[Len(its) - n]
<1>1. Len(its) \in Nat
  BY SeqDomain
<1> DEFINE k == Len(its) - n
           t == Less(its, n)
<1>2. k \in 0 .. Len(its) /\ k \in Nat
  BY <1>1
<1>3. IsSeq(t) /\ Len(t) = k /\ DOMAIN t = 1 .. k /\ \A i \in 1 .. k : t[i] = its[i]
  BY <1>2, Cut DEF Less
<1> HIDE DEF t
<1>4. ASSUME n < Len(its) PROVE t # <<>> /\ Topmost(t) = its[k]
  <2>1. k \in 1 .. k /\ k # 0
    BY <1>1, <1>4
  <2>2. t # <<>>
    BY <1>3, <2>1, SeqDomain
  <2> QED
    BY <1>3, <2>1, <2>2 DEF Topmost
<1> QED
  BY <1>3, <1>4 DEF t

LEMMA LessMore ==
  ASSUME NEW its, IsSeq(its), NEW n \in Nat, n < Len(its)
  PROVE  Less(Less(its, n), 1) = Less(its, n + 1)
<1>1. Len(its) \in Nat
  BY SeqDomain
<1>2. n \in 0 .. Len(its) /\ n + 1 \in 0 .. Len(its) /\ 1 \in 0 .. Len(its) - n /\ (Len(its) - n) - 1 = Len(its) - (n + 1)
  BY <1>1
<1> DEFINE t == Less(its, n)
           u == Less(its, n + 1)
           w == Less(t, 1)
<1>3. IsSeq(t) /\ Len(t) = Len(its) - n /\ \A i \in 1 .. Len(its) - n : t[i] = its[i]
  BY <1>2, LessIs, Zenon
<1>4. IsSeq(u) /\ Len(u) = Len(its) - (n + 1) /\ \A i \in 1 .. Len(its) - (n + 1) : u[i] = its[i]
  BY <1>2, LessIs, Zenon
<1> HIDE DEF t, u
<1>5. IsSeq(w) /\ Len(w) = Len(t) - 1 /\ \A i \in 1 .. Len(t) - 1 : w[i] = t[i]
  BY <1>2, <1>3, LessIs, Zenon
<1> HIDE DEF w
<1>6. Len(w) = Len(u)
  BY <1>2, <1>3, <1>4, <1>5
<1>7. \A i \in 1 .. Len(w) : w[i] = u[i]
  <2> TAKE i \in 1 .. Len(w)
  <2>1. i \in 1 .. Len(t) - 1 /\ i \in 1 .. Len(its) - n /\ i \in 1 .. Len(its) - (n + 1)
    BY <1>1, <1>2, <1>3, <1>5
  <2> QED
    BY <1>3, <1>4, <1>5, <2>1
<1>8. w = u
  BY <1>4, <1>5, <1>6, <1>7, SeqSame
<1> QED
  BY <1>8 DEF w, u, t

LEMMA LessNone ==
  ASSUME NEW its, IsSeq(its)
  PROVE  Less(its, 0) = its
<1>1. Len(its) \in Nat /\ 0 \in 0 .. Len(its) /\ Len(its) - 0 = Len(its)
  BY SeqDomain
<1>2. IsSeq(Less(its, 0)) /\ Len(Less(its, 0)) = Len(its) /\ \A i \in 1 .. Len(its) : Less(its, 0)[i] = its[i]
  BY <1>1, LessIs
<1> QED
  BY <1>2, SeqSame

(* Items on top that are all the top operands: one operand for each. *)
LEMMA LaidAlone ==
  ASSUME NEW c, NEW m, NEW id, NEW lo \in Nat, NEW hi \in Nat, NEW its, IsSeq(its), NEW n \in 0 .. Len(its),
         Laid(c, m, id, lo, hi, its), \A j \in 0 .. n - 1 : its[Len(its) - j].kind # "group"
  PROVE  /\ hi - n >= lo /\ Laid(c, m, id, lo, hi - n, Less(its, n))
         /\ \A j \in 0 .. n - 1 : ItemAt(c, m, id, its[Len(its) - j], (hi - j) - 1, hi - j)
<1>1. Len(its) \in Nat /\ n \in Nat
  BY SeqDomain
<1> DEFINE Stage(j) == hi - j >= lo /\ Laid(c, m, id, lo, hi - j, Less(its, j))
           S == {j \in Nat : j <= n => Stage(j)}
<1>2. ASSUME NEW j \in Nat, j < n, Stage(j)
      PROVE  Stage(j + 1) /\ ItemAt(c, m, id, its[Len(its) - j], (hi - j) - 1, hi - j)
  <2>1. j \in 0 .. Len(its) /\ j < Len(its) /\ j \in 0 .. n - 1 /\ hi - j \in Nat
    BY <1>1, <1>2
  <2>2. IsSeq(Less(its, j)) /\ Less(its, j) # <<>> /\ Topmost(Less(its, j)) = its[Len(its) - j]
    BY <2>1, LessIs
  <2>3. PICK b \in lo .. hi - j :
           Laid(c, m, id, lo, b, Less(Less(its, j), 1)) /\ ItemAt(c, m, id, Topmost(Less(its, j)), b, hi - j)
    BY <1>2, <2>1, <2>2, LaidTop
  <2>4. hi - j = b + 1
    BY <2>1, <2>2, <2>3 DEF ItemAt
  <2>5. b = hi - (j + 1) /\ b = (hi - j) - 1 /\ b >= lo
    BY <2>1, <2>3, <2>4
  <2>6. Less(Less(its, j), 1) = Less(its, j + 1)
    BY <2>1, LessMore
  <2> QED
    BY <2>2, <2>3, <2>5, <2>6
<1>3. Stage(0)
  <2>1. lo <= hi /\ hi - 0 = hi
    BY <1>1, LaidBounds
  <2> QED
    BY <2>1, LessNone
<1>4. \A j \in 0 .. n : Stage(j)
  <2> HIDE DEF Stage
  <2>1. 0 \in S
    BY <1>3
  <2>2. ASSUME NEW j \in Nat, j \in S PROVE j + 1 \in S
    BY <1>1, <1>2, <2>2
  <2> HIDE DEF S
  <2>3. Nat \subseteq S
    BY <2>1, <2>2, Reached
  <2> QED
    BY <2>3 DEF S
<1>5. \A j \in 0 .. n - 1 : ItemAt(c, m, id, its[Len(its) - j], (hi - j) - 1, hi - j)
  <2> TAKE j \in 0 .. n - 1
  <2>1. j \in Nat /\ j < n /\ j \in 0 .. n
    BY <1>1
  <2> HIDE DEF Stage
  <2> QED
    BY <1>2, <1>4, <2>1
<1> QED
  BY <1>1, <1>4, <1>5

(***************************************************************************)
(* Shapes and their items.                                                   *)
(***************************************************************************)
LEMMA KindsOf ==
  ASSUME NEW c, NEW it \in Item(c)
  PROVE  /\ it.kind \in {"value", "place", "number", "block", "group"}
         /\ it.kind = "number" => it.n \in Nat /\ it = Counted(it.n)
         /\ it.kind = "block"  => it.block \in 2 .. Len(c) /\ it = Unclosed(it.block)
         /\ it.kind = "group"  => it.extra \in Nat /\ it = Group(it.extra)
BY DEF Item, Counted, Unclosed, Group

LEMMA ItemsMade ==
  ASSUME NEW c
  PROVE  /\ Some("value") \in Item(c) /\ Some("value").kind = "value"
         /\ Some("place") \in Item(c) /\ Some("place").kind = "place"
         /\ \A n \in Nat : Counted(n) \in Item(c) /\ Counted(n).kind = "number" /\ Counted(n).n = n
         /\ \A b \in 2 .. Len(c) : Unclosed(b) \in Item(c) /\ Unclosed(b).kind = "block" /\ Unclosed(b).block = b
         /\ \A e \in Nat : Group(e) \in Item(c) /\ Group(e).kind = "group" /\ Group(e).extra = e
BY DEF Item, Some, Counted, Unclosed, Group

LEMMA ShapeIs ==
  ASSUME NEW c, NEW s \in Shape(c)
  PROVE  /\ s.locals \in Nat /\ s.items \in Seq(Item(c)) /\ IsSeq(s.items)
         /\ \A x : [s EXCEPT !.items = x] = [locals |-> s.locals, items |-> x]
         /\ \A x : [s EXCEPT !.locals = x] = [locals |-> x, items |-> s.items]
         /\ \A l \in Nat, x \in Seq(Item(c)) : [locals |-> l, items |-> x] \in Shape(c)
<1>1. s.locals \in Nat /\ s.items \in Seq(Item(c)) /\ s = [locals |-> s.locals, items |-> s.items]
  BY DEF Shape
<1>2. \A x : [s EXCEPT !.items = x] = [locals |-> s.locals, items |-> x]
  BY <1>1
<1>3. \A x : [s EXCEPT !.locals = x] = [locals |-> x, items |-> s.items]
  BY <1>1
<1>4. \A l \in Nat, x \in Seq(Item(c)) : [locals |-> l, items |-> x] \in Shape(c)
  BY DEF Shape
<1> QED
  BY <1>1, <1>2, <1>3, <1>4, SeqIs

LEMMA LessItems ==
  ASSUME NEW S, NEW its \in Seq(S), NEW n \in 0 .. Len(its)
  PROVE  Less(its, n) \in Seq(S)
<1>1. IsSeq(its) /\ Len(its) \in Nat /\ DOMAIN its = 1 .. Len(its) /\ \A i \in DOMAIN its : its[i] \in S
  BY SeqIs
<1>2. IsSeq(Less(its, n)) /\ DOMAIN Less(its, n) = 1 .. Len(its) - n /\ \A i \in 1 .. Len(its) - n : Less(its, n)[i] = its[i]
  BY <1>1, LessIs
<1>3. \A i \in DOMAIN Less(its, n) : Less(its, n)[i] \in S
  BY <1>1, <1>2
<1> QED
  BY <1>2, <1>3, IsSeqIn

LEMMA ThenItems ==
  ASSUME NEW S, NEW its \in Seq(S), NEW it \in S
  PROVE  Then(its, it) \in Seq(S) /\ Then(its, it) # <<>> /\ Topmost(Then(its, it)) = it /\ Less(Then(its, it), 1) = its
<1> DEFINE t == Then(its, it)
           w == Less(t, 1)
<1>1. IsSeq(its) /\ Len(its) \in Nat
  BY SeqIs
<1>2. t \in Seq(S)
  BY DEF Then
<1>3. /\ IsSeq(t) /\ Len(t) = Len(its) + 1 /\ t[Len(t)] = it
      /\ \A i \in 1 .. Len(its) : t[i] = its[i]
  BY <1>1, Longer DEF Then
<1> HIDE DEF t
<1>4. t # <<>>
  BY <1>1, <1>3, SeqDomain
<1>5. 1 \in 0 .. Len(t) /\ Len(t) - 1 = Len(its)
  BY <1>1, <1>3
<1>6. IsSeq(w) /\ Len(w) = Len(its) /\ \A i \in 1 .. Len(its) : w[i] = t[i]
  BY <1>3, <1>5, LessIs
<1> HIDE DEF w
<1>7. w = its
  BY <1>1, <1>3, <1>6, SeqSame
<1> QED
  BY <1>2, <1>3, <1>4, <1>7 DEF t, w, Topmost

(* The top of a stack that is not empty. *)
LEMMA TopItem ==
  ASSUME NEW S, NEW its \in Seq(S), its # <<>>
  PROVE  /\ Len(its) \in Nat /\ Len(its) >= 1 /\ 1 \in 0 .. Len(its)
         /\ Topmost(its) = its[Len(its)] /\ Topmost(its) \in S /\ its[Len(its) - 0] = Topmost(its)
<1>1. IsSeq(its) /\ Len(its) \in Nat /\ DOMAIN its = 1 .. Len(its) /\ \A i \in DOMAIN its : its[i] \in S
  BY SeqIs
<1>2. Len(its) # 0
  BY <1>1, SeqDomain
<1>3. Len(its) \in 1 .. Len(its) /\ Len(its) - 0 = Len(its)
  BY <1>1, <1>2
<1>4. Topmost(its) = its[Len(its)]
  BY DEF Topmost
<1> QED
  BY <1>1, <1>2, <1>3, <1>4

LEMMA NoneOnTop == Topmost(<<>>).kind = "none"
BY DEF Topmost, Some

(* Single operands taken from the stack. *)
LEMMA PopSingles ==
  ASSUME NEW c, NEW m, NEW id, NEW lo \in Nat, NEW hi \in Nat, NEW its \in Seq(Item(c)), NEW n \in Nat,
         Laid(c, m, id, lo, hi, its), Singles(its, n)
  PROVE  /\ n \in 0 .. Len(its) /\ hi - n >= lo /\ Laid(c, m, id, lo, hi - n, Less(its, n))
         /\ \A j \in 0 .. n - 1 : Sound(c, m, m.vstack[hi - j]) /\ Fits(c, m, id, its[Len(its) - j], m.vstack[hi - j])
<1>1. IsSeq(its) /\ Len(its) \in Nat
  BY SeqIs
<1>2. n \in 0 .. Len(its) /\ \A j \in 0 .. n - 1 : its[Len(its) - j].kind \in {"value", "place", "number"}
  BY <1>1 DEF Singles
<1>3. /\ hi - n >= lo /\ Laid(c, m, id, lo, hi - n, Less(its, n))
      /\ \A j \in 0 .. n - 1 : ItemAt(c, m, id, its[Len(its) - j], (hi - j) - 1, hi - j)
  BY <1>1, <1>2, LaidAlone
<1>4. ASSUME NEW j \in 0 .. n - 1
      PROVE  Sound(c, m, m.vstack[hi - j]) /\ Fits(c, m, id, its[Len(its) - j], m.vstack[hi - j])
  <2>1. its[Len(its) - j].kind # "group" /\ its[Len(its) - j].kind # "block"
    BY <1>2
  <2>2. Fits(c, m, id, its[Len(its) - j], m.vstack[hi - j])
    BY <1>3, <2>1 DEF ItemAt
  <2> QED
    BY <2>1, <2>2 DEF Fits
<1> QED
  BY <1>2, <1>3, <1>4

(* A group of operands with their number. *)
LEMMA PopGroup ==
  ASSUME NEW c, NEW m, NEW id, NEW lo \in Nat, NEW hi \in Nat, NEW its \in Seq(Item(c)),
         Laid(c, m, id, lo, hi, its), Topmost(its).kind = "group"
  PROVE  /\ its # <<>> /\ Topmost(its).extra \in Nat
         /\ \E b \in lo .. hi : /\ Laid(c, m, id, lo, b, Less(its, 1)) /\ b < hi
                                /\ m.vstack[hi] = Number(hi - b - 1 - Topmost(its).extra)
                                /\ \A i \in b + 1 .. hi : Sound(c, m, m.vstack[i])
<1>1. its # <<>>
  BY NoneOnTop
<1>2. Topmost(its).extra \in Nat
  BY <1>1, TopItem, KindsOf
<1>3. IsSeq(its)
  BY SeqIs
<1>4. PICK b \in lo .. hi : Laid(c, m, id, lo, b, Less(its, 1)) /\ ItemAt(c, m, id, Topmost(its), b, hi)
  BY <1>1, <1>3, LaidTop
<1> QED
  BY <1>1, <1>2, <1>4 DEF ItemAt, Grouped

LEMMA NumberIs == \A n : Number(n).i = n /\ Number(n).type = "int"
BY DEF Number

(* Arguments with their number. *)
LEMMA PopArguments ==
  ASSUME NEW c, NEW m, NEW id, NEW lo \in Nat, NEW hi \in Nat, NEW its \in Seq(Item(c)),
         Laid(c, m, id, lo, hi, its), Arguments(its)
  PROVE  /\ its # <<>> /\ BelowArguments(its) \in Seq(Item(c))
         /\ \E n \in Nat : /\ m.vstack[hi] = Number(n) /\ n + 1 <= hi - lo
                           /\ Laid(c, m, id, lo, hi - 1 - n, BelowArguments(its))
                           /\ \A i \in hi - n .. hi : Sound(c, m, m.vstack[i])
<1>0. IsSeq(its) /\ Len(its) \in Nat
  BY SeqIs
<1>1. CASE Numbered(its)
  <2> DEFINE n == Topmost(its).n
  <2>1. Topmost(its).kind = "number" /\ Singles(its, n + 1)
    BY <1>1 DEF Numbered
  <2>2. its # <<>>
    BY <2>1, NoneOnTop
  <2>3. Topmost(its) \in Item(c) /\ its[Len(its) - 0] = Topmost(its)
    BY <2>2, TopItem
  <2>4. n \in Nat
    BY <2>1, <2>3, KindsOf
  <2> HIDE DEF n
  <2>5. n + 1 \in Nat /\ 0 \in 0 .. (n + 1) - 1 /\ hi - 0 = hi /\ hi - (n + 1) = hi - 1 - n
    BY <2>4
  <2>6. /\ n + 1 \in 0 .. Len(its) /\ hi - (n + 1) >= lo /\ Laid(c, m, id, lo, hi - (n + 1), Less(its, n + 1))
        /\ \A j \in 0 .. (n + 1) - 1 :
              Sound(c, m, m.vstack[hi - j]) /\ Fits(c, m, id, its[Len(its) - j], m.vstack[hi - j])
    BY <2>1, <2>5, PopSingles
  <2>7. m.vstack[hi] = Number(n)
    BY <2>1, <2>3, <2>5, <2>6 DEF Fits, n
  <2>8. \A i \in hi - n .. hi : Sound(c, m, m.vstack[i])
    <3> TAKE i \in hi - n .. hi
    <3>1. hi - i \in 0 .. (n + 1) - 1 /\ hi - (hi - i) = i
      BY <2>4
    <3> QED
      BY <2>6, <3>1
  <2>9. BelowArguments(its) = Less(its, n + 1)
    BY <1>1 DEF BelowArguments, n
  <2>10. BelowArguments(its) \in Seq(Item(c))
    BY <2>6, <2>9, LessItems
  <2>11. n + 1 <= hi - lo
    BY <2>4, <2>6
  <2> QED
    BY <2>2, <2>4, <2>5, <2>6, <2>7, <2>8, <2>9, <2>10, <2>11
<1>2. CASE ~Numbered(its)
  <2>1. Topmost(its) = Group(0)
    BY <1>2 DEF Arguments
  <2>2. Topmost(its).kind = "group" /\ Topmost(its).extra = 0
    BY <2>1, ItemsMade
  <2>3. its # <<>>
    BY <2>2, PopGroup
  <2>4. PICK b \in lo .. hi : /\ Laid(c, m, id, lo, b, Less(its, 1)) /\ b < hi
                              /\ m.vstack[hi] = Number(hi - b - 1 - 0)
                              /\ \A i \in b + 1 .. hi : Sound(c, m, m.vstack[i])
    BY <2>2, PopGroup
  <2> DEFINE n == hi - b - 1
  <2>5. n \in Nat /\ hi - b - 1 - 0 = n /\ n + 1 <= hi - lo /\ hi - 1 - n = b /\ hi - n = b + 1
    BY <2>4
  <2> HIDE DEF n
  <2>6. BelowArguments(its) = Less(its, 1)
    BY <1>2 DEF BelowArguments
  <2>7. BelowArguments(its) \in Seq(Item(c))
    BY <2>3, <2>6, TopItem, LessItems
  <2> QED
    BY <2>3, <2>4, <2>5, <2>6, <2>7
<1> QED
  BY <1>1, <1>2

-------------------------------------------------------------------------------
(***************************************************************************)
(* The machine between two instructions.                                     *)
(***************************************************************************)
LEMMA TopFrame ==
  ASSUME NEW c, NEW m, Below(c, m)
  PROVE  /\ Len(m.frames) \in Nat /\ Len(m.frames) >= 1 /\ DOMAIN m.frames = 1 .. Len(m.frames)
         /\ Len(m.frames) \in DOMAIN m.frames /\ IsFrame(Fp(m)) /\ SoundVars(c, m, Fp(m).locals)
         /\ Fp(m).base \in Nat /\ Fp(m).id \in 1 .. m.calls /\ Fp(m) = m.frames[Len(m.frames)]
<1>1. IsSeq(m.frames) /\ m.frames # <<>>
  BY DEF Below, Memory
<1>2. Len(m.frames) \in Nat /\ DOMAIN m.frames = 1 .. Len(m.frames) /\ Len(m.frames) # 0
  BY <1>1, SeqDomain
<1>3. Len(m.frames) \in DOMAIN m.frames
  BY <1>2
<1> QED
  BY <1>2, <1>3 DEF Below, Memory, Fp

LEMMA WaitsKept ==
  ASSUME NEW c, NEW m, NEW n, Extends(m, n), NEW f, Waits(c, m, f), SameFrame(n.frames[f], m.frames[f]),
         n.frames[f + 1].base = m.frames[f + 1].base, m.frames[f].base \in Nat, m.frames[f + 1].base \in Nat,
         \A j \in 1 .. m.frames[f + 1].base : n.vstack[j] = m.vstack[j]
  PROVE  Waits(c, n, f)
<1> DEFINE fr == m.frames[f]
           gr == n.frames[f]
           s  == ShapeAt(c, fr.block)[fr.ip]
           z  == ShapeAt(c, gr.block)[gr.ip]
<1>1. /\ gr.block = fr.block /\ gr.ip = fr.ip /\ gr.closure = fr.closure /\ gr.id = fr.id /\ gr.base = fr.base
      /\ Len(gr.locals) = Len(fr.locals)
  BY DEF SameFrame
<1>2. z = s
  BY <1>1
<1>3. /\ fr.block \in DOMAIN c /\ fr.ip \in DOMAIN c[fr.block] /\ s \in Shape(c)
      /\ Len(fr.locals) = s.locals /\ Supplied(c, m, fr.block, fr.closure)
      /\ s.items # <<>> /\ Topmost(s.items) = Some("value")
      /\ Laid(c, m, fr.id, fr.base, m.frames[f + 1].base, Less(s.items, 1))
  BY DEF Waits
<1> HIDE DEF s, z
<1>4. Supplied(c, n, gr.block, gr.closure)
  BY <1>1, <1>3, SuppliedKept
<1>5. Len(Less(s.items, 1)) \in Nat
  <2>1. s.items \in Seq(Item(c)) /\ IsSeq(s.items)
    BY <1>3, ShapeIs
  <2>2. 1 \in 0 .. Len(s.items)
    BY <1>3, <2>1, TopItem
  <2>3. IsSeq(Less(s.items, 1))
    BY <2>1, <2>2, LessIs
  <2> QED
    BY <2>3, SeqDomain
<1>6. Laid(c, n, gr.id, gr.base, n.frames[f + 1].base, Less(s.items, 1))
  <2>1. fr.base \in Nat /\ m.frames[f + 1].base \in Nat
    OBVIOUS
  <2>2. \A j \in fr.base + 1 .. m.frames[f + 1].base : n.vstack[j] = m.vstack[j]
    BY <2>1
  <2>3. Laid(c, n, fr.id, fr.base, m.frames[f + 1].base, Less(s.items, 1))
    BY <1>3, <1>5, <2>1, <2>2, LaidKept
  <2> QED
    BY <1>1, <2>3
<1>7. /\ gr.block \in DOMAIN c /\ gr.ip \in DOMAIN c[gr.block] /\ z \in Shape(c)
      /\ Len(gr.locals) = z.locals /\ Supplied(c, n, gr.block, gr.closure)
      /\ z.items # <<>> /\ Topmost(z.items) = Some("value")
      /\ Laid(c, n, gr.id, gr.base, n.frames[f + 1].base, Less(z.items, 1))
  BY <1>1, <1>2, <1>3, <1>4, <1>6
<1> QED
  BY <1>7, Zenon DEF Waits, z

(* The frames below the top one, whatever the top one does above its base. *)
LEMMA BelowKept ==
  ASSUME NEW c, NEW m, NEW n, Below(c, m), Memory(c, n), Extends(m, n), Len(n.frames) = Len(m.frames),
         \A f \in 1 .. Len(m.frames) - 1 : SameFrame(n.frames[f], m.frames[f]), Fp(n).base = Fp(m).base,
         \A j \in 1 .. Fp(m).base : n.vstack[j] = m.vstack[j]
  PROVE  Below(c, n)
<1>1. /\ Len(m.frames) \in Nat /\ Len(m.frames) >= 1 /\ DOMAIN m.frames = 1 .. Len(m.frames)
      /\ Fp(m) = m.frames[Len(m.frames)] /\ Fp(n) = n.frames[Len(n.frames)]
  BY TopFrame DEF Fp
<1>2. IsSeq(n.frames)
  BY DEF Memory
<1>3. DOMAIN n.frames = 1 .. Len(m.frames) /\ n.frames # <<>>
  BY <1>1, <1>2, SeqDomain
<1>4. \A f \in 1 .. Len(m.frames) : n.frames[f].base = m.frames[f].base
  <2> TAKE f \in 1 .. Len(m.frames)
  <2>1. CASE f = Len(m.frames)
    BY <1>1, <2>1
  <2>2. CASE f # Len(m.frames)
    BY <1>1, <2>2 DEF SameFrame
  <2> QED
    BY <2>1, <2>2
<1>5. \A f \in 1 .. Len(m.frames) : m.frames[f].base \in Nat /\ m.frames[f].base <= Fp(m).base
  BY <1>1 DEF Below
<1>6. ASSUME NEW f \in 1 .. Len(m.frames) - 1 PROVE Waits(c, n, f)
  <2>1. f \in 1 .. Len(m.frames) /\ f + 1 \in 1 .. Len(m.frames)
    BY <1>1
  <2>2. m.frames[f].base \in Nat /\ m.frames[f + 1].base \in Nat /\ m.frames[f + 1].base <= Fp(m).base
    BY <1>5, <2>1
  <2>3. \A j \in 1 .. m.frames[f + 1].base : n.vstack[j] = m.vstack[j]
    BY <1>1, <2>2, TopFrame
  <2>4. Waits(c, m, f) /\ SameFrame(n.frames[f], m.frames[f])
    BY DEF Below
  <2>5. n.frames[f + 1].base = m.frames[f + 1].base
    BY <1>4, <2>1
  <2> QED
    BY <2>2, <2>3, <2>4, <2>5, WaitsKept
<1>7. \A f, g \in 1 .. Len(m.frames) : f <= g => n.frames[f].base <= n.frames[g].base
  BY <1>1, <1>4 DEF Below
<1> QED
  BY <1>1, <1>3, <1>4, <1>5, <1>6, <1>7 DEF Below

(* The top frame too: a step that changes nothing below its base. *)
LEMMA Landed ==
  ASSUME NEW c, NEW m, NEW n, NEW k, NEW i, NEW s, Below(c, m), Stands(c, m, k, i, s), Memory(c, n), Alike(m, n),
         NEW t \in Shape(c), t.locals = s.locals, \A j \in 1 .. Fp(m).base : n.vstack[j] = m.vstack[j],
         Laid(c, n, Fp(m).id, Fp(m).base, Len(n.vstack), t.items)
  PROVE  Below(c, n) /\ Stands(c, n, k, i, t) /\ n.status = m.status
<1>1. /\ Len(m.frames) \in Nat /\ Len(m.frames) >= 1 /\ DOMAIN m.frames = 1 .. Len(m.frames)
      /\ Len(m.frames) \in DOMAIN m.frames
  BY TopFrame
<1>2. Extends(m, n) /\ Len(n.frames) = Len(m.frames) /\ \A f \in 1 .. Len(m.frames) : SameFrame(n.frames[f], m.frames[f])
  BY <1>1 DEF Alike, SameFrames
<1>3. SameFrame(Fp(n), Fp(m))
  BY <1>1, <1>2 DEF Fp
<1>4. Below(c, n)
  <2>1. Fp(n).base = Fp(m).base
    BY <1>3 DEF SameFrame
  <2>2. \A f \in 1 .. Len(m.frames) - 1 : SameFrame(n.frames[f], m.frames[f])
    BY <1>1, <1>2
  <2> QED
    BY <1>2, <2>1, <2>2, BelowKept
<1>5. Supplied(c, n, k, Fp(n).closure)
  BY <1>2, <1>3, SuppliedKept DEF Stands, SameFrame
<1>6. Stands(c, n, k, i, t)
  BY <1>3, <1>5 DEF Stands, SameFrame
<1> QED
  BY <1>4, <1>6 DEF Alike

(* The top frame is changed, and goes on as it is now. *)
LEMMA TopPut ==
  ASSUME NEW c, NEW m, NEW k, NEW i, NEW s, Below(c, m), Stands(c, m, k, i, s),
         NEW fr, IsFrame(fr), fr.block = k, fr.closure = Fp(m).closure, fr.id = Fp(m).id, fr.base = Fp(m).base,
         SoundVars(c, m, fr.locals), DOMAIN Fp(m).locals \subseteq DOMAIN fr.locals,
         NEW t \in Shape(c), t.locals = Len(fr.locals), t.items = s.items
  PROVE  LET n == [m EXCEPT !.frames = [m.frames EXCEPT ![Len(m.frames)] = fr]]
         IN  Below(c, n) /\ Stands(c, n, k, fr.ip, t) /\ n.status = m.status /\ n.vstack = m.vstack
             /\ Extends(m, n) /\ Fp(n) = fr
<1> DEFINE l == Len(m.frames)
           n == [m EXCEPT !.frames = [m.frames EXCEPT ![l] = fr]]
<1>1. /\ l \in Nat /\ l >= 1 /\ DOMAIN m.frames = 1 .. l /\ l \in DOMAIN m.frames /\ Fp(m) = m.frames[l]
  BY TopFrame
<1>2. Memory(c, m) /\ fr.id = m.frames[l].id /\ DOMAIN m.frames[l].locals \subseteq DOMAIN fr.locals
  BY <1>1 DEF Below
<1>3. /\ Memory(c, n) /\ Extends(m, n) /\ n.vstack = m.vstack /\ n.status = m.status
      /\ n.calls = m.calls /\ n.frames[l] = fr
      /\ Len(n.frames) = l /\ DOMAIN n.frames = DOMAIN m.frames
      /\ \A g \in DOMAIN m.frames : g # l => n.frames[g] = m.frames[g]
  <2>1. l \in DOMAIN m.frames /\ l = Len(m.frames)
    BY <1>1
  <2> HIDE DEF l
  <2> QED
    BY <1>2, <2>1, FramePut
<1> HIDE DEF n
<1>4. Fp(n) = fr
  BY <1>3 DEF Fp
<1>5. \A f \in 1 .. l - 1 : SameFrame(n.frames[f], m.frames[f])
  <2> TAKE f \in 1 .. l - 1
  <2>1. f \in DOMAIN m.frames /\ f # l
    BY <1>1
  <2> QED
    BY <1>3, <2>1 DEF SameFrame
<1>6. Below(c, n)
  BY <1>3, <1>4, <1>5, BelowKept
<1>7. Supplied(c, n, k, fr.closure)
  BY <1>3, SuppliedKept DEF Stands
<1>8. Laid(c, n, fr.id, fr.base, Len(n.vstack), t.items)
  <2>1. IsSeq(m.vstack)
    BY <1>2 DEF Memory
  <2>2. Len(m.vstack) \in Nat /\ Fp(m).base \in Nat
    BY <2>1, SeqDomain, TopFrame
  <2>3. Len(s.items) \in Nat
    BY ShapeIs, SeqIs DEF Stands
  <2>4. Laid(c, n, Fp(m).id, Fp(m).base, Len(m.vstack), s.items)
    BY <1>3, <2>2, <2>3, LaidKept DEF Stands
  <2> QED
    BY <1>3, <2>4
<1>9. Stands(c, n, k, fr.ip, t)
  BY <1>4, <1>7, <1>8 DEF Stands
<1> QED
  BY <1>3, <1>4, <1>6, <1>9 DEF n

(* What TypeOK asks of the machine, also of one that has stopped. *)
Typed(c, m) ==
    /\ \A f \in DOMAIN m.frames :
          /\ m.frames[f].block \in DOMAIN c
          /\ m.frames[f].ip \in 1 .. Len(c[m.frames[f].block]) + 1
          /\ m.frames[f].closure \in 0 .. Len(m.closures)
          /\ m.frames[f].base \in 0 .. Len(m.vstack)
          /\ Pointed(m, m.frames[f].locals)
    /\ \A k \in DOMAIN m.closures : Pointed(m, m.closures[k])
    /\ \A l \in DOMAIN m.lists : Pointed(m, m.lists[l])

LEMMA PointedVars ==
  ASSUME NEW c, NEW m, NEW s, SoundVars(c, m, s)
  PROVE  Pointed(m, s)
BY DEF SoundVars, SoundVar, Pointed

LEMMA SuppliedIn ==
  ASSUME NEW c, NEW m, Memory(c, m), NEW k, NEW x, Supplied(c, m, k, x)
  PROVE  x \in 0 .. Len(m.closures)
<1>1. IsSeq(m.closures)
  BY DEF Memory
<1>2. Len(m.closures) \in Nat /\ DOMAIN m.closures = 1 .. Len(m.closures)
  BY <1>1, SeqDomain
<1> QED
  BY <1>2 DEF Supplied

LEMMA BlockIs ==
  ASSUME NEW c, CodeFits(c), NEW k \in DOMAIN c
  PROVE  IsSeq(c[k]) /\ Len(c[k]) \in Nat /\ DOMAIN c[k] = 1 .. Len(c[k]) /\ BlockFits(c, k) /\ Len(c[k]) # 0
<1>1. BlockFits(c, k)
  BY DEF CodeFits
<1>2. IsSeq(c[k]) /\ c[k] # <<>>
  BY <1>1 DEF BlockFits
<1> QED
  BY <1>1, <1>2, SeqDomain

LEMMA StandsTyped ==
  ASSUME NEW c, NEW m, NEW k \in DOMAIN c, NEW i, NEW s, CodeFits(c), Below(c, m), Stands(c, m, k, i, s),
         i \in 1 .. Len(c[k]) + 1
  PROVE  Typed(c, m)
<1>1. /\ Len(m.frames) \in Nat /\ Len(m.frames) >= 1 /\ DOMAIN m.frames = 1 .. Len(m.frames)
      /\ Len(m.frames) \in DOMAIN m.frames /\ Fp(m) = m.frames[Len(m.frames)] /\ Fp(m).base \in Nat
  BY TopFrame
<1>2. Memory(c, m)
  BY DEF Below
<1>3. Len(m.vstack) \in Nat
  BY <1>2, SeqDomain DEF Memory
<1>4. Fp(m).base <= Len(m.vstack)
  <2>1. Len(s.items) \in Nat
    BY ShapeIs, SeqIs DEF Stands
  <2> QED
    BY <1>1, <1>3, <2>1, LaidBounds DEF Stands
<1>5. \A f \in DOMAIN m.frames : m.frames[f].base \in 0 .. Len(m.vstack)
  <2> TAKE f \in DOMAIN m.frames
  <2>1. m.frames[f].base \in Nat /\ m.frames[f].base <= Fp(m).base
    BY <1>1 DEF Below
  <2> QED
    BY <1>1, <1>3, <1>4, <2>1
<1>6. ASSUME NEW f \in DOMAIN m.frames
      PROVE  /\ m.frames[f].block \in DOMAIN c /\ m.frames[f].ip \in 1 .. Len(c[m.frames[f].block]) + 1
             /\ m.frames[f].closure \in 0 .. Len(m.closures)
  <2>1. CASE f = Len(m.frames)
    <3>1. m.frames[f].block = k /\ m.frames[f].ip = i /\ Supplied(c, m, k, m.frames[f].closure)
      BY <1>1, <2>1 DEF Stands
    <3> QED
      BY <1>2, <3>1, SuppliedIn
  <2>2. CASE f # Len(m.frames)
    <3>1. f \in 1 .. Len(m.frames) - 1
      BY <1>1, <2>2
    <3> DEFINE fr == m.frames[f]
    <3>2. fr.block \in DOMAIN c /\ fr.ip \in DOMAIN c[fr.block] /\ Supplied(c, m, fr.block, fr.closure)
      BY <3>1 DEF Below, Waits
    <3> HIDE DEF fr
    <3>3. fr.closure \in 0 .. Len(m.closures)
      BY <1>2, <3>2, SuppliedIn
    <3>4. fr.ip \in 1 .. Len(c[fr.block]) + 1
      BY <3>2, BlockIs
    <3> QED
      BY <3>2, <3>3, <3>4 DEF fr
  <2> QED
    BY <2>1, <2>2
<1>7. /\ \A f \in DOMAIN m.frames : Pointed(m, m.frames[f].locals)
      /\ \A x \in DOMAIN m.closures : Pointed(m, m.closures[x])
      /\ \A l \in DOMAIN m.lists : Pointed(m, m.lists[l])
  BY <1>2, PointedVars DEF Memory
<1> QED
  BY <1>5, <1>6, <1>7 DEF Typed

(***************************************************************************)
(* Instruction i of block k has been fetched, in front of which the stack    *)
(* had the shape s; and what executing it comes to.                          *)
(***************************************************************************)
Fetched(c, m, k, i, s) ==
    /\ CodeFits(c) /\ k \in DOMAIN c /\ i \in DOMAIN c[k] /\ i \in Nat /\ i <= Len(c[k])
    /\ Below(c, m) /\ Stands(c, m, k, i + 1, s) /\ m.status = "running" /\ Ready(c, k, i, s)
Outcome(c, n, k, i, t) ==
    \/ n.status = "running" /\ Below(c, n) /\ Stands(c, n, k, i, t)
    \/ n.status = "panic" /\ Typed(c, n)

LEMMA PanicTyped ==
  ASSUME NEW c, NEW m, NEW k, NEW i, NEW s, CodeFits(c), k \in DOMAIN c, i \in DOMAIN c[k], i \in Nat, i <= Len(c[k]),
         Below(c, m), Stands(c, m, k, i + 1, s)
  PROVE  Panicked(m).status = "panic" /\ Typed(c, Panicked(m))
<1>1. Len(c[k]) \in Nat /\ i \in 1 .. Len(c[k])
  BY BlockIs
<1>2. i + 1 \in 1 .. Len(c[k]) + 1
  BY <1>1
<1>3. Typed(c, m)
  BY <1>2, StandsTyped
<1> DEFINE n == Panicked(m)
<1>4. IsMachine(m)
  BY DEF Below, Memory
<1>5. /\ n.vstack = m.vstack /\ n.frames = m.frames /\ n.heap = m.heap /\ n.closures = m.closures
      /\ n.lists = m.lists /\ n.status = "panic"
  BY <1>4, StatusSet DEF Panicked
<1> HIDE DEF n
<1>6. Typed(c, n)
  BY <1>3, <1>5 DEF Typed, Pointed
<1> QED
  BY <1>5, <1>6 DEF n

LEMMA PanicOutcome ==
  ASSUME NEW c, NEW m, NEW k, NEW i, NEW s, Fetched(c, m, k, i, s), NEW t
  PROVE  Outcome(c, Panicked(m), k, i + 1, t)
BY PanicTyped DEF Fetched, Outcome

(* What Fetched says, piece by piece. *)
LEMMA FetchedIs ==
  ASSUME NEW c, NEW m, NEW k, NEW i, NEW s, Fetched(c, m, k, i, s)
  PROVE  /\ Memory(c, m) /\ IsMachine(m) /\ IsSeq(m.vstack) /\ Len(m.vstack) \in Nat /\ Alike(m, m)
         /\ Below(c, m) /\ Stands(c, m, k, i + 1, s)
         /\ Fp(m).base \in Nat /\ Fp(m).id \in 1 .. m.calls /\ Fp(m).base <= Len(m.vstack)
         /\ s \in Shape(c) /\ s.items \in Seq(Item(c)) /\ s.locals \in Nat /\ IsSeq(s.items) /\ Len(s.items) \in Nat
         /\ Laid(c, m, Fp(m).id, Fp(m).base, Len(m.vstack), s.items)
         /\ k \in DOMAIN c /\ i \in DOMAIN c[k] /\ i \in Nat /\ Ready(c, k, i, s) /\ CodeFits(c)
         /\ m.status = "running"
<1>1. Below(c, m) /\ Stands(c, m, k, i + 1, s)
  BY DEF Fetched
<1>2. Memory(c, m)
  BY <1>1 DEF Below
<1>3. IsMachine(m) /\ IsSeq(m.vstack) /\ Len(m.vstack) \in Nat
  BY <1>2, SeqDomain DEF Memory
<1>4. Alike(m, m)
  BY <1>2, AlikeItself
<1>5. s \in Shape(c) /\ Laid(c, m, Fp(m).id, Fp(m).base, Len(m.vstack), s.items)
  BY <1>1 DEF Stands
<1>6. s.items \in Seq(Item(c)) /\ s.locals \in Nat /\ IsSeq(s.items)
  BY <1>5, ShapeIs
<1>7. Len(s.items) \in Nat
  BY <1>6, SeqIs
<1>8. Fp(m).base \in Nat /\ Fp(m).id \in 1 .. m.calls
  BY <1>1, TopFrame
<1>9. Fp(m).base <= Len(m.vstack)
  BY <1>3, <1>5, <1>7, <1>8, LaidBounds
<1> QED
  BY <1>1, <1>2, <1>3, <1>4, <1>5, <1>6, <1>7, <1>8, <1>9 DEF Fetched

LEMMA StackOps ==
  ASSUME NEW q, IsMachine(q), NEW v, NEW n, NEW s
  PROVE  /\ Push(q, v) = With(q, Append(q.vstack, v))
         /\ npop_stack(q, n) = With(q, SubSeq(q.vstack, 1, Len(q.vstack) - n))
         /\ Replace(q, n, v) = With(q, Append(SubSeq(q.vstack, 1, Len(q.vstack) - n), v))
         /\ Push(With(q, s), v) = With(q, Append(s, v))
         /\ npop_stack(With(q, s), n) = With(q, SubSeq(s, 1, Len(s) - n))
         /\ With(q, q.vstack) = q
<1>1. \A x, y : With(With(q, x), y) = With(q, y) /\ With(q, x).vstack = x
  BY DEF With, IsMachine
<1>2. \A p, y : Push(p, y) = With(p, Append(p.vstack, y))
  BY DEF Push, With
<1>3. \A p, y : npop_stack(p, y) = With(p, SubSeq(p.vstack, 1, Len(p.vstack) - y))
  BY DEF npop_stack, With
<1>4. Replace(q, n, v) = Push(npop_stack(q, n), v)
  BY DEF Replace
<1>5. With(q, q.vstack) = q
  BY DEF With, IsMachine
<1> QED
  BY <1>1, <1>2, <1>3, <1>4, <1>5

(* Operands are taken, and none is put in their place. *)
LEMMA Takes ==
  ASSUME NEW c, NEW m, NEW k, NEW i, NEW s, Fetched(c, m, k, i, s),
         NEW q, Memory(c, q), Alike(m, q), NEW its \in Seq(Item(c)), NEW h \in 0 .. Len(m.vstack), Fp(m).base <= h,
         Laid(c, m, Fp(m).id, Fp(m).base, h, its)
  PROVE  LET n == With(q, SubSeq(m.vstack, 1, h))
         IN  Below(c, n) /\ Stands(c, n, k, i + 1, [s EXCEPT !.items = its]) /\ n.status = "running"
<1> DEFINE x == SubSeq(m.vstack, 1, h)
           n == With(q, x)
           t == [s EXCEPT !.items = its]
<1>1. /\ IsSeq(m.vstack) /\ Len(m.vstack) \in Nat /\ Below(c, m) /\ Stands(c, m, k, i + 1, s)
      /\ s \in Shape(c) /\ s.locals \in Nat /\ Fp(m).base \in Nat /\ m.status = "running"
  BY FetchedIs
<1>2. IsSeq(x) /\ Len(x) = h /\ \A j \in 1 .. h : x[j] = m.vstack[j]
  BY <1>1, Cut
<1> HIDE DEF x
<1>3. Memory(c, n) /\ Alike(m, n) /\ n.vstack = x
  BY <1>2, StackOnly
<1> HIDE DEF n
<1>4. t = [locals |-> s.locals, items |-> its] /\ t \in Shape(c)
  BY <1>1, ShapeIs
<1>5. t.locals = s.locals /\ t.items = its
  BY <1>4
<1> HIDE DEF t
<1>6. \A j \in 1 .. Fp(m).base : n.vstack[j] = m.vstack[j]
  BY <1>1, <1>2, <1>3
<1>7. Laid(c, n, Fp(m).id, Fp(m).base, h, its)
  <2>1. \A j \in Fp(m).base + 1 .. h : n.vstack[j] = m.vstack[j]
    BY <1>1, <1>2, <1>3
  <2>2. Len(its) \in Nat /\ h \in Nat
    BY <1>1, SeqIs
  <2> QED
    BY <1>1, <1>3, <2>1, <2>2, LaidKept DEF Alike
<1>8. Below(c, n) /\ Stands(c, n, k, i + 1, t) /\ n.status = m.status
  BY <1>1, <1>2, <1>3, <1>4, <1>5, <1>6, <1>7, Landed
<1> QED
  BY <1>1, <1>8 DEF n, t, x

(* Operands are taken, and one is put in their place. *)
LEMMA Puts ==
  ASSUME NEW c, NEW m, NEW k, NEW i, NEW s, Fetched(c, m, k, i, s),
         NEW q, Memory(c, q), Alike(m, q), NEW its \in Seq(Item(c)), NEW h \in 0 .. Len(m.vstack), Fp(m).base <= h,
         Laid(c, m, Fp(m).id, Fp(m).base, h, its),
         NEW it \in Item(c), it.kind # "group", NEW v, Fits(c, q, Fp(m).id, it, v)
  PROVE  LET n == With(q, Append(SubSeq(m.vstack, 1, h), v))
         IN  Below(c, n) /\ Stands(c, n, k, i + 1, [s EXCEPT !.items = Then(its, it)]) /\ n.status = "running"
<1> DEFINE y == SubSeq(m.vstack, 1, h)
           x == Append(y, v)
           n == With(q, x)
           t == [s EXCEPT !.items = Then(its, it)]
<1>1. /\ IsSeq(m.vstack) /\ Len(m.vstack) \in Nat /\ Below(c, m) /\ Stands(c, m, k, i + 1, s)
      /\ s \in Shape(c) /\ s.locals \in Nat /\ Fp(m).base \in Nat /\ m.status = "running"
  BY FetchedIs
<1>2. IsSeq(y) /\ Len(y) = h /\ \A j \in 1 .. h : y[j] = m.vstack[j]
  BY <1>1, Cut
<1> HIDE DEF y
<1>3. IsSeq(x) /\ Len(x) = h + 1 /\ x[h + 1] = v /\ \A j \in 1 .. h : x[j] = y[j]
  BY <1>2, Longer
<1> HIDE DEF x
<1>4. Memory(c, n) /\ Alike(m, n) /\ n.vstack = x
  BY <1>3, StackOnly
<1>5. Extends(q, n)
  <2>1. Memory(c, q) /\ Alike(q, q)
    BY AlikeItself
  <2>2. Alike(q, n)
    BY <1>3, <2>1, StackOnly
  <2> QED
    BY <2>2 DEF Alike
<1> HIDE DEF n
<1>6. Then(its, it) \in Seq(Item(c))
  BY ThenItems
<1>7. t = [locals |-> s.locals, items |-> Then(its, it)] /\ t \in Shape(c)
  BY <1>1, <1>6, ShapeIs
<1>8. t.locals = s.locals /\ t.items = Then(its, it)
  BY <1>7
<1> HIDE DEF t
<1>9. \A j \in 1 .. h : n.vstack[j] = m.vstack[j]
  BY <1>2, <1>3, <1>4
<1>10. Laid(c, n, Fp(m).id, Fp(m).base, h, its)
  <2>1. \A j \in Fp(m).base + 1 .. h : n.vstack[j] = m.vstack[j]
    BY <1>1, <1>9
  <2>2. Len(its) \in Nat /\ h \in Nat
    BY <1>1, SeqIs
  <2> QED
    BY <1>1, <1>4, <2>1, <2>2, LaidKept DEF Alike
<1>11. ItemAt(c, n, Fp(m).id, it, h, h + 1)
  <2>1. Fits(c, n, Fp(m).id, it, v)
    BY <1>5, FitsKept
  <2> QED
    BY <1>3, <1>4, <2>1 DEF ItemAt
<1>12. Laid(c, n, Fp(m).id, Fp(m).base, h + 1, Then(its, it))
  <2>1. IsSeq(its) /\ h \in Nat /\ h + 1 \in Nat
    BY <1>1, SeqIs
  <2> QED
    BY <1>1, <1>10, <1>11, <2>1, LaidMore DEF Then
<1>13. \A j \in 1 .. Fp(m).base : n.vstack[j] = m.vstack[j]
  BY <1>1, <1>9
<1>14. Below(c, n) /\ Stands(c, n, k, i + 1, t) /\ n.status = m.status
  BY <1>1, <1>3, <1>4, <1>7, <1>8, <1>12, <1>13, Landed
<1> QED
  BY <1>1, <1>14 DEF n, t, x, y

LEMMA Whole == ASSUME NEW s, IsSeq(s) PROVE SubSeq(s, 1, Len(s)) = s
<1> DEFINE t == SubSeq(s, 1, Len(s))
<1>1. Len(s) \in Nat /\ Len(s) \in 0 .. Len(s)
  BY SeqDomain
<1>2. IsSeq(t) /\ Len(t) = Len(s) /\ \A i \in 1 .. Len(s) : t[i] = s[i]
  BY <1>1, Cut
<1> HIDE DEF t
<1>3. t = s
  BY <1>2, SeqSame
<1> QED
  BY <1>3 DEF t

(* A value is put on top of what is there. *)
LEMMA Pushed ==
  ASSUME NEW c, NEW m, NEW k, NEW i, NEW s, Fetched(c, m, k, i, s),
         NEW q, Memory(c, q), Alike(m, q), q.vstack = m.vstack,
         NEW it \in Item(c), it.kind # "group", NEW v, Fits(c, q, Fp(m).id, it, v)
  PROVE  Outcome(c, Push(q, v), k, i + 1, [s EXCEPT !.items = Then(@, it)])
<1> DEFINE its == s.items
           h == Len(m.vstack)
           n == With(q, Append(SubSeq(m.vstack, 1, h), v))
           t == [s EXCEPT !.items = Then(its, it)]
<1>1. /\ IsSeq(m.vstack) /\ h \in Nat /\ h \in 0 .. Len(m.vstack) /\ Fp(m).base <= h /\ its \in Seq(Item(c))
      /\ Laid(c, m, Fp(m).id, Fp(m).base, h, its)
  BY FetchedIs
<1>2. Push(q, v) = n
  <2>1. Push(q, v) = With(q, Append(q.vstack, v))
    BY StackOps DEF Memory
  <2>2. SubSeq(m.vstack, 1, h) = m.vstack
    BY <1>1, Whole
  <2> QED
    BY <2>1, <2>2
<1>3. Below(c, n) /\ Stands(c, n, k, i + 1, t) /\ n.status = "running"
  <2> HIDE DEF its, h
  <2>1. /\ Fetched(c, m, k, i, s) /\ Memory(c, q) /\ Alike(m, q) /\ its \in Seq(Item(c)) /\ h \in 0 .. Len(m.vstack)
        /\ Fp(m).base <= h /\ Laid(c, m, Fp(m).id, Fp(m).base, h, its)
        /\ it \in Item(c) /\ it.kind # "group" /\ Fits(c, q, Fp(m).id, it, v)
    BY <1>1
  <2> QED
    BY ONLY <2>1, Puts, Zenon DEF n, t
<1> HIDE DEF n
<1>4. Outcome(c, n, k, i + 1, t)
  BY <1>3 DEF Outcome
<1> QED
  BY <1>2, <1>4

(* What single operands are. *)
LEMMA Operands ==
  ASSUME NEW c, NEW m, NEW k, NEW i, NEW s, Fetched(c, m, k, i, s), NEW n \in Nat, Singles(s.items, n)
  PROVE  /\ n \in 0 .. Len(s.items) /\ Len(m.vstack) - n >= Fp(m).base /\ Len(m.vstack) - n \in 0 .. Len(m.vstack)
         /\ Laid(c, m, Fp(m).id, Fp(m).base, Len(m.vstack) - n, Less(s.items, n)) /\ Less(s.items, n) \in Seq(Item(c))
         /\ \A j \in 0 .. n - 1 :
              Sound(c, m, Peek(m, j)) /\ Fits(c, m, Fp(m).id, s.items[Len(s.items) - j], Peek(m, j))
<1> DEFINE its == s.items
           hi == Len(m.vstack)
           lo == Fp(m).base
           id == Fp(m).id
<1>1. hi \in Nat /\ lo \in Nat /\ lo <= hi /\ its \in Seq(Item(c)) /\ Laid(c, m, id, lo, hi, its)
  BY FetchedIs
<1>2. /\ n \in 0 .. Len(its) /\ hi - n >= lo /\ Laid(c, m, id, lo, hi - n, Less(its, n))
      /\ \A j \in 0 .. n - 1 : Sound(c, m, m.vstack[hi - j]) /\ Fits(c, m, id, its[Len(its) - j], m.vstack[hi - j])
  <2> HIDE DEF hi, lo, id
  <2> QED
    BY <1>1, PopSingles
<1>3. hi - n \in 0 .. hi
  BY <1>1, <1>2
<1>4. Less(its, n) \in Seq(Item(c))
  BY <1>1, <1>2, LessItems
<1> QED
  BY <1>2, <1>3, <1>4 DEF Peek

(* The operands on top are taken, and a value is put there. *)
LEMMA Replaced ==
  ASSUME NEW c, NEW m, NEW k, NEW i, NEW s, Fetched(c, m, k, i, s), NEW n \in Nat, Singles(s.items, n),
         NEW q, Memory(c, q), Alike(m, q), q.vstack = m.vstack,
         NEW it \in Item(c), it.kind # "group", NEW v, Fits(c, q, Fp(m).id, it, v)
  PROVE  Outcome(c, Replace(q, n, v), k, i + 1, [s EXCEPT !.items = Then(Less(@, n), it)])
<1> DEFINE its == Less(s.items, n)
           h == Len(m.vstack) - n
           o == With(q, Append(SubSeq(m.vstack, 1, h), v))
           t == [s EXCEPT !.items = Then(its, it)]
<1>1. h \in 0 .. Len(m.vstack) /\ Fp(m).base <= h /\ its \in Seq(Item(c)) /\ Laid(c, m, Fp(m).id, Fp(m).base, h, its)
  BY Operands, FetchedIs
<1>2. Replace(q, n, v) = o
  BY StackOps DEF Memory
<1>3. Below(c, o) /\ Stands(c, o, k, i + 1, t) /\ o.status = "running"
  <2> HIDE DEF its, h
  <2>1. /\ Fetched(c, m, k, i, s) /\ Memory(c, q) /\ Alike(m, q) /\ its \in Seq(Item(c)) /\ h \in 0 .. Len(m.vstack)
        /\ Fp(m).base <= h /\ Laid(c, m, Fp(m).id, Fp(m).base, h, its)
        /\ it \in Item(c) /\ it.kind # "group" /\ Fits(c, q, Fp(m).id, it, v)
    BY <1>1
  <2> QED
    BY ONLY <2>1, Puts, Zenon DEF o, t
<1> HIDE DEF o
<1>4. Outcome(c, o, k, i + 1, t)
  BY <1>3 DEF Outcome
<1> QED
  BY <1>2, <1>4

LEMMA TakenOff ==
  ASSUME NEW c, NEW m, NEW k, NEW i, NEW s, Fetched(c, m, k, i, s), NEW n \in Nat, Singles(s.items, n),
         NEW q, Memory(c, q), Alike(m, q), q.vstack = m.vstack
  PROVE  Outcome(c, npop_stack(q, n), k, i + 1, [s EXCEPT !.items = Less(@, n)])
<1> DEFINE its == Less(s.items, n)
           h == Len(m.vstack) - n
           o == With(q, SubSeq(m.vstack, 1, h))
           t == [s EXCEPT !.items = its]
<1>1. h \in 0 .. Len(m.vstack) /\ Fp(m).base <= h /\ its \in Seq(Item(c)) /\ Laid(c, m, Fp(m).id, Fp(m).base, h, its)
  BY Operands, FetchedIs
<1>2. npop_stack(q, n) = o
  BY DEF npop_stack, With
<1>3. Below(c, o) /\ Stands(c, o, k, i + 1, t) /\ o.status = "running"
  <2> HIDE DEF its, h
  <2> QED
    BY <1>1, Takes
<1> HIDE DEF o
<1>4. Outcome(c, o, k, i + 1, t)
  BY <1>3 DEF Outcome
<1> QED
  BY <1>2, <1>4

(* Variables that an instruction names are there. *)
LEMMA LocalAlive ==
  ASSUME NEW c, NEW m, NEW k, NEW i, NEW s, Fetched(c, m, k, i, s), NEW p, LocalThere(s, p)
  PROVE  LET r == LocalAt(m, p)
         IN  Alive(m, r) /\ r.type = "ref" /\ r.kind = "local" /\ r.owner = Fp(m).id
<1> DEFINE r == LocalAt(m, p)
           l == Len(m.frames)
<1>1. Below(c, m) /\ Memory(c, m) /\ Stands(c, m, k, i + 1, s) /\ s.locals \in Nat /\ Fp(m).id \in 1 .. m.calls
  BY FetchedIs
<1>2. l \in DOMAIN m.frames /\ Fp(m) = m.frames[l] /\ SoundVars(c, m, Fp(m).locals)
  BY <1>1, TopFrame
<1>3. r.type = "ref" /\ r.kind = "local" /\ r.owner = Fp(m).id /\ r.slot = p + 1
  BY DEF LocalAt, RefVal
<1>4. p + 1 \in DOMAIN Fp(m).locals
  <2>1. Len(Fp(m).locals) = s.locals /\ p \in 0 .. s.locals - 1
    BY <1>1 DEF Stands, LocalThere
  <2>2. DOMAIN Fp(m).locals = 1 .. Len(Fp(m).locals)
    BY <1>2, SeqDomain DEF SoundVars
  <2> QED
    BY <1>1, <2>1, <2>2
<1> HIDE DEF r, l
<1>5. \A f \in DOMAIN m.frames : m.frames[f].id = r.owner => r.slot \in DOMAIN m.frames[f].locals
  <2> TAKE f \in DOMAIN m.frames
  <2> HAVE m.frames[f].id = r.owner
  <2>1. f = l
    BY <1>1, <1>2, <1>3 DEF Memory
  <2> QED
    BY <2>1, <1>2, <1>3, <1>4
<1>6. RefThere(m, r)
  BY <1>1, <1>3, <1>5 DEF RefThere
<1>7. Alive(m, r)
  BY <1>2, <1>3, <1>6 DEF Alive
<1> QED
  BY <1>3, <1>7 DEF r

LEMMA UpvarAlive ==
  ASSUME NEW c, NEW m, NEW k, NEW i, NEW s, Fetched(c, m, k, i, s), c[k][i].op \in Upvalues, c[k][i].arg \in Nat
  PROVE  LET r == UpvarAt(m, c[k][i].arg) IN Alive(m, r) /\ r.type = "ref" /\ r.kind = "closure"
<1> DEFINE p == c[k][i].arg
           x == Fp(m).closure
           r == UpvarAt(m, p)
<1>1. Memory(c, m) /\ Supplied(c, m, k, x) /\ i \in DOMAIN c[k]
  BY FetchedIs DEF Stands
<1>2. r.type = "ref" /\ r.kind = "closure" /\ r.owner = x /\ r.slot = p + 1
  BY DEF UpvarAt, RefVal
<1>3. ~Closes(c, k, 0)
  <2>1. ~(p < 0)
    OBVIOUS
  <2> QED
    BY <1>1, <2>1 DEF Closes
<1>4. x \in DOMAIN m.closures /\ Closes(c, k, Len(m.closures[x]))
  BY <1>1, <1>3 DEF Supplied
<1>5. p < Len(m.closures[x])
  BY <1>1, <1>4 DEF Closes
<1>6. Len(m.closures[x]) \in Nat /\ DOMAIN m.closures[x] = 1 .. Len(m.closures[x])
  BY <1>1, <1>4, SeqDomain DEF Memory, SoundVars
<1>7. p + 1 \in DOMAIN m.closures[x]
  BY <1>5, <1>6
<1> HIDE DEF r, x
<1>8. RefThere(m, r)
  BY <1>2, <1>4, <1>7 DEF RefThere
<1> QED
  BY <1>2, <1>8 DEF Alive, r

(* References and values that are put on the stack. *)
LEMMA PlaceSound ==
  ASSUME NEW c, NEW m, NEW id, NEW r, RefThere(m, r), r.type = "ref", r.kind = "local" => r.owner = id
  PROVE  Sound(c, m, r) /\ Fits(c, m, id, Some("place"), r) /\ Fits(c, m, id, Some("value"), r)
<1>1. Some("place").kind = "place" /\ Some("value").kind = "value"
  BY ItemsMade
<1>2. Sound(c, m, r)
  BY DEF Sound
<1> QED
  BY <1>1, <1>2 DEF Fits

LEMMA ValueFits ==
  ASSUME NEW c, NEW m, NEW id, NEW v, Sound(c, m, v)
  PROVE  Fits(c, m, id, Some("value"), v)
BY ItemsMade DEF Fits

LEMMA SimpleSound ==
  ASSUME NEW c, NEW m
  PROVE  /\ \A n \in Int : Sound(c, m, Number(n))
         /\ \A b \in BOOLEAN : Sound(c, m, Bool(b))
         /\ Sound(c, m, NilVal) /\ Sound(c, m, NothingVal)
         /\ \A x : Sound(c, m, BuiltinVal(x))
         /\ \A l \in DOMAIN m.lists : Sound(c, m, ListVal(l))
         /\ \A b, x : b \in 2 .. Len(c) /\ Supplied(c, m, b, x) => Sound(c, m, FuncVal(b, x))
<1>1. \A n \in Int : Sound(c, m, Number(n))
  BY DEF Sound, Number
<1>2. \A b \in BOOLEAN : Sound(c, m, Bool(b))
  BY DEF Sound, Bool
<1>3. Sound(c, m, NilVal) /\ Sound(c, m, NothingVal)
  BY DEF Sound, NilVal, NothingVal
<1>4. \A x : Sound(c, m, BuiltinVal(x))
  BY DEF Sound, BuiltinVal
<1>5. \A l \in DOMAIN m.lists : Sound(c, m, ListVal(l))
  BY DEF Sound, ListVal
<1>6. \A b, x : b \in 2 .. Len(c) /\ Supplied(c, m, b, x) => Sound(c, m, FuncVal(b, x))
  BY DEF Sound, FuncVal
<1> QED
  BY <1>1, <1>2, <1>3, <1>4, <1>5, <1>6

-------------------------------------------------------------------------------
(***************************************************************************)
(* Every instruction.                                                        *)
(***************************************************************************)
LEMMA BehindIs ==
  ASSUME NEW c, NEW k, NEW i, NEW s
  PROVE  LET op == c[k][i].op
         IN  /\ op \in Loads => Behind(c, k, i, s) = [s EXCEPT !.items = Then(@, Loaded(c, k, i))]
             /\ op \in Stores => Behind(c, k, i, s) = [s EXCEPT !.items = Stored(c, k, i, @)]
             /\ op = "POP" => Behind(c, k, i, s) = [s EXCEPT !.items = Less(@, 1)]
             /\ op = "SWAP" => Behind(c, k, i, s) = [s EXCEPT !.items = Swapped(@)]
             /\ op = "ALLOC_VARS" => Behind(c, k, i, s) = [s EXCEPT !.locals = @ + c[k][i].arg]
             /\ op \in Operations => Behind(c, k, i, s) = [s EXCEPT !.items = Operated(op, @)]
             /\ op \in Indexes => Behind(c, k, i, s) = [s EXCEPT !.items = Then(Less(@, 2), Some("value"))]
             /\ op \in Calls => Behind(c, k, i, s) = [s EXCEPT !.items = Then(BelowArguments(Less(@, 1)), Some("value"))]
             /\ op \in Gathers => Behind(c, k, i, s) = [s EXCEPT !.items = Gathered(op, c[k][i].arg, @)]
             /\ op \in Jumps => Behind(c, k, i, s) = [s EXCEPT !.items = <<>>]
<1> DEFINE op == c[k][i].op
<1>1. CASE op \in Loads
  BY <1>1, Zenon DEF Behind, Loads, Stores, Operations, Indexes, Calls, Gathers, Jumps
<1>2. CASE op \in Stores
  BY <1>2, Zenon DEF Behind, Loads, Stores, Operations, Indexes, Calls, Gathers, Jumps
<1>3. CASE op \in {"POP", "SWAP", "ALLOC_VARS"}
  BY <1>3, Zenon DEF Behind, Loads, Stores, Operations, Indexes, Calls, Gathers, Jumps
<1>4. CASE op \in Operations
  BY <1>4 DEF Behind, Loads, Stores, Operations, Indexes, Calls, Gathers, Jumps
<1>5. CASE op \in Indexes
  BY <1>5 DEF Behind, Loads, Stores, Operations, Indexes, Calls, Gathers, Jumps
<1>6. CASE op \in Calls
  BY <1>6 DEF Behind, Loads, Stores, Operations, Indexes, Calls, Gathers, Jumps
<1>7. CASE op \in Gathers
  BY <1>7 DEF Behind, Loads, Stores, Operations, Indexes, Calls, Gathers, Jumps
<1>8. CASE op \in Jumps
  BY <1>8, Zenon DEF Behind, Loads, Stores, Operations, Indexes, Calls, Gathers, Jumps
<1> QED
  BY <1>1, <1>2, <1>3, <1>4, <1>5, <1>6, <1>7, <1>8

LEMMA LoadedIs ==
  ASSUME NEW c, NEW k, NEW i, c[k][i].op \in Loads
  PROVE  LET op == c[k][i].op
         IN  /\ op = "LD_IMM" => Loaded(c, k, i) = Counted(c[k][i].arg)
             /\ op \in {"LD_LREF", "LD_RREF", "LD_UPREF"} => Loaded(c, k, i) = Some("place")
             /\ op = "LD_BLK" => Loaded(c, k, i) = IF OpAt(c, k, i + 1) = "CLOSURE" THEN Unclosed(c[k][i].arg) ELSE Some("value")
             /\ op \notin {"LD_IMM", "LD_LREF", "LD_RREF", "LD_UPREF", "LD_BLK"} => Loaded(c, k, i) = Some("value")
<1> DEFINE op == c[k][i].op
<1>1. CASE op = "LD_IMM"
  BY <1>1 DEF Loaded
<1>2. CASE op \in {"LD_LREF", "LD_RREF", "LD_UPREF"}
  BY <1>2 DEF Loaded
<1>3. CASE op = "LD_BLK"
  BY <1>3 DEF Loaded
<1>4. CASE op \notin {"LD_IMM", "LD_LREF", "LD_RREF", "LD_UPREF", "LD_BLK"}
  BY <1>4 DEF Loaded
<1> QED
  BY <1>1, <1>2, <1>3, <1>4

LEMMA ConstantSound ==
  ASSUME NEW c, NEW m, NEW v, ConstantThere(v)
  PROVE  Sound(c, m, v)
BY DEF ConstantThere, Sound

LEMMA ReadyIs ==
  ASSUME NEW c, NEW k, NEW i, NEW s, Ready(c, k, i, s)
  PROVE  LET op  == c[k][i].op
             p   == c[k][i].arg
             its == s.items
         IN  /\ op = "LD_IMM" => p \in Nat
             /\ op = "LD_CONST" => ConstantThere(p)
             /\ op \in {"LD_VAR", "LD_LREF", "LD_RREF"} => LocalThere(s, p)
             /\ op \in {"LD_UPVAL", "LD_UPREF"} => p \in Nat
             /\ op = "LD_BLK" => p \in 2 .. Len(c) /\ (OpAt(c, k, i + 1) = "CLOSURE" \/ Closes(c, p, 0))
             /\ op = "ST_VAR" => LocalThere(s, p) /\ Singles(its, 1)
             /\ op = "ST_UPVAL" => p \in Nat /\ Singles(its, 1)
             /\ op = "ST_ARG" => /\ LocalThere(s, p)
                                 /\ Topmost(its) = Group(0) \/ (Numbered(its) /\ Topmost(its).n > 0)
             /\ op = "REF_PUT" => Singles(its, 2)
             /\ op = "POP" => Singles(its, 1) \/ (Topmost(its) = Group(0) /\ i = 1)
             /\ op = "SWAP" => Singles(its, 2) \/ (Singles(its, 1) /\ Topmost(Less(its, 1)).kind = "group")
             /\ op = "ALLOC_VARS" => p \in Nat
             /\ op \in Jumps => Len(its) = (IF op = "JMP" THEN 0 ELSE 1) /\ Singles(its, Len(its))
             /\ op \in Operations => Drops(op, its)
             /\ op \in Indexes => Singles(its, 2)
             /\ op \in Calls => Singles(its, 1) /\ Arguments(Less(its, 1))
             /\ op = "LIST_GATHER" => Topmost(its).kind = "group" \/ Numbered(its)
             /\ op = "LIST_SPILL" => Singles(its, 1) /\ Arguments(Less(its, 1))
             /\ op = "CLOSURE" => /\ p \in Nat /\ Topmost(its).kind = "block" /\ Closes(c, Topmost(its).block, p)
                                  /\ p < Len(its) /\ \A j \in 1 .. p : its[Len(its) - j].kind = "place"
             /\ op = "RET" => Len(its) = 1 /\ Singles(its, 1)
             /\ op \in Loads \cup Stores \cup Arranges \cup Jumps \cup Operations \cup Indexes \cup Calls \cup Gathers
                      \cup {"RET"}
<1> DEFINE op == c[k][i].op
<1>1. CASE op = "LD_IMM"
  BY <1>1 DEF Ready, Loads, Stores, Arranges, Jumps, Operations, Indexes, Calls, Gathers
<1>2. CASE op = "LD_CONST"
  BY <1>2 DEF Ready, Loads, Stores, Arranges, Jumps, Operations, Indexes, Calls, Gathers
<1>3. CASE op \in {"LD_CTX", "LD_TRUE", "LD_FALSE", "LD_NIL"}
  BY <1>3 DEF Ready, Loads, Stores, Arranges, Jumps, Operations, Indexes, Calls, Gathers
<1>4. CASE op \in {"LD_VAR", "LD_LREF", "LD_RREF"}
  BY <1>4 DEF Ready, Loads, Stores, Arranges, Jumps, Operations, Indexes, Calls, Gathers
<1>5. CASE op \in {"LD_UPVAL", "LD_UPREF"}
  BY <1>5 DEF Ready, Loads, Stores, Arranges, Jumps, Operations, Indexes, Calls, Gathers
<1>6. CASE op = "LD_BLK"
  BY <1>6 DEF Ready, Loads, Stores, Arranges, Jumps, Operations, Indexes, Calls, Gathers
<1>7. CASE op = "ST_VAR"
  BY <1>7 DEF Ready, Loads, Stores, Arranges, Jumps, Operations, Indexes, Calls, Gathers
<1>8. CASE op = "ST_UPVAL"
  BY <1>8 DEF Ready, Loads, Stores, Arranges, Jumps, Operations, Indexes, Calls, Gathers
<1>9. CASE op = "ST_ARG"
  BY <1>9 DEF Ready, Loads, Stores, Arranges, Jumps, Operations, Indexes, Calls, Gathers
<1>10. CASE op = "REF_PUT"
  BY <1>10 DEF Ready, Loads, Stores, Arranges, Jumps, Operations, Indexes, Calls, Gathers
<1>11. CASE op = "POP"
  BY <1>11 DEF Ready, Loads, Stores, Arranges, Jumps, Operations, Indexes, Calls, Gathers
<1>12. CASE op = "SWAP"
  BY <1>12 DEF Ready, Loads, Stores, Arranges, Jumps, Operations, Indexes, Calls, Gathers
<1>13. CASE op = "ALLOC_VARS"
  BY <1>13 DEF Ready, Loads, Stores, Arranges, Jumps, Operations, Indexes, Calls, Gathers
<1>14. CASE op \in Jumps
  BY <1>14 DEF Ready, Loads, Stores, Arranges, Jumps, Operations, Indexes, Calls, Gathers
<1>15. CASE op \in Operations
  BY <1>15 DEF Ready, Loads, Stores, Arranges, Jumps, Operations, Indexes, Calls, Gathers
<1>16. CASE op \in Indexes
  BY <1>16 DEF Ready, Loads, Stores, Arranges, Jumps, Operations, Indexes, Calls, Gathers
<1>17. CASE op \in Calls
  BY <1>17 DEF Ready, Loads, Stores, Arranges, Jumps, Operations, Indexes, Calls, Gathers
<1>18. CASE op = "LIST_GATHER"
  BY <1>18 DEF Ready, Loads, Stores, Arranges, Jumps, Operations, Indexes, Calls, Gathers
<1>19. CASE op = "LIST_SPILL"
  BY <1>19 DEF Ready, Loads, Stores, Arranges, Jumps, Operations, Indexes, Calls, Gathers
<1>20. CASE op = "CLOSURE"
  BY <1>20 DEF Ready, Loads, Stores, Arranges, Jumps, Operations, Indexes, Calls, Gathers
<1>21. CASE op = "RET"
  BY <1>21 DEF Ready, Loads, Stores, Arranges, Jumps, Operations, Indexes, Calls, Gathers
<1>22. op \in Loads \cup Stores \cup Arranges \cup Jumps \cup Operations \cup Indexes \cup Calls \cup Gathers \cup {"RET"}
  BY DEF Ready, Loads, Stores, Arranges, Jumps, Operations, Indexes, Calls, Gathers
<1> QED
  BY <1>1, <1>2, <1>3, <1>4, <1>5, <1>6, <1>7, <1>8, <1>9, <1>10, <1>11, <1>12, <1>13, <1>14, <1>15, <1>16, <1>17, <1>18, <1>19, <1>20, <1>21, <1>22
     DEF Loads, Stores, Arranges, Gathers

LEMMA LoadStep ==
  ASSUME NEW c, NEW m, NEW k, NEW i, NEW s, Fetched(c, m, k, i, s), c[k][i].op \in Loads
  PROVE  Outcome(c, Load(m, c[k][i].op, c[k][i].arg), k, i + 1, Behind(c, k, i, s))
<1> DEFINE op == c[k][i].op
           p  == c[k][i].arg
           id == Fp(m).id
           to == [s EXCEPT !.items = Then(@, Loaded(c, k, i))]
<1>1. Memory(c, m) /\ Alike(m, m) /\ Ready(c, k, i, s) /\ m.vstack = m.vstack
  BY FetchedIs
<1>2. Behind(c, k, i, s) = to
  BY BehindIs
<1>3. Some("value") \in Item(c) /\ Some("value").kind # "group" /\ Some("place") \in Item(c) /\ Some("place").kind # "group"
  BY ItemsMade
<1>4. ASSUME NEW v, Sound(c, m, v), Loaded(c, k, i) = Some("value")
      PROVE  Outcome(c, Push(m, v), k, i + 1, to)
  <2>1. Fits(c, m, id, Some("value"), v)
    BY <1>4, ValueFits
  <2> QED
    BY <1>1, <1>3, <1>4, <2>1, Pushed
<1>5. ASSUME NEW q, Memory(c, q), Alike(m, q), q.vstack = m.vstack, NEW r, Alive(m, r), r.type = "ref",
             r.kind = "local" => r.owner = id, Loaded(c, k, i) = Some("place")
      PROVE  Outcome(c, Push(q, r), k, i + 1, to)
  <2>1. Alive(q, r)
    BY <1>5, AliveKept
  <2>2. RefThere(q, r)
    BY <2>1 DEF Alive
  <2>3. Fits(c, q, id, Some("place"), r)
    BY <1>5, <2>2, PlaceSound
  <2> QED
    BY <1>3, <1>5, <2>3, Pushed
<1>6. op \in {"LD_VAR", "LD_LREF", "LD_RREF"} =>
        LET r == LocalAt(m, p) IN Alive(m, r) /\ r.type = "ref" /\ r.kind = "local" /\ r.owner = id
  <2> HAVE op \in {"LD_VAR", "LD_LREF", "LD_RREF"}
  <2>1. LocalThere(s, p)
    BY <1>1, ReadyIs
  <2> QED
    BY <2>1, LocalAlive
<1>7. op \in {"LD_UPVAL", "LD_UPREF"} =>
        LET r == UpvarAt(m, p) IN Alive(m, r) /\ r.type = "ref" /\ r.kind = "closure"
  <2> HAVE op \in {"LD_UPVAL", "LD_UPREF"}
  <2>1. p \in Nat /\ op \in Upvalues
    BY <1>1, ReadyIs DEF Upvalues
  <2> QED
    BY <2>1, UpvarAlive
<1>8. CASE op = "LD_IMM"
  <2> DEFINE it == Counted(p)
  <2>1. p \in Nat /\ Load(m, op, p) = Push(m, Number(p)) /\ Loaded(c, k, i) = it
    BY <1>1, <1>8, LoadedIs, ReadyIs DEF Load
  <2>2. it \in Item(c) /\ it.kind = "number" /\ it.n = p
    BY <2>1, ItemsMade
  <2> HIDE DEF it
  <2> HIDE DEF p
  <2>5. p \in Int
    BY <2>1
  <2>3. Sound(c, m, Number(p))
    BY <2>5, SimpleSound
  <2>4. Fits(c, m, id, it, Number(p)) /\ it.kind # "group"
    BY <2>2, <2>3 DEF Fits
  <2> QED
    BY <1>1, <1>2, <2>1, <2>2, <2>4, Pushed DEF p
<1>9. CASE op = "LD_CONST"
  <2>1. ConstantThere(p) /\ Load(m, op, p) = Push(m, p) /\ Loaded(c, k, i) = Some("value")
    BY <1>1, <1>9, LoadedIs, ReadyIs DEF Load
  <2> QED
    BY <1>2, <1>4, <2>1, ConstantSound
<1>10. CASE op = "LD_CTX"
  <2>1. Load(m, op, p) = sbLib_resolve_global(m, p) /\ Loaded(c, k, i) = Some("value")
    BY <1>10, LoadedIs DEF Load
  <2>2. CASE p = "print"
    BY <1>2, <1>4, <2>1, <2>2, SimpleSound DEF sbLib_resolve_global
  <2>3. CASE p # "print"
    BY <2>1, <2>3, PanicOutcome DEF sbLib_resolve_global
  <2> QED
    BY <2>2, <2>3
<1>11. CASE op = "LD_VAR"
  <2>1. Load(m, op, p) = Push(m, sbVar_get_value(m, LocalAt(m, p))) /\ Loaded(c, k, i) = Some("value")
    BY <1>11, LoadedIs DEF Load
  <2> QED
    BY <1>1, <1>2, <1>4, <1>6, <1>11, <2>1, ValueSound
<1>12. CASE op = "LD_UPVAL"
  <2>1. Load(m, op, p) = Push(m, sbVar_get_value(m, UpvarAt(m, p))) /\ Loaded(c, k, i) = Some("value")
    BY <1>12, LoadedIs DEF Load
  <2> QED
    BY <1>1, <1>2, <1>4, <1>7, <1>12, <2>1, ValueSound
<1>13. CASE op = "LD_LREF"
  <2>1. Load(m, op, p) = Push(m, LocalAt(m, p)) /\ Loaded(c, k, i) = Some("place")
    BY <1>13, LoadedIs DEF Load
  <2> QED
    BY <1>1, <1>2, <1>5, <1>6, <1>13, <2>1
<1>14. CASE op = "LD_UPREF"
  <2>1. Load(m, op, p) = Push(m, UpvarAt(m, p)) /\ Loaded(c, k, i) = Some("place")
    BY <1>14, LoadedIs DEF Load
  <2> QED
    BY <1>1, <1>2, <1>5, <1>7, <1>14, <2>1
<1>15. CASE op = "LD_RREF"
  <2> DEFINE r == LocalAt(m, p)
             q == sbVar_move_to_heap(m, r)
  <2>1. Load(m, op, p) = Push(q, r) /\ Loaded(c, k, i) = Some("place")
    BY <1>15, LoadedIs DEF Load
  <2>2. Alive(m, r) /\ r.type = "ref" /\ r.kind = "local" /\ r.owner = id
    BY <1>6, <1>15
  <2>3. Memory(c, q) /\ Alike(m, q) /\ q.vstack = m.vstack
    BY <1>1, <2>2, MoveKeeps
  <2> HIDE DEF q, r
  <2> QED
    BY <1>2, <1>5, <2>1, <2>2, <2>3
<1>16. CASE op = "LD_BLK"
  <2>1. Load(m, op, p) = Push(m, FuncVal(p, 0)) /\ p \in 2 .. Len(c)
    BY <1>1, <1>16, ReadyIs DEF Load
  <2>2. CASE OpAt(c, k, i + 1) = "CLOSURE"
    <3> DEFINE it == Unclosed(p)
    <3>1. Loaded(c, k, i) = it /\ it \in Item(c) /\ it.kind = "block" /\ it.block = p
      BY <1>16, <2>1, <2>2, LoadedIs, ItemsMade
    <3> HIDE DEF it
    <3>2. Fits(c, m, id, it, FuncVal(p, 0)) /\ it.kind # "group"
      BY <3>1 DEF Fits
    <3> QED
      BY <1>1, <1>2, <2>1, <3>1, <3>2, Pushed
  <2>3. CASE OpAt(c, k, i + 1) # "CLOSURE"
    <3>1. Loaded(c, k, i) = Some("value") /\ Closes(c, p, 0)
      BY <1>1, <1>16, <2>3, LoadedIs, ReadyIs
    <3>2. Sound(c, m, FuncVal(p, 0))
      BY <2>1, <3>1, SimpleSound DEF Supplied
    <3> QED
      BY <1>2, <1>4, <2>1, <3>1, <3>2
  <2> QED
    BY <2>2, <2>3
<1>17. CASE op \in {"LD_TRUE", "LD_FALSE", "LD_NIL"}
  <2>1. Loaded(c, k, i) = Some("value")
    BY <1>17, LoadedIs
  <2>2. Load(m, op, p) \in {Push(m, Bool(TRUE)), Push(m, Bool(FALSE)), Push(m, NilVal)}
    BY <1>17 DEF Load
  <2> QED
    BY <1>2, <1>4, <2>1, <2>2, SimpleSound
<1> QED
  BY <1>8, <1>9, <1>10, <1>11, <1>12, <1>13, <1>14, <1>15, <1>16, <1>17 DEF Loads

(***************************************************************************)
(* The number of arguments is that of the names they are for: what no code   *)
(* can know, and the script decides.                                         *)
(***************************************************************************)
Matched(c, m, k, i) ==
    LET count == Peek(m, 0).i
    IN  /\ c[k][i].op = "ST_ARG" => count > 0 /\ (count = 1 <=> ~TakesMore(c, k, i))
        /\ c[k][i].op = "LIST_GATHER" => count >= 0
        /\ c[k][i].op = "POP" /\ i = 1 => count = 0

(* Operands with their number are left on top. *)
LEMMA PutsGroup ==
  ASSUME NEW c, NEW m, NEW k, NEW i, NEW s, Fetched(c, m, k, i, s),
         NEW q, Memory(c, q), Alike(m, q), NEW its \in Seq(Item(c)), NEW h \in 0 .. Len(m.vstack), Fp(m).base <= h,
         Laid(c, m, Fp(m).id, Fp(m).base, h, its),
         NEW x, IsSeq(x), h < Len(x), \A j \in 1 .. h : x[j] = m.vstack[j], NEW e \in Nat,
         \A j \in h + 1 .. Len(x) : Sound(c, q, x[j]), x[Len(x)] = Number(Len(x) - h - 1 - e)
  PROVE  Outcome(c, With(q, x), k, i + 1, [s EXCEPT !.items = Then(its, Group(e))])
<1> DEFINE n == With(q, x)
           it == Group(e)
           t == [s EXCEPT !.items = Then(its, it)]
<1>1. /\ IsSeq(m.vstack) /\ Len(m.vstack) \in Nat /\ Below(c, m) /\ Stands(c, m, k, i + 1, s)
      /\ s \in Shape(c) /\ s.locals \in Nat /\ Fp(m).base \in Nat /\ m.status = "running"
  BY FetchedIs
<1>2. Len(x) \in Nat
  BY SeqDomain
<1>3. it \in Item(c) /\ it.kind = "group" /\ it.extra = e
  BY ItemsMade
<1> HIDE DEF it
<1>4. Memory(c, n) /\ Alike(m, n) /\ n.vstack = x
  BY StackOnly
<1>5. Extends(q, n)
  <2>1. Memory(c, q) /\ Alike(q, q)
    BY AlikeItself
  <2>2. Alike(q, n)
    BY <2>1, StackOnly
  <2> QED
    BY <2>2 DEF Alike
<1> HIDE DEF n
<1>6. Laid(c, n, Fp(m).id, Fp(m).base, h, its)
  <2>1. \A j \in Fp(m).base + 1 .. h : n.vstack[j] = m.vstack[j]
    BY <1>1, <1>4
  <2>2. Len(its) \in Nat /\ h \in Nat
    BY <1>1, SeqIs
  <2> QED
    BY <1>1, <1>4, <2>1, <2>2, LaidKept DEF Alike
<1>7. ItemAt(c, n, Fp(m).id, it, h, Len(x))
  <2>1. \A j \in h + 1 .. Len(x) : Sound(c, n, n.vstack[j])
    BY <1>4, <1>5, SoundKept
  <2>2. n.vstack[Len(x)] = Number(Len(x) - h - 1 - it.extra)
    BY <1>3, <1>4
  <2> QED
    BY <1>3, <2>1, <2>2 DEF ItemAt, Grouped
<1>8. Laid(c, n, Fp(m).id, Fp(m).base, Len(x), Then(its, it))
  <2>1. IsSeq(its) /\ h \in Nat
    BY <1>1, SeqIs
  <2>2. Laid(c, n, Fp(m).id, Fp(m).base, Len(x), Append(its, it))
    BY <1>1, <1>2, <1>6, <1>7, <2>1, LaidMore
  <2> QED
    BY <2>2 DEF Then
<1>9. t = [locals |-> s.locals, items |-> Then(its, it)] /\ t \in Shape(c)
  <2>1. Then(its, it) \in Seq(Item(c))
    BY <1>3, ThenItems
  <2> DEFINE u == Then(its, it)
  <2>2. s \in Shape(c) /\ s.locals \in Nat /\ u \in Seq(Item(c))
    BY <1>1, <2>1
  <2> HIDE DEF u
  <2> QED
    BY ONLY <2>2, ShapeIs DEF t, u
<1>10. t.locals = s.locals /\ t.items = Then(its, it)
  BY <1>9
<1> HIDE DEF t
<1>11. \A j \in 1 .. Fp(m).base : n.vstack[j] = m.vstack[j]
  BY <1>1, <1>4
<1>12. Below(c, n) /\ Stands(c, n, k, i + 1, t) /\ n.status = m.status
  <2>1. /\ Below(c, m) /\ Stands(c, m, k, i + 1, s) /\ Memory(c, n) /\ Alike(m, n) /\ t \in Shape(c) /\ t.locals = s.locals
        /\ (\A j \in 1 .. Fp(m).base : n.vstack[j] = m.vstack[j])
        /\ Laid(c, n, Fp(m).id, Fp(m).base, Len(n.vstack), t.items)
    BY <1>1, <1>4, <1>8, <1>9, <1>10, <1>11
  <2> QED
    BY ONLY <2>1, Landed
<1>13. Outcome(c, n, k, i + 1, t)
  BY <1>1, <1>12 DEF Outcome
<1> QED
  BY <1>13 DEF n, t, it

LEMMA FewerSingles ==
  ASSUME NEW its, NEW n \in Nat, Singles(its, n), NEW k \in Nat, k <= n, Len(its) \in Nat
  PROVE  Singles(its, k)
BY DEF Singles

LEMMA Rebuilt ==
  ASSUME NEW S, NEW its \in Seq(S), its # <<>>
  PROVE  Then(Less(its, 1), Topmost(its)) = its
<1> DEFINE w == Less(its, 1)
           t == Append(w, Topmost(its))
<1>1. IsSeq(its) /\ Len(its) \in Nat /\ Len(its) >= 1 /\ 1 \in 0 .. Len(its) /\ Topmost(its) = its[Len(its)]
  BY TopItem, SeqIs
<1>2. IsSeq(w) /\ Len(w) = Len(its) - 1 /\ \A j \in 1 .. Len(its) - 1 : w[j] = its[j]
  BY <1>1, LessIs
<1> HIDE DEF w
<1>3. IsSeq(t) /\ Len(t) = Len(its) /\ t[Len(its)] = Topmost(its) /\ \A j \in 1 .. Len(its) - 1 : t[j] = w[j]
  BY <1>1, <1>2, Longer
<1> HIDE DEF t
<1>4. \A j \in 1 .. Len(t) : t[j] = its[j]
  BY <1>1, <1>2, <1>3
<1>5. t = its
  BY <1>1, <1>3, <1>4, SeqSame
<1> QED
  BY <1>5 DEF t, w, Then

(* A reference on the stack that is used leads somewhere. *)
LEMMA PlaceAlive ==
  ASSUME NEW c, NEW m, NEW v, Sound(c, m, v), IsPlace(m, v)
  PROVE  Alive(m, v) /\ v.type = "ref"
<1>1. v.type = "ref" /\ RefThere(m, v)
  BY DEF IsPlace, Sound
<1>2. v.kind = "local" => \E f \in DOMAIN m.frames : m.frames[f].id = v.owner
  BY DEF IsPlace
<1> QED
  BY <1>1, <1>2 DEF Alive

LEMMA StoredIs ==
  ASSUME NEW c, NEW k, NEW i, NEW its, c[k][i].op \in Stores
  PROVE  LET op == c[k][i].op
             n  == Topmost(its).n
         IN  /\ op = "REF_PUT" => Stored(c, k, i, its) = Less(its, 2)
             /\ op \in {"ST_VAR", "ST_UPVAL"} => Stored(c, k, i, its) = Less(its, 1)
             /\ op = "ST_ARG" /\ Numbered(its) =>
                  Stored(c, k, i, its) = IF n = 1 THEN Less(its, 2) ELSE Then(Less(its, 2), Counted(n - 1))
             /\ op = "ST_ARG" /\ ~Numbered(its) => Stored(c, k, i, its) = IF TakesMore(c, k, i) THEN its ELSE Less(its, 1)
BY DEF Stored, Stores

(* The arguments on top are given by their number alone. *)
LEMMA GroupOnTop ==
  ASSUME NEW c, NEW m, NEW k, NEW i, NEW s, Fetched(c, m, k, i, s), Topmost(s.items).kind = "group"
  PROVE  /\ s.items # <<>> /\ Topmost(s.items).extra \in Nat /\ Topmost(s.items) = Group(Topmost(s.items).extra)
         /\ Less(s.items, 1) \in Seq(Item(c))
         /\ \E b \in 0 .. Len(m.vstack) :
               /\ Fp(m).base <= b /\ Laid(c, m, Fp(m).id, Fp(m).base, b, Less(s.items, 1)) /\ b < Len(m.vstack)
               /\ m.vstack[Len(m.vstack)] = Number(Len(m.vstack) - b - 1 - Topmost(s.items).extra)
               /\ \A j \in b + 1 .. Len(m.vstack) : Sound(c, m, m.vstack[j])
<1> DEFINE its == s.items
           lo == Fp(m).base
           hi == Len(m.vstack)
           id == Fp(m).id
<1>1. hi \in Nat /\ lo \in Nat /\ its \in Seq(Item(c)) /\ Laid(c, m, id, lo, hi, its)
  BY FetchedIs
<1>2. /\ its # <<>> /\ Topmost(its).extra \in Nat
      /\ \E b \in lo .. hi : /\ Laid(c, m, id, lo, b, Less(its, 1)) /\ b < hi
                             /\ m.vstack[hi] = Number(hi - b - 1 - Topmost(its).extra)
                             /\ \A j \in b + 1 .. hi : Sound(c, m, m.vstack[j])
  <2> HIDE DEF lo, hi, id
  <2>1. Topmost(its).kind = "group"
    OBVIOUS
  <2> HIDE DEF its
  <2> QED
    BY <1>1, <2>1, PopGroup
<1>3. Less(its, 1) \in Seq(Item(c)) /\ Topmost(its) \in Item(c)
  BY <1>1, <1>2, TopItem, LessItems
<1>4. Topmost(its) = Group(Topmost(its).extra)
  BY <1>3, KindsOf
<1>5. \A b \in lo .. hi : b \in 0 .. hi /\ lo <= b
  BY <1>1
<1> QED
  BY <1>2, <1>3, <1>4, <1>5

LEMMA NumberOnTop ==
  ASSUME NEW c, NEW m, NEW k, NEW i, NEW s, Fetched(c, m, k, i, s), Numbered(s.items)
  PROVE  /\ Topmost(s.items).n \in Nat /\ Peek(m, 0) = Number(Topmost(s.items).n)
         /\ Singles(s.items, Topmost(s.items).n + 1) /\ s.items # <<>>
<1> DEFINE its == s.items
           n == Topmost(its).n
<1>1. its \in Seq(Item(c)) /\ Topmost(its).kind = "number" /\ Singles(its, n + 1) /\ Len(its) \in Nat
  BY FetchedIs DEF Numbered
<1>2. its # <<>>
  BY <1>1, NoneOnTop
<1>3. Topmost(its) \in Item(c) /\ its[Len(its) - 0] = Topmost(its)
  BY <1>1, <1>2, TopItem
<1>4. n \in Nat
  BY <1>1, <1>3, KindsOf
<1>5. Singles(its, 1)
  <2>1. n + 1 \in Nat /\ 1 \in Nat /\ 1 <= n + 1
    BY <1>4
  <2> HIDE DEF n
  <2> QED
    BY <1>1, <2>1, FewerSingles
<1>6. Fits(c, m, Fp(m).id, its[Len(its) - 0], Peek(m, 0))
  BY <1>5, Operands
<1>7. Peek(m, 0) = Number(n)
  BY <1>1, <1>3, <1>6 DEF Fits
<1> QED
  BY <1>1, <1>2, <1>4, <1>7

LEMMA StoreArgumentStep ==
  ASSUME NEW c, NEW m, NEW k, NEW i, NEW s, Fetched(c, m, k, i, s), c[k][i].op = "ST_ARG", Matched(c, m, k, i)
  PROVE  Outcome(c, StoreArgument(m, c[k][i].arg), k, i + 1, Behind(c, k, i, s))
<1> DEFINE p   == c[k][i].arg
           its == s.items
           n   == Topmost(its).n
           r   == LocalAt(m, p)
           v   == Peek(m, 1)
           q   == sbVar_set_value(m, r, v)
           hi  == Len(m.vstack)
<1>1. /\ Memory(c, m) /\ hi \in Nat /\ its \in Seq(Item(c)) /\ IsSeq(m.vstack) /\ Fp(m).base \in Nat
      /\ Len(its) \in Nat /\ Ready(c, k, i, s)
  BY FetchedIs
<1>2. LocalThere(s, p) /\ (Topmost(its) = Group(0) \/ (Numbered(its) /\ Topmost(its).n > 0))
  BY <1>1, ReadyIs
<1>3. Alive(m, r)
  BY <1>2, LocalAlive
<1>4. Behind(c, k, i, s) = [s EXCEPT !.items = Stored(c, k, i, its)]
  BY BehindIs DEF Stores
<1>5. ASSUME Sound(c, m, v) PROVE Memory(c, q) /\ Alike(m, q) /\ q.vstack = m.vstack
  BY <1>1, <1>3, <1>5, SetKeeps
<1>6. Peek(m, 0).i > 0 /\ (Peek(m, 0).i = 1 <=> ~TakesMore(c, k, i))
  BY DEF Matched
<1>7. StoreArgument(m, p) = IF Peek(m, 0).i - 1 > 0 THEN Replace(q, 2, Number(Peek(m, 0).i - 1)) ELSE npop_stack(q, 2)
  BY DEF StoreArgument, Replace
<1> HIDE DEF q
<1>8. CASE Numbered(its) /\ n > 0
  <2>1. n \in Nat /\ Peek(m, 0) = Number(n) /\ Singles(its, n + 1)
    BY <1>8, NumberOnTop
  <2>2. Peek(m, 0).i = n /\ n >= 1
    BY <1>8, <2>1, NumberIs
  <2>3. Singles(its, 2)
    <3>1. n + 1 \in Nat /\ 2 \in Nat /\ 2 <= n + 1
      BY <2>1, <2>2
    <3> HIDE DEF n
    <3> QED
      BY <1>1, <2>1, <3>1, FewerSingles
  <2>4. Sound(c, m, v)
    <3>1. 2 \in Nat /\ 1 \in 0 .. 2 - 1
      OBVIOUS
    <3> QED
      BY <2>3, <3>1, Operands
  <2>5. Memory(c, q) /\ Alike(m, q) /\ q.vstack = m.vstack
    BY <1>5, <2>4
  <2>6. Stored(c, k, i, its) = IF n = 1 THEN Less(its, 2) ELSE Then(Less(its, 2), Counted(n - 1))
    BY <1>8, StoredIs DEF Stores
  <2>7. CASE n = 1
    <3>1. StoreArgument(m, p) = npop_stack(q, 2)
      BY <1>7, <2>2, <2>7
    <3>2. Outcome(c, npop_stack(q, 2), k, i + 1, [s EXCEPT !.items = Less(its, 2)])
      BY <2>3, <2>5, TakenOff
    <3> QED
      BY <1>4, <2>6, <2>7, <3>1, <3>2
  <2>8. CASE n # 1
    <3> DEFINE w == n - 1
               it == Counted(w)
    <3>1. w \in Nat /\ w > 0
      BY <2>1, <2>2, <2>8
    <3>2. StoreArgument(m, p) = Replace(q, 2, Number(w))
      BY <1>7, <2>2, <3>1
    <3> HIDE DEF w
    <3>3. it \in Item(c) /\ it.kind = "number" /\ it.n = w
      BY <3>1, ItemsMade
    <3> HIDE DEF it
    <3>4. w \in Int
      BY <3>1
    <3>5. Fits(c, q, Fp(m).id, it, Number(w)) /\ it.kind # "group"
      <4>1. Sound(c, q, Number(w))
        BY <3>4, SimpleSound
      <4> QED
        BY <3>3, <4>1 DEF Fits
    <3>6. Outcome(c, Replace(q, 2, Number(w)), k, i + 1, [s EXCEPT !.items = Then(Less(@, 2), it)])
      BY <2>3, <2>5, <3>3, <3>5, Replaced
    <3>7. Stored(c, k, i, its) = Then(Less(its, 2), it)
      BY <2>6, <2>8 DEF it, w
    <3> QED
      BY <1>4, <3>2, <3>6, <3>7
  <2> QED
    BY <2>7, <2>8
<1>9. CASE Topmost(its) = Group(0)
  <2>1. Topmost(its).kind = "group" /\ Topmost(its).extra = 0
    BY <1>9, ItemsMade
  <2>2. ~Numbered(its)
    BY <2>1 DEF Numbered
  <2>3. its # <<>> /\ Less(its, 1) \in Seq(Item(c))
    BY <2>1, GroupOnTop
  <2>4. PICK b \in 0 .. hi :
               /\ Fp(m).base <= b /\ Laid(c, m, Fp(m).id, Fp(m).base, b, Less(its, 1)) /\ b < hi
               /\ m.vstack[hi] = Number(hi - b - 1 - Topmost(its).extra)
               /\ \A j \in b + 1 .. hi : Sound(c, m, m.vstack[j])
    BY <2>1, GroupOnTop
  <2> DEFINE count == hi - b - 1
  <2>5. Peek(m, 0).i = count
    <3>1. Peek(m, 0) = m.vstack[hi]
      <4>1. hi - 0 = hi
        BY <1>1
      <4> QED
        BY <4>1 DEF Peek
    <3>2. hi - b - 1 - Topmost(its).extra = count
      BY <1>1, <2>1
    <3> HIDE DEF hi, count
    <3> QED
      BY <2>4, <3>1, <3>2, NumberIs
  <2>6. count > 0 /\ (count = 1 <=> ~TakesMore(c, k, i)) /\ count \in Int
    BY <1>1, <1>6, <2>5
  <2>7. Sound(c, m, v)
    <3>1. hi - 1 \in b + 1 .. hi
      BY <1>1, <2>6
    <3> QED
      BY <2>4, <3>1 DEF Peek
  <2>8. Memory(c, q) /\ Alike(m, q) /\ q.vstack = m.vstack
    BY <1>5, <2>7
  <2>9. Stored(c, k, i, its) = IF TakesMore(c, k, i) THEN its ELSE Less(its, 1)
    BY <2>2, StoredIs DEF Stores
  <2>10. CASE count = 1
    <3> DEFINE n1 == With(q, SubSeq(m.vstack, 1, b))
               t1 == [s EXCEPT !.items = Less(its, 1)]
    <3>1. StoreArgument(m, p) = npop_stack(q, 2)
      BY <1>7, <2>5, <2>10
    <3>2. npop_stack(q, 2) = n1
      <4>1. hi - 2 = b
        BY <1>1, <2>10
      <4>2. Len(q.vstack) - 2 = b
        BY <2>8, <4>1
      <4>3. npop_stack(q, 2) = With(q, SubSeq(q.vstack, 1, b))
        BY <4>2 DEF npop_stack, With
      <4> QED
        BY <2>8, <4>3
    <3>3. Below(c, n1) /\ Stands(c, n1, k, i + 1, t1) /\ n1.status = "running"
      BY <2>3, <2>4, <2>8, Takes
    <3> HIDE DEF n1
    <3>4. Outcome(c, n1, k, i + 1, t1)
      BY <3>3 DEF Outcome
    <3>5. Stored(c, k, i, its) = Less(its, 1)
      BY <2>6, <2>9, <2>10
    <3> QED
      BY <1>4, <3>1, <3>2, <3>4, <3>5
  <2>11. CASE count # 1
    <3> DEFINE y == SubSeq(m.vstack, 1, hi - 2)
               x == Append(y, Number(count - 1))
    <3>1. count - 1 > 0 /\ hi - 2 \in 0 .. hi /\ b < hi - 1 /\ hi - 2 \in Nat
      BY <1>1, <2>6, <2>11
    <3>2. StoreArgument(m, p) = Replace(q, 2, Number(count - 1))
      BY <1>7, <2>5, <3>1
    <3>3. Replace(q, 2, Number(count - 1)) = With(q, x)
      <4>1. Replace(q, 2, Number(count - 1)) = With(q, Append(SubSeq(q.vstack, 1, Len(q.vstack) - 2), Number(count - 1)))
        BY <2>8, StackOps DEF Memory
      <4> QED
        BY <2>8, <4>1
    <3>4. IsSeq(y) /\ Len(y) = hi - 2 /\ \A j \in 1 .. hi - 2 : y[j] = m.vstack[j]
      BY <1>1, <3>1, Cut
    <3> HIDE DEF y
    <3>5. IsSeq(x) /\ Len(x) = Len(y) + 1 /\ x[Len(x)] = Number(count - 1) /\ \A j \in 1 .. Len(y) : x[j] = y[j]
      BY <3>4, Longer
    <3> HIDE DEF x
    <3>6. Len(x) = hi - 1 /\ b < Len(x)
      <4>1. Len(x) = (hi - 2) + 1 /\ hi \in Nat /\ b < hi - 1
        BY <1>1, <3>1, <3>4, <3>5
      <4> QED
        BY ONLY <4>1
    <3>7. \A j \in 1 .. b : x[j] = m.vstack[j]
      BY <3>1, <3>4, <3>5
    <3>8. \A j \in b + 1 .. Len(x) : Sound(c, q, x[j])
      <4> TAKE j \in b + 1 .. Len(x)
      <4>1. CASE j = Len(x)
        <5>1. count - 1 \in Int
          BY <2>6
        <5> HIDE DEF count
        <5> QED
          BY <3>5, <4>1, <5>1, SimpleSound
      <4>2. CASE j # Len(x)
        <5>1. j \in 1 .. hi - 2 /\ j \in b + 1 .. hi
          BY <1>1, <3>6, <4>2
        <5>2. x[j] = m.vstack[j]
          BY <3>4, <3>5, <5>1
        <5> QED
          BY <2>4, <2>8, <5>1, <5>2, SoundKept DEF Alike
      <4> QED
        BY <4>1, <4>2
    <3>9. x[Len(x)] = Number(Len(x) - b - 1 - 0)
      <4>1. count - 1 = Len(x) - b - 1 - 0
        BY <1>1, <3>6
      <4> QED
        BY <3>5, <4>1
    <3>10. Outcome(c, With(q, x), k, i + 1, [s EXCEPT !.items = Then(Less(its, 1), Group(0))])
      <4> DEFINE L == Less(its, 1)
      <4>1. L \in Seq(Item(c)) /\ Laid(c, m, Fp(m).id, Fp(m).base, b, L) /\ Fp(m).base <= b /\ b \in 0 .. Len(m.vstack)
        BY <2>3, <2>4
      <4>2. 0 \in Nat
        OBVIOUS
      <4> HIDE DEF L
      <4>3. Outcome(c, With(q, x), k, i + 1, [s EXCEPT !.items = Then(L, Group(0))])
        BY <2>8, <3>5, <3>6, <3>7, <3>8, <3>9, <4>1, <4>2, PutsGroup
      <4> QED
        BY <4>3 DEF L
    <3>11. Then(Less(its, 1), Group(0)) = its
      BY <1>1, <1>9, <2>3, Rebuilt
    <3>12. Stored(c, k, i, its) = its
      BY <2>6, <2>9, <2>11
    <3> HIDE DEF its, count
    <3>13. Outcome(c, With(q, x), k, i + 1, [s EXCEPT !.items = its])
      BY <3>10, <3>11
    <3> QED
      BY <1>4, <3>2, <3>3, <3>12, <3>13
  <2> QED
    BY <2>10, <2>11
<1> QED
  BY <1>2, <1>8, <1>9

LEMMA StoreStep ==
  ASSUME NEW c, NEW m, NEW k, NEW i, NEW s, Fetched(c, m, k, i, s), c[k][i].op \in Stores, Matched(c, m, k, i)
  PROVE  Outcome(c, Store(m, c[k][i].op, c[k][i].arg), k, i + 1, Behind(c, k, i, s))
<1> DEFINE op  == c[k][i].op
           p   == c[k][i].arg
           its == s.items
<1>1. Memory(c, m) /\ Ready(c, k, i, s)
  BY FetchedIs
<1>2. Behind(c, k, i, s) = [s EXCEPT !.items = Stored(c, k, i, its)]
  BY BehindIs
<1>3. 1 \in Nat /\ 2 \in Nat /\ 0 \in 0 .. 1 - 1 /\ 0 \in 0 .. 2 - 1 /\ 1 \in 0 .. 2 - 1
  OBVIOUS
<1>4. ASSUME NEW r, Alive(m, r), Singles(its, 1), Stored(c, k, i, its) = Less(its, 1)
      PROVE  Outcome(c, npop_stack(sbVar_set_value(m, r, Peek(m, 0)), 1), k, i + 1, Behind(c, k, i, s))
  <2> DEFINE q == sbVar_set_value(m, r, Peek(m, 0))
  <2>1. Sound(c, m, Peek(m, 0))
    BY <1>3, <1>4, Operands
  <2>2. Memory(c, q) /\ Alike(m, q) /\ q.vstack = m.vstack
    BY <1>1, <1>4, <2>1, SetKeeps
  <2> HIDE DEF q
  <2>3. Outcome(c, npop_stack(q, 1), k, i + 1, [s EXCEPT !.items = Less(its, 1)])
    BY <1>3, <1>4, <2>2, TakenOff
  <2> QED
    BY <1>2, <1>4, <2>3 DEF q
<1>5. CASE op = "ST_VAR"
  <2>1. LocalThere(s, p) /\ Singles(its, 1)
    BY <1>1, <1>5, ReadyIs
  <2>2. Alive(m, LocalAt(m, p))
    BY <2>1, LocalAlive
  <2>3. Stored(c, k, i, its) = Less(its, 1)
    BY <1>5, StoredIs
  <2>4. Store(m, op, p) = npop_stack(sbVar_set_value(m, LocalAt(m, p), Peek(m, 0)), 1)
    BY <1>5 DEF Store
  <2> QED
    BY <1>4, <2>1, <2>2, <2>3, <2>4
<1>6. CASE op = "ST_UPVAL"
  <2>1. p \in Nat /\ Singles(its, 1)
    BY <1>1, <1>6, ReadyIs
  <2>2. Alive(m, UpvarAt(m, p))
    BY <1>6, <2>1, UpvarAlive DEF Upvalues
  <2>3. Stored(c, k, i, its) = Less(its, 1)
    BY <1>6, StoredIs
  <2>4. Store(m, op, p) = npop_stack(sbVar_set_value(m, UpvarAt(m, p), Peek(m, 0)), 1)
    BY <1>6 DEF Store
  <2> QED
    BY <1>4, <2>1, <2>2, <2>3, <2>4
<1>7. CASE op = "ST_ARG"
  <2>1. Store(m, op, p) = StoreArgument(m, p)
    BY <1>7 DEF Store
  <2>2. Outcome(c, StoreArgument(m, p), k, i + 1, Behind(c, k, i, s))
    BY <1>7, StoreArgumentStep
  <2> QED
    BY <2>1, <2>2
<1>8. CASE op = "REF_PUT"
  <2> DEFINE v == Peek(m, 0)
             q == sbVar_set_value(m, v, Peek(m, 1))
  <2>1. Singles(its, 2)
    BY <1>1, <1>8, ReadyIs
  <2>2. Sound(c, m, v) /\ Sound(c, m, Peek(m, 1))
    BY <1>3, <2>1, Operands
  <2>3. CASE IsPlace(m, v)
    <3>1. Alive(m, v)
      BY <2>2, <2>3, PlaceAlive
    <3>2. Memory(c, q) /\ Alike(m, q) /\ q.vstack = m.vstack
      BY <1>1, <2>2, <3>1, SetKeeps
    <3>3. Store(m, op, p) = npop_stack(q, 2)
      BY <1>8, <2>3 DEF Store
    <3> HIDE DEF q
    <3>4. Outcome(c, npop_stack(q, 2), k, i + 1, [s EXCEPT !.items = Less(its, 2)])
      BY <1>3, <2>1, <3>2, TakenOff
    <3>5. Stored(c, k, i, its) = Less(its, 2)
      BY <1>8, StoredIs
    <3> QED
      BY <1>2, <3>3, <3>4, <3>5
  <2>4. CASE ~IsPlace(m, v)
    <3>1. Store(m, op, p) = Panicked(m)
      BY <1>8, <2>4 DEF Store
    <3> QED
      BY <3>1, PanicOutcome
  <2> QED
    BY <2>3, <2>4
<1> QED
  BY <1>5, <1>6, <1>7, <1>8 DEF Stores

(* The operands above those of the callers are laid out anew. *)
LEMMA Relaid ==
  ASSUME NEW c, NEW m, NEW k, NEW i, NEW s, Fetched(c, m, k, i, s),
         NEW q, Memory(c, q), Alike(m, q), NEW x, IsSeq(x), \A j \in 1 .. Fp(m).base : x[j] = m.vstack[j],
         NEW its \in Seq(Item(c)), Laid(c, With(q, x), Fp(m).id, Fp(m).base, Len(x), its)
  PROVE  Outcome(c, With(q, x), k, i + 1, [s EXCEPT !.items = its])
<1> DEFINE n == With(q, x)
           t == [s EXCEPT !.items = its]
<1>1. Below(c, m) /\ Stands(c, m, k, i + 1, s) /\ s \in Shape(c) /\ s.locals \in Nat /\ m.status = "running"
  BY FetchedIs
<1>2. Memory(c, n) /\ Alike(m, n) /\ n.vstack = x
  BY StackOnly
<1>3. Laid(c, n, Fp(m).id, Fp(m).base, Len(x), its)
  OBVIOUS
<1> HIDE DEF n
<1>4. t = [locals |-> s.locals, items |-> its] /\ t \in Shape(c)
  BY <1>1, ShapeIs
<1>5. t.locals = s.locals /\ t.items = its
  BY <1>4
<1> HIDE DEF t
<1>6. Below(c, n) /\ Stands(c, n, k, i + 1, t) /\ n.status = m.status
  BY <1>1, <1>2, <1>3, <1>4, <1>5, Landed
<1>7. Outcome(c, n, k, i + 1, t)
  BY <1>1, <1>6 DEF Outcome
<1> QED
  BY <1>7 DEF n, t

LEMMA SwapSingles ==
  ASSUME NEW c, NEW m, NEW k, NEW i, NEW s, Fetched(c, m, k, i, s), Singles(s.items, 2)
  PROVE  Outcome(c, Push(Replace(m, 2, Peek(m, 0)), Peek(m, 1)), k, i + 1, [s EXCEPT !.items = Swapped(@)])
<1> DEFINE its == s.items
           hi == Len(m.vstack)
           lo == Fp(m).base
           id == Fp(m).id
           v == Peek(m, 0)
           w == Peek(m, 1)
           top == Topmost(its)
           under == its[Len(its) - 1]
           L == Less(its, 2)
           y == SubSeq(m.vstack, 1, hi - 2)
           z == Append(y, v)
           x == Append(z, w)
           n == With(m, x)
<1>1. /\ Memory(c, m) /\ IsSeq(m.vstack) /\ hi \in Nat /\ lo \in Nat /\ its \in Seq(Item(c)) /\ IsSeq(its) /\ Len(its) \in Nat
      /\ Alike(m, m) /\ IsMachine(m)
  BY FetchedIs
<1>2. 2 \in Nat /\ 0 \in 0 .. 2 - 1 /\ 1 \in 0 .. 2 - 1
  OBVIOUS
<1>3. /\ 2 \in 0 .. Len(its) /\ hi - 2 >= lo /\ hi - 2 \in 0 .. hi /\ Laid(c, m, id, lo, hi - 2, L) /\ L \in Seq(Item(c))
      /\ Fits(c, m, id, its[Len(its) - 0], v) /\ Fits(c, m, id, under, w)
  BY <1>2, Operands
<1>4. its # <<>> /\ its[Len(its) - 0] = top /\ top \in Item(c) /\ top = its[Len(its)]
  <2>1. its # <<>>
    BY <1>1, <1>3, SeqDomain
  <2> QED
    BY <1>1, <2>1, TopItem
<1>5. under \in Item(c)
  <2>1. Len(its) - 1 \in DOMAIN its
    BY <1>1, <1>3, SeqDomain
  <2> QED
    BY <1>1, <2>1, SeqIs
<1>6. top.kind # "group" /\ under.kind # "group"
  BY <1>2, <1>4 DEF Singles
<1>7. Swapped(its) = Then(Then(L, top), under)
  BY <1>6 DEF Swapped
<1>8. Push(Replace(m, 2, v), w) = n
  <2>1. IsMachine(m)
    BY <1>1
  <2>2. Replace(m, 2, v) = With(m, z)
    BY <2>1, StackOps
  <2> HIDE DEF v, w, z
  <2>3. Push(With(m, z), w) = With(m, Append(z, w))
    BY ONLY <2>1, StackOps
  <2> QED
    BY ONLY <2>2, <2>3 DEF n, x
<1>9. IsSeq(y) /\ Len(y) = hi - 2 /\ \A j \in 1 .. hi - 2 : y[j] = m.vstack[j]
  BY <1>1, <1>3, Cut
<1> HIDE DEF y
<1>10. IsSeq(z) /\ Len(z) = Len(y) + 1 /\ z[Len(z)] = v /\ \A j \in 1 .. Len(y) : z[j] = y[j]
  BY <1>9, Longer
<1> HIDE DEF z
<1>11. IsSeq(x) /\ Len(x) = Len(z) + 1 /\ x[Len(x)] = w /\ \A j \in 1 .. Len(z) : x[j] = z[j]
  BY <1>10, Longer
<1> HIDE DEF x
<1>12. Len(z) = hi - 1 /\ Len(x) = hi /\ x[hi] = w /\ x[hi - 1] = v /\ \A j \in 1 .. hi - 2 : x[j] = m.vstack[j]
  <2>1. hi \in Nat /\ hi - 2 \in Nat /\ hi - 1 \in 1 .. hi - 1
    BY <1>1, <1>3
  <2> HIDE DEF hi, v, w
  <2>2. Len(z) = hi - 1 /\ Len(x) = hi
    BY <1>9, <1>10, <1>11, <2>1
  <2>3. x[hi - 1] = z[hi - 1] /\ z[hi - 1] = v /\ x[hi] = w
    BY <1>10, <1>11, <2>1, <2>2
  <2>4. \A j \in 1 .. hi - 2 : x[j] = m.vstack[j]
    BY <1>9, <1>10, <1>11, <2>1, <2>2
  <2> QED
    BY <2>2, <2>3, <2>4
<1>13. Memory(c, n) /\ Alike(m, n) /\ n.vstack = x
  <2>1. Memory(c, m) /\ Alike(m, m) /\ IsSeq(x)
    BY <1>1, <1>11
  <2> HIDE DEF x
  <2> QED
    BY ONLY <2>1, StackOnly DEF n
<1>14. Extends(m, n)
  BY <1>13 DEF Alike
<1>15. Laid(c, n, id, lo, hi - 2, L)
  <2>1. \A j \in lo + 1 .. hi - 2 : n.vstack[j] = m.vstack[j]
    BY <1>1, <1>12, <1>13
  <2>2. hi - 2 \in Nat /\ Len(L) \in Nat
    BY <1>3, SeqIs
  <2> QED
    BY <1>1, <1>3, <1>14, <2>1, <2>2, LaidKept
<1>16. ItemAt(c, n, id, top, hi - 2, hi - 1)
  <2>1. Fits(c, n, id, top, v)
    BY <1>3, <1>4, <1>14, FitsKept
  <2>2. hi - 1 = (hi - 2) + 1 /\ hi - 2 < hi - 1
    BY <1>1
  <2> QED
    BY <1>6, <1>12, <1>13, <2>1, <2>2 DEF ItemAt
<1>17. ItemAt(c, n, id, under, hi - 1, hi)
  <2>1. Fits(c, n, id, under, w)
    BY <1>3, <1>14, FitsKept
  <2>2. hi = (hi - 1) + 1 /\ hi - 1 < hi
    BY <1>1
  <2> QED
    BY <1>6, <1>12, <1>13, <2>1, <2>2 DEF ItemAt
<1>18. Then(L, top) \in Seq(Item(c)) /\ Then(Then(L, top), under) \in Seq(Item(c)) /\ IsSeq(L) /\ IsSeq(Then(L, top))
  BY <1>3, <1>4, <1>5, ThenItems, SeqIs
<1>19. hi - 1 \in Nat /\ hi - 2 \in Nat
  BY <1>1, <1>3
<1> HIDE DEF n, L, top, under, hi
<1>20. Laid(c, n, id, lo, hi - 1, Then(L, top))
  BY <1>1, <1>15, <1>16, <1>18, <1>19, LaidMore DEF Then
<1>21. Laid(c, n, id, lo, hi, Then(Then(L, top), under))
  <2> DEFINE K == Then(L, top)
  <2> HIDE DEF K
  <2>1. Laid(c, n, id, lo, hi - 1, K) /\ IsSeq(K)
    BY <1>18, <1>20 DEF K
  <2>2. Laid(c, n, id, lo, hi, Append(K, under))
    BY <1>1, <1>17, <1>19, <2>1, LaidMore
  <2> QED
    BY <2>2 DEF K, Then
<1>22. Outcome(c, n, k, i + 1, [s EXCEPT !.items = Then(Then(L, top), under)])
  <2>1. \A j \in 1 .. lo : x[j] = m.vstack[j]
    BY <1>1, <1>3, <1>12 DEF hi
  <2>2. Laid(c, With(m, x), id, lo, Len(x), Then(Then(L, top), under))
    BY <1>12, <1>21 DEF n
  <2>3. Outcome(c, With(m, x), k, i + 1, [s EXCEPT !.items = Then(Then(L, top), under)])
    BY <1>1, <1>11, <1>18, <2>1, <2>2, Relaid
  <2> QED
    BY <2>3 DEF n
<1> QED
  BY <1>7, <1>8, <1>22

(* A value is put under the arguments, and counted with them. *)
LEMMA SwapUnder ==
  ASSUME NEW c, NEW m, NEW k, NEW i, NEW s, Fetched(c, m, k, i, s), Singles(s.items, 1),
         Topmost(Less(s.items, 1)).kind = "group"
  PROVE  Outcome(c, Push(Replace(m, 2, Peek(m, 0)), Peek(m, 1)), k, i + 1, [s EXCEPT !.items = Swapped(@)])
<1> DEFINE its == s.items
           hi == Len(m.vstack)
           lo == Fp(m).base
           id == Fp(m).id
           v == Peek(m, 0)
           w == Peek(m, 1)
           M == Less(its, 1)
           under == its[Len(its) - 1]
           e == under.extra
           L == Less(M, 1)
           y == SubSeq(m.vstack, 1, hi - 2)
           z == Append(y, v)
           x == Append(z, w)
<1>1. /\ Memory(c, m) /\ IsSeq(m.vstack) /\ hi \in Nat /\ lo \in Nat /\ its \in Seq(Item(c)) /\ IsSeq(its) /\ Len(its) \in Nat
      /\ Alike(m, m) /\ IsMachine(m)
  BY FetchedIs
<1>2. 1 \in Nat /\ 0 \in 0 .. 1 - 1
  OBVIOUS
<1>3. /\ 1 \in 0 .. Len(its) /\ hi - 1 >= lo /\ hi - 1 \in 0 .. hi /\ Laid(c, m, id, lo, hi - 1, M) /\ M \in Seq(Item(c))
      /\ Sound(c, m, v)
  BY <1>2, Operands
<1>4. M # <<>>
  BY NoneOnTop
<1>5. Topmost(M) = under /\ under.kind = "group"
  <2>1. 1 < Len(its)
    <3>1. Len(M) = Len(its) - 1 /\ IsSeq(M)
      BY <1>1, <1>3, LessIs
    <3>2. Len(M) # 0 /\ Len(M) \in Nat
      BY <1>4, <3>1, SeqDomain
    <3>3. Len(its) \in Nat
      BY <1>1
    <3> HIDE DEF M, its
    <3> QED
      BY <3>1, <3>2, <3>3
  <2> QED
    BY <1>1, <1>3, <2>1, LessIs
<1>6. /\ e \in Nat /\ \E b \in lo .. hi - 1 : /\ Laid(c, m, id, lo, b, L) /\ b < hi - 1
                              /\ m.vstack[hi - 1] = Number((hi - 1) - b - 1 - e)
                              /\ \A j \in b + 1 .. hi - 1 : Sound(c, m, m.vstack[j])
  <2>1. hi - 1 \in Nat /\ Topmost(M).kind = "group"
    BY <1>1, <1>3
  <2> HIDE DEF lo, hi, id, M
  <2>2. /\ Topmost(M).extra \in Nat
        /\ \E b \in lo .. hi - 1 : /\ Laid(c, m, id, lo, b, L) /\ b < hi - 1
                              /\ m.vstack[hi - 1] = Number((hi - 1) - b - 1 - Topmost(M).extra)
                              /\ \A j \in b + 1 .. hi - 1 : Sound(c, m, m.vstack[j])
    BY <1>1, <1>3, <2>1, PopGroup
  <2> QED
    BY <1>5, <2>2
<1>7. PICK b \in lo .. hi - 1 : /\ Laid(c, m, id, lo, b, L) /\ b < hi - 1
                              /\ m.vstack[hi - 1] = Number((hi - 1) - b - 1 - e)
                              /\ \A j \in b + 1 .. hi - 1 : Sound(c, m, m.vstack[j])
  BY <1>6
<1>8. L \in Seq(Item(c)) /\ L = Less(its, 2)
  <2>1. 1 \in 0 .. Len(M) /\ 1 < Len(its)
    <3>1. Len(M) = Len(its) - 1 /\ IsSeq(M)
      BY <1>1, <1>3, LessIs
    <3>2. Len(M) # 0 /\ Len(M) \in Nat
      BY <1>4, <3>1, SeqDomain
    <3>3. Len(its) \in Nat
      BY <1>1
    <3> HIDE DEF M, its
    <3> QED
      BY <3>1, <3>2, <3>3
  <2>2. L \in Seq(Item(c))
    BY <1>3, <2>1, LessItems
  <2>3. L = Less(its, 1 + 1)
    BY <1>1, <1>2, <2>1, LessMore
  <2> QED
    BY <2>2, <2>3
<1>9. Swapped(its) = Then(L, Group(e + 1))
  BY <1>5, <1>8 DEF Swapped
<1>10. Push(Replace(m, 2, v), w) = With(m, x)
  <2>1. IsMachine(m)
    BY <1>1
  <2>2. Replace(m, 2, v) = With(m, z)
    BY <2>1, StackOps
  <2> HIDE DEF v, w, z
  <2>3. Push(With(m, z), w) = With(m, Append(z, w))
    BY ONLY <2>1, StackOps
  <2> QED
    BY ONLY <2>2, <2>3 DEF x
<1>11. hi - 2 \in Nat /\ hi - 2 \in 0 .. hi /\ b \in Nat /\ b \in 0 .. hi /\ lo <= b /\ b <= hi - 2
  <2>1. hi \in Nat /\ lo \in Nat /\ b \in lo .. hi - 1 /\ b < hi - 1
    BY <1>1, <1>7
  <2> QED
    BY ONLY <2>1
<1>12. IsSeq(y) /\ Len(y) = hi - 2 /\ \A j \in 1 .. hi - 2 : y[j] = m.vstack[j]
  BY <1>1, <1>11, Cut
<1> HIDE DEF y
<1>13. IsSeq(z) /\ Len(z) = Len(y) + 1 /\ z[Len(z)] = v /\ \A j \in 1 .. Len(y) : z[j] = y[j]
  BY <1>12, Longer
<1> HIDE DEF z
<1>14. IsSeq(x) /\ Len(x) = Len(z) + 1 /\ x[Len(x)] = w /\ \A j \in 1 .. Len(z) : x[j] = z[j]
  BY <1>13, Longer
<1> HIDE DEF x
<1>15. Len(x) = hi /\ x[hi] = w /\ x[hi - 1] = v /\ \A j \in 1 .. hi - 2 : x[j] = m.vstack[j]
  <2>1. hi - 1 \in 1 .. hi - 1 /\ hi \in Nat
    BY <1>1, <1>11
  <2> HIDE DEF hi, v, w
  <2>2. Len(z) = hi - 1 /\ Len(x) = hi
    BY <1>11, <1>12, <1>13, <1>14, <2>1
  <2>3. x[hi - 1] = z[hi - 1] /\ z[hi - 1] = v /\ x[hi] = w
    BY <1>13, <1>14, <2>1, <2>2
  <2>4. \A j \in 1 .. hi - 2 : x[j] = m.vstack[j]
    BY <1>11, <1>12, <1>13, <1>14, <2>1, <2>2
  <2> QED
    BY <2>2, <2>3, <2>4
<1>16. w = m.vstack[hi - 1] /\ Sound(c, m, w)
  <2>1. hi - 1 \in b + 1 .. hi - 1
    BY <1>1, <1>11
  <2> QED
    BY <1>7, <2>1 DEF Peek
<1>17. x[Len(x)] = Number(Len(x) - b - 1 - (e + 1))
  <2>2. hi \in Nat /\ b \in Nat /\ e \in Nat
    BY <1>1, <1>6, <1>11
  <2> HIDE DEF hi, w, e
  <2>1. hi - b - 1 - (e + 1) = (hi - 1) - b - 1 - e
    BY <2>2
  <2> QED
    BY <1>7, <1>15, <1>16, <2>1
<1>18. \A j \in b + 1 .. Len(x) : Sound(c, m, x[j])
  <2> TAKE j \in b + 1 .. Len(x)
  <2>1. CASE j <= hi - 2
    <3>1. j \in 1 .. hi - 2 /\ j \in b + 1 .. hi - 1
      BY <1>1, <1>11, <1>15, <2>1
    <3> QED
      BY <1>7, <1>15, <3>1
  <2>2. CASE j = hi - 1
    BY <1>3, <1>15, <2>2
  <2>3. CASE j = hi
    BY <1>15, <1>16, <2>3
  <2>4. hi \in Nat /\ b \in Nat /\ Len(x) = hi
    BY <1>1, <1>11, <1>15
  <2> HIDE DEF hi
  <2>5. j <= hi - 2 \/ j = hi - 1 \/ j = hi
    BY <2>4
  <2> QED
    BY <2>1, <2>2, <2>3, <2>5
<1>19. \A j \in 1 .. b : x[j] = m.vstack[j]
  BY <1>1, <1>11, <1>15
<1>20. e + 1 \in Nat /\ b < Len(x)
  <2>1. hi \in Nat /\ b \in Nat /\ e \in Nat /\ b <= hi - 2 /\ Len(x) = hi
    BY <1>1, <1>6, <1>11, <1>15
  <2> HIDE DEF hi, e
  <2> QED
    BY <2>1
<1>21. Outcome(c, With(m, x), k, i + 1, [s EXCEPT !.items = Then(L, Group(e + 1))])
  <2> DEFINE e1 == e + 1
  <2> HIDE DEF L, e1
  <2>1. e1 \in Nat /\ x[Len(x)] = Number(Len(x) - b - 1 - e1)
    BY <1>17, <1>20 DEF e1
  <2>3. /\ L \in Seq(Item(c)) /\ b \in 0 .. Len(m.vstack) /\ Fp(m).base <= b /\ Laid(c, m, Fp(m).id, Fp(m).base, b, L)
        /\ Memory(c, m) /\ Alike(m, m) /\ IsSeq(x)
    BY <1>1, <1>7, <1>8, <1>11, <1>14
  <2>2. Outcome(c, With(m, x), k, i + 1, [s EXCEPT !.items = Then(L, Group(e1))])
    BY <1>18, <1>19, <1>20, <2>1, <2>3, PutsGroup
  <2> QED
    BY <2>2 DEF e1
<1> QED
  BY <1>9, <1>10, <1>21

LEMMA PopStep ==
  ASSUME NEW c, NEW m, NEW k, NEW i, NEW s, Fetched(c, m, k, i, s), c[k][i].op = "POP", Matched(c, m, k, i)
  PROVE  Outcome(c, npop_stack(m, 1), k, i + 1, [s EXCEPT !.items = Less(@, 1)])
<1> DEFINE its == s.items
           hi == Len(m.vstack)
<1>1. /\ Memory(c, m) /\ Alike(m, m) /\ hi \in Nat /\ Ready(c, k, i, s) /\ IsSeq(m.vstack) /\ Fp(m).base \in Nat
  BY FetchedIs
<1>2. CASE Singles(its, 1)
  BY <1>1, <1>2, TakenOff
<1>3. CASE Topmost(its) = Group(0) /\ i = 1
  <2>1. Topmost(its).kind = "group" /\ Topmost(its).extra = 0
    BY <1>3, ItemsMade
  <2>2. Less(its, 1) \in Seq(Item(c))
    BY <2>1, GroupOnTop
  <2>3. PICK b \in 0 .. hi :
               /\ Fp(m).base <= b /\ Laid(c, m, Fp(m).id, Fp(m).base, b, Less(its, 1)) /\ b < hi
               /\ m.vstack[hi] = Number(hi - b - 1 - Topmost(its).extra)
               /\ \A j \in b + 1 .. hi : Sound(c, m, m.vstack[j])
    BY <2>1, GroupOnTop
  <2>4. hi - 1 = b
    <3>1. Peek(m, 0).i = 0
      BY <1>3 DEF Matched
    <3>2. hi - 0 = hi
      BY <1>1
    <3>3. Peek(m, 0) = m.vstack[hi]
      BY <3>2 DEF Peek
    <3>4. hi - b - 1 - Topmost(its).extra = 0
      BY <2>3, <3>1, <3>3, NumberIs
    <3> QED
      BY <1>1, <2>1, <3>4
  <2> DEFINE n == With(m, SubSeq(m.vstack, 1, b))
             t == [s EXCEPT !.items = Less(its, 1)]
  <2>5. npop_stack(m, 1) = n
    BY <2>4 DEF npop_stack, With
  <2>6. Below(c, n) /\ Stands(c, n, k, i + 1, t) /\ n.status = "running"
    BY <1>1, <2>2, <2>3, Takes
  <2> HIDE DEF n
  <2>7. Outcome(c, n, k, i + 1, t)
    BY <2>6 DEF Outcome
  <2> QED
    BY <2>5, <2>7
<1>4. Singles(its, 1) \/ (Topmost(its) = Group(0) /\ i = 1)
  BY <1>1, ReadyIs
<1> QED
  BY <1>2, <1>3, <1>4

(* The frame gets new locals. *)
LEMMA AllocStep ==
  ASSUME NEW c, NEW m, NEW k, NEW i, NEW s, Fetched(c, m, k, i, s), NEW p \in Nat
  PROVE  Outcome(c, Arrange(m, "ALLOC_VARS", p), k, i + 1, [s EXCEPT !.locals = @ + p])
<1> DEFINE l  == Len(m.frames)
           z  == [j \in 1 .. p |-> NothingVal]
           y  == Fp(m).locals \o z
           fr == [Fp(m) EXCEPT !.locals = y]
           x  == [m.frames EXCEPT ![l] = fr]
           n  == [m EXCEPT !.frames = x]
           t  == [s EXCEPT !.locals = @ + p]
<1>1. Below(c, m) /\ Stands(c, m, k, i + 1, s) /\ m.status = "running" /\ s \in Shape(c) /\ s.locals \in Nat
  BY FetchedIs
<1>2. /\ l \in DOMAIN m.frames /\ IsFrame(Fp(m)) /\ SoundVars(c, m, Fp(m).locals) /\ Fp(m) = m.frames[l]
  BY <1>1, TopFrame
<1>3. Arrange(m, "ALLOC_VARS", p) = n
  BY <1>2 DEF Arrange
<1>4. IsSeq(z) /\ Len(z) = p /\ \A j \in 1 .. p : z[j] = NothingVal
  <2>1. DOMAIN z = 1 .. p /\ z = [j \in 1 .. p |-> z[j]] /\ \A j \in 1 .. p : z[j] = NothingVal
    OBVIOUS
  <2> HIDE DEF z
  <2> QED
    BY <2>1, Listed
<1> HIDE DEF z
<1>5. IsSeq(Fp(m).locals) /\ Len(Fp(m).locals) \in Nat /\ DOMAIN Fp(m).locals = 1 .. Len(Fp(m).locals)
  BY <1>2, SeqDomain DEF SoundVars
<1>6. /\ IsSeq(y) /\ Len(y) = Len(Fp(m).locals) + p /\ DOMAIN y = 1 .. Len(Fp(m).locals) + p
      /\ \A j \in 1 .. Len(Fp(m).locals) : y[j] = Fp(m).locals[j]
      /\ \A j \in 1 .. p : y[Len(Fp(m).locals) + j] = z[j]
  <2> DEFINE w == Fp(m).locals
             u == w \o z
  <2>1. IsSeq(w) /\ IsSeq(z)
    BY <1>4, <1>5
  <2> HIDE DEF w
  <2>2. /\ IsSeq(u) /\ Len(u) = Len(w) + Len(z) /\ DOMAIN u = 1 .. Len(w) + Len(z)
        /\ \A j \in 1 .. Len(w) : u[j] = w[j]
        /\ \A j \in 1 .. Len(z) : u[Len(w) + j] = z[j]
    BY <2>1, Joined
  <2>3. y = u
    BY DEF w
  <2> HIDE DEF u
  <2> QED
    BY <1>4, <2>2, <2>3 DEF w
<1> HIDE DEF y
<1>7. SoundVars(c, m, y)
  <2>1. ASSUME NEW j \in DOMAIN y PROVE SoundVar(c, m, y[j])
    <3>1. CASE j <= Len(Fp(m).locals)
      <4>1. j \in 1 .. Len(Fp(m).locals)
        BY <1>5, <1>6, <2>1, <3>1
      <4> QED
        BY <1>2, <1>5, <1>6, <4>1 DEF SoundVars
    <3>2. CASE ~(j <= Len(Fp(m).locals))
      <4>1. j - Len(Fp(m).locals) \in 1 .. p /\ Len(Fp(m).locals) + (j - Len(Fp(m).locals)) = j
        BY <1>5, <1>6, <2>1, <3>2
      <4>2. y[j] = NothingVal
        BY <1>4, <1>6, <4>1
      <4>3. NothingVal.type # "heapvar"
        BY DEF NothingVal
      <4> QED
        BY <4>2, <4>3, SimpleSound DEF SoundVar
    <3> QED
      BY <3>1, <3>2
  <2> QED
    BY <1>6, <2>1 DEF SoundVars
<1>8. /\ IsFrame(fr) /\ fr.block = Fp(m).block /\ fr.ip = Fp(m).ip /\ fr.closure = Fp(m).closure /\ fr.locals = y
      /\ fr.id = Fp(m).id /\ fr.base = Fp(m).base
  BY <1>2, LocalsSet
<1> HIDE DEF fr
<1>9. t = [locals |-> s.locals + p, items |-> s.items] /\ t \in Shape(c)
  <2>1. s.locals + p \in Nat /\ s.items \in Seq(Item(c))
    BY <1>1, ShapeIs
  <2> QED
    BY <1>1, <2>1, ShapeIs
<1>10. t.locals = s.locals + p /\ t.items = s.items
  BY <1>9
<1> HIDE DEF t
<1>11. Fp(m).block = k /\ Fp(m).ip = i + 1 /\ Len(Fp(m).locals) = s.locals
  BY <1>1 DEF Stands
<1>12. t.locals = Len(fr.locals) /\ DOMAIN Fp(m).locals \subseteq DOMAIN fr.locals /\ fr.block = k /\ fr.ip = i + 1
  BY <1>5, <1>6, <1>8, <1>10, <1>11
<1>15. SoundVars(c, m, fr.locals) /\ fr.closure = Fp(m).closure /\ fr.id = Fp(m).id /\ fr.base = Fp(m).base /\ IsFrame(fr)
  BY <1>7, <1>8
<1>13. Below(c, n) /\ Stands(c, n, k, fr.ip, t) /\ n.status = m.status
  <2>1. /\ Below(c, m) /\ Stands(c, m, k, i + 1, s) /\ IsFrame(fr) /\ fr.block = k /\ fr.closure = Fp(m).closure
        /\ fr.id = Fp(m).id /\ fr.base = Fp(m).base /\ SoundVars(c, m, fr.locals)
        /\ DOMAIN Fp(m).locals \subseteq DOMAIN fr.locals /\ t \in Shape(c) /\ t.locals = Len(fr.locals) /\ t.items = s.items
    BY <1>1, <1>9, <1>10, <1>12, <1>15
  <2> QED
    BY <2>1, TopPut
<1> HIDE DEF n
<1>14. Outcome(c, n, k, i + 1, t)
  BY <1>1, <1>12, <1>13 DEF Outcome
<1> QED
  BY <1>3, <1>14 DEF t

LEMMA ArrangeStep ==
  ASSUME NEW c, NEW m, NEW k, NEW i, NEW s, Fetched(c, m, k, i, s), c[k][i].op \in Arranges, Matched(c, m, k, i)
  PROVE  Outcome(c, Arrange(m, c[k][i].op, c[k][i].arg), k, i + 1, Behind(c, k, i, s))
<1> DEFINE op == c[k][i].op
           p  == c[k][i].arg
<1>1. Ready(c, k, i, s)
  BY FetchedIs
<1>2. CASE op = "POP"
  <2>1. Arrange(m, op, p) = npop_stack(m, 1) /\ Behind(c, k, i, s) = [s EXCEPT !.items = Less(@, 1)]
    BY <1>2, BehindIs DEF Arrange
  <2> QED
    BY <1>2, <2>1, PopStep
<1>3. CASE op = "SWAP"
  <2>1. /\ Arrange(m, op, p) = Push(Replace(m, 2, Peek(m, 0)), Peek(m, 1))
        /\ Behind(c, k, i, s) = [s EXCEPT !.items = Swapped(@)]
    BY <1>3, BehindIs DEF Arrange
  <2>2. Singles(s.items, 2) \/ (Singles(s.items, 1) /\ Topmost(Less(s.items, 1)).kind = "group")
    BY <1>1, <1>3, ReadyIs
  <2> QED
    BY <2>1, <2>2, SwapSingles, SwapUnder
<1>4. CASE op = "ALLOC_VARS"
  <2>1. Behind(c, k, i, s) = [s EXCEPT !.locals = @ + p] /\ p \in Nat
    BY <1>1, <1>4, BehindIs, ReadyIs
  <2> QED
    BY <1>4, <2>1, AllocStep
<1> QED
  BY <1>2, <1>3, <1>4 DEF Arranges

(* The place in the block is set; the rest of the frame stays. *)
LEMMA GotoStands ==
  ASSUME NEW c, NEW m, NEW k, NEW i, NEW s, Below(c, m), Stands(c, m, k, i, s), NEW p
  PROVE  LET n == Goto(m, p)
         IN  Below(c, n) /\ Stands(c, n, k, p, s) /\ n.status = m.status /\ n.vstack = m.vstack
<1> DEFINE l  == Len(m.frames)
           fr == [Fp(m) EXCEPT !.ip = p]
           x  == [m.frames EXCEPT ![l] = fr]
           n  == [m EXCEPT !.frames = x]
<1>1. /\ l \in DOMAIN m.frames /\ IsFrame(Fp(m)) /\ SoundVars(c, m, Fp(m).locals) /\ Fp(m) = m.frames[l]
  BY TopFrame
<1>2. Goto(m, p) = n
  BY <1>1 DEF Goto
<1>3. /\ IsFrame(fr) /\ fr.block = Fp(m).block /\ fr.ip = p /\ fr.closure = Fp(m).closure /\ fr.locals = Fp(m).locals
      /\ fr.id = Fp(m).id /\ fr.base = Fp(m).base
  BY <1>1, IpSet
<1> HIDE DEF fr
<1>4. s \in Shape(c) /\ Fp(m).block = k /\ s.locals = Len(fr.locals)
  BY <1>3 DEF Stands
<1>5. SoundVars(c, m, fr.locals) /\ DOMAIN Fp(m).locals \subseteq DOMAIN fr.locals /\ fr.block = k
  BY <1>1, <1>3, <1>4
<1>6. Below(c, n) /\ Stands(c, n, k, fr.ip, s) /\ n.status = m.status /\ n.vstack = m.vstack
  BY <1>3, <1>4, <1>5, TopPut
<1> QED
  BY <1>2, <1>3, <1>6

LEMMA JumpStep ==
  ASSUME NEW c, NEW m, NEW k, NEW i, NEW s, Fetched(c, m, k, i, s), c[k][i].op \in Jumps
  PROVE  LET n == Jump(m, c[k][i].op, c[k][i].arg)
             t == [s EXCEPT !.items = <<>>]
         IN  Outcome(c, n, k, c[k][i].arg, t) \/ (c[k][i].op # "JMP" /\ Outcome(c, n, k, i + 1, t))
<1> DEFINE op == c[k][i].op
           p  == c[k][i].arg
           t  == [s EXCEPT !.items = <<>>]
           n  == Jump(m, op, p)
<1>1. /\ Below(c, m) /\ Stands(c, m, k, i + 1, s) /\ m.status = "running" /\ s \in Shape(c) /\ Memory(c, m) /\ Alike(m, m)
      /\ IsSeq(s.items) /\ Ready(c, k, i, s) /\ IsSeq(m.vstack) /\ Len(m.vstack) \in Nat
  BY FetchedIs
<1>2. Len(s.items) = (IF op = "JMP" THEN 0 ELSE 1) /\ Singles(s.items, Len(s.items))
  BY <1>1, ReadyIs
<1>3. CASE op = "JMP"
  <2>1. s.items = <<>>
    BY <1>1, <1>2, <1>3, SeqDomain
  <2>2. t = s
    BY <1>1, <2>1 DEF Shape
  <2>3. n = Goto(m, p)
    BY <1>3 DEF Jump
  <2>4. Below(c, Goto(m, p)) /\ Stands(c, Goto(m, p), k, p, s) /\ Goto(m, p).status = m.status
    BY <1>1, GotoStands
  <2> HIDE DEF t, n
  <2>5. Outcome(c, n, k, p, t)
    BY <1>1, <2>2, <2>3, <2>4 DEF Outcome
  <2> QED
    BY <2>5 DEF n, t
<1>4. CASE op \in {"JT", "JF"}
  <2> DEFINE q == npop_stack(m, 1)
             g == Goto(q, p)
  <2>1. Len(s.items) = 1 /\ Singles(s.items, 1)
    BY <1>2, <1>4
  <2>2. Less(s.items, 1) = <<>>
    <3>2. 1 \in 0 .. Len(s.items) /\ Len(s.items) - 1 = 0
      BY <2>1
    <3>1. IsSeq(Less(s.items, 1)) /\ Len(Less(s.items, 1)) = 0
      BY <1>1, <3>2, LessIs
    <3> QED
      BY <3>1, SeqDomain
  <2>3. Below(c, q) /\ Stands(c, q, k, i + 1, t) /\ q.status = "running"
    <3> DEFINE h == Len(m.vstack) - 1
               its == Less(s.items, 1)
               o == With(m, SubSeq(m.vstack, 1, h))
    <3>1. h \in 0 .. Len(m.vstack) /\ Fp(m).base <= h /\ its \in Seq(Item(c)) /\ Laid(c, m, Fp(m).id, Fp(m).base, h, its)
      BY <2>1, Operands, FetchedIs
    <3>2. q = o
      BY DEF npop_stack, With
    <3> HIDE DEF h
    <3>3. Below(c, o) /\ Stands(c, o, k, i + 1, [s EXCEPT !.items = its]) /\ o.status = "running"
      <4> HIDE DEF its
      <4> QED
        BY <1>1, <3>1, Takes
    <3> HIDE DEF o, q
    <3> QED
      BY <2>2, <3>2, <3>3
  <2> HIDE DEF q
  <2>4. Below(c, g) /\ Stands(c, g, k, p, t) /\ g.status = "running"
    BY <2>3, GotoStands
  <2>5. n = q \/ n = g
    BY <1>4 DEF Jump, q
  <2> HIDE DEF g, n, t
  <2>6. Outcome(c, q, k, i + 1, t) /\ Outcome(c, g, k, p, t)
    BY <2>3, <2>4 DEF Outcome
  <2>7. Outcome(c, n, k, p, t) \/ (op # "JMP" /\ Outcome(c, n, k, i + 1, t))
    BY <1>4, <2>5, <2>6
  <2> QED
    BY <2>7 DEF n, t
<1> QED
  BY <1>3, <1>4 DEF Jumps

(* The same, where only the stack is changed. *)
LEMMA LeavesGroup ==
  ASSUME NEW c, NEW m, NEW k, NEW i, NEW s, Fetched(c, m, k, i, s),
         NEW its \in Seq(Item(c)), NEW h \in 0 .. Len(m.vstack), Fp(m).base <= h,
         Laid(c, m, Fp(m).id, Fp(m).base, h, its),
         NEW x, IsSeq(x), h < Len(x), \A j \in 1 .. h : x[j] = m.vstack[j], NEW e \in Nat,
         \A j \in h + 1 .. Len(x) : Sound(c, m, x[j]), NEW w, w = Len(x) - h - 1 - e, x[Len(x)] = Number(w)
  PROVE  Outcome(c, With(m, x), k, i + 1, [s EXCEPT !.items = Then(its, Group(e))])
<1>1. Memory(c, m) /\ Alike(m, m)
  BY FetchedIs
<1>2. x[Len(x)] = Number(Len(x) - h - 1 - e)
  OBVIOUS
<1> QED
  BY <1>1, <1>2, PutsGroup

(* Operands with their number stay on top, counted anew. *)
LEMMA Recounted ==
  ASSUME NEW c, NEW m, NEW k, NEW i, NEW s, Fetched(c, m, k, i, s),
         NEW L \in Seq(Item(c)), NEW b, b \in 0 .. Len(m.vstack), Fp(m).base <= b, Laid(c, m, Fp(m).id, Fp(m).base, b, L),
         NEW d \in {1, 2}, b <= Len(m.vstack) - d, \A j \in b + 1 .. Len(m.vstack) - d : Sound(c, m, m.vstack[j]),
         NEW e, e \in Nat, NEW v, v = Len(m.vstack) - d - b - e
  PROVE  Outcome(c, Replace(m, d, Number(v)), k, i + 1, [s EXCEPT !.items = Then(L, Group(e))])
<1> DEFINE hi == Len(m.vstack)
           h == hi - d
           y == SubSeq(m.vstack, 1, h)
           x == Append(y, Number(v))
<1>1. Memory(c, m) /\ IsSeq(m.vstack) /\ hi \in Nat /\ Alike(m, m) /\ IsMachine(m)
  BY FetchedIs
<1>2. h \in Nat /\ h \in 0 .. hi /\ b \in Nat /\ b <= h /\ v \in Int /\ v = h - b - e
  BY <1>1
<1>3. Replace(m, d, Number(v)) = With(m, x)
  BY <1>1, StackOps
<1>4. IsSeq(y) /\ Len(y) = h /\ \A j \in 1 .. h : y[j] = m.vstack[j]
  BY <1>1, <1>2, Cut
<1> HIDE DEF y
<1>5. IsSeq(x) /\ Len(x) = Len(y) + 1 /\ x[Len(x)] = Number(v) /\ \A j \in 1 .. Len(y) : x[j] = y[j]
  <2> DEFINE w == Number(v)
             u == Append(y, w)
  <2>1. IsSeq(y)
    BY <1>4
  <2> HIDE DEF w
  <2>2. IsSeq(u) /\ Len(u) = Len(y) + 1 /\ u[Len(u)] = w /\ \A j \in 1 .. Len(y) : u[j] = y[j]
    BY <2>1, Longer
  <2> QED
    BY <2>2 DEF w
<1> HIDE DEF x
<1>6. Len(x) = h + 1 /\ b < Len(x) /\ \A j \in 1 .. h : x[j] = m.vstack[j]
  <2> HIDE DEF h
  <2> QED
    BY <1>2, <1>4, <1>5
<1>7. \A j \in b + 1 .. Len(x) : Sound(c, m, x[j])
  <2> TAKE j \in b + 1 .. Len(x)
  <2>1. CASE j = Len(x)
    BY <1>2, <1>5, <2>1, SimpleSound
  <2>2. CASE j # Len(x)
    <3>1. j \in 1 .. h /\ j \in b + 1 .. hi - d
      <4>1. h = hi - d
        OBVIOUS
      <4> HIDE DEF h
      <4>2. j \in 1 .. h /\ j \in b + 1 .. h
        BY <1>2, <1>6, <2>2
      <4> QED
        BY <4>1, <4>2
    <3>2. x[j] = m.vstack[j]
      BY <1>6, <3>1
    <3> QED
      BY <3>1, <3>2
  <2> QED
    BY <2>1, <2>2
<1>8. x[Len(x)] = Number(Len(x) - b - 1 - e)
  <2> HIDE DEF h
  <2>1. v = Len(x) - b - 1 - e
    BY <1>2, <1>6
  <2> QED
    BY <1>5, <2>1
<1>9. \A j \in 1 .. b : x[j] = m.vstack[j]
  <2> HIDE DEF h
  <2> QED
    BY <1>2, <1>6
<1>10. Outcome(c, With(m, x), k, i + 1, [s EXCEPT !.items = Then(L, Group(e))])
  <2> DEFINE u == Len(x) - b - 1 - e
  <2>1. IsSeq(x) /\ b < Len(x) /\ x[Len(x)] = Number(u) /\ u = Len(x) - b - 1 - e
    BY <1>5, <1>6, <1>8
  <2> HIDE DEF u
  <2> QED
    BY <1>7, <1>9, <2>1, LeavesGroup
<1> QED
  BY <1>3, <1>10

LEMMA OperatedIs ==
  ASSUME NEW op, NEW its
  PROVE  LET top == Topmost(its)
             under == its[Len(its) - 1]
         IN  /\ op = "OP_SUB" /\ under.kind = "group" => Operated(op, its) = Then(Less(its, 2), Group(under.extra + top.n))
             /\ op = "OP_INCR" /\ top.kind = "group" => Operated(op, its) = Then(Less(its, 1), Group(top.extra - 1))
             /\ op \in {"OP_NOT", "OP_DEREF"} \/ (op = "OP_INCR" /\ top.kind # "group") =>
                  Operated(op, its) = Then(Less(its, 1), Some("value"))
             /\ op = "OP_RANGEINDEX" => Operated(op, its) = Then(Less(its, 3), Some("value"))
             /\ op \notin {"OP_NOT", "OP_DEREF", "OP_INCR", "OP_RANGEINDEX"} /\ (op = "OP_SUB" => under.kind # "group") =>
                  Operated(op, its) = Then(Less(its, 2), Some("value"))
BY DEF Operated

LEMMA DropsIs ==
  ASSUME NEW op, NEW its, Drops(op, its)
  PROVE  /\ op = "OP_SUB" => \/ Singles(its, 2)
                             \/ Len(its) > 1 /\ Topmost(its).kind = "number" /\ its[Len(its) - 1].kind = "group"
         /\ op = "OP_INCR" => Singles(its, 1) \/ (Topmost(its).kind = "group" /\ Topmost(its).extra > 0)
         /\ op = "OP_RANGEINDEX" => Singles(its, 3)
         /\ op \in {"OP_NOT", "OP_DEREF"} => Singles(its, 1)
         /\ op \notin {"OP_SUB", "OP_INCR", "OP_RANGEINDEX", "OP_NOT", "OP_DEREF"} => Singles(its, 2)
<1>1. CASE op = "OP_SUB"
  BY <1>1 DEF Drops
<1>2. CASE op = "OP_INCR"
  BY <1>2 DEF Drops
<1>3. CASE op = "OP_RANGEINDEX"
  BY <1>3 DEF Drops
<1>4. CASE op \in {"OP_NOT", "OP_DEREF"}
  BY <1>4 DEF Drops
<1>5. CASE op \notin {"OP_SUB", "OP_INCR", "OP_RANGEINDEX", "OP_NOT", "OP_DEREF"}
  BY <1>5 DEF Drops
<1> QED
  BY <1>1, <1>2, <1>3, <1>4, <1>5

LEMMA DivisionInt ==
  ASSUME NEW a \in Int, NEW b \in Int, b # 0
  PROVE  FloorDiv(a, b) \in Int /\ Remainder(a, b) \in Int
<1> DEFINE x == Magnitude(a)
           y == Magnitude(b)
<1>1. x \in Int /\ y \in Int /\ y > 0
  BY DEF Magnitude
<1>2. SignOf(a) \in {-1, 1} /\ SignOf(b) \in {-1, 1}
  BY DEF SignOf
<1> HIDE DEF x, y
<1>3. x \div y \in Int /\ x % y \in Int
  BY <1>1
<1>4. \A z \in Int : \A p, q \in {-1, 1} : p * z \in Int /\ p * q * z \in Int
  OBVIOUS
<1> QED
  BY <1>2, <1>3, <1>4 DEF FloorDiv, Remainder, x, y

LEMMA ArithmeticSound ==
  ASSUME NEW c, NEW m, NEW op, NEW a \in Int, NEW b \in Int, Divides(op, b),
         op \in {"OP_ADD", "OP_SUB", "OP_MUL", "OP_FLDIV", "OP_MOD", "OP_LT", "OP_LE"}
  PROVE  Sound(c, m, Arithmetic(op, a, b))
<1>1. \A n \in Int : Sound(c, m, Number(n))
  BY SimpleSound
<1>2. \A x \in BOOLEAN : Sound(c, m, Bool(x))
  BY SimpleSound
<1>3. CASE op = "OP_ADD"
  <2>1. a + b \in Int /\ Arithmetic(op, a, b) = Number(a + b)
    BY <1>3 DEF Arithmetic
  <2> QED
    BY <1>1, <2>1
<1>4. CASE op = "OP_SUB"
  <2>1. a - b \in Int /\ Arithmetic(op, a, b) = Number(a - b)
    BY <1>4 DEF Arithmetic
  <2> QED
    BY <1>1, <2>1
<1>5. CASE op = "OP_MUL"
  <2>1. a * b \in Int /\ Arithmetic(op, a, b) = Number(a * b)
    BY <1>5 DEF Arithmetic
  <2> QED
    BY <1>1, <2>1
<1>6. CASE op = "OP_FLDIV"
  <2>1. b # 0
    BY <1>6 DEF Divides
  <2>2. FloorDiv(a, b) \in Int /\ Arithmetic(op, a, b) = Number(FloorDiv(a, b))
    BY <1>6, <2>1, DivisionInt DEF Arithmetic
  <2> QED
    BY <1>1, <2>2
<1>7. CASE op = "OP_MOD"
  <2>1. b # 0
    BY <1>7 DEF Divides
  <2>2. Remainder(a, b) \in Int /\ Arithmetic(op, a, b) = Number(Remainder(a, b))
    BY <1>7, <2>1, DivisionInt DEF Arithmetic
  <2> QED
    BY <1>1, <2>2
<1>8. CASE op = "OP_LT"
  <2>1. (a < b) \in BOOLEAN /\ Arithmetic(op, a, b) = Bool(a < b)
    BY <1>8 DEF Arithmetic
  <2> QED
    BY <1>2, <2>1
<1>9. CASE op = "OP_LE"
  <2>1. (a <= b) \in BOOLEAN /\ Arithmetic(op, a, b) = Bool(a <= b)
    BY <1>9 DEF Arithmetic
  <2> QED
    BY <1>2, <2>1
<1> QED
  BY <1>3, <1>4, <1>5, <1>6, <1>7, <1>8, <1>9

LEMMA OperateIs ==
  ASSUME NEW m, NEW op
  PROVE  LET v == Peek(m, 1)
             w == Peek(m, 0)
             x == Peek(m, 2)
         IN  /\ op = "OP_EQ" => Operate(m, op) = Panicked(m) \/ Operate(m, op) = Replace(m, 2, Bool(sbV_c_eq(v, w)))
             /\ op = "OP_NOT" => Operate(m, op) = Replace(m, 1, Bool(sbV_c_falsy(w)))
             /\ op = "OP_AND" => Operate(m, op) = Replace(m, 2, Bool(~(sbV_c_falsy(v) \/ sbV_c_falsy(w))))
             /\ op = "OP_OR"  => Operate(m, op) = Replace(m, 2, Bool(~(sbV_c_falsy(v) /\ sbV_c_falsy(w))))
             /\ op = "OP_INCR" => Operate(m, op) = IF w.type = "int" THEN Replace(m, 1, Number(w.i + 1)) ELSE Panicked(m)
             /\ op = "OP_RANGEINDEX" =>
                  \/ Operate(m, op) = Panicked(m)
                  \/ /\ x.type = "list" /\ v.type = "int" /\ w.type = "int"
                     /\ Operate(m, op) = sbV_rangeindex(m, x, v.i, w.i)
             /\ op = "OP_DEREF" =>
                  Operate(m, op) = IF IsPlace(m, w) THEN Replace(m, 1, sbVar_get_value(m, w)) ELSE Panicked(m)
             /\ op \in {"OP_ADD", "OP_SUB", "OP_MUL", "OP_FLDIV", "OP_MOD", "OP_LT", "OP_LE"} =>
                  Operate(m, op) = IF v.type = "int" /\ w.type = "int" /\ Divides(op, w.i)
                                   THEN Replace(m, 2, Arithmetic(op, v.i, w.i)) ELSE Panicked(m)
<1>1. CASE op = "OP_EQ"
  BY <1>1 DEF Operate
<1>2. CASE op = "OP_NOT"
  BY <1>2 DEF Operate
<1>3. CASE op = "OP_AND"
  BY <1>3 DEF Operate
<1>4. CASE op = "OP_OR"
  BY <1>4 DEF Operate
<1>5. CASE op = "OP_INCR"
  BY <1>5 DEF Operate
<1>6. CASE op = "OP_RANGEINDEX"
  BY <1>6 DEF Operate
<1>7. CASE op = "OP_DEREF"
  BY <1>7 DEF Operate
<1>8. CASE op \in {"OP_ADD", "OP_SUB", "OP_MUL", "OP_FLDIV", "OP_MOD", "OP_LT", "OP_LE"}
  BY <1>8 DEF Operate
<1>9. CASE op \notin {"OP_EQ", "OP_NOT", "OP_AND", "OP_OR", "OP_INCR", "OP_RANGEINDEX", "OP_DEREF",
                      "OP_ADD", "OP_SUB", "OP_MUL", "OP_FLDIV", "OP_MOD", "OP_LT", "OP_LE"}
  BY <1>9
<1> QED
  BY <1>1, <1>2, <1>3, <1>4, <1>5, <1>6, <1>7, <1>8, <1>9

(* A value in place of the last n. *)
LEMMA ValueReplaced ==
  ASSUME NEW c, NEW m, NEW k, NEW i, NEW s, Fetched(c, m, k, i, s), NEW n \in Nat, Singles(s.items, n),
         NEW q, Memory(c, q), Alike(m, q), q.vstack = m.vstack, NEW v, Sound(c, q, v)
  PROVE  Outcome(c, Replace(q, n, v), k, i + 1, [s EXCEPT !.items = Then(Less(@, n), Some("value"))])
<1> DEFINE it == Some("value")
<1>1. it \in Item(c) /\ it.kind = "value"
  BY ItemsMade
<1>2. Fits(c, q, Fp(m).id, it, v)
  BY ValueFits
<1> HIDE DEF it
<1>3. Outcome(c, Replace(q, n, v), k, i + 1, [s EXCEPT !.items = Then(Less(@, n), it)])
  BY <1>1, <1>2, Replaced
<1> QED
  BY <1>3 DEF it

(* The number of the arguments that follow is one more than was counted. *)
LEMMA IncrementGroup ==
  ASSUME NEW c, NEW m, NEW k, NEW i, NEW s, Fetched(c, m, k, i, s),
         Topmost(s.items).kind = "group", Topmost(s.items).extra > 0
  PROVE  LET w == Peek(m, 0)
         IN  /\ w.type = "int"
             /\ Outcome(c, Replace(m, 1, Number(w.i + 1)), k, i + 1,
                        [s EXCEPT !.items = Then(Less(@, 1), Group(Topmost(@).extra - 1))])
<1> DEFINE its == s.items
           hi == Len(m.vstack)
           e == Topmost(its).extra
           L == Less(its, 1)
           w == Peek(m, 0)
           e1 == e - 1
           v1 == w.i + 1
<1>1. hi \in Nat /\ e \in Nat /\ L \in Seq(Item(c))
  BY FetchedIs, GroupOnTop
<1>2. PICK b \in 0 .. hi :
               /\ Fp(m).base <= b /\ Laid(c, m, Fp(m).id, Fp(m).base, b, L) /\ b < hi
               /\ m.vstack[hi] = Number(hi - b - 1 - e)
               /\ \A j \in b + 1 .. hi : Sound(c, m, m.vstack[j])
  BY GroupOnTop
<1>3. w = m.vstack[hi]
  <2>1. hi - 0 = hi
    BY <1>1
  <2> QED
    BY <2>1 DEF Peek
<1>4. w.type = "int" /\ w.i = hi - b - 1 - e
  BY <1>2, <1>3, NumberIs
<1>5. e1 \in Nat /\ 1 \in {1, 2} /\ b <= hi - 1 /\ v1 = hi - 1 - b - e1
  <2>1. hi \in Nat /\ e \in Nat /\ e > 0 /\ b \in Nat /\ b < hi /\ w.i = hi - b - 1 - e
    BY <1>1, <1>2, <1>4
  <2> HIDE DEF w, hi, e
  <2> QED
    BY <2>1
<1>6. \A j \in b + 1 .. hi - 1 : Sound(c, m, m.vstack[j])
  <2> TAKE j \in b + 1 .. hi - 1
  <2>1. j \in b + 1 .. hi
    BY <1>1, <1>2
  <2> QED
    BY <1>2, <2>1
<1> HIDE DEF L, e1, v1
<1>7. Outcome(c, Replace(m, 1, Number(v1)), k, i + 1, [s EXCEPT !.items = Then(L, Group(e1))])
  BY <1>1, <1>2, <1>5, <1>6, Recounted
<1> QED
  BY <1>4, <1>7 DEF L, e1, v1

(* The number of names is taken from that of the arguments. *)
LEMMA SubtractGroup ==
  ASSUME NEW c, NEW m, NEW k, NEW i, NEW s, Fetched(c, m, k, i, s),
         Len(s.items) > 1, Topmost(s.items).kind = "number", s.items[Len(s.items) - 1].kind = "group"
  PROVE  LET v == Peek(m, 1)
             w == Peek(m, 0)
         IN  /\ v.type = "int" /\ w.type = "int"
             /\ Outcome(c, Replace(m, 2, Number(v.i - w.i)), k, i + 1,
                        [s EXCEPT !.items = Then(Less(@, 2), Group(@[Len(@) - 1].extra + Topmost(@).n))])
<1> DEFINE its == s.items
           hi == Len(m.vstack)
           lo == Fp(m).base
           id == Fp(m).id
           v == Peek(m, 1)
           w == Peek(m, 0)
           M == Less(its, 1)
           under == its[Len(its) - 1]
           e == under.extra
           n == Topmost(its).n
           L == Less(M, 1)
           e1 == e + n
           v1 == v.i - w.i
<1>1. /\ IsSeq(m.vstack) /\ hi \in Nat /\ lo \in Nat /\ its \in Seq(Item(c)) /\ IsSeq(its) /\ Len(its) \in Nat
      /\ Laid(c, m, id, lo, hi, its)
  BY FetchedIs
<1>2. 1 \in Nat /\ 0 \in 0 .. 1 - 1 /\ 1 \in 0 .. Len(its) /\ its # <<>>
  BY <1>1, SeqDomain
<1>3. Topmost(its) = its[Len(its)] /\ Topmost(its) \in Item(c) /\ its[Len(its) - 0] = Topmost(its)
  BY <1>1, <1>2, TopItem
<1>4. Singles(its, 1)
  <2>1. \A j \in 0 .. 1 - 1 : its[Len(its) - j].kind = "number"
    <3> TAKE j \in 0 .. 1 - 1
    <3>1. j = 0
      OBVIOUS
    <3> QED
      BY <1>3, <3>1
  <2>2. 1 <= Len(its)
    BY <1>1
  <2> QED
    BY <2>1, <2>2 DEF Singles
<1>5. /\ hi - 1 >= lo /\ hi - 1 \in 0 .. hi /\ Laid(c, m, id, lo, hi - 1, M) /\ M \in Seq(Item(c))
      /\ Fits(c, m, id, its[Len(its) - 0], w)
  BY <1>2, <1>4, Operands
<1>6. w = Number(n) /\ n \in Nat
  BY <1>3, <1>5, KindsOf DEF Fits
<1>7. Topmost(M) = under
  BY <1>1, <1>2, LessIs
<1>8. /\ e \in Nat /\ \E b \in lo .. hi - 1 : /\ Laid(c, m, id, lo, b, L) /\ b < hi - 1
                              /\ m.vstack[hi - 1] = Number((hi - 1) - b - 1 - e)
                              /\ \A j \in b + 1 .. hi - 1 : Sound(c, m, m.vstack[j])
  <2>1. hi - 1 \in Nat /\ Topmost(M).kind = "group"
    BY <1>1, <1>5, <1>7
  <2> HIDE DEF lo, hi, id, M
  <2>2. /\ Topmost(M).extra \in Nat
        /\ \E b \in lo .. hi - 1 : /\ Laid(c, m, id, lo, b, L) /\ b < hi - 1
                              /\ m.vstack[hi - 1] = Number((hi - 1) - b - 1 - Topmost(M).extra)
                              /\ \A j \in b + 1 .. hi - 1 : Sound(c, m, m.vstack[j])
    BY <1>1, <1>5, <2>1, PopGroup
  <2> QED
    BY <1>7, <2>2
<1>9. PICK b \in lo .. hi - 1 : /\ Laid(c, m, id, lo, b, L) /\ b < hi - 1
                              /\ m.vstack[hi - 1] = Number((hi - 1) - b - 1 - e)
                              /\ \A j \in b + 1 .. hi - 1 : Sound(c, m, m.vstack[j])
  BY <1>8
<1>10. L \in Seq(Item(c)) /\ L = Less(its, 2)
  <2>1. 1 \in 0 .. Len(M)
    <3>1. Len(M) = Len(its) - 1
      BY <1>1, <1>2, LessIs
    <3>2. Len(its) \in Nat /\ Len(its) > 1
      BY <1>1
    <3> HIDE DEF M, its
    <3> QED
      BY <3>1, <3>2
  <2>2. L \in Seq(Item(c))
    BY <1>5, <2>1, LessItems
  <2>3. L = Less(its, 1 + 1)
    BY <1>1, <1>2, LessMore
  <2> QED
    BY <2>2, <2>3
<1>11. v = Number((hi - 1) - b - 1 - e)
  BY <1>9 DEF Peek
<1>12. v.type = "int" /\ v.i = (hi - 1) - b - 1 - e /\ w.type = "int" /\ w.i = n
  BY <1>6, <1>11, NumberIs
<1>13. /\ e1 \in Nat /\ 2 \in {1, 2} /\ b \in 0 .. hi /\ lo <= b /\ b <= hi - 2 /\ v1 = hi - 2 - b - e1
  <2> HIDE DEF v, w, n, e, hi, lo
  <2>1. b \in Nat /\ b < hi - 1 /\ lo <= b
    BY <1>1, <1>9
  <2> QED
    BY <1>1, <1>6, <1>8, <1>12, <2>1
<1>14. \A j \in b + 1 .. hi - 2 : Sound(c, m, m.vstack[j])
  <2> TAKE j \in b + 1 .. hi - 2
  <2>1. j \in b + 1 .. hi - 1
    BY <1>1, <1>13
  <2> QED
    BY <1>9, <2>1
<1>15. Outcome(c, Replace(m, 2, Number(v1)), k, i + 1, [s EXCEPT !.items = Then(L, Group(e1))])
  <2> HIDE DEF L, e1, v1
  <2> QED
    BY <1>9, <1>10, <1>13, <1>14, Recounted
<1> QED
  BY <1>10, <1>12, <1>15

(* A new list of such variables. *)
LEMMA ListMade ==
  ASSUME NEW c, NEW m, Memory(c, m), NEW vs, SoundVars(c, m, vs)
  PROVE  LET q == [m EXCEPT !.lists = Append(@, vs)]
         IN  /\ Memory(c, q) /\ Alike(m, q) /\ q.vstack = m.vstack
             /\ Sound(c, q, ListVal(Len(m.lists) + 1))
<1> DEFINE l == m.lists
           x == Append(l, vs)
           q == [m EXCEPT !.lists = x]
<1>1. IsSeq(l) /\ \A k \in DOMAIN l : SoundVars(c, m, l[k])
  BY DEF Memory
<1>2. Len(l) \in Nat /\ DOMAIN l = 1 .. Len(l)
  BY <1>1, SeqDomain
<1> HIDE DEF l
<1>3. IsSeq(x) /\ x[Len(l) + 1] = vs /\ DOMAIN x = 1 .. Len(l) + 1 /\ \A k \in 1 .. Len(l) : x[k] = l[k]
  BY <1>1, Longer
<1> HIDE DEF x
<1>4. \A k \in DOMAIN l : k \in DOMAIN x /\ DOMAIN x[k] = DOMAIN l[k]
  BY <1>2, <1>3
<1>5. \A k \in DOMAIN x : SoundVars(c, m, x[k])
  <2> TAKE k \in DOMAIN x
  <2>1. k \in DOMAIN l \/ k = Len(l) + 1
    BY <1>2, <1>3
  <2> QED
    BY <1>1, <1>2, <1>3, <2>1
<1>6. Memory(c, q) /\ Alike(m, q) /\ q.vstack = m.vstack /\ q.lists = x
  BY <1>3, <1>4, <1>5, ListsPut DEF l
<1> HIDE DEF q
<1>7. Sound(c, q, ListVal(Len(l) + 1))
  <2>1. Len(l) + 1 \in DOMAIN q.lists
    BY <1>2, <1>3, <1>6
  <2> QED
    BY <2>1, SimpleSound
<1> QED
  BY <1>6, <1>7 DEF q, x, l

(* The order in which two parts of the machine are changed is of no matter. *)
WithLists(m, x) == [m EXCEPT !.lists = x]
WithClosures(m, x) == [m EXCEPT !.closures = x]
WithPrinted(m, x) == [m EXCEPT !.printed = x]
LEMMA Either ==
  ASSUME NEW m, IsMachine(m), NEW s, NEW x
  PROVE  /\ WithLists(With(m, s), x) = With(WithLists(m, x), s)
         /\ WithClosures(With(m, s), x) = With(WithClosures(m, x), s)
         /\ WithPrinted(With(m, s), x) = With(WithPrinted(m, x), s)
         /\ With(With(m, s), x) = With(m, x)
BY DEF IsMachine, With, WithLists, WithClosures, WithPrinted

(* The part of a list from one place to another. *)
LEMMA PartSound ==
  ASSUME NEW c, NEW m, NEW vs, SoundVars(c, m, vs), NEW from \in Int, NEW to \in Int,
         from >= 0, to >= 0, from < to, from < Len(vs)
  PROVE  SoundVars(c, m, SubSeq(vs, from + 1, Min({to, Len(vs)})))
<1> DEFINE n == Min({to, Len(vs)})
           a == from + 1
           t == SubSeq(vs, a, n)
           S == {vs[i] : i \in DOMAIN vs}
<1>1. Len(vs) \in Nat /\ DOMAIN vs = 1 .. Len(vs)
  BY SeqDomain DEF SoundVars
<1>2. n \in Int /\ n <= Len(vs)
  <2> DEFINE P(x) == x \in {to, Len(vs)} /\ \A y \in {to, Len(vs)} : x <= y
  <2>1. \E x : P(x)
    <3>1. CASE to <= Len(vs)
      <4>1. P(to)
        BY <1>1, <3>1
      <4> QED
        BY <4>1
    <3>2. CASE Len(vs) <= to
      <4>1. P(Len(vs))
        BY <1>1, <3>2
      <4> QED
        BY <4>1
    <3> QED
      BY <1>1, <3>1, <3>2
  <2>2. n = CHOOSE x \in {to, Len(vs)} : \A y \in {to, Len(vs)} : x <= y
    BY DEF Min
  <2>3. n \in {to, Len(vs)} /\ \A y \in {to, Len(vs)} : n <= y
    BY <2>1, <2>2
  <2>4. Len(vs) \in Nat /\ to \in Int
    BY <1>1
  <2> DEFINE top == Len(vs)
  <2>5. n \in {to, top} /\ n <= top /\ top \in Nat
    BY <2>3, <2>4
  <2> HIDE DEF n, top
  <2>6. n \in Int /\ n <= top
    BY <2>4, <2>5
  <2> QED
    BY <2>6 DEF top
<1> HIDE DEF n
<1>3. a \in Int /\ a >= 1
  OBVIOUS
<1> HIDE DEF a
<1>4. \A i \in a .. n : vs[i] \in S
  <2> TAKE i \in a .. n
  <2>1. i \in DOMAIN vs
    BY <1>1, <1>2, <1>3
  <2> QED
    BY <2>1
<1> HIDE DEF S
<1>5. t \in Seq(S)
  BY <1>2, <1>3, <1>4, SubSeqProperties
<1> HIDE DEF t
<1>6. IsSeq(t) /\ \A i \in DOMAIN t : t[i] \in S
  BY <1>5, SeqIs
<1>7. \A v \in S : SoundVar(c, m, v)
  BY DEF S, SoundVars
<1> QED
  BY <1>6, <1>7 DEF SoundVars, t, a, n

LEMMA NoneSound == \A c, m : SoundVars(c, m, <<>>)
BY EmptyIs DEF SoundVars

(* The part of a list is a new list. *)
LEMMA PartStep ==
  ASSUME NEW c, NEW m, NEW k, NEW i, NEW s, Fetched(c, m, k, i, s), Singles(s.items, 3),
         Peek(m, 2).type = "list", Peek(m, 1).type = "int", Peek(m, 0).type = "int"
  PROVE  Outcome(c, sbV_rangeindex(m, Peek(m, 2), Peek(m, 1).i, Peek(m, 0).i), k, i + 1,
                 [s EXCEPT !.items = Then(Less(@, 3), Some("value"))])
<1> DEFINE of == Peek(m, 2)
           from == Peek(m, 1).i
           to == Peek(m, 0).i
           items == m.lists[of.list]
           upto  == Min({to, Len(items)})
           whole == from >= 0 /\ from < to /\ from < Len(items) /\ to >= 0
           piece == IF whole THEN SubSeq(items, from + 1, upto) ELSE <<>>
           q == [m EXCEPT !.lists = Append(@, piece)]
           v == ListVal(Len(m.lists) + 1)
           y == SubSeq(m.vstack, 1, Len(m.vstack) - 3)
<1>1. Memory(c, m) /\ IsMachine(m) /\ Alike(m, m)
  BY FetchedIs
<1>2. 3 \in Nat /\ 0 \in 0 .. 3 - 1 /\ 1 \in 0 .. 3 - 1 /\ 2 \in 0 .. 3 - 1
  OBVIOUS
<1>3. Sound(c, m, of) /\ Sound(c, m, Peek(m, 1)) /\ Sound(c, m, Peek(m, 0))
  BY <1>2, Operands
<1>4. from \in Int /\ to \in Int /\ of.list \in DOMAIN m.lists
  BY <1>3 DEF Sound
<1>5. SoundVars(c, m, items)
  BY <1>1, <1>4 DEF Memory
<1>6. SoundVars(c, m, piece)
  <2> HIDE DEF items, from, to
  <2>1. CASE whole
    BY <1>4, <1>5, <2>1, PartSound
  <2>2. CASE ~whole
    BY <2>2, NoneSound
  <2> QED
    BY <2>1, <2>2
<1> HIDE DEF piece
<1>7. Memory(c, q) /\ Alike(m, q) /\ q.vstack = m.vstack /\ Sound(c, q, v)
  BY <1>1, <1>6, ListMade
<1>8. sbV_rangeindex(m, of, from, to) = Replace(q, 3, v)
  <2>1. sbV_rangeindex(m, of, from, to) = Push([npop_stack(m, 3) EXCEPT !.lists = Append(@, piece)], v)
    BY DEF sbV_rangeindex, piece
  <2> DEFINE l == Append(m.lists, piece)
             r == [m EXCEPT !.lists = l]
  <2>2. npop_stack(m, 3) = With(m, y)
    <3>1. npop_stack(m, 3) = With(m, SubSeq(m.vstack, 1, Len(m.vstack) - 3))
      BY <1>1, StackOps
    <3> QED
      BY <3>1
  <2>3. With(m, y).lists = m.lists
    BY <1>1, StackSet
  <2>4. [npop_stack(m, 3) EXCEPT !.lists = Append(@, piece)] = [With(m, y) EXCEPT !.lists = l]
    BY <2>2, <2>3
  <2>5. IsMachine(r) /\ r.vstack = m.vstack
    BY <1>7 DEF Memory
  <2>6. [With(m, y) EXCEPT !.lists = l] = With(r, y)
    <3>1. WithLists(With(m, y), l) = With(WithLists(m, l), y)
      BY <1>1, Either
    <3> QED
      BY <3>1 DEF WithLists
  <2> HIDE DEF r
  <2>7. npop_stack(r, 3) = With(r, y)
    <3>1. npop_stack(r, 3) = With(r, SubSeq(r.vstack, 1, Len(r.vstack) - 3))
      BY <2>5, StackOps
    <3> QED
      BY <2>5, <3>1
  <2>8. sbV_rangeindex(m, of, from, to) = Push(npop_stack(r, 3), v)
    BY <2>1, <2>4, <2>6, <2>7
  <2> QED
    BY <2>8 DEF Replace, r, l
<1> HIDE DEF q, v
<1>9. Outcome(c, Replace(q, 3, v), k, i + 1, [s EXCEPT !.items = Then(Less(@, 3), Some("value"))])
  BY <1>2, <1>7, ValueReplaced
<1> QED
  BY <1>8, <1>9

LEMMA OperateStep ==
  ASSUME NEW c, NEW m, NEW k, NEW i, NEW s, Fetched(c, m, k, i, s), c[k][i].op \in Operations
  PROVE  Outcome(c, Operate(m, c[k][i].op), k, i + 1, Behind(c, k, i, s))
<1> DEFINE op  == c[k][i].op
           its == s.items
           v == Peek(m, 1)
           w == Peek(m, 0)
<1>1. /\ Memory(c, m) /\ Ready(c, k, i, s) /\ Alike(m, m) /\ Len(m.vstack) \in Nat
  BY FetchedIs
<1>2. Behind(c, k, i, s) = [s EXCEPT !.items = Operated(op, its)]
  BY BehindIs
<1>3. 1 \in Nat /\ 2 \in Nat /\ 0 \in 0 .. 1 - 1 /\ 0 \in 0 .. 2 - 1 /\ 1 \in 0 .. 2 - 1
  OBVIOUS
<1>4. Drops(op, its)
  BY <1>1, ReadyIs
<1>5. ASSUME NEW n \in Nat, Singles(its, n), NEW r, Sound(c, m, r), Operated(op, its) = Then(Less(its, n), Some("value"))
      PROVE  Outcome(c, Replace(m, n, r), k, i + 1, Behind(c, k, i, s))
  <2>1. Outcome(c, Replace(m, n, r), k, i + 1, [s EXCEPT !.items = Then(Less(its, n), Some("value"))])
    BY <1>1, <1>5, ValueReplaced
  <2> QED
    BY <1>2, <1>5, <2>1
<1>6. Outcome(c, Panicked(m), k, i + 1, Behind(c, k, i, s))
  BY PanicOutcome
<1>7. \A b \in BOOLEAN : Sound(c, m, Bool(b))
  BY SimpleSound
<1>8. CASE op \in {"OP_EQ", "OP_AND", "OP_OR"}
  <2>1. Singles(its, 2)
    BY <1>4, <1>8, DropsIs
  <2>2. Operated(op, its) = Then(Less(its, 2), Some("value"))
    BY <1>8, OperatedIs
  <2>3. \A b \in BOOLEAN : Outcome(c, Replace(m, 2, Bool(b)), k, i + 1, Behind(c, k, i, s))
    BY <1>3, <1>5, <1>7, <2>1, <2>2
  <2>4. sbV_c_eq(v, w) \in BOOLEAN
    BY DEF sbV_c_eq
  <2>5. (~(sbV_c_falsy(v) \/ sbV_c_falsy(w))) \in BOOLEAN /\ (~(sbV_c_falsy(v) /\ sbV_c_falsy(w))) \in BOOLEAN
    OBVIOUS
  <2>6. CASE op = "OP_EQ"
    <3>1. Operate(m, op) = Panicked(m) \/ Operate(m, op) = Replace(m, 2, Bool(sbV_c_eq(v, w)))
      BY <2>6, OperateIs
    <3> QED
      BY <1>6, <2>3, <2>4, <3>1
  <2>7. CASE op = "OP_AND"
    <3>1. Operate(m, op) = Replace(m, 2, Bool(~(sbV_c_falsy(v) \/ sbV_c_falsy(w))))
      BY <2>7, OperateIs
    <3> QED
      BY <2>3, <2>5, <3>1
  <2>8. CASE op = "OP_OR"
    <3>1. Operate(m, op) = Replace(m, 2, Bool(~(sbV_c_falsy(v) /\ sbV_c_falsy(w))))
      BY <2>8, OperateIs
    <3> QED
      BY <2>3, <2>5, <3>1
  <2> QED
    BY <1>8, <2>6, <2>7, <2>8
<1>9. CASE op = "OP_NOT"
  <2>1. Singles(its, 1)
    BY <1>4, <1>9, DropsIs
  <2>2. Operated(op, its) = Then(Less(its, 1), Some("value"))
    BY <1>9, OperatedIs
  <2>3. Operate(m, op) = Replace(m, 1, Bool(sbV_c_falsy(w)))
    BY <1>9, OperateIs
  <2>4. sbV_c_falsy(w) \in BOOLEAN
    BY DEF sbV_c_falsy
  <2> QED
    BY <1>3, <1>5, <1>7, <2>1, <2>2, <2>3, <2>4
<1>10. CASE op = "OP_INCR"
  <2>1. Operate(m, op) = IF w.type = "int" THEN Replace(m, 1, Number(w.i + 1)) ELSE Panicked(m)
    BY <1>10, OperateIs
  <2>2. CASE Topmost(its).kind = "group"
    <3>1. Topmost(its).extra > 0
      <4>1. ASSUME Singles(its, 1) PROVE FALSE
        <5>1. its \in Seq(Item(c)) /\ 1 <= Len(its)
          BY <4>1, FetchedIs DEF Singles
        <5>2. its # <<>>
          BY <5>1, SeqIs, SeqDomain
        <5>3. its[Len(its) - 0] = Topmost(its)
          BY <5>1, <5>2, TopItem
        <5>4. its[Len(its) - 0].kind \in {"value", "place", "number"}
          BY <1>3, <4>1 DEF Singles
        <5> QED
          BY <2>2, <5>3, <5>4
      <4> QED
        BY <1>4, <1>10, <4>1, DropsIs
    <3>2. /\ w.type = "int"
          /\ Outcome(c, Replace(m, 1, Number(w.i + 1)), k, i + 1,
                     [s EXCEPT !.items = Then(Less(its, 1), Group(Topmost(its).extra - 1))])
      BY <2>2, <3>1, IncrementGroup
    <3>3. Operated(op, its) = Then(Less(its, 1), Group(Topmost(its).extra - 1))
      BY <1>10, <2>2, OperatedIs
    <3> QED
      BY <1>2, <2>1, <3>2, <3>3
  <2>3. CASE Topmost(its).kind # "group"
    <3>1. Singles(its, 1)
      BY <1>4, <1>10, <2>3, DropsIs
    <3>2. Operated(op, its) = Then(Less(its, 1), Some("value"))
      BY <1>10, <2>3, OperatedIs
    <3>3. CASE w.type = "int"
      <4>1. Sound(c, m, w)
        BY <1>3, <3>1, Operands
      <4>2. w.i \in Int
        BY <3>3, <4>1 DEF Sound
      <4>3. w.i + 1 \in Int
        BY <4>2
      <4>4. Sound(c, m, Number(w.i + 1))
        BY <4>3, SimpleSound
      <4> QED
        BY <1>3, <1>5, <2>1, <3>1, <3>2, <3>3, <4>4
    <3> QED
      BY <1>6, <2>1, <3>3
  <2> QED
    BY <2>2, <2>3
<1>11. CASE op = "OP_RANGEINDEX"
  <2>1. Singles(its, 3)
    BY <1>4, <1>11, DropsIs
  <2>2. Operated(op, its) = Then(Less(its, 3), Some("value"))
    BY <1>11, OperatedIs
  <2>3. \/ Operate(m, op) = Panicked(m)
        \/ /\ Peek(m, 2).type = "list" /\ v.type = "int" /\ w.type = "int"
           /\ Operate(m, op) = sbV_rangeindex(m, Peek(m, 2), v.i, w.i)
    BY <1>11, OperateIs
  <2>4. CASE Operate(m, op) = Panicked(m)
    BY <1>6, <2>4
  <2>5. CASE /\ Peek(m, 2).type = "list" /\ v.type = "int" /\ w.type = "int"
             /\ Operate(m, op) = sbV_rangeindex(m, Peek(m, 2), v.i, w.i)
    <3>1. Outcome(c, sbV_rangeindex(m, Peek(m, 2), v.i, w.i), k, i + 1,
                 [s EXCEPT !.items = Then(Less(its, 3), Some("value"))])
      BY <2>1, <2>5, PartStep
    <3> QED
      BY <1>2, <2>2, <2>5, <3>1
  <2> QED
    BY <2>3, <2>4, <2>5
<1>12. CASE op = "OP_DEREF"
  <2>1. Singles(its, 1)
    BY <1>4, <1>12, DropsIs
  <2>2. Operated(op, its) = Then(Less(its, 1), Some("value"))
    BY <1>12, OperatedIs
  <2>3. Operate(m, op) = IF IsPlace(m, w) THEN Replace(m, 1, sbVar_get_value(m, w)) ELSE Panicked(m)
    BY <1>12, OperateIs
  <2>4. CASE IsPlace(m, w)
    <3>1. Sound(c, m, w)
      BY <1>3, <2>1, Operands
    <3>2. Alive(m, w)
      BY <2>4, <3>1, PlaceAlive
    <3>3. Sound(c, m, sbVar_get_value(m, w))
      BY <1>1, <3>2, ValueSound
    <3> QED
      BY <1>3, <1>5, <2>1, <2>2, <2>3, <2>4, <3>3
  <2> QED
    BY <1>6, <2>3, <2>4
<1>13. CASE op \in {"OP_ADD", "OP_SUB", "OP_MUL", "OP_FLDIV", "OP_MOD", "OP_LT", "OP_LE"}
  <2>1. Operate(m, op) = IF v.type = "int" /\ w.type = "int" /\ Divides(op, w.i)
                         THEN Replace(m, 2, Arithmetic(op, v.i, w.i)) ELSE Panicked(m)
    BY <1>13, OperateIs
  <2>2. CASE op = "OP_SUB" /\ ~Singles(its, 2)
    <3>1. Len(its) > 1 /\ Topmost(its).kind = "number" /\ its[Len(its) - 1].kind = "group"
      BY <1>4, <2>2, DropsIs
    <3>2. /\ v.type = "int" /\ w.type = "int"
          /\ Outcome(c, Replace(m, 2, Number(v.i - w.i)), k, i + 1,
                     [s EXCEPT !.items = Then(Less(its, 2), Group(its[Len(its) - 1].extra + Topmost(its).n))])
      BY <3>1, SubtractGroup
    <3>3. Operated(op, its) = Then(Less(its, 2), Group(its[Len(its) - 1].extra + Topmost(its).n))
      BY <2>2, <3>1, OperatedIs
    <3>4. Divides(op, w.i)
      BY <2>2 DEF Divides
    <3>5. Arithmetic(op, v.i, w.i) = Number(v.i - w.i)
      BY <2>2 DEF Arithmetic
    <3> QED
      BY <1>2, <2>1, <3>2, <3>3, <3>4, <3>5
  <2>3. CASE ~(op = "OP_SUB" /\ ~Singles(its, 2))
    <3>1. Singles(its, 2)
      BY <1>4, <1>13, <2>3, DropsIs
    <3>2. its[Len(its) - 1].kind # "group"
      BY <1>3, <3>1 DEF Singles
    <3>3. Operated(op, its) = Then(Less(its, 2), Some("value"))
      BY <1>13, <3>2, OperatedIs
    <3>4. CASE v.type = "int" /\ w.type = "int" /\ Divides(op, w.i)
      <4>1. Sound(c, m, v) /\ Sound(c, m, w)
        BY <1>3, <3>1, Operands
      <4>2. v.i \in Int /\ w.i \in Int
        BY <3>4, <4>1 DEF Sound
      <4>3. Sound(c, m, Arithmetic(op, v.i, w.i))
        BY <1>13, <3>4, <4>2, ArithmeticSound
      <4> QED
        BY <1>3, <1>5, <2>1, <3>1, <3>3, <3>4, <4>3
    <3> QED
      BY <1>6, <2>1, <3>4
  <2> QED
    BY <2>2, <2>3
<1> QED
  BY <1>8, <1>9, <1>10, <1>11, <1>12, <1>13 DEF Operations

(* An item that is there, and the variable that it is. *)
LEMMA ItemAlive ==
  ASSUME NEW c, NEW m, NEW l \in DOMAIN m.lists, NEW j \in DOMAIN m.lists[l]
  PROVE  LET r == RefVal("item", l, j) IN Alive(m, r) /\ Sound(c, m, r) /\ r.type = "ref" /\ r.kind = "item"
<1> DEFINE r == RefVal("item", l, j)
<1>1. r.type = "ref" /\ r.kind = "item" /\ r.owner = l /\ r.slot = j
  BY DEF RefVal
<1> HIDE DEF r
<1>2. RefThere(m, r)
  BY <1>1 DEF RefThere
<1>3. Alive(m, r)
  BY <1>1, <1>2 DEF Alive
<1>4. Sound(c, m, r)
  BY <1>1, <1>2 DEF Sound
<1> QED
  BY <1>1, <1>3, <1>4 DEF r

LEMMA IndexIs ==
  ASSUME NEW m, NEW op
  PROVE  \/ Index(m, op) = Panicked(m)
         \/ \E a :
              LET b    == Peek(m, 1)
                  item == RefVal("item", a.list, b.i + 1)
              IN  /\ a = Peek(m, 0) \/ (IsPlace(m, Peek(m, 0)) /\ a = sbVar_get_value(m, Peek(m, 0)))
                  /\ a.type = "list" /\ b.type = "int" /\ b.i + 1 \in DOMAIN m.lists[a.list]
                  /\ Index(m, op) = CASE op = "OP_INDEXVAL" -> Replace(m, 2, sbVar_get_value(m, item))
                                      [] op \in {"OP_INDEXLREF", "OP_INDEXLREF_IND"} -> Replace(m, 2, item)
                                      [] OTHER -> Replace(sbVar_move_to_heap(m, item), 2, item)
<1> DEFINE top  == Peek(m, 0)
           ind  == op \in {"OP_INDEXLREF_IND", "OP_INDEXRREF_IND"}
           a    == IF ind /\ IsPlace(m, top) THEN sbVar_get_value(m, top) ELSE top
           b    == Peek(m, 1)
           item == RefVal("item", a.list, b.i + 1)
           read == CASE op = "OP_INDEXVAL" -> Replace(m, 2, sbVar_get_value(m, item))
                     [] op \in {"OP_INDEXLREF", "OP_INDEXLREF_IND"} -> Replace(m, 2, item)
                     [] OTHER -> Replace(sbVar_move_to_heap(m, item), 2, item)
<1>1. a = top \/ (IsPlace(m, top) /\ a = sbVar_get_value(m, top))
  OBVIOUS
<1>2. Index(m, op) = CASE ~(a.type = "list" /\ b.type = "int") -> Panicked(m)
                       [] a.type = "list" /\ b.type = "int" ->
                            IF b.i + 1 \notin DOMAIN m.lists[a.list] THEN Panicked(m) ELSE read
  BY DEF Index
<1> HIDE DEF a, read
<1>3. CASE a.type = "list" /\ b.type = "int"
  <2>1. Index(m, op) = IF b.i + 1 \notin DOMAIN m.lists[a.list] THEN Panicked(m) ELSE read
    BY <1>2, <1>3
  <2>2. CASE b.i + 1 \notin DOMAIN m.lists[a.list]
    BY <2>1, <2>2
  <2>3. CASE b.i + 1 \in DOMAIN m.lists[a.list]
    <3>1. Index(m, op) = read
      BY <2>1, <2>3
    <3> QED
      BY <1>1, <1>3, <2>3, <3>1 DEF read
  <2> QED
    BY <2>2, <2>3
<1>4. CASE ~(a.type = "list" /\ b.type = "int")
  BY <1>2, <1>4
<1> QED
  BY <1>3, <1>4

LEMMA IndexStep ==
  ASSUME NEW c, NEW m, NEW k, NEW i, NEW s, Fetched(c, m, k, i, s), c[k][i].op \in Indexes
  PROVE  Outcome(c, Index(m, c[k][i].op), k, i + 1, Behind(c, k, i, s))
<1> DEFINE op  == c[k][i].op
           its == s.items
           b == Peek(m, 1)
<1>1. /\ Memory(c, m) /\ Ready(c, k, i, s) /\ Alike(m, m)
  BY FetchedIs
<1>2. Behind(c, k, i, s) = [s EXCEPT !.items = Then(Less(@, 2), Some("value"))]
  BY BehindIs
<1>3. 2 \in Nat /\ 0 \in 0 .. 2 - 1 /\ 1 \in 0 .. 2 - 1
  OBVIOUS
<1>4. Singles(its, 2)
  BY <1>1, ReadyIs
<1>5. CASE Index(m, op) = Panicked(m)
  BY <1>5, PanicOutcome
<1>6. ASSUME NEW a, a = Peek(m, 0) \/ (IsPlace(m, Peek(m, 0)) /\ a = sbVar_get_value(m, Peek(m, 0))),
             a.type = "list", b.i + 1 \in DOMAIN m.lists[a.list],
             Index(m, op) = CASE op = "OP_INDEXVAL" -> Replace(m, 2, sbVar_get_value(m, RefVal("item", a.list, b.i + 1)))
                              [] op \in {"OP_INDEXLREF", "OP_INDEXLREF_IND"} -> Replace(m, 2, RefVal("item", a.list, b.i + 1))
                              [] OTHER -> Replace(sbVar_move_to_heap(m, RefVal("item", a.list, b.i + 1)), 2,
                                                  RefVal("item", a.list, b.i + 1))
      PROVE  Outcome(c, Index(m, op), k, i + 1, Behind(c, k, i, s))
  <2> DEFINE item == RefVal("item", a.list, b.i + 1)
  <2>1. Sound(c, m, Peek(m, 0))
    BY <1>3, <1>4, Operands
  <2>2. Sound(c, m, a)
    <3>1. CASE a = Peek(m, 0)
      BY <2>1, <3>1
    <3>2. CASE IsPlace(m, Peek(m, 0)) /\ a = sbVar_get_value(m, Peek(m, 0))
      <4>1. Alive(m, Peek(m, 0))
        BY <2>1, <3>2, PlaceAlive
      <4> QED
        BY <1>1, <3>2, <4>1, ValueSound
    <3> QED
      BY <1>6, <3>1, <3>2
  <2>3. a.list \in DOMAIN m.lists
    BY <1>6, <2>2 DEF Sound
  <2>4. Alive(m, item) /\ Sound(c, m, item)
    BY <1>6, <2>3, ItemAlive
  <2>5. Index(m, op) = CASE op = "OP_INDEXVAL" -> Replace(m, 2, sbVar_get_value(m, item))
                         [] op \in {"OP_INDEXLREF", "OP_INDEXLREF_IND"} -> Replace(m, 2, item)
                         [] OTHER -> Replace(sbVar_move_to_heap(m, item), 2, item)
    BY <1>6
  <2> HIDE DEF item
  <2>6. CASE op = "OP_INDEXVAL"
    <3>1. Index(m, op) = Replace(m, 2, sbVar_get_value(m, item))
      BY <2>5, <2>6
    <3>2. Sound(c, m, sbVar_get_value(m, item))
      BY <1>1, <2>4, ValueSound
    <3>3. Outcome(c, Replace(m, 2, sbVar_get_value(m, item)), k, i + 1, [s EXCEPT !.items = Then(Less(@, 2), Some("value"))])
      BY <1>1, <1>3, <1>4, <3>2, ValueReplaced
    <3> QED
      BY <1>2, <3>1, <3>3
  <2>7. CASE op \in {"OP_INDEXLREF", "OP_INDEXLREF_IND"}
    <3>1. Index(m, op) = Replace(m, 2, item)
      BY <2>5, <2>7
    <3>2. Outcome(c, Replace(m, 2, item), k, i + 1, [s EXCEPT !.items = Then(Less(@, 2), Some("value"))])
      BY <1>1, <1>3, <1>4, <2>4, ValueReplaced
    <3> QED
      BY <1>2, <3>1, <3>2
  <2>8. CASE op \notin {"OP_INDEXVAL", "OP_INDEXLREF", "OP_INDEXLREF_IND"}
    <3> DEFINE q == sbVar_move_to_heap(m, item)
    <3>1. Index(m, op) = Replace(q, 2, item)
      BY <2>5, <2>8
    <3>2. Memory(c, q) /\ Alike(m, q) /\ q.vstack = m.vstack
      BY <1>1, <2>4, MoveKeeps
    <3> HIDE DEF q
    <3>3. Sound(c, q, item)
      BY <2>4, <3>2, SoundKept DEF Alike
    <3>4. Outcome(c, Replace(q, 2, item), k, i + 1, [s EXCEPT !.items = Then(Less(@, 2), Some("value"))])
      BY <1>3, <1>4, <3>2, <3>3, ValueReplaced
    <3> QED
      BY <1>2, <3>1, <3>4
  <2> QED
    BY <2>6, <2>7, <2>8
<1>7. \/ Index(m, op) = Panicked(m)
      \/ \E a :
              /\ a = Peek(m, 0) \/ (IsPlace(m, Peek(m, 0)) /\ a = sbVar_get_value(m, Peek(m, 0)))
              /\ a.type = "list" /\ b.i + 1 \in DOMAIN m.lists[a.list]
              /\ Index(m, op) = CASE op = "OP_INDEXVAL" -> Replace(m, 2, sbVar_get_value(m, RefVal("item", a.list, b.i + 1)))
                              [] op \in {"OP_INDEXLREF", "OP_INDEXLREF_IND"} -> Replace(m, 2, RefVal("item", a.list, b.i + 1))
                              [] OTHER -> Replace(sbVar_move_to_heap(m, RefVal("item", a.list, b.i + 1)), 2,
                                                  RefVal("item", a.list, b.i + 1))
  BY IndexIs
<1> QED
  BY <1>5, <1>6, <1>7

(* Values one after another, each an item of its own. *)
Row(n) == [j \in 1 .. n |-> Some("value")]
LEMMA LaidRow ==
  ASSUME NEW c, NEW m, NEW id, NEW lo \in Nat, NEW b \in Nat, NEW its, IsSeq(its), NEW n \in Nat,
         Laid(c, m, id, lo, b, its), \A j \in b + 1 .. b + n : Sound(c, m, m.vstack[j])
  PROVE  Laid(c, m, id, lo, b + n, its \o Row(n))
<1> DEFINE row == Row(n)
           new == its \o row
           l   == Len(its)
           hi  == b + n
           to(at) == [i \in 0 .. Len(new) |-> IF i <= l THEN at[i] ELSE b + (i - l)]
<1>1. PICK at \in [0 .. l -> lo .. b] :
         /\ at[0] = lo /\ at[l] = b
         /\ \A j \in 1 .. l : ItemAt(c, m, id, its[j], at[j - 1], at[j])
  BY DEF Laid
<1>2. IsSeq(row) /\ Len(row) = n /\ \A j \in 1 .. n : row[j] = Some("value")
  <2>1. DOMAIN row = 1 .. n /\ row = [j \in 1 .. n |-> row[j]] /\ \A j \in 1 .. n : row[j] = Some("value")
    BY DEF Row
  <2> HIDE DEF row
  <2> QED
    BY <2>1, Listed
<1> HIDE DEF row
<1>3. /\ l \in Nat /\ Len(new) = l + n /\ \A j \in 1 .. l : new[j] = its[j]
      /\ \A j \in 1 .. n : new[l + j] = Some("value")
  <2>1. /\ IsSeq(new) /\ Len(new) = Len(its) + Len(row) /\ DOMAIN new = 1 .. Len(its) + Len(row)
        /\ \A j \in 1 .. Len(its) : new[j] = its[j]
        /\ \A j \in 1 .. Len(row) : new[Len(its) + j] = row[j]
    <3>1. IsSeq(row) /\ IsSeq(its)
      BY <1>2
    <3> QED
      BY ONLY <3>1, Joined
  <2> HIDE DEF new
  <2> QED
    BY <1>2, <2>1, SeqDomain
<1> HIDE DEF new
<1>4. lo <= b /\ hi \in Nat /\ b <= hi
  BY <1>3, LaidBounds
<1>5. to(at) \in [0 .. Len(new) -> lo .. hi]
  <2>1. ASSUME NEW i \in 0 .. Len(new) PROVE to(at)[i] \in lo .. hi
    <3>1. CASE i <= l
      <4>1. i \in 0 .. l
        BY <1>3, <3>1
      <4>2. at[i] \in lo .. b
        BY <4>1
      <4> QED
        BY <1>4, <3>1, <4>2
    <3>2. CASE ~(i <= l)
      <4>1. b + (i - l) \in lo .. hi
        BY <1>3, <1>4, <3>2
      <4> QED
        BY <3>2, <4>1
    <3> QED
      BY <3>1, <3>2
  <2> QED
    BY <2>1
<1>6. /\ to(at)[Len(new)] = hi /\ to(at)[0] = lo /\ \A i \in 0 .. l : to(at)[i] = at[i]
      /\ \A i \in 0 .. n : to(at)[l + i] = b + i
  <2>1. \A i \in 0 .. l : to(at)[i] = at[i]
    BY <1>3
  <2>2. \A i \in 0 .. n : to(at)[l + i] = b + i
    <3> TAKE i \in 0 .. n
    <3>1. l + i \in 0 .. Len(new) /\ (l + i) - l = i
      BY <1>3
    <3>2. CASE i = 0
      BY <1>1, <1>3, <3>1, <3>2
    <3>3. CASE i # 0
      BY <1>3, <3>1, <3>3
    <3> QED
      BY <3>2, <3>3
  <2>3. n \in 0 .. n /\ 0 \in 0 .. l
    BY <1>3
  <2> QED
    BY <1>1, <1>3, <2>1, <2>2, <2>3
<1> DEFINE up == to(at)
<1> HIDE DEF to
<1>7. ASSUME NEW j \in 1 .. Len(new) PROVE ItemAt(c, m, id, new[j], up[j - 1], up[j])
  <2>1. CASE j <= l
    <3>1. j \in 1 .. l /\ j - 1 \in 0 .. l /\ j \in 0 .. l
      BY <1>3, <2>1
    <3>2. new[j] = its[j] /\ up[j - 1] = at[j - 1] /\ up[j] = at[j]
      BY <1>3, <1>6, <3>1
    <3> QED
      BY <1>1, <3>1, <3>2
  <2>2. CASE ~(j <= l)
    <3> DEFINE i == j - l
    <3>1. i \in 1 .. n /\ i \in 0 .. n /\ i - 1 \in 0 .. n /\ l + i = j /\ l + (i - 1) = j - 1 /\ b + i \in b + 1 .. b + n
      BY <1>3, <2>2
    <3> HIDE DEF i
    <3>2. new[j] = Some("value") /\ up[j] = b + i /\ up[j - 1] = b + (i - 1)
      BY <1>3, <1>6, <3>1
    <3>3. Sound(c, m, m.vstack[b + i])
      BY <3>1
    <3>4. Fits(c, m, id, Some("value"), m.vstack[b + i])
      BY <3>3, ValueFits
    <3>5. b + (i - 1) < b + i /\ b + i = (b + (i - 1)) + 1
      BY <3>1
    <3>6. Some("value").kind = "value"
      BY ItemsMade
    <3> QED
      BY <3>2, <3>4, <3>5, <3>6 DEF ItemAt
  <2> QED
    BY <2>1, <2>2
<1>8. up \in [0 .. Len(new) -> lo .. hi] /\ up[Len(new)] = hi /\ up[0] = lo
  BY <1>5, <1>6
<1> HIDE DEF up, hi
<1>9. Laid(c, m, id, lo, hi, new)
  BY <1>7, <1>8 DEF Laid
<1> QED
  BY <1>9 DEF new, row, hi

LEMMA GatheredIs ==
  ASSUME NEW op, NEW p, NEW its, op \in Gathers
  PROVE  LET top == Topmost(its)
         IN  /\ op = "CLOSURE" => Gathered(op, p, its) = Then(Less(its, p + 1), Some("value"))
             /\ op = "LIST_SPILL" => Gathered(op, p, its) = Then(BelowArguments(Less(its, 1)), Group(0))
             /\ op = "LIST_GATHER" /\ top.kind = "group" =>
                  Gathered(op, p, its) = Less(its, 1) \o Row(top.extra + 1)
             /\ op = "LIST_GATHER" /\ top.kind # "group" => Gathered(op, p, its) = Then(BelowArguments(its), Some("value"))
BY DEF Gathered, Row

(* The values that LIST_GATHER takes are fit for a list. *)
LEMMA ValuesTaken ==
  ASSUME NEW c, NEW m, NEW n \in Nat, \A k \in 1 .. n : Sound(c, m, Peek(m, k))
  PROVE  SoundVars(c, m, [k \in 1 .. n |-> Peek(m, k)])
<1> DEFINE t == [k \in 1 .. n |-> Peek(m, k)]
<1>1. DOMAIN t = 1 .. n /\ t = [j \in 1 .. n |-> t[j]] /\ \A j \in 1 .. n : t[j] = Peek(m, j)
  OBVIOUS
<1> HIDE DEF t
<1>2. IsSeq(t)
  BY <1>1, Listed
<1>3. \A j \in DOMAIN t : SoundVar(c, m, t[j])
  BY <1>1 DEF SoundVar, Sound
<1>4. SoundVars(c, m, t)
  BY <1>2, <1>3 DEF SoundVars
<1> QED
  BY <1>4 DEF t

LEMMA RowItems ==
  ASSUME NEW c, NEW its \in Seq(Item(c)), NEW n \in Nat
  PROVE  its \o Row(n) \in Seq(Item(c))
<1> DEFINE row == Row(n)
<1>1. Some("value") \in Item(c)
  BY ItemsMade
<1>2. row \in Seq(Item(c))
  BY <1>1 DEF Row
<1> HIDE DEF row
<1>3. its \o row \in Seq(Item(c))
  BY <1>2, ConcatProperties
<1> QED
  BY <1>3 DEF row

(* A list of values whose number the code tells. *)
LEMMA GatherNumbered ==
  ASSUME NEW c, NEW m, NEW k, NEW i, NEW s, Fetched(c, m, k, i, s), c[k][i].op = "LIST_GATHER", Numbered(s.items)
  PROVE  Outcome(c, Gather(m, c[k][i].op, c[k][i].arg), k, i + 1, Behind(c, k, i, s))
<1> DEFINE op  == c[k][i].op
           p   == c[k][i].arg
           its == s.items
           n   == Topmost(its).n
           n1  == n + 1
           vs  == [j \in 1 .. n |-> Peek(m, j)]
           q   == [m EXCEPT !.lists = Append(@, vs)]
           v   == ListVal(Len(m.lists) + 1)
<1>1. Memory(c, m)
  BY FetchedIs
<1>2. n \in Nat /\ Peek(m, 0) = Number(n) /\ Singles(its, n1)
  BY NumberOnTop
<1>3. n1 \in Nat /\ \A j \in 1 .. n : j \in 0 .. n1 - 1
  BY <1>2
<1> HIDE DEF n1
<1>4. \A j \in 0 .. n1 - 1 : Sound(c, m, Peek(m, j))
  BY <1>2, <1>3, Operands
<1>5. SoundVars(c, m, vs)
  BY <1>2, <1>3, <1>4, ValuesTaken
<1>6. Gather(m, op, p) = Replace(q, n1, v)
  <2>1. Peek(m, 0).i = n
    BY <1>2, NumberIs
  <2> QED
    BY <2>1 DEF Gather, n1
<1> HIDE DEF vs
<1>7. Memory(c, q) /\ Alike(m, q) /\ q.vstack = m.vstack /\ Sound(c, q, v)
  BY <1>1, <1>5, ListMade
<1> HIDE DEF q, v
<1>8. Outcome(c, Replace(q, n1, v), k, i + 1, [s EXCEPT !.items = Then(Less(its, n1), Some("value"))])
  BY <1>2, <1>3, <1>7, ValueReplaced
<1>9. Gathered(op, p, its) = Then(Less(its, n1), Some("value"))
  <2>1. Topmost(its).kind # "group" /\ BelowArguments(its) = Less(its, n1)
    BY DEF Numbered, BelowArguments, n1
  <2>2. op \in Gathers /\ op = "LIST_GATHER"
    BY DEF Gathers
  <2> QED
    BY <2>1, <2>2, GatheredIs
<1>10. Behind(c, k, i, s) = [s EXCEPT !.items = Gathered(op, p, its)]
  BY BehindIs DEF Gathers
<1> QED
  BY <1>6, <1>8, <1>9, <1>10

(* A list of the values that are left of the arguments. *)
LEMMA GatherGroup ==
  ASSUME NEW c, NEW m, NEW k, NEW i, NEW s, Fetched(c, m, k, i, s), c[k][i].op = "LIST_GATHER", Matched(c, m, k, i),
         Topmost(s.items).kind = "group"
  PROVE  Outcome(c, Gather(m, c[k][i].op, c[k][i].arg), k, i + 1, Behind(c, k, i, s))
<1> DEFINE op  == c[k][i].op
           p   == c[k][i].arg
           its == s.items
           L   == Less(its, 1)
           e   == Topmost(its).extra
           e1  == e + 1
           hi  == Len(m.vstack)
           lo  == Fp(m).base
           id  == Fp(m).id
           n   == Peek(m, 0).i
           vs  == [j \in 1 .. n |-> Peek(m, j)]
           q   == [m EXCEPT !.lists = Append(@, vs)]
           v   == ListVal(Len(m.lists) + 1)
<1>1. Memory(c, m) /\ IsSeq(m.vstack) /\ hi \in Nat /\ lo \in Nat
  BY FetchedIs
<1>2. e \in Nat /\ L \in Seq(Item(c))
  BY GroupOnTop
<1>3. PICK b \in 0 .. hi :
               /\ lo <= b /\ Laid(c, m, id, lo, b, L) /\ b < hi
               /\ m.vstack[hi] = Number(hi - b - 1 - e)
               /\ \A j \in b + 1 .. hi : Sound(c, m, m.vstack[j])
  BY GroupOnTop
<1>4. n = hi - b - 1 - e /\ n >= 0
  <2>1. hi - 0 = hi
    BY <1>1
  <2>2. Peek(m, 0) = m.vstack[hi]
    BY <2>1 DEF Peek
  <2>3. n = hi - b - 1 - e
    BY <1>3, <2>2, NumberIs
  <2>4. n >= 0
    BY DEF Matched
  <2> QED
    BY <2>3, <2>4
<1> DEFINE h == b + e
           y == SubSeq(m.vstack, 1, h)
           x == Append(y, v)
<1>5. n \in Nat /\ h \in Nat /\ h \in 0 .. hi /\ h = hi - (n + 1) /\ b \in Nat /\ b <= h /\ h + 1 = b + e1 /\ e1 \in Nat
  <2>1. hi \in Nat /\ b \in Nat /\ b < hi /\ e \in Nat /\ n = hi - b - 1 - e /\ n >= 0
    BY <1>1, <1>2, <1>3, <1>4
  <2> HIDE DEF hi, e, n
  <2> QED
    BY <2>1
<1>6. SoundVars(c, m, vs)
  <2>1. \A j \in 1 .. n : Sound(c, m, Peek(m, j))
    <3> TAKE j \in 1 .. n
    <3>1. hi - j \in b + 1 .. hi
      <4>1. hi \in Nat /\ b \in Nat /\ e \in Nat /\ n = hi - b - 1 - e /\ n \in Nat
        BY <1>1, <1>2, <1>4, <1>5
      <4> HIDE DEF hi, e, n
      <4> QED
        BY <4>1
    <3> QED
      BY <1>3, <3>1 DEF Peek
  <2> HIDE DEF n
  <2> QED
    BY <1>5, <2>1, ValuesTaken
<1>7. Gather(m, op, p) = Replace(q, n + 1, v)
  BY DEF Gather
<1> HIDE DEF vs
<1>8. Memory(c, q) /\ Alike(m, q) /\ q.vstack = m.vstack /\ Sound(c, q, v)
  BY <1>1, <1>6, ListMade
<1> HIDE DEF q, v
<1>9. Replace(q, n + 1, v) = With(q, x)
  <2>1. IsMachine(q)
    BY <1>8 DEF Memory
  <2>2. Replace(q, n + 1, v) = With(q, Append(SubSeq(q.vstack, 1, Len(q.vstack) - (n + 1)), v))
    BY <2>1, StackOps
  <2>3. Len(q.vstack) - (n + 1) = h
    BY <1>5, <1>8
  <2> QED
    BY <1>8, <2>2, <2>3
<1> HIDE DEF h
<1>10. IsSeq(y) /\ Len(y) = h /\ \A j \in 1 .. h : y[j] = m.vstack[j]
  BY <1>1, <1>5, Cut
<1> HIDE DEF y
<1>11. IsSeq(x) /\ Len(x) = h + 1 /\ x[h + 1] = v /\ \A j \in 1 .. h : x[j] = m.vstack[j]
  <2>1. IsSeq(x) /\ Len(x) = Len(y) + 1 /\ x[Len(y) + 1] = v /\ \A j \in 1 .. Len(y) : x[j] = y[j]
    BY <1>10, Longer
  <2> HIDE DEF x
  <2> QED
    BY <1>10, <2>1
<1> HIDE DEF x
<1> DEFINE w == With(q, x)
<1>12. Memory(c, w) /\ Alike(q, w) /\ w.vstack = x
  <2>1. Alike(q, q)
    BY <1>8, AlikeItself
  <2> QED
    BY <1>8, <1>11, <2>1, StackOnly
<1>13. Alike(m, w)
  <2>1. Alike(m, q) /\ Alike(q, w)
    BY <1>8, <1>12
  <2> QED
    BY ONLY <2>1, AlikeTwice
<1> HIDE DEF w
<1>14. Laid(c, w, id, lo, b, L)
  <2>1. \A j \in lo + 1 .. b : w.vstack[j] = m.vstack[j]
    BY <1>1, <1>5, <1>11, <1>12
  <2>2. Len(L) \in Nat
    BY <1>2, SeqIs
  <2>3. Extends(m, w)
    BY <1>13 DEF Alike
  <2> HIDE DEF L
  <2> QED
    BY <1>1, <1>3, <1>5, <2>1, <2>2, <2>3, LaidKept
<1>15. \A j \in b + 1 .. b + e1 : Sound(c, w, w.vstack[j])
  <2> TAKE j \in b + 1 .. b + e1
  <2>1. CASE j = h + 1
    <3>1. w.vstack[j] = v
      BY <1>11, <1>12, <2>1
    <3> QED
      BY <1>8, <1>12, <3>1, SoundKept DEF Alike
  <2>2. CASE j # h + 1
    <3>1. j \in 1 .. h /\ j \in b + 1 .. hi
      <4>1. j <= h
        BY <1>5, <2>2
      <4> QED
        BY <1>1, <1>5, <4>1
    <3>2. w.vstack[j] = m.vstack[j]
      BY <1>11, <1>12, <3>1
    <3>3. Sound(c, m, m.vstack[j])
      BY <1>3, <3>1
    <3> QED
      BY <1>13, <3>2, <3>3, SoundKept DEF Alike
  <2> QED
    BY <2>1, <2>2
<1> DEFINE new == L \o Row(e1)
<1>16. Laid(c, w, id, lo, Len(x), new)
  <2>1. IsSeq(L)
    BY <1>2, SeqIs
  <2> HIDE DEF e1, L
  <2>2. Laid(c, w, id, lo, b + e1, new)
    BY <1>1, <1>5, <1>14, <1>15, <2>1, LaidRow
  <2> QED
    BY <1>5, <1>11, <2>2
<1>17. new \in Seq(Item(c))
  BY <1>2, <1>5, RowItems
<1>18. Gathered(op, p, its) = new
  <2>1. op \in Gathers /\ op = "LIST_GATHER" /\ Topmost(its).kind = "group"
    BY DEF Gathers
  <2> QED
    BY <2>1, GatheredIs
<1> HIDE DEF new
<1>19. \A j \in 1 .. Fp(m).base : x[j] = m.vstack[j]
  <2>1. lo \in Nat /\ h \in Nat /\ b \in Nat /\ lo <= b /\ b <= h
    BY <1>1, <1>3, <1>5
  <2> HIDE DEF lo
  <2>2. \A j \in 1 .. lo : j \in 1 .. h
    BY <2>1
  <2> QED
    BY <1>11, <2>2 DEF lo
<1>20. Outcome(c, With(q, x), k, i + 1, [s EXCEPT !.items = new])
  <2>1. Laid(c, With(q, x), Fp(m).id, Fp(m).base, Len(x), new)
    BY <1>16 DEF w
  <2>2. Memory(c, q) /\ Alike(m, q) /\ IsSeq(x) /\ new \in Seq(Item(c))
    BY <1>8, <1>11, <1>17
  <2> QED
    BY ONLY Fetched(c, m, k, i, s), <1>19, <2>1, <2>2, Relaid
<1>21. Behind(c, k, i, s) = [s EXCEPT !.items = Gathered(op, p, its)]
  BY BehindIs DEF Gathers
<1> QED
  BY <1>7, <1>9, <1>18, <1>20, <1>21

(* The items of a list, from the last on, with their number and that of the   *)
(* arguments below them.                                                     *)
LEMMA SpillStep ==
  ASSUME NEW c, NEW m, NEW k, NEW i, NEW s, Fetched(c, m, k, i, s), c[k][i].op = "LIST_SPILL"
  PROVE  Outcome(c, Gather(m, c[k][i].op, c[k][i].arg), k, i + 1, Behind(c, k, i, s))
<1> DEFINE op  == c[k][i].op
           p   == c[k][i].arg
           its == s.items
           M   == Less(its, 1)
           L   == BelowArguments(M)
           hi  == Len(m.vstack)
           lo  == Fp(m).base
           id  == Fp(m).id
           v   == Peek(m, 0)
           w   == Peek(m, 1)
           items == m.lists[v.list]
           l   == Len(items)
           row == [j \in 1 .. l |-> sbVar_get_value(m, RefVal("item", v.list, l + 1 - j))]
           y   == SubSeq(m.vstack, 1, hi - 2)
           z   == y \o row
           x   == Append(z, Number(w.i + l))
<1>1. /\ Memory(c, m) /\ IsSeq(m.vstack) /\ hi \in Nat /\ lo \in Nat /\ IsMachine(m) /\ Alike(m, m)
      /\ Ready(c, k, i, s)
  BY FetchedIs
<1>2. 1 \in Nat /\ 0 \in 0 .. 1 - 1
  OBVIOUS
<1>3. Singles(its, 1) /\ Arguments(M)
  BY <1>1, ReadyIs
<1>4. hi - 1 >= lo /\ hi - 1 \in 0 .. hi /\ Laid(c, m, id, lo, hi - 1, M) /\ M \in Seq(Item(c)) /\ Sound(c, m, v)
  BY <1>2, <1>3, Operands
<1>5. /\ L \in Seq(Item(c))
      /\ \E n \in Nat : /\ m.vstack[hi - 1] = Number(n) /\ n + 1 <= (hi - 1) - lo
                        /\ Laid(c, m, id, lo, (hi - 1) - 1 - n, L)
                        /\ \A j \in (hi - 1) - n .. hi - 1 : Sound(c, m, m.vstack[j])
  <2>1. hi - 1 \in Nat
    BY <1>1, <1>4
  <2> HIDE DEF hi, lo, id, M
  <2> QED
    BY <1>1, <1>3, <1>4, <2>1, PopArguments
<1>6. PICK n \in Nat : /\ m.vstack[hi - 1] = Number(n) /\ n + 1 <= (hi - 1) - lo
                       /\ Laid(c, m, id, lo, (hi - 1) - 1 - n, L)
                       /\ \A j \in (hi - 1) - n .. hi - 1 : Sound(c, m, m.vstack[j])
  BY <1>5
<1>7. Gathered(op, p, its) = Then(L, Group(0))
  <2>1. op \in Gathers /\ op = "LIST_SPILL"
    BY DEF Gathers
  <2> QED
    BY <2>1, GatheredIs
<1>8. Behind(c, k, i, s) = [s EXCEPT !.items = Gathered(op, p, its)]
  BY BehindIs DEF Gathers
<1>9. CASE v.type # "list" \/ items = <<>>
  <2>1. Gather(m, op, p) = Panicked(m)
    BY <1>9 DEF Gather
  <2> QED
    BY <2>1, PanicOutcome
<1>10. CASE v.type = "list" /\ items # <<>>
  <2>1. v.list \in DOMAIN m.lists
    BY <1>4, <1>10 DEF Sound
  <2>2. SoundVars(c, m, items)
    BY <1>1, <2>1 DEF Memory
  <2>3. l \in Nat /\ DOMAIN items = 1 .. l
    BY <2>2, SeqDomain DEF SoundVars
  <2>4. \A j \in 1 .. l : Sound(c, m, sbVar_get_value(m, RefVal("item", v.list, l + 1 - j)))
    <3> TAKE j \in 1 .. l
    <3>1. l + 1 - j \in DOMAIN items
      BY <2>3
    <3>2. Alive(m, RefVal("item", v.list, l + 1 - j))
      BY <2>1, <3>1, ItemAlive
    <3> QED
      BY <1>1, <3>2, ValueSound
  <2>5. IsSeq(row) /\ Len(row) = l /\ \A j \in 1 .. l : Sound(c, m, row[j])
    <3>1. /\ DOMAIN row = 1 .. l /\ row = [j \in 1 .. l |-> row[j]]
          /\ \A j \in 1 .. l : row[j] = sbVar_get_value(m, RefVal("item", v.list, l + 1 - j))
      OBVIOUS
    <3> HIDE DEF row, l
    <3>2. IsSeq(row) /\ Len(row) = l
      BY <2>3, <3>1, Listed
    <3> QED
      BY <2>4, <3>1, <3>2
  <2>6. Gather(m, op, p) = With(m, x)
    <3>1. Gather(m, op, p) = Push([npop_stack(m, 2) EXCEPT !.vstack = @ \o row], Number(w.i + l))
      BY <1>10 DEF Gather
    <3>2. npop_stack(m, 2) = With(m, y)
      BY <1>1, StackOps
    <3> DEFINE b0 == With(m, y)
    <3> HIDE DEF row, y
    <3>3. With(m, y).vstack = y
      BY <1>1, StackSet
    <3>4. [npop_stack(m, 2) EXCEPT !.vstack = @ \o row] = With(With(m, y), z)
      <4>1. npop_stack(m, 2) = b0 /\ b0.vstack = y
        BY <3>2, <3>3
      <4> HIDE DEF b0
      <4>2. [npop_stack(m, 2) EXCEPT !.vstack = @ \o row] = [b0 EXCEPT !.vstack = z]
        BY <4>1
      <4> QED
        BY <4>2 DEF b0, With
    <3> HIDE DEF z
    <3>5. With(With(m, y), z) = With(m, z)
      <4>1. IsMachine(m)
        BY <1>1
      <4> QED
        BY ONLY <4>1, Either
    <3>6. Push(With(m, z), Number(w.i + l)) = With(m, x)
      BY <1>1, StackOps
    <3> QED
      BY <3>1, <3>4, <3>5, <3>6
  <2> HIDE DEF row, l
  <2> DEFINE b == hi - 2 - n
  <2>7. /\ hi - 2 \in 0 .. hi /\ hi - 2 \in Nat /\ b \in 0 .. hi /\ b \in Nat /\ lo <= b /\ b <= hi - 2
        /\ b = (hi - 1) - 1 - n /\ w = Number(n)
    <3>1. hi \in Nat /\ lo \in Nat /\ n \in Nat /\ n + 1 <= (hi - 1) - lo
      BY <1>1, <1>6
    <3>2. w = Number(n)
      BY <1>6 DEF Peek
    <3> HIDE DEF hi, lo, w
    <3> QED
      BY <3>1, <3>2
  <2>8. IsSeq(y) /\ Len(y) = hi - 2 /\ \A j \in 1 .. hi - 2 : y[j] = m.vstack[j]
    BY <1>1, <2>7, Cut
  <2> HIDE DEF y
  <2>9. /\ IsSeq(z) /\ Len(z) = (hi - 2) + l /\ \A j \in 1 .. hi - 2 : z[j] = m.vstack[j]
        /\ \A j \in 1 .. l : z[(hi - 2) + j] = row[j]
    <3>1. /\ IsSeq(z) /\ Len(z) = Len(y) + Len(row) /\ DOMAIN z = 1 .. Len(y) + Len(row)
          /\ \A j \in 1 .. Len(y) : z[j] = y[j]
          /\ \A j \in 1 .. Len(row) : z[Len(y) + j] = row[j]
      <4>1. IsSeq(y) /\ IsSeq(row)
        BY <2>5, <2>8
      <4> QED
        BY ONLY <4>1, Joined
    <3> HIDE DEF z
    <3> QED
      BY <2>5, <2>8, <3>1
  <2> HIDE DEF z
  <2> DEFINE u == w.i + l
             nu == Number(u)
  <2>10. IsSeq(x) /\ Len(x) = Len(z) + 1 /\ x[Len(z) + 1] = nu /\ \A j \in 1 .. Len(z) : x[j] = z[j]
    <3> DEFINE x2 == Append(z, nu)
    <3> HIDE DEF nu
    <3>1. IsSeq(x2) /\ Len(x2) = Len(z) + 1 /\ x2[Len(z) + 1] = nu /\ \A j \in 1 .. Len(z) : x2[j] = z[j]
      BY <2>9, Longer
    <3> QED
      BY <3>1 DEF nu
  <2> HIDE DEF x
  <2>11. /\ u = Len(x) - b - 1 - 0 /\ Len(x) = (hi - 2) + l + 1 /\ b < Len(x) /\ x[Len(x)] = nu
         /\ \A j \in 1 .. hi - 2 : x[j] = m.vstack[j]
         /\ \A j \in 1 .. l : x[(hi - 2) + j] = row[j]
    <3>1. w.i = n
      BY <2>7, NumberIs
    <3>2. hi - 2 \in Nat /\ l \in Nat /\ n \in Nat /\ hi \in Nat
      BY <1>1, <2>3, <2>7
    <3> HIDE DEF nu, w, hi
    <3>3. Len(x) = (hi - 2) + l + 1
      BY <2>9, <2>10, <3>2
    <3>4. x[Len(x)] = nu
      BY <2>10
    <3>5. \A j \in 1 .. hi - 2 : x[j] = m.vstack[j]
      BY <2>9, <2>10, <3>2
    <3>6. \A j \in 1 .. l : x[(hi - 2) + j] = row[j]
      BY <2>9, <2>10, <3>2
    <3>7. u = Len(x) - b - 1 - 0 /\ b < Len(x)
      BY <3>1, <3>2, <3>3
    <3> QED
      BY <3>3, <3>4, <3>5, <3>6, <3>7
  <2>12. \A j \in b + 1 .. Len(x) : Sound(c, m, x[j])
    <3>0. hi - 2 \in Nat /\ l \in Nat /\ b \in Nat /\ Len(x) = (hi - 2) + l + 1 /\ Len(x) \in Nat
      BY <2>3, <2>7, <2>11
    <3>1. Sound(c, m, nu)
      <4>1. w.i = n
        BY <2>7, NumberIs
      <4>2. u \in Int
        BY <3>0, <4>1
      <4> HIDE DEF u
      <4> QED
        BY <4>2, SimpleSound
    <3>2. ASSUME NEW j \in b + 1 .. hi - 2 PROVE Sound(c, m, x[j])
      <4>1. j \in 1 .. hi - 2 /\ j \in (hi - 1) - n .. hi - 1
        <5>1. hi \in Nat /\ n \in Nat /\ b = hi - 2 - n /\ b \in Nat /\ j \in b + 1 .. hi - 2
          BY <1>1, <3>0, <3>2
        <5> HIDE DEF hi, b
        <5> QED
          BY ONLY <5>1
      <4> QED
        BY <1>6, <2>11, <4>1
    <3>3. ASSUME NEW j \in 1 .. l PROVE Sound(c, m, x[(hi - 2) + j])
      BY <2>5, <2>11, <3>3
    <3> TAKE j \in b + 1 .. Len(x)
    <3>4. CASE j <= hi - 2
      <4>1. j \in b + 1 .. hi - 2
        BY <3>0, <3>4
      <4> QED
        BY <3>2, <4>1
    <3>5. CASE j = Len(x)
      BY <2>11, <3>1, <3>5
    <3>6. CASE ~(j <= hi - 2) /\ j # Len(x)
      <4> DEFINE t == j - (hi - 2)
      <4>1. t \in 1 .. l /\ (hi - 2) + t = j
        <5> DEFINE g == hi - 2
        <5>1. g \in Nat /\ l \in Nat /\ b \in Nat /\ Len(x) = g + l + 1 /\ j \in b + 1 .. Len(x) /\ ~(j <= g) /\ j # Len(x)
          BY <3>0, <3>6
        <5> HIDE DEF g, b
        <5>2. j - g \in 1 .. l /\ g + (j - g) = j
          BY <5>1
        <5> QED
          BY <5>2 DEF g
      <4> HIDE DEF t
      <4>2. Sound(c, m, x[(hi - 2) + t])
        BY <3>3, <4>1
      <4> QED
        BY <4>1, <4>2
    <3> QED
      BY <3>4, <3>5, <3>6
  <2>13. \A j \in 1 .. b : x[j] = m.vstack[j]
    BY <2>7, <2>11
  <2>14. Outcome(c, With(m, x), k, i + 1, [s EXCEPT !.items = Then(L, Group(0))])
    <3>1. /\ L \in Seq(Item(c)) /\ b \in 0 .. Len(m.vstack) /\ Fp(m).base <= b /\ Laid(c, m, Fp(m).id, Fp(m).base, b, L)
          /\ IsSeq(x) /\ b < Len(x) /\ 0 \in Nat /\ u = Len(x) - b - 1 - 0 /\ x[Len(x)] = Number(u)
      BY <1>5, <1>6, <2>7, <2>10, <2>11
    <3> HIDE DEF b, u, L
    <3> QED
      BY <2>12, <2>13, <3>1, LeavesGroup
  <2> QED
    BY <1>7, <1>8, <2>6, <2>14
<1> QED
  BY <1>9, <1>10

(* A new closure of such variables. *)
LEMMA ClosureMade ==
  ASSUME NEW c, NEW m, Memory(c, m), NEW vs, SoundVars(c, m, vs)
  PROVE  LET q == WithClosures(m, Append(m.closures, vs))
         IN  /\ Memory(c, q) /\ Alike(m, q) /\ q.vstack = m.vstack
             /\ Len(m.closures) + 1 \in DOMAIN q.closures /\ q.closures[Len(m.closures) + 1] = vs
<1> DEFINE l == m.closures
           x == Append(l, vs)
           q == WithClosures(m, x)
<1>1. IsSeq(l) /\ \A k \in DOMAIN l : SoundVars(c, m, l[k])
  BY DEF Memory
<1>2. Len(l) \in Nat /\ DOMAIN l = 1 .. Len(l)
  BY <1>1, SeqDomain
<1> HIDE DEF l
<1>3. IsSeq(x) /\ x[Len(l) + 1] = vs /\ DOMAIN x = 1 .. Len(l) + 1 /\ \A k \in 1 .. Len(l) : x[k] = l[k]
  BY <1>1, Longer
<1> HIDE DEF x
<1>4. \A k \in DOMAIN l : k \in DOMAIN x /\ Len(x[k]) = Len(l[k]) /\ DOMAIN x[k] = DOMAIN l[k]
  BY <1>2, <1>3
<1>5. \A k \in DOMAIN x : SoundVars(c, m, x[k])
  <2> TAKE k \in DOMAIN x
  <2>1. k \in DOMAIN l \/ k = Len(l) + 1
    BY <1>2, <1>3
  <2> QED
    BY <1>1, <1>2, <1>3, <2>1
<1>6. Memory(c, q) /\ Alike(m, q) /\ q.vstack = m.vstack /\ q.closures = x
  BY <1>3, <1>4, <1>5, ClosuresPut DEF l, WithClosures
<1> HIDE DEF q
<1>7. Len(l) + 1 \in DOMAIN q.closures /\ q.closures[Len(l) + 1] = vs
  BY <1>2, <1>3, <1>6
<1> QED
  BY <1>6, <1>7 DEF q, x, l

(* A place on the operand stack of the running block can be read. *)
LEMMA PlaceThere ==
  ASSUME NEW c, NEW m, Below(c, m), NEW it, it.kind = "place", NEW v, Fits(c, m, Fp(m).id, it, v)
  PROVE  Alive(m, v)
<1>1. Sound(c, m, v) /\ v.type = "ref" /\ (v.kind = "local" => v.owner = Fp(m).id)
  BY DEF Fits
<1>2. RefThere(m, v)
  BY <1>1 DEF Sound
<1>3. Len(m.frames) \in DOMAIN m.frames /\ Fp(m) = m.frames[Len(m.frames)]
  BY TopFrame
<1>4. v.kind = "local" => m.frames[Len(m.frames)].id = v.owner
  BY <1>1, <1>3
<1> QED
  BY <1>2, <1>3, <1>4 DEF Alive

LEMMA ClosureStep ==
  ASSUME NEW c, NEW m, NEW k, NEW i, NEW s, Fetched(c, m, k, i, s), c[k][i].op = "CLOSURE"
  PROVE  Outcome(c, Gather(m, c[k][i].op, c[k][i].arg), k, i + 1, Behind(c, k, i, s))
<1> DEFINE op  == c[k][i].op
           p   == c[k][i].arg
           p1  == p + 1
           its == s.items
           block == Topmost(its).block
           hi  == Len(m.vstack)
           lo  == Fp(m).base
           id  == Fp(m).id
           v   == Peek(m, 0)
           vs == [j \in 1 .. p |-> Held(m, Peek(m, p + 1 - j))]
           new == Len(m.closures) + 1
           q   == WithClosures(m, Append(m.closures, vs))
           f   == FuncVal(block, new)
           h   == hi - p1
<1>1. /\ Memory(c, m) /\ IsSeq(m.vstack) /\ hi \in Nat /\ lo \in Nat /\ Below(c, m)
      /\ Ready(c, k, i, s) /\ its \in Seq(Item(c)) /\ IsSeq(its) /\ Len(its) \in Nat /\ Laid(c, m, id, lo, hi, its)
  BY FetchedIs
<1>2. /\ p \in Nat /\ Topmost(its).kind = "block" /\ Closes(c, block, p)
      /\ p < Len(its) /\ \A j \in 1 .. p : its[Len(its) - j].kind = "place"
  BY <1>1, ReadyIs
<1>3. p1 \in Nat /\ p1 \in 0 .. Len(its) /\ its # <<>> /\ \A j \in 0 .. p1 - 1 : j = 0 \/ j \in 1 .. p
  BY <1>1, <1>2, SeqDomain
<1>4. Topmost(its) \in Item(c) /\ its[Len(its) - 0] = Topmost(its)
  BY <1>1, <1>3, TopItem
<1>5. block \in 2 .. Len(c)
  BY <1>2, <1>4, KindsOf
<1>6. \A j \in 0 .. p1 - 1 : its[Len(its) - j].kind # "group"
  BY <1>2, <1>3, <1>4
<1>7. /\ hi - p1 >= lo /\ Laid(c, m, id, lo, hi - p1, Less(its, p1))
      /\ \A j \in 0 .. p1 - 1 : ItemAt(c, m, id, its[Len(its) - j], (hi - j) - 1, hi - j)
  <2> HIDE DEF lo, hi, id, p1, its
  <2> QED
    BY <1>1, <1>3, <1>6, LaidAlone
<1>8. \A j \in 0 .. p1 - 1 : Fits(c, m, id, its[Len(its) - j], Peek(m, j))
  BY <1>6, <1>7 DEF ItemAt, Peek
<1>9. v = FuncVal(block, 0)
  <2>1. 0 \in 0 .. p1 - 1
    BY <1>2
  <2>2. Fits(c, m, id, Topmost(its), v)
    BY <1>4, <1>8, <2>1
  <2> QED
    BY <1>2, <2>2 DEF Fits
<1>10. \A j \in 1 .. p : SoundVar(c, m, Held(m, Peek(m, p + 1 - j)))
  <2> TAKE j \in 1 .. p
  <2> DEFINE g == p + 1 - j
  <2>1. g \in 1 .. p /\ g \in 0 .. p1 - 1
    BY <1>2
  <2> HIDE DEF g
  <2>2. Alive(m, Peek(m, g))
    BY <1>1, <1>2, <1>8, <2>1, PlaceThere
  <2>3. SoundVar(c, m, Held(m, Peek(m, g)))
    BY <1>1, <2>2, HeldSound
  <2> QED
    BY <2>3 DEF g
<1>11. SoundVars(c, m, vs) /\ Len(vs) = p
  <2>1. DOMAIN vs = 1 .. p /\ vs = [j \in 1 .. p |-> vs[j]] /\ \A j \in 1 .. p : SoundVar(c, m, vs[j])
    BY <1>10
  <2> HIDE DEF vs
  <2>2. IsSeq(vs) /\ Len(vs) = p
    BY <1>2, <2>1, Listed
  <2> QED
    BY <2>1, <2>2 DEF SoundVars
<1>12. Gather(m, op, p) = Replace(q, p1, f)
  <2>1. [v EXCEPT !.closure = new] = f
    BY <1>9 DEF FuncVal
  <2> HIDE DEF f, new
  <2> QED
    BY <2>1 DEF Gather, WithClosures, new
<1> HIDE DEF vs
<1>13. /\ Memory(c, q) /\ Alike(m, q) /\ q.vstack = m.vstack /\ new \in DOMAIN q.closures /\ q.closures[new] = vs
  BY <1>1, <1>11, ClosureMade
<1> HIDE DEF q, new
<1>14. Supplied(c, q, block, new)
  BY <1>2, <1>11, <1>13 DEF Supplied
<1>15. Sound(c, q, f)
  BY <1>5, <1>14, SimpleSound
<1> HIDE DEF f
<1>16. Some("value") \in Item(c) /\ Some("value").kind # "group" /\ Fits(c, q, Fp(m).id, Some("value"), f)
  BY <1>15, ItemsMade, ValueFits
<1>17. Less(its, p1) \in Seq(Item(c))
  BY <1>1, <1>3, LessItems
<1>18. h \in 0 .. hi /\ lo <= h
  <2>1. hi \in Nat /\ lo \in Nat /\ p1 \in Nat /\ hi - p1 >= lo
    BY <1>1, <1>3, <1>7
  <2> HIDE DEF hi, lo, p1
  <2> QED
    BY <2>1
<1> DEFINE n == With(q, Append(SubSeq(m.vstack, 1, h), f))
           it == Some("value")
           L == Less(its, p1)
<1>19. Replace(q, p1, f) = n
  <2>1. IsMachine(q)
    BY <1>13 DEF Memory
  <2>2. Replace(q, p1, f) = With(q, Append(SubSeq(q.vstack, 1, Len(q.vstack) - p1), f))
    BY <2>1, StackOps
  <2> QED
    BY <1>13, <2>2
<1>20. Outcome(c, n, k, i + 1, [s EXCEPT !.items = Then(L, it)])
  <2>1. Laid(c, m, Fp(m).id, Fp(m).base, h, L)
    BY <1>7
  <2>2. /\ Memory(c, q) /\ Alike(m, q) /\ L \in Seq(Item(c)) /\ h \in 0 .. Len(m.vstack) /\ Fp(m).base <= h
        /\ it \in Item(c) /\ it.kind # "group" /\ Fits(c, q, Fp(m).id, it, f)
    BY <1>13, <1>16, <1>17, <1>18
  <2> HIDE DEF h, L, it
  <2>3. Below(c, n) /\ Stands(c, n, k, i + 1, [s EXCEPT !.items = Then(L, it)]) /\ n.status = "running"
    <3>1. Fetched(c, m, k, i, s)
      OBVIOUS
    <3> QED
      BY ONLY <2>1, <2>2, <3>1, Puts, Zenon DEF n
  <2> HIDE DEF n
  <2> QED
    BY <2>3 DEF Outcome
<1>21. Gathered(op, p, its) = Then(L, it)
  <2>1. op \in Gathers /\ op = "CLOSURE"
    BY DEF Gathers
  <2> QED
    BY <2>1, GatheredIs
<1>22. Behind(c, k, i, s) = [s EXCEPT !.items = Gathered(op, p, its)]
  BY BehindIs DEF Gathers
<1> QED
  BY <1>12, <1>19, <1>20, <1>21, <1>22

LEMMA GatherStep ==
  ASSUME NEW c, NEW m, NEW k, NEW i, NEW s, Fetched(c, m, k, i, s), c[k][i].op \in Gathers, Matched(c, m, k, i)
  PROVE  Outcome(c, Gather(m, c[k][i].op, c[k][i].arg), k, i + 1, Behind(c, k, i, s))
<1>1. CASE c[k][i].op = "LIST_GATHER"
  <2>1. Ready(c, k, i, s)
    BY FetchedIs
  <2>2. Topmost(s.items).kind = "group" \/ Numbered(s.items)
    BY <1>1, <2>1, ReadyIs
  <2> QED
    BY <1>1, <2>2, GatherGroup, GatherNumbered
<1>2. CASE c[k][i].op = "LIST_SPILL"
  BY <1>2, SpillStep
<1>3. CASE c[k][i].op = "CLOSURE"
  BY <1>3, ClosureStep
<1> QED
  BY <1>1, <1>2, <1>3 DEF Gathers

(* What is written is not read again. *)
LEMMA PrintedPut ==
  ASSUME NEW c, NEW m, Memory(c, m), NEW x
  PROVE  LET n == WithPrinted(m, x)
         IN  Memory(c, n) /\ Alike(m, n) /\ n.vstack = m.vstack
<1> DEFINE n == WithPrinted(m, x)
<1>1. /\ IsMachine(n) /\ n.vstack = m.vstack /\ n.frames = m.frames /\ n.heap = m.heap /\ n.closures = m.closures
      /\ n.lists = m.lists /\ n.calls = m.calls /\ n.printed = x /\ n.status = m.status
  BY PrintedSet DEF Memory, WithPrinted
<1> HIDE DEF n
<1>2. Alike(m, n)
  BY <1>1 DEF Alike, SameFrames, SameFrame, Extends, Memory
<1>3. Extends(m, n)
  BY <1>2 DEF Alike
<1>4. \A v : Sound(c, m, v) => Sound(c, n, v)
  BY <1>3, SoundKept
<1>5. \A v : SoundVars(c, m, v) => SoundVars(c, n, v)
  BY <1>3, SoundVarsKept
<1>6. Memory(c, n)
  BY <1>1, <1>4, <1>5 DEF Memory
<1> QED
  BY <1>1, <1>2, <1>6 DEF n

(* A frame without locals, with a number that was not used, is added.        *)
Calling(m, x, y) == [m EXCEPT !.frames = x, !.calls = y]
WithCall(m, fr)  == Calling(m, Append(m.frames, fr), m.calls + 1)
LEMMA CallingSet ==
  ASSUME NEW m, IsMachine(m), NEW x, NEW y
  PROVE  LET n == Calling(m, x, y)
         IN  /\ IsMachine(n) /\ n.vstack = m.vstack /\ n.frames = x /\ n.heap = m.heap
             /\ n.closures = m.closures /\ n.lists = m.lists /\ n.calls = y /\ n.printed = m.printed
             /\ n.status = m.status
<1> DEFINE q == [m EXCEPT !.frames = x]
           n == [q EXCEPT !.calls = y]
<1>1. /\ IsMachine(q) /\ q.vstack = m.vstack /\ q.frames = x /\ q.heap = m.heap /\ q.closures = m.closures
      /\ q.lists = m.lists /\ q.calls = m.calls /\ q.printed = m.printed /\ q.status = m.status
  BY FramesSet
<1>2. Calling(m, x, y) = n
  BY DEF Calling
<1> HIDE DEF q
<1>3. /\ IsMachine(n) /\ n.vstack = q.vstack /\ n.frames = q.frames /\ n.heap = q.heap /\ n.closures = q.closures
      /\ n.lists = q.lists /\ n.calls = y /\ n.printed = q.printed /\ n.status = q.status
  BY <1>1 DEF IsMachine
<1> HIDE DEF n
<1> QED
  BY <1>1, <1>2, <1>3

LEMMA CallSet ==
  ASSUME NEW m, IsMachine(m), NEW fr
  PROVE  LET n == WithCall(m, fr)
         IN  /\ IsMachine(n) /\ n.vstack = m.vstack /\ n.frames = Append(m.frames, fr) /\ n.heap = m.heap
             /\ n.closures = m.closures /\ n.lists = m.lists /\ n.calls = m.calls + 1 /\ n.printed = m.printed
             /\ n.status = m.status
<1> DEFINE x == Append(m.frames, fr)
           y == m.calls + 1
           n == Calling(m, x, y)
<1>1. WithCall(m, fr) = n
  BY DEF WithCall
<1> HIDE DEF x, y
<1>2. /\ IsMachine(n) /\ n.vstack = m.vstack /\ n.frames = x /\ n.heap = m.heap
      /\ n.closures = m.closures /\ n.lists = m.lists /\ n.calls = y /\ n.printed = m.printed
      /\ n.status = m.status
  BY CallingSet
<1> HIDE DEF n
<1> QED
  BY <1>1, <1>2 DEF x, y

LEMMA CallIsAdded ==
  ASSUME NEW m, NEW block, NEW closure, NEW z,
         z = IF m.vstack = <<>> THEN 0 ELSE Len(m.vstack) - 1 - Peek(m, 0).i
  PROVE  call_block(m, block, closure) =
           WithCall(m, [block |-> block, ip |-> 1, closure |-> closure, locals |-> <<>>, id |-> m.calls + 1, base |-> z])
<1> DEFINE b == IF m.vstack = <<>> THEN 0 ELSE Len(m.vstack) - 1 - Peek(m, 0).i
<1>1. call_block(m, block, closure) =
         [m EXCEPT !.frames = Append(@, [block |-> block, ip |-> 1, closure |-> closure, locals |-> <<>>,
                                         id |-> m.calls + 1, base |-> b]),
                   !.calls = @ + 1]
  BY DEF call_block
<1>2. b = z
  OBVIOUS
<1> HIDE DEF b
<1>3. call_block(m, block, closure) =
         [m EXCEPT !.frames = Append(m.frames, [block |-> block, ip |-> 1, closure |-> closure, locals |-> <<>>,
                                         id |-> m.calls + 1, base |-> b]),
                   !.calls = m.calls + 1]
  BY <1>1
<1> QED
  BY <1>2, <1>3 DEF WithCall, Calling

LEMMA FrameAdded ==
  ASSUME NEW c, NEW m, Memory(c, m), NEW fr, IsFrame(fr), fr.id = m.calls + 1, fr.locals = <<>>
  PROVE  LET n == WithCall(m, fr)
             l == Len(m.frames)
         IN  /\ Memory(c, n) /\ Extends(m, n) /\ n.vstack = m.vstack /\ n.status = m.status /\ n.closures = m.closures
             /\ Len(n.frames) = l + 1 /\ DOMAIN n.frames = 1 .. l + 1 /\ n.frames[l + 1] = fr
             /\ \A g \in 1 .. l : n.frames[g] = m.frames[g]
<1> DEFINE l == Len(m.frames)
           x == Append(m.frames, fr)
           n == WithCall(m, fr)
<1>1. IsSeq(m.frames) /\ l \in Nat /\ DOMAIN m.frames = 1 .. l
  BY SeqDomain DEF Memory
<1>2. IsSeq(x) /\ Len(x) = l + 1 /\ DOMAIN x = 1 .. l + 1 /\ x[l + 1] = fr /\ \A g \in 1 .. l : x[g] = m.frames[g]
  BY <1>1, Longer
<1>3. /\ IsMachine(n) /\ n.vstack = m.vstack /\ n.frames = x /\ n.heap = m.heap /\ n.closures = m.closures
      /\ n.lists = m.lists /\ n.calls = m.calls + 1 /\ n.printed = m.printed /\ n.status = m.status
  BY CallSet DEF Memory
<1> HIDE DEF x, n
<1>4. m.calls \in Nat /\ \A g \in 1 .. l : m.frames[g].id \in 1 .. m.calls /\ IsFrame(m.frames[g]) /\ SoundVars(c, m, m.frames[g].locals)
  BY <1>1 DEF Memory
<1>5. Extends(m, n)
  <2>1. ASSUME NEW g \in DOMAIN n.frames, n.frames[g].id \in 1 .. m.calls
        PROVE  \E h \in DOMAIN m.frames :
                  m.frames[h].id = n.frames[g].id /\ DOMAIN m.frames[h].locals \subseteq DOMAIN n.frames[g].locals
    <3>1. g \in 1 .. l
      <4>1. g # l + 1
        BY <1>2, <1>3, <1>4, <2>1
      <4> QED
        BY <1>1, <1>2, <1>3, <4>1
    <3>2. n.frames[g] = m.frames[g] /\ g \in DOMAIN m.frames
      BY <1>1, <1>2, <1>3, <3>1
    <3> QED
      BY <3>2
  <2>2. n.calls \in Nat /\ m.calls <= n.calls
    BY <1>3, <1>4
  <2> QED
    BY <1>3, <1>4, <2>1, <2>2 DEF Extends
<1>6. \A v : Sound(c, m, v) => Sound(c, n, v)
  BY <1>5, SoundKept
<1>7. \A v : SoundVars(c, m, v) => SoundVars(c, n, v)
  BY <1>5, SoundVarsKept
<1>8. \A g \in 1 .. l + 1 : IsFrame(x[g]) /\ SoundVars(c, n, x[g].locals) /\ x[g].id \in 1 .. n.calls
  <2> TAKE g \in 1 .. l + 1
  <2>1. CASE g = l + 1
    <3>1. m.calls + 1 \in 1 .. n.calls
      BY <1>3, <1>4
    <3> QED
      BY <1>2, <2>1, <3>1, NoneSound
  <2>2. CASE g # l + 1
    <3>1. g \in 1 .. l
      BY <1>1, <2>2
    <3> QED
      BY <1>2, <1>3, <1>4, <1>7, <3>1
  <2> QED
    BY <2>1, <2>2
<1>9. \A g, h \in 1 .. l + 1 : x[g].id = x[h].id => g = h
  <2>1. \A g, h \in 1 .. l : m.frames[g].id = m.frames[h].id => g = h
    BY <1>1 DEF Memory
  <2>2. \A g \in 1 .. l : x[g].id # fr.id
    BY <1>2, <1>4
  <2> TAKE g, h \in 1 .. l + 1
  <2> HAVE x[g].id = x[h].id
  <2>3. CASE g = l + 1 /\ h = l + 1
    BY <2>3
  <2>4. CASE g # l + 1 /\ h # l + 1
    <3>1. g \in 1 .. l /\ h \in 1 .. l
      BY <1>1, <2>4
    <3> QED
      BY <1>2, <2>1, <3>1
  <2>5. CASE g = l + 1 /\ h # l + 1
    <3>1. h \in 1 .. l
      BY <1>1, <2>5
    <3> QED
      BY <1>2, <2>2, <2>5, <3>1
  <2>6. CASE g # l + 1 /\ h = l + 1
    <3>1. g \in 1 .. l
      BY <1>1, <2>6
    <3> QED
      BY <1>2, <2>2, <2>6, <3>1
  <2> QED
    BY <2>3, <2>4, <2>5, <2>6
<1>10. n.calls \in Nat
  BY <1>3, <1>4
<1>11. Memory(c, n)
  BY <1>2, <1>3, <1>6, <1>7, <1>8, <1>9, <1>10 DEF Memory
<1> QED
  BY <1>2, <1>3, <1>5, <1>11 DEF n

LEMMA EntryIs ==
  ASSUME NEW c, NEW k \in 2 .. Len(c)
  PROVE  Entry(k).locals = 0 /\ Entry(k).items = Append(<<>>, Group(0)) /\ Entry(k) \in Shape(c)
<1>1. k # 1
  OBVIOUS
<1>2. Entry(k) = [locals |-> 0, items |-> <<Group(0)>>]
  BY <1>1 DEF Entry
<1>3. <<Group(0)>> = Append(<<>>, Group(0))
  OBVIOUS
<1>4. Group(0) \in Item(c)
  BY ItemsMade
<1>5. <<Group(0)>> \in Seq(Item(c))
  BY <1>4
<1> HIDE DEF Group
<1>6. Entry(k) \in Shape(c)
  BY <1>2, <1>5 DEF Shape
<1> QED
  BY <1>2, <1>3, <1>6

(* A function is entered: the arguments with their number are its own, the    *)
(* block that calls it waits for a value in their place.                     *)
LEMMA Called ==
  ASSUME NEW c, NEW m, NEW k, NEW i, NEW s, Below(c, m), Stands(c, m, k, i, s), m.status = "running",
         k \in DOMAIN c, i \in DOMAIN c[k], Arguments(s.items),
         ShapeAt(c, k)[i] = [s EXCEPT !.items = Then(BelowArguments(@), Some("value"))],
         NEW block \in 2 .. Len(c), NEW closure, Supplied(c, m, block, closure)
  PROVE  LET n == call_block(m, block, closure)
         IN  Below(c, n) /\ Stands(c, n, block, 1, Entry(block)) /\ n.status = "running"
<1> DEFINE hi == Len(m.vstack)
           l  == Len(m.frames)
           lo == Fp(m).base
           id == Fp(m).id
           L  == BelowArguments(s.items)
           t  == [s EXCEPT !.items = Then(L, Some("value"))]
<1>1. /\ Memory(c, m) /\ IsMachine(m) /\ IsSeq(m.vstack) /\ hi \in Nat /\ s \in Shape(c) /\ Laid(c, m, id, lo, hi, s.items)
      /\ Fp(m).block = k /\ Fp(m).ip = i /\ Len(Fp(m).locals) = s.locals /\ Supplied(c, m, k, Fp(m).closure)
  BY SeqDomain DEF Below, Memory, Stands
<1>2. /\ l \in Nat /\ l >= 1 /\ DOMAIN m.frames = 1 .. l /\ l \in DOMAIN m.frames /\ lo \in Nat /\ id \in 1 .. m.calls
      /\ Fp(m) = m.frames[l]
  BY TopFrame
<1>3. s.items \in Seq(Item(c)) /\ s.locals \in Nat
  BY <1>1, ShapeIs
<1>4. /\ L \in Seq(Item(c))
      /\ \E n \in Nat : /\ m.vstack[hi] = Number(n) /\ n + 1 <= hi - lo
                        /\ Laid(c, m, id, lo, hi - 1 - n, L)
                        /\ \A j \in hi - n .. hi : Sound(c, m, m.vstack[j])
  <2> HIDE DEF hi, lo, id
  <2> QED
    BY <1>1, <1>2, <1>3, PopArguments
<1>5. PICK cnt \in Nat : /\ m.vstack[hi] = Number(cnt) /\ cnt + 1 <= hi - lo
                         /\ Laid(c, m, id, lo, hi - 1 - cnt, L)
                         /\ \A j \in hi - cnt .. hi : Sound(c, m, m.vstack[j])
  BY <1>4
<1> DEFINE b == hi - 1 - cnt
           fr == [block |-> block, ip |-> 1, closure |-> closure, locals |-> <<>>, id |-> m.calls + 1, base |-> b]
           n == WithCall(m, fr)
<1>6. b \in Nat /\ lo <= b /\ b < hi /\ hi # 0 /\ cnt = hi - b - 1 /\ hi - cnt = b + 1
  <2>1. hi \in Nat /\ lo \in Nat /\ cnt \in Nat /\ cnt + 1 <= hi - lo
    BY <1>1, <1>2, <1>5
  <2> HIDE DEF hi, lo
  <2> QED
    BY ONLY <2>1
<1>7. call_block(m, block, closure) = n
  <2>1. m.vstack # <<>>
    BY <1>1, <1>6, SeqDomain
  <2>2. Peek(m, 0).i = cnt
    <3>1. hi - 0 = hi
      BY <1>1
    <3>2. Peek(m, 0) = Number(cnt)
      BY <1>5, <3>1 DEF Peek
    <3> QED
      BY <3>2, NumberIs
  <2>3. (IF m.vstack = <<>> THEN 0 ELSE Len(m.vstack) - 1 - Peek(m, 0).i) = b
    BY <2>1, <2>2
  <2> HIDE DEF b
  <2> QED
    BY <2>3, CallIsAdded
<1> HIDE DEF b
<1>8. /\ IsFrame(fr) /\ fr.id = m.calls + 1 /\ fr.locals = <<>> /\ fr.base = b /\ fr.block = block /\ fr.ip = 1
      /\ fr.closure = closure
  BY DEF IsFrame
<1> HIDE DEF fr
<1>9. /\ Memory(c, n) /\ Extends(m, n) /\ n.vstack = m.vstack /\ n.status = m.status /\ n.closures = m.closures
      /\ Len(n.frames) = l + 1 /\ DOMAIN n.frames = 1 .. l + 1 /\ n.frames[l + 1] = fr
      /\ \A g \in 1 .. l : n.frames[g] = m.frames[g]
  BY <1>1, <1>8, FrameAdded
<1> HIDE DEF n
<1>10. Fp(n) = fr
  BY <1>9 DEF Fp
<1>11. \A v : Sound(c, m, v) => Sound(c, n, v)
  BY <1>9, SoundKept
<1>12. \A j, x : Supplied(c, m, j, x) => Supplied(c, n, j, x)
  BY <1>9, SuppliedKept
<1>13. Stands(c, n, block, 1, Entry(block))
  <2>1. Entry(block).locals = 0 /\ Entry(block).items = Append(<<>>, Group(0)) /\ Entry(block) \in Shape(c)
    BY EntryIs
  <2>2. Len(fr.locals) = 0
    BY <1>8, EmptyIs
  <2>3. Laid(c, n, fr.id, b, b, <<>>)
    BY <1>6, LaidNone
  <2>4. ItemAt(c, n, fr.id, Group(0), b, hi)
    <3> DEFINE it == Group(0)
    <3>1. it.kind = "group" /\ it.extra = 0
      BY ItemsMade
    <3> HIDE DEF it
    <3>2. \A j \in b + 1 .. hi : Sound(c, n, n.vstack[j])
      BY <1>5, <1>6, <1>9, <1>11
    <3>3. n.vstack[hi] = Number(hi - b - 1 - it.extra)
      <4>1. hi - b - 1 - 0 = hi - b - 1
        BY <1>1, <1>6
      <4> QED
        BY <1>5, <1>6, <1>9, <3>1, <4>1
    <3>4. ItemAt(c, n, fr.id, it, b, hi)
      BY <1>6, <3>1, <3>2, <3>3 DEF ItemAt, Grouped
    <3> QED
      BY <3>4 DEF it
  <2>5. Laid(c, n, fr.id, b, hi, Append(<<>>, Group(0)))
    <3> HIDE DEF hi
    <3> QED
      BY <1>1, <1>6, <2>3, <2>4, EmptyIs, LaidMore
  <2>6. Supplied(c, n, block, closure)
    BY <1>12
  <2> QED
    BY <1>8, <1>9, <1>10, <2>1, <2>2, <2>5, <2>6 DEF Stands
<1>14. Waits(c, n, l)
  <2> DEFINE top == n.frames[l]
  <2>1. top = Fp(m) /\ l \in 1 .. l /\ n.frames[l + 1].base = b
    BY <1>2, <1>8, <1>9
  <2>2. /\ top.block = k /\ top.ip = i /\ Len(top.locals) = s.locals /\ Supplied(c, n, k, top.closure)
        /\ top.id = id /\ top.base = lo
    BY <1>1, <1>12, <2>1
  <2>3. /\ Then(L, Some("value")) \in Seq(Item(c)) /\ Then(L, Some("value")) # <<>>
        /\ Topmost(Then(L, Some("value"))) = Some("value") /\ Less(Then(L, Some("value")), 1) = L
    <3> DEFINE it == Some("value")
    <3>1. it \in Item(c)
      BY ItemsMade
    <3> HIDE DEF it, L
    <3>2. Then(L, it) \in Seq(Item(c)) /\ Then(L, it) # <<>> /\ Topmost(Then(L, it)) = it /\ Less(Then(L, it), 1) = L
      BY <1>4, <3>1, ThenItems
    <3> QED
      BY <3>2 DEF it
  <2>4. t = [locals |-> s.locals, items |-> Then(L, Some("value"))] /\ t \in Shape(c)
    BY <1>1, <1>3, <2>3, ShapeIs
  <2>5. t.locals = s.locals /\ t.items = Then(L, Some("value"))
    BY <2>4
  <2>6. ShapeAt(c, top.block)[top.ip] = t
    BY <2>2
  <2> HIDE DEF t
  <2>7. Laid(c, n, id, lo, b, L)
    <3>1. Laid(c, m, id, lo, b, L)
      BY <1>5 DEF b
    <3>2. Len(L) \in Nat
      BY <1>4, SeqIs
    <3>3. \A j \in lo + 1 .. b : n.vstack[j] = m.vstack[j]
      BY <1>9
    <3> HIDE DEF lo, L
    <3> QED
      BY <1>2, <1>6, <1>9, <3>1, <3>2, <3>3, LaidKept
  <2>8. Laid(c, n, top.id, top.base, n.frames[l + 1].base, Less(t.items, 1))
    BY <2>1, <2>2, <2>3, <2>5, <2>7
  <2>9. top.block \in DOMAIN c /\ top.ip \in DOMAIN c[top.block]
    BY <2>2
  <2>10. Len(top.locals) = t.locals /\ Supplied(c, n, top.block, top.closure)
    BY <2>2, <2>5
  <2>11. t.items # <<>> /\ Topmost(t.items) = Some("value")
    BY <2>3, <2>5
  <2> QED
    BY <2>4, <2>6, <2>8, <2>9, <2>10, <2>11 DEF Waits
<1>15. \A f \in 1 .. l - 1 : Waits(c, n, f)
  <2> TAKE f \in 1 .. l - 1
  <2>1. f \in 1 .. l /\ f + 1 \in 1 .. l
    BY <1>2
  <2>2. n.frames[f] = m.frames[f] /\ n.frames[f + 1] = m.frames[f + 1]
    BY <1>9, <2>1
  <2>3. Waits(c, m, f) /\ m.frames[f].base \in Nat /\ m.frames[f + 1].base \in Nat
    BY <1>2, <2>1 DEF Below
  <2>4. SameFrame(n.frames[f], m.frames[f])
    BY <2>2 DEF SameFrame
  <2> QED
    BY <1>9, <2>2, <2>3, <2>4, WaitsKept
<1>16. \A f \in 1 .. Len(n.frames) - 1 : Waits(c, n, f)
  <2> TAKE f \in 1 .. Len(n.frames) - 1
  <2>1. f = l \/ f \in 1 .. l - 1
    BY <1>2, <1>9
  <2> QED
    BY <1>14, <1>15, <2>1
<1>17. \A f \in 1 .. l : n.frames[f].base = m.frames[f].base /\ m.frames[f].base \in Nat /\ m.frames[f].base <= lo
  <2>1. /\ \A f \in DOMAIN m.frames : m.frames[f].base \in Nat
        /\ \A f, g \in DOMAIN m.frames : f <= g => m.frames[f].base <= m.frames[g].base
    BY DEF Below
  <2> TAKE f \in 1 .. l
  <2>2. f \in DOMAIN m.frames /\ f <= l /\ m.frames[l].base = lo
    BY <1>2
  <2>3. m.frames[f].base <= m.frames[l].base
    BY <1>2, <2>1, <2>2
  <2> QED
    BY <1>9, <2>1, <2>2, <2>3
<1>18. n.frames[l + 1].base = b
  BY <1>8, <1>9
<1>19. \A f \in 1 .. l + 1 : n.frames[f].base \in Nat /\ n.frames[f].base <= b
  <2> TAKE f \in 1 .. l + 1
  <2>1. CASE f = l + 1
    BY <1>6, <1>18, <2>1
  <2>2. CASE f # l + 1
    <3>1. f \in 1 .. l
      BY <1>2, <2>2
    <3>2. n.frames[f].base \in Nat /\ n.frames[f].base <= lo
      BY <1>17, <3>1
    <3>3. lo \in Nat /\ lo <= b /\ b \in Nat
      BY <1>2, <1>6
    <3> HIDE DEF lo
    <3> QED
      BY ONLY <3>2, <3>3
  <2> QED
    BY <2>1, <2>2
<1>20. \A f, g \in 1 .. l + 1 : f <= g => n.frames[f].base <= n.frames[g].base
  <2> TAKE f, g \in 1 .. l + 1
  <2> HAVE f <= g
  <2>1. CASE g = l + 1
    BY <1>18, <1>19, <2>1
  <2>2. CASE g # l + 1
    <3>1. f \in 1 .. l /\ g \in 1 .. l
      BY <1>2, <2>2
    <3>2. m.frames[f].base <= m.frames[g].base
      BY <1>2, <3>1 DEF Below
    <3> QED
      BY <1>17, <3>1, <3>2
  <2> QED
    BY <2>1, <2>2
<1>21. n.frames # <<>>
  <2>1. IsSeq(n.frames)
    BY <1>9 DEF Memory
  <2> QED
    BY <1>2, <1>9, <2>1, SeqDomain
<1>22. Below(c, n)
  BY <1>9, <1>16, <1>19, <1>20, <1>21 DEF Below
<1> QED
  BY <1>7, <1>9, <1>13, <1>22

-------------------------------------------------------------------------------
LEMMA CutTwice ==
  ASSUME NEW s, IsSeq(s), NEW a \in 0 .. Len(s), NEW b \in 0 .. a
  PROVE  SubSeq(SubSeq(s, 1, a), 1, b) = SubSeq(s, 1, b)
<1> DEFINE x == SubSeq(s, 1, a)
           y == SubSeq(x, 1, b)
           z == SubSeq(s, 1, b)
<1>1. Len(s) \in Nat
  BY SeqDomain
<1>2. b \in 0 .. Len(s)
  BY <1>1
<1>3. IsSeq(x) /\ Len(x) = a /\ \A i \in 1 .. a : x[i] = s[i]
  BY Cut
<1>4. IsSeq(z) /\ Len(z) = b /\ \A i \in 1 .. b : z[i] = s[i]
  BY <1>2, Cut
<1> HIDE DEF x, z
<1>5. b \in 0 .. Len(x)
  BY <1>3
<1>6. IsSeq(y) /\ Len(y) = b /\ \A i \in 1 .. b : y[i] = x[i]
  BY <1>3, <1>5, Cut
<1> HIDE DEF y
<1>7. \A i \in 1 .. b : y[i] = z[i]
  <2> TAKE i \in 1 .. b
  <2>1. i \in 1 .. a
    BY <1>1
  <2> QED
    BY <1>3, <1>4, <1>6, <2>1
<1>8. y = z
  BY <1>4, <1>6, <1>7, SeqSame
<1> QED
  BY <1>8 DEF x, y, z

(* Either the block goes on, or a function begins, or the program panics. *)
Entered(c, n) ==
    n.status = "running" /\ Below(c, n) /\ \E block \in 2 .. Len(c) : Stands(c, n, block, 1, Entry(block))

(* What is called is off the stack. *)
LEMMA CalleeTaken ==
  ASSUME NEW c, NEW m, NEW k, NEW i, NEW s, Fetched(c, m, k, i, s), Singles(s.items, 1)
  PROVE  LET n == npop_stack(m, 1)
             h == Len(m.vstack) - 1
         IN  /\ n = With(m, SubSeq(m.vstack, 1, h)) /\ h \in Nat /\ h <= Len(m.vstack) /\ Fp(m).base <= h
             /\ Laid(c, m, Fp(m).id, Fp(m).base, h, Less(s.items, 1)) /\ Less(s.items, 1) \in Seq(Item(c))
             /\ Memory(c, n) /\ Alike(m, n) /\ n.vstack = SubSeq(m.vstack, 1, h)
             /\ Below(c, n) /\ Stands(c, n, k, i + 1, [s EXCEPT !.items = Less(@, 1)]) /\ n.status = "running"
<1> DEFINE its == Less(s.items, 1)
           h == Len(m.vstack) - 1
           x == SubSeq(m.vstack, 1, h)
           o == With(m, x)
           t == [s EXCEPT !.items = its]
<1>1. h \in 0 .. Len(m.vstack) /\ Fp(m).base <= h /\ its \in Seq(Item(c)) /\ Laid(c, m, Fp(m).id, Fp(m).base, h, its)
  BY Operands, FetchedIs
<1>2. npop_stack(m, 1) = o
  BY DEF npop_stack, With
<1>3. Memory(c, m) /\ Alike(m, m) /\ IsSeq(m.vstack) /\ Len(m.vstack) \in Nat
  BY FetchedIs
<1>4. h \in Nat /\ h <= Len(m.vstack)
  BY <1>1, <1>3
<1> HIDE DEF its, h
<1>5. Below(c, o) /\ Stands(c, o, k, i + 1, t) /\ o.status = "running"
  BY <1>1, <1>3, Takes
<1>6. IsSeq(x)
  BY <1>1, <1>3, Cut
<1> HIDE DEF x
<1>7. Memory(c, o) /\ Alike(m, o) /\ o.vstack = x
  BY <1>3, <1>6, StackOnly
<1> HIDE DEF o, t
<1>8. npop_stack(m, 1) = With(m, x) /\ t = [s EXCEPT !.items = Less(@, 1)]
  BY <1>2 DEF o, t, its
<1>9. npop_stack(m, 1) = With(m, SubSeq(m.vstack, 1, Len(m.vstack) - 1))
  BY <1>8 DEF x, h
<1> QED
  BY <1>1, <1>2, <1>4, <1>5, <1>7, <1>8, <1>9 DEF its, h, x

LEMMA FunctionStep ==
  ASSUME NEW c, NEW m, NEW k, NEW i, NEW s, Fetched(c, m, k, i, s), Singles(s.items, 1), Arguments(Less(s.items, 1)),
         i + 1 \in DOMAIN c[k],
         ShapeAt(c, k)[i + 1] = [s EXCEPT !.items = Then(BelowArguments(Less(@, 1)), Some("value"))],
         NEW v, Sound(c, m, v), v.type = "func"
  PROVE  Entered(c, call_block(npop_stack(m, 1), v.block, v.closure))
<1> DEFINE m1 == npop_stack(m, 1)
           s1 == [s EXCEPT !.items = Less(@, 1)]
           n  == call_block(m1, v.block, v.closure)
<1>1. /\ Memory(c, m1) /\ Alike(m, m1) /\ Below(c, m1) /\ Stands(c, m1, k, i + 1, s1) /\ m1.status = "running"
      /\ Less(s.items, 1) \in Seq(Item(c))
  BY CalleeTaken
<1>2. v.block \in 2 .. Len(c) /\ Supplied(c, m1, v.block, v.closure)
  BY <1>1, SuppliedKept DEF Sound, Alike
<1>3. s \in Shape(c) /\ k \in DOMAIN c
  BY FetchedIs
<1>4. s = [locals |-> s.locals, items |-> s.items]
  BY <1>3 DEF Shape
<1>5. s1.items = Less(s.items, 1) /\ s1 = [locals |-> s.locals, items |-> Less(s.items, 1)]
  BY <1>4
<1>6. ShapeAt(c, k)[i + 1] = [s1 EXCEPT !.items = Then(BelowArguments(@), Some("value"))]
  BY <1>4, <1>5
<1>7. Arguments(s1.items)
  BY <1>5
<1> HIDE DEF m1, s1
<1>8. Below(c, n) /\ Stands(c, n, v.block, 1, Entry(v.block)) /\ n.status = "running"
  BY <1>1, <1>2, <1>3, <1>6, <1>7, Called
<1> HIDE DEF n
<1>9. Entered(c, n)
  BY <1>2, <1>8 DEF Entered
<1> QED
  BY <1>9 DEF n, m1

(* print takes its arguments and leaves nil, or panics. *)
LEMMA PrintStep ==
  ASSUME NEW c, NEW m, NEW k, NEW i, NEW s, Fetched(c, m, k, i, s), Singles(s.items, 1), Arguments(Less(s.items, 1))
  PROVE  Outcome(c, print(npop_stack(m, 1)), k, i + 1,
                 [s EXCEPT !.items = Then(BelowArguments(Less(@, 1)), Some("value"))])
<1> DEFINE its == Less(s.items, 1)
           h  == Len(m.vstack) - 1
           x  == SubSeq(m.vstack, 1, h)
           m1 == npop_stack(m, 1)
           L  == BelowArguments(its)
           it == Some("value")
           s1 == [s EXCEPT !.items = Less(@, 1)]
           t  == [s EXCEPT !.items = Then(L, it)]
<1>1. /\ m1 = With(m, x) /\ h \in Nat /\ h <= Len(m.vstack) /\ Fp(m).base <= h
      /\ Laid(c, m, Fp(m).id, Fp(m).base, h, its) /\ its \in Seq(Item(c))
      /\ Memory(c, m1) /\ m1.vstack = x
      /\ Below(c, m1) /\ Stands(c, m1, k, i + 1, s1)
  BY CalleeTaken
<1>2. /\ Memory(c, m) /\ IsMachine(m) /\ IsSeq(m.vstack) /\ Len(m.vstack) \in Nat /\ Fp(m).base \in Nat
      /\ CodeFits(c) /\ k \in DOMAIN c /\ i \in DOMAIN c[k] /\ i \in Nat
  BY FetchedIs
<1>3. i <= Len(c[k])
  BY DEF Fetched
<1>4. IsSeq(x) /\ Len(x) = h /\ \A j \in 1 .. h : x[j] = m.vstack[j]
  <2>1. h \in 0 .. Len(m.vstack)
    BY <1>1
  <2> QED
    BY <1>2, <2>1, Cut
<1> HIDE DEF its, m1, s1
<1>5. Outcome(c, Panicked(m1), k, i + 1, t)
  BY <1>1, <1>2, <1>3, PanicTyped DEF Outcome
<1>6. L \in Seq(Item(c)) /\ \E n \in Nat : /\ m.vstack[h] = Number(n) /\ n + 1 <= h - Fp(m).base
                                           /\ Laid(c, m, Fp(m).id, Fp(m).base, h - 1 - n, L)
  <2> DEFINE id == Fp(m).id
             lo == Fp(m).base
  <2>1. lo \in Nat /\ h \in Nat /\ Laid(c, m, id, lo, h, its) /\ Arguments(its)
    BY <1>1, <1>2 DEF its
  <2> HIDE DEF id, lo, h
  <2>2. L \in Seq(Item(c)) /\ \E n \in Nat : /\ m.vstack[h] = Number(n) /\ n + 1 <= h - lo
                                             /\ Laid(c, m, id, lo, h - 1 - n, L)
    BY <1>1, <2>1, PopArguments
  <2> QED
    BY <2>2 DEF id, lo
<1>7. PICK cnt \in Nat : /\ m.vstack[h] = Number(cnt) /\ cnt + 1 <= h - Fp(m).base
                         /\ Laid(c, m, Fp(m).id, Fp(m).base, h - 1 - cnt, L)
  BY <1>6
<1> HIDE DEF h, x
<1>8. Peek(m1, 0).i = cnt
  <2>1. h - 0 = h /\ h \in 1 .. h
    BY <1>1, <1>2, <1>7
  <2>2. Peek(m1, 0) = Number(cnt)
    BY <1>1, <1>4, <1>7, <2>1 DEF Peek
  <2> QED
    BY <2>2, NumberIs
<1> DEFINE b == h - 1 - cnt
           args == [j \in 1 .. cnt |-> Peek(m1, j)]
           y == Append(SubSeq(m.vstack, 1, b), NilVal)
           z == m.printed \o args
           q == WithPrinted(m, z)
           n == With(q, y)
<1>9. b \in 0 .. h /\ b \in 0 .. Len(m.vstack) /\ Fp(m).base <= b /\ h - (cnt + 1) = b
  BY <1>1, <1>2, <1>7
<1>10. Replace(m1, cnt + 1, NilVal) = With(m, y)
  <2>1. Replace(m1, cnt + 1, NilVal) = With(m1, Append(SubSeq(x, 1, h - (cnt + 1)), NilVal))
    <3>1. IsMachine(m1) /\ m1.vstack = x /\ Len(m1.vstack) = h
      BY <1>1, <1>4 DEF Memory
    <3>2. Replace(m1, cnt + 1, NilVal) = With(m1, Append(SubSeq(m1.vstack, 1, Len(m1.vstack) - (cnt + 1)), NilVal))
      BY ONLY <3>1, StackOps
    <3> QED
      BY <3>1, <3>2
  <2>2. SubSeq(x, 1, b) = SubSeq(m.vstack, 1, b)
    <3>1. h \in 0 .. Len(m.vstack)
      BY <1>1
    <3> HIDE DEF b
    <3> QED
      BY <1>2, <1>9, <3>1, CutTwice DEF x
  <2>3. Replace(m1, cnt + 1, NilVal) = With(With(m, x), y)
    BY <1>1, <1>9, <2>1, <2>2
  <2> HIDE DEF y
  <2> QED
    BY <1>2, <2>3, Either
<1>11. [Replace(m1, cnt + 1, NilVal) EXCEPT !.printed = @ \o args] = n
  <2> HIDE DEF args, y
  <2> DEFINE r == With(m, y)
  <2>1. r.printed = m.printed
    BY <1>2, StackSet
  <2>2. [r EXCEPT !.printed = @ \o args] = WithPrinted(r, z)
    BY <2>1 DEF WithPrinted
  <2> HIDE DEF z
  <2>3. WithPrinted(With(m, y), z) = With(WithPrinted(m, z), y)
    BY <1>2, Either
  <2> QED
    BY <1>10, <2>2, <2>3
<1>12. print(m1) = Panicked(m1) \/ print(m1) = n
  BY <1>8, <1>11 DEF print
<1> HIDE DEF z, n, args, b
<1>13. Memory(c, q) /\ Alike(m, q)
  BY <1>2, PrintedPut
<1> HIDE DEF q
<1>14. it \in Item(c) /\ it.kind = "value" /\ Fits(c, q, Fp(m).id, it, NilVal)
  BY ItemsMade, ValueFits, SimpleSound
<1> HIDE DEF it
<1>15. Laid(c, m, Fp(m).id, Fp(m).base, b, L)
  BY <1>7 DEF b
<1> HIDE DEF L
<1>16. /\ Below(c, With(q, Append(SubSeq(m.vstack, 1, b), NilVal)))
       /\ Stands(c, With(q, Append(SubSeq(m.vstack, 1, b), NilVal)), k, i + 1, [s EXCEPT !.items = Then(L, it)])
       /\ With(q, Append(SubSeq(m.vstack, 1, b), NilVal)).status = "running"
  <2>1. /\ Fetched(c, m, k, i, s) /\ Memory(c, q) /\ Alike(m, q) /\ L \in Seq(Item(c)) /\ b \in 0 .. Len(m.vstack)
        /\ Fp(m).base <= b /\ Laid(c, m, Fp(m).id, Fp(m).base, b, L)
        /\ it \in Item(c) /\ it.kind # "group" /\ Fits(c, q, Fp(m).id, it, NilVal)
    BY <1>6, <1>9, <1>13, <1>14, <1>15
  <2> QED
    BY ONLY <2>1, Puts
<1>17. Outcome(c, n, k, i + 1, t)
  BY <1>16 DEF Outcome, n
<1> HIDE DEF t
<1>18. Outcome(c, print(m1), k, i + 1, t)
  BY <1>5, <1>12, <1>17
<1> QED
  BY <1>18 DEF t, L, it, its, m1

LEMMA CalledValue ==
  ASSUME NEW c, NEW m, NEW k, NEW i, NEW s, Fetched(c, m, k, i, s), Singles(s.items, 1), Arguments(Less(s.items, 1)),
         i + 1 \in DOMAIN c[k],
         ShapeAt(c, k)[i + 1] = [s EXCEPT !.items = Then(BelowArguments(Less(@, 1)), Some("value"))],
         NEW v, Sound(c, m, v)
  PROVE  LET n == sbVm_call_func(npop_stack(m, 1), v)
         IN  Entered(c, n) \/ Outcome(c, n, k, i + 1, ShapeAt(c, k)[i + 1])
<1> DEFINE m1 == npop_stack(m, 1)
           n  == sbVm_call_func(m1, v)
<1>1. CASE v.type = "builtin"
  <2>1. n = print(m1)
    BY <1>1 DEF sbVm_call_func
  <2> HIDE DEF n
  <2>2. Outcome(c, n, k, i + 1, [s EXCEPT !.items = Then(BelowArguments(Less(@, 1)), Some("value"))])
    BY <2>1, PrintStep
  <2>3. Outcome(c, n, k, i + 1, ShapeAt(c, k)[i + 1])
    BY <2>2
  <2> QED
    BY <2>3 DEF n
<1>2. CASE v.type = "func"
  <2>1. n = call_block(m1, v.block, v.closure)
    BY <1>2 DEF sbVm_call_func
  <2> HIDE DEF n
  <2>2. Entered(c, n)
    BY <1>2, <2>1, FunctionStep
  <2> QED
    BY <2>2 DEF n
<1>3. CASE v.type \notin {"builtin", "func"}
  <2>1. n = Panicked(m1)
    BY <1>3 DEF sbVm_call_func
  <2>2. Below(c, m1) /\ Stands(c, m1, k, i + 1, [s EXCEPT !.items = Less(@, 1)])
    BY CalleeTaken
  <2>3. CodeFits(c) /\ k \in DOMAIN c /\ i \in DOMAIN c[k] /\ i \in Nat /\ i <= Len(c[k])
    BY DEF Fetched
  <2> HIDE DEF m1, n
  <2>4. Outcome(c, n, k, i + 1, ShapeAt(c, k)[i + 1])
    BY <2>1, <2>2, <2>3, PanicTyped DEF Outcome
  <2> QED
    BY <2>4 DEF n, m1
<1> QED
  BY <1>1, <1>2, <1>3

LEMMA CallStep ==
  ASSUME NEW c, NEW m, NEW k, NEW i, NEW s, Fetched(c, m, k, i, s), c[k][i].op \in Calls,
         i + 1 \in DOMAIN c[k], ShapeAt(c, k)[i + 1] = Behind(c, k, i, s)
  PROVE  LET n == Call(m, c[k][i].op)
         IN  Entered(c, n) \/ Outcome(c, n, k, i + 1, ShapeAt(c, k)[i + 1])
<1> DEFINE op == c[k][i].op
           n  == Call(m, op)
           v  == Peek(m, 0)
           w  == sbVar_get_value(m, v)
<1>1. Singles(s.items, 1) /\ Arguments(Less(s.items, 1)) /\ Memory(c, m)
  BY FetchedIs, ReadyIs
<1>2. ShapeAt(c, k)[i + 1] = [s EXCEPT !.items = Then(BelowArguments(Less(@, 1)), Some("value"))]
  BY BehindIs
<1>3. Sound(c, m, v)
  <2>1. 0 \in 0 .. 1 - 1
    OBVIOUS
  <2> QED
    BY <1>1, <2>1, Operands
<1> HIDE DEF v
<1>4. IsPlace(m, v) => Sound(c, m, w)
  BY <1>1, <1>3, PlaceAlive, ValueSound
<1>5. \/ n = sbVm_call_func(npop_stack(m, 1), v)
      \/ IsPlace(m, v) /\ n = sbVm_call_func(npop_stack(m, 1), w)
      \/ n = Panicked(m)
  BY DEF Call, v
<1> HIDE DEF n, w
<1>6. CASE n = sbVm_call_func(npop_stack(m, 1), v)
  <2>1. Entered(c, n) \/ Outcome(c, n, k, i + 1, ShapeAt(c, k)[i + 1])
    BY <1>1, <1>2, <1>3, <1>6, CalledValue
  <2> QED
    BY <2>1 DEF n
<1>7. CASE IsPlace(m, v) /\ n = sbVm_call_func(npop_stack(m, 1), w)
  <2>1. Entered(c, n) \/ Outcome(c, n, k, i + 1, ShapeAt(c, k)[i + 1])
    BY <1>1, <1>2, <1>4, <1>7, CalledValue
  <2> QED
    BY <2>1 DEF n
<1>8. CASE n = Panicked(m)
  <2>1. Outcome(c, n, k, i + 1, ShapeAt(c, k)[i + 1])
    BY <1>8, PanicOutcome
  <2> QED
    BY <2>1 DEF n
<1> QED
  BY <1>5, <1>6, <1>7, <1>8

(* The frames above the first n are left. *)
Framed(m, x) == [m EXCEPT !.frames = x]
LEMMA FramesDropped ==
  ASSUME NEW c, NEW m, Memory(c, m), NEW d \in 0 .. Len(m.frames)
  PROVE  LET n == Framed(m, SubSeq(m.frames, 1, d))
         IN  /\ Memory(c, n) /\ Extends(m, n) /\ n.vstack = m.vstack /\ n.status = m.status /\ n.closures = m.closures
             /\ Len(n.frames) = d /\ DOMAIN n.frames = 1 .. d
             /\ \A g \in 1 .. d : n.frames[g] = m.frames[g]
<1> DEFINE x == SubSeq(m.frames, 1, d)
           n == Framed(m, x)
<1>1. IsSeq(m.frames) /\ Len(m.frames) \in Nat /\ DOMAIN m.frames = 1 .. Len(m.frames)
  BY SeqDomain DEF Memory
<1>2. IsSeq(x) /\ Len(x) = d /\ DOMAIN x = 1 .. d /\ \A g \in 1 .. d : x[g] = m.frames[g]
  BY <1>1, Cut
<1> HIDE DEF x
<1>3. /\ IsMachine(n) /\ n.vstack = m.vstack /\ n.frames = x /\ n.heap = m.heap /\ n.closures = m.closures
      /\ n.lists = m.lists /\ n.calls = m.calls /\ n.printed = m.printed /\ n.status = m.status
  BY FramesSet DEF Memory, Framed
<1> HIDE DEF n
<1>4. \A g \in 1 .. d : g \in DOMAIN m.frames /\ x[g] = m.frames[g]
  BY <1>1, <1>2
<1>5. Extends(m, n)
  <2>1. ASSUME NEW g \in DOMAIN n.frames, n.frames[g].id \in 1 .. m.calls
        PROVE  \E h \in DOMAIN m.frames :
                  m.frames[h].id = n.frames[g].id /\ DOMAIN m.frames[h].locals \subseteq DOMAIN n.frames[g].locals
    <3>1. n.frames[g] = m.frames[g] /\ g \in DOMAIN m.frames
      BY <1>2, <1>3, <1>4
    <3> QED
      BY <3>1
  <2>2. m.calls \in Nat
    BY DEF Memory
  <2> QED
    BY <1>3, <2>1, <2>2 DEF Extends
<1>6. \A v : Sound(c, m, v) => Sound(c, n, v)
  BY <1>5, SoundKept
<1>7. \A v : SoundVars(c, m, v) => SoundVars(c, n, v)
  BY <1>5, SoundVarsKept
<1>8. \A g \in DOMAIN x : IsFrame(x[g]) /\ SoundVars(c, n, x[g].locals) /\ x[g].id \in 1 .. n.calls
  BY <1>2, <1>3, <1>4, <1>7 DEF Memory
<1>9. \A g, h \in DOMAIN x : x[g].id = x[h].id => g = h
  BY <1>2, <1>4 DEF Memory
<1>10. Memory(c, n)
  BY <1>2, <1>3, <1>6, <1>7, <1>8, <1>9 DEF Memory
<1> QED
  BY <1>2, <1>3, <1>5, <1>10 DEF n, x

(* A frame that waited goes on, with the value of the function on its stack.  *)
LEMMA FrameLeft ==
  ASSUME NEW c, NEW m, NEW k, NEW i, NEW s, CodeFits(c), Below(c, m), Stands(c, m, k, i, s), m.status = "running",
         Len(s.items) = 1, Singles(s.items, 1), Len(m.frames) # 1
  PROVE  Good(c, [m EXCEPT !.frames = Front(@)])
<1> DEFINE hi == Len(m.vstack)
           l  == Len(m.frames)
           d  == l - 1
           lo == Fp(m).base
           id == Fp(m).id
           n  == Framed(m, SubSeq(m.frames, 1, d))
<1>1. /\ l \in Nat /\ l >= 1 /\ DOMAIN m.frames = 1 .. l /\ lo \in Nat /\ id \in 1 .. m.calls
      /\ Fp(m) = m.frames[l]
  BY TopFrame
<1>2. d \in Nat /\ d >= 1 /\ d \in 0 .. l /\ d \in 1 .. l /\ d + 1 = l /\ d \in 1 .. l - 1
  <2>1. l \in Nat /\ l >= 1 /\ l # 1
    BY <1>1
  <2> HIDE DEF l
  <2> QED
    BY ONLY <2>1
<1>3. Memory(c, m)
  BY DEF Below
<1>4. hi \in Nat
  BY <1>3, SeqDomain DEF Memory
<1>5. hi = lo + 1 /\ Sound(c, m, m.vstack[hi])
  <2>1. Laid(c, m, id, lo, hi, s.items) /\ s.items \in Seq(Item(c)) /\ 1 \in Nat
    BY ShapeIs DEF Stands
  <2> HIDE DEF hi, lo, id
  <2>2. /\ hi - 1 >= lo /\ Laid(c, m, id, lo, hi - 1, Less(s.items, 1))
        /\ \A j \in 0 .. 1 - 1 : Sound(c, m, m.vstack[hi - j])
    BY <1>1, <1>4, <2>1, PopSingles
  <2>3. Len(Less(s.items, 1)) = 0
    <3>1. IsSeq(s.items) /\ 1 \in 0 .. Len(s.items) /\ Len(s.items) - 1 = 0
      BY <2>1, SeqIs
    <3> QED
      BY <3>1, LessIs
  <2>4. hi - 1 \in Nat
    BY <1>1, <1>4, <2>2
  <2>5. lo = hi - 1
    BY <1>1, <2>2, <2>3, <2>4, LaidBounds
  <2>6. 0 \in 0 .. 1 - 1 /\ hi - 0 = hi
    BY <1>4
  <2>7. Sound(c, m, m.vstack[hi])
    BY <2>2, <2>6
  <2> QED
    BY <1>1, <1>4, <2>5, <2>7
<1>6. [m EXCEPT !.frames = Front(@)] = n
  BY DEF Framed, Front
<1>7. /\ Memory(c, n) /\ Extends(m, n) /\ n.vstack = m.vstack /\ n.status = m.status /\ n.closures = m.closures
      /\ Len(n.frames) = d /\ DOMAIN n.frames = 1 .. d
      /\ \A g \in 1 .. d : n.frames[g] = m.frames[g]
  <2> HIDE DEF d
  <2> QED
    BY <1>2, <1>3, FramesDropped
<1> HIDE DEF n
<1> DEFINE fr == m.frames[d]
           t  == ShapeAt(c, fr.block)[fr.ip]
<1>8. Fp(n) = fr /\ fr.base \in Nat
  BY <1>1, <1>2, <1>7, Zenon DEF Fp, Below
<1>9. /\ fr.block \in DOMAIN c /\ fr.ip \in DOMAIN c[fr.block] /\ t \in Shape(c)
      /\ Len(fr.locals) = t.locals /\ Supplied(c, m, fr.block, fr.closure)
      /\ t.items # <<>> /\ Topmost(t.items) = Some("value")
      /\ Laid(c, m, fr.id, fr.base, lo, Less(t.items, 1))
  <2>1. Waits(c, m, d)
    BY <1>2 DEF Below
  <2> QED
    BY <1>1, <1>2, <2>1, Zenon DEF Waits
<1> HIDE DEF t, fr
<1>10. Laid(c, n, fr.id, fr.base, hi, t.items)
  <2> DEFINE its == Less(t.items, 1)
             it  == Some("value")
  <2>1. t.items \in Seq(Item(c))
    BY <1>9, ShapeIs
  <2>2. its \in Seq(Item(c)) /\ IsSeq(its) /\ Len(its) \in Nat
    <3>1. 1 \in 0 .. Len(t.items)
      BY <1>9, <2>1, TopItem
    <3>2. its \in Seq(Item(c))
      BY <2>1, <3>1, LessItems
    <3> HIDE DEF its
    <3> QED
      BY <3>2, SeqIs
  <2>3. t.items = Append(its, it)
    BY <1>9, <2>1, Rebuilt DEF Then
  <2>4. Laid(c, m, fr.id, fr.base, lo, its)
    BY <1>9
  <2>5. it.kind = "value"
    BY ItemsMade
  <2> HIDE DEF its, lo, hi
  <2>6. Laid(c, n, fr.id, fr.base, lo, its)
    BY <1>1, <1>7, <1>8, <2>2, <2>4, LaidKept
  <2>7. Fits(c, n, fr.id, it, n.vstack[hi])
    <3>1. Sound(c, n, m.vstack[hi])
      BY <1>5, <1>7, SoundKept
    <3> QED
      BY <1>7, <3>1, ValueFits
  <2> HIDE DEF it
  <2>8. ItemAt(c, n, fr.id, it, lo, hi)
    BY <1>1, <1>5, <2>5, <2>7 DEF ItemAt
  <2> QED
    BY <1>1, <1>4, <1>8, <2>2, <2>3, <2>6, <2>8, LaidMore
<1>11. Supplied(c, n, fr.block, fr.closure)
  BY <1>7, <1>9, SuppliedKept
<1>12. Stands(c, n, fr.block, fr.ip, t)
  BY <1>7, <1>8, <1>9, <1>10, <1>11 DEF Stands
<1>13. \A f \in 1 .. d : n.frames[f] = m.frames[f] /\ m.frames[f].base \in Nat
  <2>1. \A f \in DOMAIN m.frames : m.frames[f].base \in Nat
    BY DEF Below
  <2>2. \A f \in 1 .. d : f \in DOMAIN m.frames
    BY <1>1
  <2> QED
    BY <1>7, <2>1, <2>2
<1>14. \A f, g \in 1 .. d : f <= g => n.frames[f].base <= n.frames[g].base
  <2>1. \A f, g \in DOMAIN m.frames : f <= g => m.frames[f].base <= m.frames[g].base
    BY DEF Below
  <2>2. \A f \in 1 .. d : f \in DOMAIN m.frames
    BY <1>1
  <2> QED
    BY <1>13, <2>1, <2>2
<1>15. \A f \in 1 .. d - 1 : Waits(c, n, f)
  <2> TAKE f \in 1 .. d - 1
  <2>1. f \in 1 .. d /\ f + 1 \in 1 .. d /\ f \in 1 .. l - 1
    BY <1>2
  <2>2. n.frames[f] = m.frames[f] /\ n.frames[f + 1] = m.frames[f + 1]
    BY <1>7, <2>1
  <2>3. Waits(c, m, f) /\ m.frames[f].base \in Nat /\ m.frames[f + 1].base \in Nat
    BY <1>13, <2>1 DEF Below
  <2>4. SameFrame(n.frames[f], m.frames[f])
    BY <2>2 DEF SameFrame
  <2> QED
    BY <1>7, <2>2, <2>3, <2>4, WaitsKept
<1>16. n.frames # <<>>
  <2>1. IsSeq(n.frames)
    BY <1>7 DEF Memory
  <2> QED
    BY <1>2, <1>7, <2>1, SeqDomain
<1>17. Below(c, n)
  BY <1>7, <1>13, <1>14, <1>15, <1>16 DEF Below
<1>18. t = ShapeAt(c, Fp(n).block)[Fp(n).ip]
  BY <1>8 DEF t
<1>19. Good(c, n)
  BY <1>7, <1>8, <1>9, <1>12, <1>17, <1>18 DEF Good
<1> QED
  BY <1>6, <1>19

(* What the machine is after a step: it can go on, or it is at its end. *)
GoodOrEnded(c, m) == Good(c, m) \/ (m.status \in {"stopped", "panic"} /\ Typed(c, m))

LEMMA StatusTyped ==
  ASSUME NEW c, NEW m, IsMachine(m), Typed(c, m), NEW x
  PROVE  LET n == [m EXCEPT !.status = x] IN Typed(c, n) /\ n.status = x
<1> DEFINE n == [m EXCEPT !.status = x]
<1>1. /\ n.vstack = m.vstack /\ n.frames = m.frames /\ n.heap = m.heap /\ n.closures = m.closures
      /\ n.lists = m.lists /\ n.status = x
  BY StatusSet
<1> HIDE DEF n
<1>2. Typed(c, n)
  BY <1>1 DEF Typed, Pointed
<1> QED
  BY <1>1, <1>2 DEF n

LEMMA ReturnStep ==
  ASSUME NEW c, NEW m, NEW k \in DOMAIN c, NEW i \in DOMAIN c[k], NEW s, CodeFits(c), Below(c, m), Stands(c, m, k, i, s),
         m.status = "running", Ready(c, k, i, s), c[k][i].op = "RET"
  PROVE  GoodOrEnded(c, return_from_block(m))
<1>1. Len(s.items) = 1 /\ Singles(s.items, 1)
  BY ReadyIs
<1>2. CASE Len(m.frames) = 1
  <2> DEFINE n == [m EXCEPT !.status = "stopped"]
  <2>1. return_from_block(m) = n
    BY <1>2 DEF return_from_block
  <2>2. i \in 1 .. Len(c[k]) + 1
    BY BlockIs
  <2>3. Typed(c, m)
    BY <2>2, StandsTyped
  <2>4. IsMachine(m)
    BY DEF Below, Memory
  <2>5. Typed(c, n) /\ n.status = "stopped"
    BY <2>3, <2>4, StatusTyped
  <2> HIDE DEF n
  <2> QED
    BY <2>1, <2>5 DEF GoodOrEnded
<1>3. CASE Len(m.frames) # 1
  <2>1. return_from_block(m) = [m EXCEPT !.frames = Front(@)]
    BY <1>3 DEF return_from_block
  <2>2. Good(c, [m EXCEPT !.frames = Front(@)])
    BY <1>1, <1>3, FrameLeft
  <2> QED
    BY <2>1, <2>2 DEF GoodOrEnded
<1> QED
  BY <1>2, <1>3

-------------------------------------------------------------------------------
(***************************************************************************)
(* The shapes of a block, one from the other.                                *)
(***************************************************************************)
Shaped(g, c, k, n) ==
    g = [i \in 1 .. n |-> IF i = 1 THEN Entry(k) ELSE Behind(c, k, i - 1, g[i - 1])]

LEMMA ShapedExists ==
  ASSUME NEW c, NEW k, NEW n \in Nat
  PROVE  \E g : Shaped(g, c, k, n)
<1> DEFINE S == {m \in Nat : \E g : Shaped(g, c, k, m)}
<1>1. 0 \in S
  <2> DEFINE g == [i \in 1 .. 0 |-> 0]
  <2>1. Shaped(g, c, k, 0)
    BY DEF Shaped
  <2> QED
    BY <2>1
<1>2. ASSUME NEW m \in Nat, m \in S PROVE m + 1 \in S
  <2>1. PICK g : Shaped(g, c, k, m)
    BY <1>2
  <2> DEFINE x == IF m + 1 = 1 THEN Entry(k) ELSE Behind(c, k, (m + 1) - 1, g[m])
             h == [i \in 1 .. m + 1 |-> IF i = m + 1 THEN x ELSE g[i]]
  <2>2. \A i \in 1 .. m : h[i] = g[i]
    OBVIOUS
  <2>3. h[m + 1] = x /\ h = [i \in 1 .. m + 1 |-> h[i]]
    OBVIOUS
  <2>4. \A i \in 1 .. m : g[i] = IF i = 1 THEN Entry(k) ELSE Behind(c, k, i - 1, g[i - 1])
    BY <2>1 DEF Shaped
  <2> HIDE DEF h
  <2>5. ASSUME NEW i \in 1 .. m + 1
        PROVE  h[i] = IF i = 1 THEN Entry(k) ELSE Behind(c, k, i - 1, h[i - 1])
    <3>1. CASE i = m + 1 /\ i = 1
      BY <2>3, <3>1
    <3>2. CASE i = m + 1 /\ i # 1
      <4>1. m \in 1 .. m /\ i - 1 = m
        BY <3>2
      <4>2. h[i - 1] = g[m]
        BY <2>2, <4>1
      <4> QED
        BY <2>3, <3>2, <4>2
    <3>3. CASE i # m + 1 /\ i # 1
      <4>1. i \in 1 .. m /\ i - 1 \in 1 .. m
        BY <3>3
      <4>2. h[i] = g[i] /\ h[i - 1] = g[i - 1]
        BY <2>2, <4>1
      <4> QED
        BY <2>4, <3>3, <4>1, <4>2
    <3>4. CASE i # m + 1 /\ i = 1
      <4>1. i \in 1 .. m
        BY <3>4
      <4> QED
        BY <2>2, <2>4, <3>4, <4>1
    <3> QED
      BY <3>1, <3>2, <3>3, <3>4
  <2>6. Shaped(h, c, k, m + 1)
    BY <2>3, <2>5 DEF Shaped
  <2> QED
    BY <2>6
<1> HIDE DEF S
<1>3. n \in S
  BY <1>1, <1>2, Reached
<1> QED
  BY <1>3 DEF S

LEMMA ShapeAtIs ==
  ASSUME NEW c, NEW k, Len(c[k]) \in Nat
  PROVE  Shaped(ShapeAt(c, k), c, k, Len(c[k]))
<1>1. \E g : Shaped(g, c, k, Len(c[k]))
  BY ShapedExists
<1>2. ShapeAt(c, k) = CHOOSE g : Shaped(g, c, k, Len(c[k]))
  BY Zenon DEF ShapeAt, Shaped
<1> QED
  BY <1>1, <1>2

LEMMA ShapeFirst ==
  ASSUME NEW c, CodeFits(c), NEW k \in DOMAIN c
  PROVE  1 \in DOMAIN c[k] /\ ShapeAt(c, k)[1] = Entry(k)
<1>1. Len(c[k]) \in Nat /\ Len(c[k]) # 0 /\ DOMAIN c[k] = 1 .. Len(c[k])
  BY BlockIs
<1>2. Shaped(ShapeAt(c, k), c, k, Len(c[k])) /\ 1 \in 1 .. Len(c[k])
  BY <1>1, ShapeAtIs
<1> QED
  BY <1>1, <1>2 DEF Shaped

LEMMA ShapeNext ==
  ASSUME NEW c, CodeFits(c), NEW k \in DOMAIN c, NEW i \in DOMAIN c[k], c[k][i].op \notin {"RET", "JMP"}
  PROVE  i + 1 \in DOMAIN c[k] /\ ShapeAt(c, k)[i + 1] = Behind(c, k, i, ShapeAt(c, k)[i])
<1>1. Len(c[k]) \in Nat /\ DOMAIN c[k] = 1 .. Len(c[k]) /\ BlockFits(c, k)
  BY BlockIs
<1>2. Shaped(ShapeAt(c, k), c, k, Len(c[k]))
  BY <1>1, ShapeAtIs
<1>3. i # Len(c[k])
  BY <1>1 DEF BlockFits, OpAt
<1>4. i + 1 \in 1 .. Len(c[k]) /\ i + 1 # 1 /\ (i + 1) - 1 = i
  BY <1>1, <1>3
<1> HIDE DEF Shaped
<1>5. ShapeAt(c, k)[i + 1] = Behind(c, k, (i + 1) - 1, ShapeAt(c, k)[(i + 1) - 1])
  BY <1>2, <1>4 DEF Shaped
<1> QED
  BY <1>1, <1>4, <1>5

(***************************************************************************)
(* From one instruction to the next.                                         *)
(***************************************************************************)
LEMMA OutcomeGood ==
  ASSUME NEW c, NEW n, NEW k \in DOMAIN c, NEW i \in DOMAIN c[k], Outcome(c, n, k, i, ShapeAt(c, k)[i])
  PROVE  GoodOrEnded(c, n)
<1>1. CASE n.status = "running" /\ Below(c, n) /\ Stands(c, n, k, i, ShapeAt(c, k)[i])
  <2>1. Fp(n).block = k /\ Fp(n).ip = i
    BY <1>1 DEF Stands
  <2>2. Good(c, n)
    BY <1>1, <2>1 DEF Good
  <2> QED
    BY <2>2 DEF GoodOrEnded
<1>2. CASE n.status = "panic" /\ Typed(c, n)
  BY <1>2 DEF GoodOrEnded
<1> QED
  BY <1>1, <1>2 DEF Outcome

LEMMA EnteredGood ==
  ASSUME NEW c, CodeFits(c), NEW n, Entered(c, n)
  PROVE  GoodOrEnded(c, n)
<1>1. PICK k \in 2 .. Len(c) : Stands(c, n, k, 1, Entry(k))
  BY DEF Entered
<1>2. n.status = "running" /\ Below(c, n)
  BY DEF Entered
<1>3. k \in DOMAIN c
  <2>1. IsSeq(c)
    BY DEF CodeFits
  <2>2. DOMAIN c = 1 .. Len(c) /\ Len(c) \in Nat
    BY <2>1, SeqDomain
  <2> QED
    BY <2>2
<1>4. 1 \in DOMAIN c[k] /\ ShapeAt(c, k)[1] = Entry(k)
  BY <1>3, ShapeFirst
<1>5. Outcome(c, n, k, 1, ShapeAt(c, k)[1])
  BY <1>1, <1>2, <1>4 DEF Outcome
<1> QED
  BY <1>3, <1>4, <1>5, OutcomeGood

(* The instruction in front of which the machine is.                         *)
LEMMA GoodIs ==
  ASSUME NEW c, NEW m, CodeFits(c), Good(c, m)
  PROVE  LET k == Fp(m).block
             i == Fp(m).ip
             s == ShapeAt(c, k)[i]
         IN  /\ k \in DOMAIN c /\ i \in DOMAIN c[k] /\ i \in Nat /\ i <= Len(c[k]) /\ Ready(c, k, i, s)
             /\ Below(c, m) /\ Stands(c, m, k, i, s) /\ m.status = "running"
             /\ Memory(c, m) /\ IsMachine(m) /\ IsSeq(m.vstack) /\ Len(m.vstack) \in Nat
<1> DEFINE k == Fp(m).block
           i == Fp(m).ip
           s == ShapeAt(c, k)[i]
<1>1. k \in DOMAIN c /\ i \in DOMAIN c[k] /\ Below(c, m) /\ Stands(c, m, k, i, s) /\ m.status = "running"
  BY DEF Good
<1> HIDE DEF k, i
<1>2. BlockFits(c, k) /\ Len(c[k]) \in Nat /\ DOMAIN c[k] = 1 .. Len(c[k])
  BY <1>1, BlockIs
<1>3. i \in Nat /\ i <= Len(c[k])
  BY <1>1, <1>2
<1>4. Ready(c, k, i, s)
  BY <1>1, <1>2 DEF BlockFits
<1>5. Memory(c, m)
  BY <1>1 DEF Below
<1>6. IsMachine(m) /\ IsSeq(m.vstack)
  BY <1>5 DEF Memory
<1>7. Len(m.vstack) \in Nat
  BY <1>6, SeqDomain
<1> QED
  BY <1>1, <1>3, <1>4, <1>5, <1>6, <1>7 DEF k, i

LEMMA AtIs ==
  ASSUME CodeFits(code), Good(code, vm)
  PROVE  At = code[Fp(vm).block][Fp(vm).ip]
<1>1. /\ Fp(vm).ip \in Nat /\ Fp(vm).ip <= Len(code[Fp(vm).block]) /\ Fp(vm).block \in DOMAIN code
  BY GoodIs
<1>2. Len(code[Fp(vm).block]) \in Nat
  BY <1>1, BlockIs
<1>3. ~(Fp(vm).ip > Len(code[Fp(vm).block]))
  BY <1>1, <1>2
<1> QED
  BY <1>3 DEF At

LEMMA OpcodeFetched ==
  ASSUME NEW c, NEW m, CodeFits(c), Good(c, m)
  PROVE  LET k == Fp(m).block
             i == Fp(m).ip
             n == get_opcode(m)
         IN  Fetched(c, n, k, i, ShapeAt(c, k)[i]) /\ n.vstack = m.vstack
<1> DEFINE k == Fp(m).block
           i == Fp(m).ip
           s == ShapeAt(c, k)[i]
           n == get_opcode(m)
<1>1. /\ k \in DOMAIN c /\ i \in DOMAIN c[k] /\ i \in Nat /\ i <= Len(c[k]) /\ Ready(c, k, i, s)
      /\ Below(c, m) /\ Stands(c, m, k, i, s) /\ m.status = "running"
  BY GoodIs
<1>2. n = Goto(m, i + 1)
  BY DEF get_opcode, Goto, Fp
<1> HIDE DEF k, i, s, n
<1>3. Below(c, n) /\ Stands(c, n, k, i + 1, s) /\ n.status = m.status /\ n.vstack = m.vstack
  BY <1>1, <1>2, GotoStands
<1>4. Fetched(c, n, k, i, s)
  BY <1>1, <1>3 DEF Fetched
<1> QED
  BY <1>3, <1>4 DEF k, i, s, n

LEMMA JumpsGood ==
  ASSUME NEW c, NEW m, NEW k, NEW i, CodeFits(c), Fetched(c, m, k, i, ShapeAt(c, k)[i]), c[k][i].op \in Jumps
  PROVE  GoodOrEnded(c, Jump(m, c[k][i].op, c[k][i].arg))
<1> DEFINE op == c[k][i].op
           p  == c[k][i].arg
           s  == ShapeAt(c, k)[i]
           t  == [s EXCEPT !.items = <<>>]
           n  == Jump(m, op, p)
<1>1. k \in DOMAIN c /\ i \in DOMAIN c[k]
  BY FetchedIs
<1>2. p \in DOMAIN c[k] /\ ShapeAt(c, k)[p] = t
  <2>1. BlockFits(c, k)
    BY <1>1, BlockIs
  <2> QED
    BY <1>1, <2>1 DEF BlockFits
<1>3. op # "JMP" => i + 1 \in DOMAIN c[k] /\ ShapeAt(c, k)[i + 1] = t
  <2>1. op # "RET" /\ Behind(c, k, i, s) = t
    BY BehindIs DEF Jumps
  <2> QED
    BY <1>1, <2>1, ShapeNext
<1>4. Outcome(c, n, k, p, t) \/ (op # "JMP" /\ Outcome(c, n, k, i + 1, t))
  BY JumpStep
<1> HIDE DEF n, t, s, op, p
<1>5. CASE Outcome(c, n, k, p, t)
  <2>1. GoodOrEnded(c, n)
    BY <1>1, <1>2, <1>5, OutcomeGood
  <2> QED
    BY <2>1 DEF n, op, p
<1>6. CASE op # "JMP" /\ Outcome(c, n, k, i + 1, t)
  <2>1. GoodOrEnded(c, n)
    BY <1>1, <1>3, <1>6, OutcomeGood
  <2> QED
    BY <2>1 DEF n, op, p
<1> QED
  BY <1>4, <1>5, <1>6

(* Every instruction but a return, on to the next one or into a function.     *)
LEMMA StepGood ==
  ASSUME NEW c, NEW m, NEW k, NEW i, CodeFits(c), Fetched(c, m, k, i, ShapeAt(c, k)[i]), Matched(c, m, k, i)
  PROVE  LET op == c[k][i].op
             p  == c[k][i].arg
         IN  /\ op \in Loads => GoodOrEnded(c, Load(m, op, p))
             /\ op \in Stores => GoodOrEnded(c, Store(m, op, p))
             /\ op \in Arranges => GoodOrEnded(c, Arrange(m, op, p))
             /\ op \in Jumps => GoodOrEnded(c, Jump(m, op, p))
             /\ op \in Operations => GoodOrEnded(c, Operate(m, op))
             /\ op \in Indexes => GoodOrEnded(c, Index(m, op))
             /\ op \in Gathers => GoodOrEnded(c, Gather(m, op, p))
             /\ op \in Calls => GoodOrEnded(c, Call(m, op))
<1> DEFINE op == c[k][i].op
           p  == c[k][i].arg
           s  == ShapeAt(c, k)[i]
           t  == ShapeAt(c, k)[i + 1]
<1>1. k \in DOMAIN c /\ i \in DOMAIN c[k]
  BY FetchedIs
<1>2. op \notin {"RET", "JMP"} => i + 1 \in DOMAIN c[k] /\ t = Behind(c, k, i, s)
  BY <1>1, ShapeNext
<1>3. ASSUME NEW n, op \notin {"RET", "JMP"}, Outcome(c, n, k, i + 1, Behind(c, k, i, s))
      PROVE  GoodOrEnded(c, n)
  BY <1>1, <1>2, <1>3, OutcomeGood
<1>4. op \in Loads => GoodOrEnded(c, Load(m, op, p))
  <2> SUFFICES ASSUME op \in Loads PROVE GoodOrEnded(c, Load(m, op, p))
    OBVIOUS
  <2>1. op \notin {"RET", "JMP"}
    BY DEF Loads
  <2>2. Outcome(c, Load(m, op, p), k, i + 1, Behind(c, k, i, s))
    BY LoadStep
  <2> QED
    BY <1>3, <2>1, <2>2
<1>5. op \in Stores => GoodOrEnded(c, Store(m, op, p))
  <2> SUFFICES ASSUME op \in Stores PROVE GoodOrEnded(c, Store(m, op, p))
    OBVIOUS
  <2>1. op \notin {"RET", "JMP"}
    BY DEF Stores
  <2>2. Outcome(c, Store(m, op, p), k, i + 1, Behind(c, k, i, s))
    BY StoreStep
  <2> QED
    BY <1>3, <2>1, <2>2
<1>6. op \in Arranges => GoodOrEnded(c, Arrange(m, op, p))
  <2> SUFFICES ASSUME op \in Arranges PROVE GoodOrEnded(c, Arrange(m, op, p))
    OBVIOUS
  <2>1. op \notin {"RET", "JMP"}
    BY DEF Arranges
  <2>2. Outcome(c, Arrange(m, op, p), k, i + 1, Behind(c, k, i, s))
    BY ArrangeStep
  <2> QED
    BY <1>3, <2>1, <2>2
<1>7. op \in Jumps => GoodOrEnded(c, Jump(m, op, p))
  BY JumpsGood
<1>8. op \in Operations => GoodOrEnded(c, Operate(m, op))
  <2> SUFFICES ASSUME op \in Operations PROVE GoodOrEnded(c, Operate(m, op))
    OBVIOUS
  <2>1. op \notin {"RET", "JMP"}
    BY DEF Operations
  <2>2. Outcome(c, Operate(m, op), k, i + 1, Behind(c, k, i, s))
    BY OperateStep
  <2> QED
    BY <1>3, <2>1, <2>2
<1>9. op \in Indexes => GoodOrEnded(c, Index(m, op))
  <2> SUFFICES ASSUME op \in Indexes PROVE GoodOrEnded(c, Index(m, op))
    OBVIOUS
  <2>1. op \notin {"RET", "JMP"}
    BY DEF Indexes
  <2>2. Outcome(c, Index(m, op), k, i + 1, Behind(c, k, i, s))
    BY IndexStep
  <2> QED
    BY <1>3, <2>1, <2>2
<1>10. op \in Gathers => GoodOrEnded(c, Gather(m, op, p))
  <2> SUFFICES ASSUME op \in Gathers PROVE GoodOrEnded(c, Gather(m, op, p))
    OBVIOUS
  <2>1. op \notin {"RET", "JMP"}
    BY DEF Gathers
  <2>2. Outcome(c, Gather(m, op, p), k, i + 1, Behind(c, k, i, s))
    BY GatherStep
  <2> QED
    BY <1>3, <2>1, <2>2
<1>11. op \in Calls => GoodOrEnded(c, Call(m, op))
  <2> SUFFICES ASSUME op \in Calls PROVE GoodOrEnded(c, Call(m, op))
    OBVIOUS
  <2>1. op \notin {"RET", "JMP"}
    BY DEF Calls
  <2>2. i + 1 \in DOMAIN c[k] /\ ShapeAt(c, k)[i + 1] = Behind(c, k, i, s)
    BY <1>2, <2>1
  <2> DEFINE n == Call(m, op)
  <2>3. Entered(c, n) \/ Outcome(c, n, k, i + 1, ShapeAt(c, k)[i + 1])
    BY <2>2, CallStep
  <2> HIDE DEF n
  <2>4. Outcome(c, n, k, i + 1, ShapeAt(c, k)[i + 1]) => GoodOrEnded(c, n)
    BY <1>1, <2>2, OutcomeGood
  <2>5. GoodOrEnded(c, n)
    BY <2>3, <2>4, EnteredGood
  <2> QED
    BY <2>5 DEF n
<1> QED
  BY <1>4, <1>5, <1>6, <1>7, <1>8, <1>9, <1>10, <1>11

(* A step of the machine. *)
LEMMA MachineStep ==
  ASSUME CodeFits(code), GoodOrEnded(code, vm), vm.status = "running" => ArgumentsMatch, execute_instruction
  PROVE  GoodOrEnded(code, vm') /\ UNCHANGED code
<1> DEFINE k == Fp(vm).block
           i == Fp(vm).ip
           s == ShapeAt(code, k)[i]
           m == get_opcode(vm)
<1>0. SUFFICES GoodOrEnded(code, vm')
  BY DEF execute_instruction
<1>1. vm.status = "running"
  BY DEF execute_instruction, ExecuteLoad, ExecuteStore, ExecuteArrange, ExecuteJump, ExecuteOperate, ExecuteIndex,
         ExecuteGather, ExecuteCall, ExecuteReturn, Executing
<1>2. Good(code, vm)
  BY <1>1 DEF GoodOrEnded
<1>3. At = code[k][i]
  BY <1>2, AtIs
<1>4. Fetched(code, m, k, i, s) /\ m.vstack = vm.vstack
  BY <1>2, OpcodeFetched
<1>5. Matched(code, m, k, i)
  <2>1. Peek(m, 0) = Peek(vm, 0)
    BY <1>4 DEF Peek
  <2>2. ArgumentsMatch
    BY <1>1
  <2> HIDE DEF m
  <2> QED
    BY <1>3, <2>1, <2>2 DEF ArgumentsMatch, Matched
<1> HIDE DEF m
<1>6. /\ At.op \in Loads => GoodOrEnded(code, Load(m, At.op, At.arg))
      /\ At.op \in Stores => GoodOrEnded(code, Store(m, At.op, At.arg))
      /\ At.op \in Arranges => GoodOrEnded(code, Arrange(m, At.op, At.arg))
      /\ At.op \in Jumps => GoodOrEnded(code, Jump(m, At.op, At.arg))
      /\ At.op \in Operations => GoodOrEnded(code, Operate(m, At.op))
      /\ At.op \in Indexes => GoodOrEnded(code, Index(m, At.op))
      /\ At.op \in Gathers => GoodOrEnded(code, Gather(m, At.op, At.arg))
      /\ At.op \in Calls => GoodOrEnded(code, Call(m, At.op))
  <2> HIDE DEF k, i
  <2> QED
    BY <1>3, <1>4, <1>5, StepGood
<1>7. At.op = "RET" => GoodOrEnded(code, return_from_block(vm))
  <2>1. /\ k \in DOMAIN code /\ i \in DOMAIN code[k] /\ Ready(code, k, i, s)
        /\ Below(code, vm) /\ Stands(code, vm, k, i, s)
    BY <1>2, GoodIs
  <2> HIDE DEF k, i, s
  <2> QED
    BY <1>1, <1>3, <2>1, ReturnStep
<1>8. CASE ExecuteLoad
  BY <1>6, <1>8 DEF ExecuteLoad, Executing, m
<1>9. CASE ExecuteStore
  BY <1>6, <1>9 DEF ExecuteStore, Executing, m
<1>10. CASE ExecuteArrange
  BY <1>6, <1>10 DEF ExecuteArrange, Executing, m
<1>11. CASE ExecuteJump
  BY <1>6, <1>11 DEF ExecuteJump, Executing, m
<1>12. CASE ExecuteOperate
  BY <1>6, <1>12 DEF ExecuteOperate, Executing, m
<1>13. CASE ExecuteIndex
  BY <1>6, <1>13 DEF ExecuteIndex, Executing, m
<1>14. CASE ExecuteGather
  BY <1>6, <1>14 DEF ExecuteGather, Executing, m
<1>15. CASE ExecuteCall
  BY <1>6, <1>15 DEF ExecuteCall, Executing, m
<1>16. CASE ExecuteReturn
  BY <1>7, <1>16 DEF ExecuteReturn, Executing
<1> QED
  BY <1>8, <1>9, <1>10, <1>11, <1>12, <1>13, <1>14, <1>15, <1>16 DEF execute_instruction

(* The machine before its first instruction. *)
LEMMA StartGood ==
  ASSUME NEW c, CodeFits(c)
  PROVE  Good(c, sbVm_initialize)
<1> DEFINE q == [vstack |-> <<>>, frames |-> <<>>, heap |-> <<>>, closures |-> <<>>, lists |-> <<>>,
                 calls |-> 0, printed |-> <<>>, status |-> "running"]
           fr == [block |-> 1, ip |-> 1, closure |-> 0, locals |-> <<>>, id |-> 1, base |-> 0]
           n == WithCall(q, fr)
<1>1. /\ q.vstack = <<>> /\ q.frames = <<>> /\ q.heap = <<>> /\ q.closures = <<>> /\ q.lists = <<>> /\ q.calls = 0
      /\ q.printed = <<>> /\ q.status = "running" /\ IsMachine(q)
  BY DEF IsMachine
<1>2. sbVm_initialize = n
  <2>1. sbVm_initialize = call_block(q, 1, 0)
    BY DEF sbVm_initialize
  <2>2. 0 = IF q.vstack = <<>> THEN 0 ELSE Len(q.vstack) - 1 - Peek(q, 0).i
    BY <1>1
  <2>3. q.calls + 1 = 1
    BY <1>1
  <2> HIDE DEF q
  <2>4. call_block(q, 1, 0) =
          WithCall(q, [block |-> 1, ip |-> 1, closure |-> 0, locals |-> <<>>, id |-> q.calls + 1, base |-> 0])
    BY <2>2, CallIsAdded
  <2> QED
    BY <2>1, <2>3, <2>4
<1>3. /\ IsFrame(fr) /\ fr.id = q.calls + 1 /\ fr.locals = <<>> /\ fr.base = 0 /\ fr.block = 1 /\ fr.ip = 1
      /\ fr.closure = 0 /\ fr.id = 1
  BY <1>1 DEF IsFrame
<1> HIDE DEF q, fr
<1>4. Memory(c, q)
  BY <1>1, EmptyIs DEF Memory
<1>5. /\ Memory(c, n) /\ n.vstack = <<>> /\ n.status = "running"
      /\ Len(n.frames) = 1 /\ DOMAIN n.frames = {1} /\ n.frames[1] = fr
  <2>1. Len(q.frames) = 0 /\ 0 + 1 = 1 /\ 1 .. 1 = {1}
    BY <1>1, EmptyIs
  <2>2. Memory(c, q) /\ IsFrame(fr) /\ fr.id = q.calls + 1 /\ fr.locals = <<>>
    BY <1>3, <1>4
  <2>3. /\ Memory(c, n) /\ n.vstack = q.vstack /\ n.status = q.status
        /\ Len(n.frames) = Len(q.frames) + 1 /\ DOMAIN n.frames = 1 .. Len(q.frames) + 1
        /\ n.frames[Len(q.frames) + 1] = fr
    BY ONLY <2>2, FrameAdded
  <2> HIDE DEF n
  <2> QED
    BY <1>1, <2>1, <2>3
<1> HIDE DEF n
<1>6. Fp(n) = fr
  BY <1>5 DEF Fp
<1>7. 1 \in DOMAIN c /\ Closes(c, 1, 0)
  <2>1. IsSeq(c) /\ c # <<>> /\ Closes(c, 1, 0)
    BY DEF CodeFits
  <2>2. DOMAIN c = 1 .. Len(c) /\ Len(c) \in Nat /\ Len(c) # 0
    BY <2>1, SeqDomain
  <2> QED
    BY <2>1, <2>2
<1>8. 1 \in DOMAIN c[1] /\ ShapeAt(c, 1)[1] = Entry(1)
  BY <1>7, ShapeFirst
<1>9. Entry(1).locals = 0 /\ Entry(1).items = <<>> /\ Entry(1) \in Shape(c)
  BY DEF Entry, Shape
<1>10. Stands(c, n, 1, 1, Entry(1))
  <2>1. Laid(c, n, 1, 0, 0, <<>>)
    BY LaidNone
  <2>2. Supplied(c, n, 1, 0)
    BY <1>7 DEF Supplied
  <2> QED
    BY <1>3, <1>5, <1>6, <1>9, <2>1, <2>2, EmptyIs DEF Stands
<1>11. Below(c, n)
  <2>1. n.frames # <<>>
    BY <1>5, EmptyIs
  <2>2. 1 .. 1 - 1 = {}
    OBVIOUS
  <2> QED
    BY <1>3, <1>5, <2>1, <2>2 DEF Below
<1>12. Good(c, n)
  BY <1>3, <1>5, <1>6, <1>7, <1>8, <1>10, <1>11 DEF Good
<1> QED
  BY <1>2, <1>12

-------------------------------------------------------------------------------
(***************************************************************************)
(* What an instruction takes is there.                                       *)
(***************************************************************************)
LEMMA TakenIs ==
  ASSUME NEW m, NEW op, NEW p
  PROVE  /\ op \in Loads \cup {"JMP", "ALLOC_VARS"} => Taken(m, op, p) = 0
         /\ op \in {"ST_VAR", "ST_UPVAL", "POP", "JT", "JF", "OP_NOT", "OP_INCR", "OP_DEREF", "RET"} => Taken(m, op, p) = 1
         /\ op = "OP_RANGEINDEX" => Taken(m, op, p) = 3
         /\ op = "CLOSURE" => Taken(m, op, p) = p + 1
         /\ op = "LIST_GATHER" => Taken(m, op, p) = 1 + CountOnTop(m)
         /\ op \in Calls => Taken(m, op, p) = 2 + (IF m.vstack = <<>> THEN 0 ELSE CountOnTop(npop_stack(m, 1)))
         /\ op \in {"ST_ARG", "REF_PUT", "SWAP", "LIST_SPILL"} \cup Indexes => Taken(m, op, p) = 2
         /\ op \in Operations \ {"OP_NOT", "OP_INCR", "OP_DEREF", "OP_RANGEINDEX"} => Taken(m, op, p) = 2
<1>1. CASE op \in Loads \cup {"JMP", "ALLOC_VARS"}
  BY <1>1 DEF Taken, Loads, Calls, Indexes, Operations
<1>2. CASE op \in {"ST_VAR", "ST_UPVAL", "POP", "JT", "JF", "OP_NOT", "OP_INCR", "OP_DEREF", "RET"}
  BY <1>2 DEF Taken, Loads, Calls, Indexes, Operations
<1>3. CASE op = "OP_RANGEINDEX"
  BY <1>3 DEF Taken, Loads, Calls, Indexes, Operations
<1>4. CASE op = "CLOSURE"
  BY <1>4 DEF Taken, Loads, Calls, Indexes, Operations
<1>5. CASE op = "LIST_GATHER"
  BY <1>5 DEF Taken, Loads, Calls, Indexes, Operations
<1>6. CASE op \in Calls
  BY <1>6 DEF Taken, Loads, Calls, Indexes, Operations
<1>7. CASE op \in {"ST_ARG", "REF_PUT", "SWAP", "LIST_SPILL"} \cup Indexes
  BY <1>7 DEF Taken, Loads, Calls, Indexes, Operations
<1>8. CASE op \in Operations \ {"OP_NOT", "OP_INCR", "OP_DEREF", "OP_RANGEINDEX"}
  BY <1>8 DEF Taken, Loads, Calls, Indexes, Operations
<1> QED
  BY <1>1, <1>2, <1>3, <1>4, <1>5, <1>6, <1>7, <1>8

LEMMA DepthSingles ==
  ASSUME NEW c, NEW m, NEW id, NEW lo \in Nat, NEW hi \in Nat, NEW its \in Seq(Item(c)),
         Laid(c, m, id, lo, hi, its), NEW n \in Nat, Singles(its, n)
  PROVE  lo + n <= hi
<1>1. hi - n >= lo
  BY PopSingles
<1> QED
  BY ONLY <1>1, lo \in Nat, hi \in Nat, n \in Nat

LEMMA DepthOne ==
  ASSUME NEW c, NEW m, NEW id, NEW lo \in Nat, NEW hi \in Nat, NEW its \in Seq(Item(c)),
         Laid(c, m, id, lo, hi, its), its # <<>>
  PROVE  lo + 1 <= hi
<1>1. IsSeq(its)
  BY SeqIs
<1>2. PICK b \in lo .. hi : ItemAt(c, m, id, Topmost(its), b, hi)
  BY <1>1, LaidTop
<1>3. b < hi
  BY <1>2 DEF ItemAt
<1> QED
  BY <1>2, <1>3

LEMMA DepthUnder ==
  ASSUME NEW c, NEW m, NEW id, NEW lo \in Nat, NEW hi \in Nat, NEW its \in Seq(Item(c)),
         Laid(c, m, id, lo, hi, its), Singles(its, 1), Less(its, 1) # <<>>
  PROVE  lo + 2 <= hi
<1> DEFINE w == Less(its, 1)
           h == hi - 1
<1>1. h >= lo /\ Laid(c, m, id, lo, h, w) /\ 1 \in 0 .. Len(its)
  BY PopSingles
<1>2. w \in Seq(Item(c)) /\ h \in Nat
  BY <1>1, LessItems
<1> HIDE DEF w, h
<1>3. lo + 1 <= h
  BY <1>1, <1>2, DepthOne DEF w
<1> QED
  BY <1>2, <1>3 DEF h

LEMMA DepthCounted ==
  ASSUME NEW c, NEW m, NEW id, NEW lo \in Nat, NEW hi \in Nat, NEW its \in Seq(Item(c)),
         Laid(c, m, id, lo, hi, its), Topmost(its).kind = "group" \/ Numbered(its)
  PROVE  \E n \in Int : m.vstack[hi] = Number(n) /\ lo + 1 + n <= hi /\ lo + 1 <= hi
<1>1. CASE Topmost(its).kind = "group"
  <2> DEFINE e == Topmost(its).extra
  <2>1. its # <<>> /\ e \in Nat
    BY <1>1, PopGroup
  <2>4. \E b \in lo .. hi : /\ Laid(c, m, id, lo, b, Less(its, 1)) /\ b < hi
                            /\ m.vstack[hi] = Number(hi - b - 1 - Topmost(its).extra)
                            /\ \A i \in b + 1 .. hi : Sound(c, m, m.vstack[i])
    BY <1>1, PopGroup
  <2> HIDE DEF e
  <2>2. PICK b \in lo .. hi : b < hi /\ m.vstack[hi] = Number(hi - b - 1 - e)
    BY <2>4 DEF e
  <2> DEFINE n == hi - b - 1 - e
  <2>3. n \in Int /\ lo + 1 + n <= hi /\ lo + 1 <= hi
    BY <2>1, <2>2
  <2> HIDE DEF n
  <2> QED
    BY <2>2, <2>3 DEF n
<1>2. CASE Numbered(its)
  <2>1. Arguments(its)
    BY <1>2 DEF Arguments
  <2>4. \E n \in Nat : /\ m.vstack[hi] = Number(n) /\ n + 1 <= hi - lo
                       /\ Laid(c, m, id, lo, hi - 1 - n, BelowArguments(its))
                       /\ \A i \in hi - n .. hi : Sound(c, m, m.vstack[i])
    BY <2>1, PopArguments
  <2>2. PICK n \in Nat : m.vstack[hi] = Number(n) /\ n + 1 <= hi - lo
    BY <2>4
  <2>3. n \in Int /\ lo + 1 + n <= hi /\ lo + 1 <= hi
    BY <2>2
  <2> QED
    BY <2>2, <2>3
<1> QED
  BY <1>1, <1>2

LEMMA DepthCall ==
  ASSUME NEW c, NEW m, NEW id, NEW lo \in Nat, NEW hi \in Nat, NEW its \in Seq(Item(c)),
         Laid(c, m, id, lo, hi, its), Singles(its, 1), Arguments(Less(its, 1))
  PROVE  \E n \in Nat : m.vstack[hi - 1] = Number(n) /\ lo + 2 + n <= hi
<1> DEFINE w == Less(its, 1)
           h == hi - 1
<1>1. h >= lo /\ Laid(c, m, id, lo, h, w) /\ 1 \in 0 .. Len(its)
  BY PopSingles
<1>2. w \in Seq(Item(c)) /\ h \in Nat /\ Arguments(w)
  BY <1>1, LessItems
<1> HIDE DEF w, h
<1>3. PICK n \in Nat : m.vstack[h] = Number(n) /\ n + 1 <= h - lo
  BY <1>1, <1>2, PopArguments
<1>4. lo + 2 + n <= hi
  <2>1. h = hi - 1 /\ h \in Nat
    BY <1>2 DEF h
  <2> QED
    BY <1>3, <2>1
<1> QED
  BY <1>3, <1>4 DEF h

(* The number on top, and the one below the top operand. *)
LEMMA CountIs ==
  ASSUME NEW m, IsMachine(m), IsSeq(m.vstack), NEW n
  PROVE  /\ m.vstack[Len(m.vstack)] = Number(n) /\ Len(m.vstack) > 0 => CountOnTop(m) = n
         /\ m.vstack[Len(m.vstack) - 1] = Number(n) /\ Len(m.vstack) > 1 =>
              m.vstack # <<>> /\ CountOnTop(npop_stack(m, 1)) = n
<1> DEFINE hi == Len(m.vstack)
<1>1. hi \in Nat /\ hi - 0 = hi /\ (hi = 0 <=> m.vstack = <<>>)
  BY SeqDomain
<1>2. m.vstack[hi] = Number(n) /\ hi > 0 => CountOnTop(m) = n
  <2> SUFFICES ASSUME m.vstack[hi] = Number(n), hi > 0 PROVE CountOnTop(m) = n
    OBVIOUS
  <2>1. Peek(m, 0) = Number(n) /\ m.vstack # <<>>
    BY <1>1 DEF Peek
  <2> QED
    BY <2>1, NumberIs DEF CountOnTop
<1>3. m.vstack[hi - 1] = Number(n) /\ hi > 1 => m.vstack # <<>> /\ CountOnTop(npop_stack(m, 1)) = n
  <2> SUFFICES ASSUME m.vstack[hi - 1] = Number(n), hi > 1 PROVE m.vstack # <<>> /\ CountOnTop(npop_stack(m, 1)) = n
    OBVIOUS
  <2> DEFINE h == hi - 1
             x == SubSeq(m.vstack, 1, h)
             q == npop_stack(m, 1)
  <2>1. q = With(m, x)
    BY DEF npop_stack, With
  <2>2. h \in 0 .. hi /\ h \in Nat /\ h # 0 /\ h \in 1 .. h /\ h - 0 = h
    <3>1. hi \in Nat /\ hi > 1
      BY <1>1
    <3> HIDE DEF hi
    <3> QED
      BY ONLY <3>1
  <2> HIDE DEF h
  <2>3. IsSeq(x) /\ Len(x) = h /\ \A i \in 1 .. h : x[i] = m.vstack[i]
    BY <2>2, Cut
  <2> HIDE DEF x
  <2>4. q.vstack = x
    BY <2>1, StackSet
  <2> HIDE DEF q
  <2>5. x # <<>>
    BY <2>2, <2>3, SeqDomain
  <2>6. Peek(q, 0) = m.vstack[h]
    BY <2>2, <2>3, <2>4 DEF Peek
  <2>7. m.vstack[h] = Number(n)
    BY DEF h
  <2>8. CountOnTop(q) = n
    BY <2>4, <2>5, <2>6, <2>7, NumberIs DEF CountOnTop
  <2> QED
    BY <1>1, <2>8 DEF q
<1> QED
  BY <1>2, <1>3

(* For each kind of instruction, how deep the stack of the frame is.          *)
LEMMA OperandsHeld ==
  ASSUME NEW c, NEW m, NEW k, NEW i, NEW s, NEW op, NEW p, op = c[k][i].op, p = c[k][i].arg,
         IsMachine(m), IsSeq(m.vstack), NEW id, NEW lo \in Nat, s \in Shape(c), Laid(c, m, id, lo, Len(m.vstack), s.items),
         Ready(c, k, i, s), op = "ST_ARG" => Peek(m, 0).i > 0
  PROVE  lo + Taken(m, op, p) <= Len(m.vstack) /\ (op = "RET" => Len(m.vstack) = lo + 1)
<1> DEFINE hi == Len(m.vstack)
           its == s.items
           T == Taken(m, op, p)
<1>0. /\ op \in {"ST_VAR", "ST_UPVAL", "RET"} => Singles(its, 1)
      /\ op = "RET" => Len(its) = 1
      /\ op \in Operations => Drops(op, its)
      /\ op = "POP" => Singles(its, 1) \/ Topmost(its) = Group(0)
      /\ op \in {"JT", "JF"} => Len(its) = 1 /\ Singles(its, Len(its))
      /\ op = "CLOSURE" => /\ p \in Nat /\ Topmost(its).kind = "block" /\ p < Len(its)
                           /\ \A j \in 1 .. p : its[Len(its) - j].kind = "place"
      /\ op = "LIST_GATHER" => Topmost(its).kind = "group" \/ Numbered(its)
      /\ op \in Calls \cup {"LIST_SPILL"} => Singles(its, 1) /\ Arguments(Less(its, 1))
      /\ op \in Indexes \cup {"REF_PUT"} => Singles(its, 2)
      /\ op = "SWAP" => Singles(its, 2) \/ (Singles(its, 1) /\ Topmost(Less(its, 1)).kind = "group")
      /\ op = "ST_ARG" => Topmost(its) = Group(0) \/ Numbered(its)
      /\ op \in Loads \cup Stores \cup Arranges \cup Jumps \cup Operations \cup Indexes \cup Calls \cup Gathers \cup {"RET"}
  <2> HIDE DEF hi
  <2>1. op \in Jumps /\ op # "JMP" => Len(its) = 1
    BY ReadyIs
  <2>2. /\ op \in {"JT", "JF"} => op \in Jumps /\ op # "JMP"
        /\ op \in Jumps => Singles(its, Len(its))
    BY ReadyIs DEF Jumps
  <2> QED
    BY <2>1, <2>2, ReadyIs
<1>1. hi \in Nat
  BY SeqDomain
<1>2. its \in Seq(Item(c)) /\ IsSeq(its) /\ Len(its) \in Nat /\ Laid(c, m, id, lo, hi, its)
  BY ShapeIs, SeqIs
<1>3. lo <= hi /\ (Len(its) = 0 => lo = hi)
  BY <1>1, <1>2, LaidBounds
<1> HIDE DEF hi, its
<1>4. \A n \in Nat : Singles(its, n) => lo + n <= hi
  BY <1>1, <1>2, DepthSingles
<1>5. its # <<>> => lo + 1 <= hi
  BY <1>1, <1>2, DepthOne
<1>6. Singles(its, 1) /\ Less(its, 1) # <<>> => lo + 2 <= hi
  BY <1>1, <1>2, DepthUnder
<1>7. Topmost(its).kind = "group" \/ Numbered(its) =>
         \E n \in Int : m.vstack[hi] = Number(n) /\ lo + 1 + n <= hi /\ lo + 1 <= hi
  BY <1>1, <1>2, DepthCounted
<1>8. Singles(its, 1) /\ Arguments(Less(its, 1)) => \E n \in Nat : m.vstack[hi - 1] = Number(n) /\ lo + 2 + n <= hi
  BY <1>1, <1>2, DepthCall
<1>9. Topmost(its).kind = "group" => its # <<>>
  BY NoneOnTop
<1>10. Peek(m, 0) = m.vstack[hi]
  <2>1. Len(m.vstack) - 0 = hi
    BY <1>1 DEF hi
  <2> QED
    BY <2>1 DEF Peek
<1>11. \A n : /\ m.vstack[hi] = Number(n) /\ hi > 0 => CountOnTop(m) = n
              /\ m.vstack[hi - 1] = Number(n) /\ hi > 1 =>
                   m.vstack # <<>> /\ CountOnTop(npop_stack(m, 1)) = n
  BY CountIs DEF hi
<1>12. \A e : Group(e).kind = "group"
  BY DEF Group
<1>13. CASE op \in Loads \cup {"JMP", "ALLOC_VARS"}
  <2>1. T = 0 /\ op # "RET"
    BY <1>13, TakenIs DEF Loads
  <2> HIDE DEF T
  <2> QED
    BY <1>1, <1>3, <2>1 DEF hi, T
<1>14. CASE op \in {"ST_VAR", "ST_UPVAL", "POP", "JT", "JF", "OP_NOT", "OP_INCR", "OP_DEREF", "RET"}
  <2>1. T = 1
    BY <1>14, TakenIs
  <2>2. Singles(its, 1) \/ Topmost(its).kind = "group"
    <3>1. op \in {"ST_VAR", "ST_UPVAL", "RET"} => Singles(its, 1)
      BY <1>0
    <3>2. op \in {"OP_NOT", "OP_INCR", "OP_DEREF"} => Drops(op, its)
      BY <1>0 DEF Operations
    <3>3. op \in {"OP_NOT", "OP_INCR", "OP_DEREF"} => Singles(its, 1) \/ Topmost(its).kind = "group"
      BY <3>2, DropsIs
    <3>4. op = "POP" => Singles(its, 1) \/ Topmost(its) = Group(0)
      BY <1>0
    <3>5. op \in {"JT", "JF"} => Len(its) = 1 /\ Singles(its, Len(its))
      BY <1>0
    <3> QED
      BY <1>12, <1>14, <3>1, <3>3, <3>4, <3>5
  <2>3. 1 \in Nat
    OBVIOUS
  <2>4. lo + 1 <= hi
    BY <1>4, <1>5, <1>9, <2>2, <2>3
  <2>5. op = "RET" => hi = lo + 1
    <3> SUFFICES ASSUME op = "RET" PROVE hi = lo + 1
      OBVIOUS
    <3>1. Len(its) = 1 /\ Singles(its, 1)
      BY <1>0
    <3> DEFINE h == hi - 1
    <3>2. h >= lo /\ Laid(c, m, id, lo, h, Less(its, 1))
      BY <1>1, <1>2, <2>3, <3>1, PopSingles
    <3>3. h \in Nat
      BY <1>1, <3>2
    <3>4. Len(Less(its, 1)) = 0
      <4>1. 1 \in 0 .. Len(its) /\ Len(its) - 1 = 0
        BY <3>1
      <4> QED
        BY <1>2, <4>1, LessIs
    <3> HIDE DEF h
    <3>5. lo = h
      BY <3>2, <3>3, <3>4, LaidBounds
    <3> QED
      BY <1>1, <3>5 DEF h
  <2> HIDE DEF T
  <2> QED
    BY <2>1, <2>4, <2>5 DEF hi, T
<1>15. CASE op = "OP_RANGEINDEX"
  <2>1. T = 3
    BY <1>15, TakenIs
  <2>2. Singles(its, 3) /\ 3 \in Nat
    BY <1>0, <1>15, DropsIs DEF Operations
  <2>3. lo + 3 <= hi
    BY <1>4, <2>2
  <2> HIDE DEF T
  <2> QED
    BY <1>15, <2>1, <2>3 DEF hi, T
<1>16. CASE op = "CLOSURE"
  <2>1. T = p + 1
    BY <1>16, TakenIs
  <2>2. /\ p \in Nat /\ Topmost(its).kind = "block" /\ p < Len(its)
        /\ \A j \in 1 .. p : its[Len(its) - j].kind = "place"
    BY <1>0, <1>16
  <2>3. its[Len(its) - 0] = Topmost(its)
    <3>1. its # <<>>
      BY <2>2, NoneOnTop
    <3> QED
      BY <1>2, <3>1, TopItem
  <2>4. p + 1 \in 0 .. Len(its) /\ \A j \in 0 .. (p + 1) - 1 : j = 0 \/ j \in 1 .. p
    BY <1>2, <2>2
  <2>5. \A j \in 0 .. (p + 1) - 1 : its[Len(its) - j].kind # "group"
    BY <2>2, <2>3, <2>4
  <2>6. hi - (p + 1) >= lo
    BY <1>1, <1>2, <2>4, <2>5, LaidAlone
  <2>7. lo + (p + 1) <= hi
    BY <1>1, <2>2, <2>6
  <2> HIDE DEF T
  <2> QED
    BY <1>16, <2>1, <2>7 DEF hi, T
<1>17. CASE op = "LIST_GATHER"
  <2>1. T = 1 + CountOnTop(m)
    BY <1>17, TakenIs
  <2>2. Topmost(its).kind = "group" \/ Numbered(its)
    BY <1>0, <1>17
  <2>3. PICK n \in Int : m.vstack[hi] = Number(n) /\ lo + 1 + n <= hi /\ lo + 1 <= hi
    BY <1>7, <2>2
  <2>4. CountOnTop(m) = n
    <3>1. hi > 0
      BY <1>1, <2>3
    <3> QED
      BY <1>11, <2>3, <3>1
  <2> HIDE DEF T
  <2>5. lo + T <= hi
    BY <1>1, <2>1, <2>3, <2>4
  <2> QED
    BY <1>17, <2>5 DEF hi, T
<1>18. CASE op \in Calls
  <2>1. T = 2 + (IF m.vstack = <<>> THEN 0 ELSE CountOnTop(npop_stack(m, 1)))
    BY <1>18, TakenIs
  <2>2. Singles(its, 1) /\ Arguments(Less(its, 1))
    BY <1>0, <1>18
  <2>3. PICK n \in Nat : m.vstack[hi - 1] = Number(n) /\ lo + 2 + n <= hi
    BY <1>8, <2>2
  <2>4. m.vstack # <<>> /\ CountOnTop(npop_stack(m, 1)) = n
    <3>1. hi > 1
      BY <1>1, <2>3
    <3> QED
      BY <1>11, <2>3, <3>1
  <2>5. T = 2 + n
    BY <2>1, <2>4
  <2>6. op # "RET"
    BY <1>18 DEF Calls
  <2> HIDE DEF T
  <2>7. lo + T <= hi
    BY <1>1, <2>3, <2>5
  <2> QED
    BY <2>6, <2>7 DEF hi, T
<1>19. CASE op \in {"ST_ARG", "REF_PUT", "SWAP", "LIST_SPILL"} \cup Indexes
  <2>1. T = 2 /\ op # "RET"
    BY <1>19, TakenIs DEF Indexes
  <2>2. op \in {"REF_PUT"} \cup Indexes => lo + 2 <= hi
    <3>1. 2 \in Nat
      OBVIOUS
    <3>2. op \in {"REF_PUT"} \cup Indexes => Singles(its, 2)
      BY <1>0
    <3> QED
      BY <1>4, <3>1, <3>2
  <2>3. op = "LIST_SPILL" => lo + 2 <= hi
    <3> SUFFICES ASSUME op = "LIST_SPILL" PROVE lo + 2 <= hi
      OBVIOUS
    <3>1. Singles(its, 1) /\ Arguments(Less(its, 1))
      BY <1>0
    <3>2. PICK n \in Nat : lo + 2 + n <= hi
      BY <1>8, <3>1
    <3> QED
      BY <1>1, <3>2
  <2>4. op = "SWAP" => lo + 2 <= hi
    <3> SUFFICES ASSUME op = "SWAP" PROVE lo + 2 <= hi
      OBVIOUS
    <3>1. Singles(its, 2) \/ (Singles(its, 1) /\ Topmost(Less(its, 1)).kind = "group")
      BY <1>0
    <3>2. Topmost(Less(its, 1)).kind = "group" => Less(its, 1) # <<>>
      BY NoneOnTop
    <3>3. 2 \in Nat
      OBVIOUS
    <3> QED
      BY <1>4, <1>6, <3>1, <3>2, <3>3
  <2>5. op = "ST_ARG" => lo + 2 <= hi
    <3> SUFFICES ASSUME op = "ST_ARG" PROVE lo + 2 <= hi
      OBVIOUS
    <3>1. Topmost(its) = Group(0) \/ Numbered(its)
      BY <1>0
    <3>2. PICK n \in Int : m.vstack[hi] = Number(n) /\ lo + 1 + n <= hi
      BY <1>7, <1>12, <3>1
    <3>3. n > 0
      BY <1>10, <3>2, NumberIs
    <3> QED
      BY <1>1, <3>2, <3>3
  <2>6. lo + 2 <= hi
    BY <1>19, <2>2, <2>3, <2>4, <2>5
  <2> HIDE DEF T
  <2> QED
    BY <2>1, <2>6 DEF hi, T
<1>20. CASE op \in Operations \ {"OP_NOT", "OP_INCR", "OP_DEREF", "OP_RANGEINDEX"}
  <2>1. T = 2
    BY <1>20, TakenIs
  <2>2. Drops(op, its) /\ op # "RET"
    BY <1>0, <1>20 DEF Operations
  <2>3. \/ Singles(its, 2)
        \/ Len(its) > 1 /\ Topmost(its).kind = "number"
    <3>1. op = "OP_SUB" => \/ Singles(its, 2)
                           \/ Len(its) > 1 /\ Topmost(its).kind = "number" /\ its[Len(its) - 1].kind = "group"
      BY <2>2, DropsIs
    <3>2. op # "OP_SUB" => Singles(its, 2)
      BY <1>20, <2>2, DropsIs
    <3> QED
      BY <3>1, <3>2
  <2>4. Singles(its, 2) => lo + 2 <= hi
    <3>1. 2 \in Nat
      OBVIOUS
    <3> QED
      BY <1>4, <3>1
  <2>5. Len(its) > 1 /\ Topmost(its).kind = "number" => lo + 2 <= hi
    <3> SUFFICES ASSUME Len(its) > 1, Topmost(its).kind = "number" PROVE lo + 2 <= hi
      OBVIOUS
    <3>1. its # <<>>
      BY NoneOnTop
    <3>2. its[Len(its) - 0].kind = "number"
      BY <1>2, <3>1, TopItem
    <3>3. 1 <= Len(its) /\ 1 \in 0 .. Len(its) /\ \A j \in 0 .. 1 - 1 : j = 0
      <4>1. Len(its) \in Nat
        BY <1>2
      <4> QED
        BY ONLY <4>1, Len(its) > 1
    <3>4. Singles(its, 1)
      BY <3>2, <3>3 DEF Singles
    <3>5. IsSeq(its) /\ 1 \in 0 .. Len(its) /\ 1 < Len(its)
      BY <1>2, <3>3
    <3>6. Less(its, 1) # <<>>
      BY ONLY <3>5, LessIs
    <3> QED
      BY <1>6, <3>4, <3>6
  <2>6. lo + 2 <= hi
    BY <2>3, <2>4, <2>5
  <2> HIDE DEF T
  <2> QED
    BY <2>1, <2>2, <2>6 DEF hi, T
<1>21. op \in Loads \cup Stores \cup Arranges \cup Jumps \cup Operations \cup Indexes \cup Calls \cup Gathers \cup {"RET"}
  BY <1>0
<1> DEFINE Goal == lo + T <= hi /\ (op = "RET" => hi = lo + 1)
<1>22. CASE op \in Stores
  <2>1. op \in {"ST_VAR", "ST_UPVAL"} \/ op \in {"ST_ARG", "REF_PUT"}
    BY <1>22 DEF Stores
  <2> HIDE DEF T
  <2>2. op \in {"ST_VAR", "ST_UPVAL"} => Goal
    BY <1>14 DEF hi, T
  <2>3. op \in {"ST_ARG", "REF_PUT"} => Goal
    BY <1>19 DEF hi, T
  <2> QED
    BY <2>1, <2>2, <2>3 DEF hi, T
<1>23. CASE op \in Arranges
  <2>1. op = "POP" \/ op = "SWAP" \/ op = "ALLOC_VARS"
    BY <1>23 DEF Arranges
  <2> QED
    BY <2>1, <1>13, <1>14, <1>19
<1>24. CASE op \in Jumps
  <2>1. op = "JMP" \/ op = "JT" \/ op = "JF"
    BY <1>24 DEF Jumps
  <2> QED
    BY <2>1, <1>13, <1>14
<1>25. CASE op \in Gathers
  <2>1. op = "LIST_GATHER" \/ op = "LIST_SPILL" \/ op = "CLOSURE"
    BY <1>25 DEF Gathers
  <2> QED
    BY <2>1, <1>16, <1>17, <1>19
<1>26. CASE op \in Operations
  <2>1. \/ op \in {"OP_NOT", "OP_INCR", "OP_DEREF"}
        \/ op = "OP_RANGEINDEX"
        \/ op \in Operations \ {"OP_NOT", "OP_INCR", "OP_DEREF", "OP_RANGEINDEX"}
    BY <1>26
  <2> QED
    BY <2>1, <1>14, <1>15, <1>20
<1>27. CASE op \in Loads
  BY <1>13, <1>27
<1>28. CASE op \in Indexes
  BY <1>19, <1>28
<1>29. CASE op = "RET"
  BY <1>14, <1>29
<1> QED
  BY <1>18, <1>21, <1>22, <1>23, <1>24, <1>25, <1>26, <1>27, <1>28, <1>29

(* The variables an instruction names: the locals are those of its shape, and *)
(* the closure has as many as its block counts on.                            *)
LEMMA VariablesHeld ==
  ASSUME NEW c, NEW m, NEW k \in DOMAIN c, NEW i \in DOMAIN c[k], NEW s, Memory(c, m), Stands(c, m, k, i, s),
         Ready(c, k, i, s), s \in Shape(c)
  PROVE  /\ c[k][i].op \in {"LD_VAR", "LD_LREF", "LD_RREF", "ST_VAR", "ST_ARG"} => c[k][i].arg < Len(Fp(m).locals)
         /\ c[k][i].op \in {"LD_UPVAL", "LD_UPREF", "ST_UPVAL"} =>
               Fp(m).closure # 0 /\ c[k][i].arg < Len(m.closures[Fp(m).closure])
<1> DEFINE op == c[k][i].op
           p  == c[k][i].arg
           x  == Fp(m).closure
<1>1. op \in {"LD_VAR", "LD_LREF", "LD_RREF", "ST_VAR", "ST_ARG"} => p < Len(Fp(m).locals)
  <2> SUFFICES ASSUME op \in {"LD_VAR", "LD_LREF", "LD_RREF", "ST_VAR", "ST_ARG"} PROVE p < Len(Fp(m).locals)
    OBVIOUS
  <2>1. LocalThere(s, p)
    <3>1. op \in {"LD_VAR", "LD_LREF", "LD_RREF"} => LocalThere(s, p)
      BY ReadyIs
    <3>2. op = "ST_VAR" => LocalThere(s, p)
      BY ReadyIs
    <3>3. op = "ST_ARG" => LocalThere(s, p)
      BY ReadyIs
    <3> HIDE DEF op, p
    <3> QED
      BY <3>1, <3>2, <3>3
  <2>2. s.locals \in Nat /\ Len(Fp(m).locals) = s.locals
    BY ShapeIs DEF Stands
  <2> HIDE DEF p
  <2> QED
    BY <2>1, <2>2 DEF LocalThere
<1>2. op \in {"LD_UPVAL", "LD_UPREF", "ST_UPVAL"} => x # 0 /\ p < Len(m.closures[x])
  <2> SUFFICES ASSUME op \in {"LD_UPVAL", "LD_UPREF", "ST_UPVAL"} PROVE x # 0 /\ p < Len(m.closures[x])
    OBVIOUS
  <2>1. op \in Upvalues
    BY DEF Upvalues
  <2>2. p \in Nat
    <3>1. op \in {"LD_UPVAL", "LD_UPREF"} => p \in Nat
      BY ReadyIs
    <3>2. op = "ST_UPVAL" => p \in Nat
      BY ReadyIs
    <3> HIDE DEF op, p
    <3> QED
      BY <3>1, <3>2
  <2>3. ~Closes(c, k, 0)
    <3>1. ~(p < 0)
      BY <2>2
    <3> QED
      BY <2>1, <3>1 DEF Closes
  <2>4. x \in DOMAIN m.closures /\ Closes(c, k, Len(m.closures[x]))
    BY <2>3 DEF Stands, Supplied
  <2>5. p < Len(m.closures[x])
    BY <2>1, <2>4 DEF Closes
  <2>6. Len(m.closures) \in Nat /\ DOMAIN m.closures = 1 .. Len(m.closures)
    BY SeqDomain DEF Memory
  <2>7. x # 0
    BY <2>4, <2>6
  <2> QED
    BY <2>5, <2>7
<1> QED
  BY <1>1, <1>2

-------------------------------------------------------------------------------
(***************************************************************************)
(* The run of a script.                                                      *)
(***************************************************************************)
\* A script that runs has code that fits, and its machine is good or has ended.
MachInv ==
    /\ phase \in {"lex", "parsed", "compiled", "run", "failed"}
    /\ phase # "run" => steps = 0
    /\ phase = "run" => CodeFits(code) /\ GoodOrEnded(code, vm)

LEMMA MachInvInit == Init => MachInv
BY DEF Init, MachInv

LEMMA MachInvStep == MachInv /\ CodeFitsMachine /\ CodeFitsMachine' /\ [Next]_vars => MachInv'
<1> SUFFICES ASSUME MachInv, CodeFitsMachine, CodeFitsMachine', [Next]_vars PROVE MachInv'
  OBVIOUS
<1>1. CASE Lex
  BY <1>1 DEF Lex, MachInv
<1>2. CASE Parse
  <2>1. phase' \in {"failed", "parsed"} /\ steps' = steps /\ phase # "run"
    BY <1>2 DEF Parse
  <2> QED
    BY <2>1 DEF MachInv
<1>3. CASE Compile
  <2>1. phase' \in {"failed", "compiled"} /\ steps' = steps /\ phase # "run"
    BY <1>3 DEF Compile
  <2> QED
    BY <2>1 DEF MachInv
<1>4. CASE Emit
  <2>1. phase' \in {"failed", "run"} /\ steps' = steps /\ vm' = sbVm_initialize /\ phase # "run"
    BY <1>4 DEF Emit
  <2>2. steps' = 0
    BY <2>1 DEF MachInv
  <2>3. phase' = "run" => CodeFits(code')
    BY <2>2 DEF CodeFitsMachine
  <2>4. phase' = "run" => GoodOrEnded(code', vm')
    BY <2>1, <2>3, StartGood DEF GoodOrEnded
  <2> QED
    BY <2>1, <2>2, <2>3, <2>4 DEF MachInv
<1>5. CASE Execute
  <2>1. phase = "run" /\ phase' = phase /\ execute_instruction
    BY <1>5 DEF Execute
  <2>2. CodeFits(code) /\ GoodOrEnded(code, vm) /\ (vm.status = "running" => ArgumentsMatch)
    BY <2>1 DEF MachInv, CodeFitsMachine
  <2>3. GoodOrEnded(code, vm') /\ code' = code
    BY <2>1, <2>2, MachineStep
  <2> QED
    BY <2>1, <2>2, <2>3 DEF MachInv
<1>6. CASE UNCHANGED vars
  <2>1. phase' = phase /\ steps' = steps /\ code' = code /\ vm' = vm
    BY <1>6 DEF vars
  <2> QED
    BY <2>1 DEF MachInv
<1> QED
  BY <1>1, <1>2, <1>3, <1>4, <1>5, <1>6 DEF Next

LEMMA AlwaysMachInv == Spec /\ []CodeFitsMachine => []MachInv
BY MachInvInit, MachInvStep, PTL DEF Spec

(* What holds of a machine in front of an instruction. *)
LEMMA HeldThere ==
  ASSUME MachInv, CodeFitsMachine, phase = "run", vm.status = "running"
  PROVE  VariablesThere /\ OperandsThere
<1> DEFINE k == Fp(vm).block
           i == Fp(vm).ip
           s == ShapeAt(code, k)[i]
           op == code[k][i].op
           p == code[k][i].arg
<1>1. CodeFits(code) /\ Good(code, vm) /\ ArgumentsMatch
  BY DEF MachInv, CodeFitsMachine, GoodOrEnded
<1>2. At = code[k][i]
  BY <1>1, AtIs
<1>3. /\ k \in DOMAIN code /\ i \in DOMAIN code[k] /\ Ready(code, k, i, s) /\ Below(code, vm)
      /\ Stands(code, vm, k, i, s) /\ Memory(code, vm) /\ IsMachine(vm) /\ IsSeq(vm.vstack)
  BY <1>1, GoodIs
<1> HIDE DEF k, i, s
<1>4. s \in Shape(code)
  BY <1>3 DEF Stands
<1>5. /\ op \in {"LD_VAR", "LD_LREF", "LD_RREF", "ST_VAR", "ST_ARG"} => p < Len(Fp(vm).locals)
      /\ op \in {"LD_UPVAL", "LD_UPREF", "ST_UPVAL"} => Fp(vm).closure # 0 /\ p < Len(vm.closures[Fp(vm).closure])
  BY <1>3, <1>4, VariablesHeld
<1>6. VariablesThere
  BY <1>2, <1>5 DEF VariablesThere
<1> DEFINE lo == Fp(vm).base
           id == Fp(vm).id
<1>7. lo \in Nat /\ Laid(code, vm, id, lo, Len(vm.vstack), s.items)
  <2>1. lo \in Nat
    BY <1>3, TopFrame DEF Below
  <2> QED
    BY <1>3, <2>1 DEF Stands
<1>8. op = "ST_ARG" => Peek(vm, 0).i > 0
  BY <1>1, <1>2 DEF ArgumentsMatch
<1> HIDE DEF op, p, lo, id
<1>9. lo + Taken(vm, op, p) <= Len(vm.vstack) /\ (op = "RET" => Len(vm.vstack) = lo + 1)
  <2>1. /\ op = code[k][i].op /\ p = code[k][i].arg /\ IsMachine(vm) /\ IsSeq(vm.vstack) /\ lo \in Nat
        /\ s \in Shape(code) /\ Laid(code, vm, id, lo, Len(vm.vstack), s.items) /\ Ready(code, k, i, s)
        /\ (op = "ST_ARG" => Peek(vm, 0).i > 0)
    BY <1>3, <1>4, <1>7, <1>8 DEF op, p
  <2> QED
    BY ONLY <2>1, OperandsHeld
<1>10. op # "OUTSIDE"
  <2>1. op \in Loads \cup Stores \cup Arranges \cup Jumps \cup Operations \cup Indexes \cup Calls \cup Gathers \cup {"RET"}
    BY <1>3, ReadyIs DEF op
  <2> QED
    BY <2>1 DEF Loads, Stores, Arranges, Jumps, Operations, Indexes, Calls, Gathers
<1>11. OperandsThere
  <2>1. At.op = op /\ At.arg = p
    BY <1>2 DEF op, p
  <2> QED
    BY <1>9, <1>10, <2>1 DEF OperandsThere, lo
<1> QED
  BY <1>6, <1>11

(* The frames of a machine that can go on or has ended. *)
LEMMA TypedThere ==
  ASSUME MachInv, phase = "run"
  PROVE  vm.status \in {"running", "stopped", "panic"} /\ Typed(code, vm)
<1>1. CASE Good(code, vm)
  <2> DEFINE k == Fp(vm).block
             i == Fp(vm).ip
             s == ShapeAt(code, k)[i]
  <2>1. CodeFits(code)
    BY DEF MachInv
  <2>2. /\ k \in DOMAIN code /\ i \in Nat /\ i <= Len(code[k]) /\ i \in DOMAIN code[k]
        /\ Below(code, vm) /\ Stands(code, vm, k, i, s) /\ vm.status = "running"
    BY <1>1, <2>1, GoodIs
  <2>3. Len(code[k]) \in Nat /\ DOMAIN code[k] = 1 .. Len(code[k])
    BY <2>1, <2>2, BlockIs
  <2> HIDE DEF k, i, s
  <2>4. i \in 1 .. Len(code[k]) + 1
    BY <2>2, <2>3
  <2> QED
    BY <2>1, <2>2, <2>4, StandsTyped
<1>2. CASE ~Good(code, vm)
  BY <1>2 DEF MachInv, GoodOrEnded
<1> QED
  BY <1>1, <1>2

(* The phases follow each other, the lexer's stack holds marks, and what the *)
(* machine keeps has its shape: an address is of a variable in the heap      *)
(* (VARTYPE_HEAP in vm.c), a closure and a place in the code are there.      *)
THEOREM TypesAlwaysOK == Spec /\ []CodeFitsMachine => []TypeOK
<1>1. LexInv /\ MachInv => TypeOK
  <2> SUFFICES ASSUME LexInv, MachInv PROVE TypeOK
    OBVIOUS
  <2>1. phase \in {"lex", "parsed", "compiled", "run", "failed"}
    BY DEF MachInv
  <2>2. \A i \in DOMAIN brackets_stack : brackets_stack[i] \in Opening \cup {"G", "H", "B"}
    <3>1. brackets_stack \in Seq(Levels) /\ Levels = Opening \cup {"G", "H", "B"}
      BY DEF LexInv, Levels, Marks
    <3> QED
      BY <3>1
  <2>3. phase = "run" => vm.status \in {"running", "stopped", "panic"} /\ Typed(code, vm)
    BY TypedThere
  <2> QED
    BY <2>1, <2>2, <2>3 DEF TypeOK, Typed
<1> QED
  BY <1>1, AlwaysMachInv, LexInvInit, LexInvStep, PTL DEF Spec

(* With code that fits it, no instruction names a local its frame does not   *)
(* have or a variable its closure was not given: nothing in exec.c asks.     *)
THEOREM VariablesAlwaysThere == Spec /\ []CodeFitsMachine => []VariablesThere
<1>1. MachInv /\ CodeFitsMachine => VariablesThere
  BY HeldThere DEF VariablesThere
<1> QED
  BY <1>1, AlwaysMachInv, PTL

(* With code that fits it, no instruction takes an operand of the caller and *)
(* none is left when a function returns: nothing in exec.c asks either.      *)
THEOREM OperandsAlwaysThere == Spec /\ []CodeFitsMachine => []OperandsThere
<1>1. MachInv /\ CodeFitsMachine => OperandsThere
  BY HeldThere DEF OperandsThere
<1> QED
  BY <1>1, AlwaysMachInv, PTL
================================================================================
