--------------------------- MODULE CFunctionsProofs ---------------------------
(*****************************************************************************)
(* Proofs about CFunctions.tla for every set of texts and every bound: in    *)
(* whatever order methods, built-in functions and the script call each       *)
(* other, the operand stack holds what the calls in progress need, callbacks *)
(* get the elements they are called for, and every call delivers what it     *)
(* promises.                                                                 *)
(*                                                                           *)
(* A C function keeps its state in the locals of its frame and on the        *)
(* operand stack, where the parts of all calls in progress lie one after the *)
(* other.  Mach(F, C, fr, c, s, its) is the machine with the calls F, C in   *)
(* progress, the call c running in the frame fr on top of them with s as its *)
(* part of the stack, and the lists its.  Chain says that every call below   *)
(* the running one waits for the one above it with what it needs to go on;   *)
(* Good, that the running call also has its own part.  It is what a call     *)
(* finds when it is entered, what it leaves when it ends, and, for every     *)
(* value of the constants, what every step of a C function preserves:        *)
(* Outcome says what a step makes of a good machine, a good machine in the   *)
(* same call or in one it called, a good machine in which the call has ended *)
(* and kept its promise, or one that stopped because of a fault of the       *)
(* script.                                                                   *)
(*****************************************************************************)
EXTENDS CFunctions, WellFoundedInduction, TLAPS

-------------------------------------------------------------------------------
(*****************************************************************************)
(* FlattenSeq puts the parts of the stack one after the other. It is a       *)
(* CHOOSE of a function; that there is one, and what it gives for a sequence *)
(* that is one longer, is proved by the least element for which it would     *)
(* fail.                                                                     *)
(*****************************************************************************)
(* A set of naturals has a least element. *)
LEMMA LeastElement ==
  ASSUME NEW S \in SUBSET Nat, S # {}
  PROVE  \E j \in S : \A l \in S : j <= l
<1>1. PICK j \in S : \A l \in S : ~(<<l, j>> \in OpToRel(<, Nat))
  BY NatLessThanWellFounded, WFMin
<1>2. \A l \in S : ~(l < j)
  BY <1>1 DEF OpToRel
<1> QED
  BY <1>2

(* What FlattenSeq computes: the sequences one after the other. *)
Flattens(g, ss) ==
  g = [i \in 1 .. Len(ss) |-> IF i = 1 THEN ss[i] ELSE g[i - 1] \o ss[i]]
Joined(g, ss, i) == g[i] = IF i = 1 THEN ss[i] ELSE g[i - 1] \o ss[i]
JoinedTo(g, ss, n) == \A i \in 1 .. n : Joined(g, ss, i)

(* The first n results of FlattenSeq *)
Flat(g, ss, n, V) == g \in [1 .. n -> Seq(V)] /\ JoinedTo(g, ss, n)

(* One result more can be computed. *)
LEMMA FlatLonger ==
  ASSUME NEW V, NEW ss \in Seq(Seq(V)), NEW n \in 1 .. Len(ss), NEW g, Flat(g, ss, n - 1, V)
  PROVE  \E h : Flat(h, ss, n, V)
<1>1. PICK x : x = IF n = 1 THEN ss[n] ELSE g[n - 1] \o ss[n]
  OBVIOUS
<1>2. x \in Seq(V)
  <2>1. ss[n] \in Seq(V)
    OBVIOUS
  <2>2. CASE n = 1
    BY <1>1, <2>1, <2>2
  <2>3. CASE n # 1
    <3>1. n - 1 \in 1 .. n - 1
      BY <2>3
    <3>2. g[n - 1] \in Seq(V)
      BY <3>1 DEF Flat, JoinedTo
    <3>3. x = g[n - 1] \o ss[n]
      BY <1>1, <2>3
    <3>4. \A a, b \in Seq(V) : a \o b \in Seq(V)
      OBVIOUS
    <3> QED
      BY <2>1, <3>2, <3>3, <3>4
  <2> QED
    BY <2>2, <2>3
<1>3. PICK h : h = [i \in 1 .. n |-> IF i = n THEN x ELSE g[i]]
  OBVIOUS
<1>4. h[n] = x /\ \A i \in 1 .. n - 1 : i \in 1 .. n /\ i # n /\ h[i] = g[i] /\ h[i] \in Seq(V)
  BY <1>3 DEF Flat, JoinedTo
<1>5. h \in [1 .. n -> Seq(V)]
  <2>1. \A i \in 1 .. n : i = n \/ i \in 1 .. n - 1
    OBVIOUS
  <2>2. \A i \in 1 .. n : h[i] \in Seq(V)
    BY <1>2, <1>4, <2>1
  <2> QED
    BY <1>3, <2>2
<1>6. ASSUME NEW i \in 1 .. n PROVE Joined(h, ss, i)
  <2>1. CASE i = n
    <3>1. CASE n = 1
      BY <1>1, <1>4, <2>1, <3>1 DEF Joined
    <3>2. CASE n # 1
      <4>1. n - 1 \in 1 .. n - 1
        BY <3>2
      <4>2. h[n - 1] = g[n - 1]
        BY <1>4, <4>1
      <4>3. h[n] = g[n - 1] \o ss[n]
        BY <1>1, <1>4, <3>2
      <4> QED
        BY <2>1, <3>2, <4>2, <4>3, Zenon DEF Joined
    <3> QED
      BY <3>1, <3>2
  <2>2. CASE i \in 1 .. n - 1
    <3>1. Joined(g, ss, i)
      BY <2>2 DEF Flat, JoinedTo
    <3>2. h[i] = g[i]
      BY <1>4, <2>2
    <3>3. CASE i = 1
      BY <3>1, <3>2, <3>3 DEF Joined
    <3>4. CASE i # 1
      <4>1. i - 1 \in 1 .. n - 1
        BY <2>2, <3>4
      <4>2. h[i - 1] = g[i - 1]
        BY <1>4, <4>1
      <4> QED
        BY <3>1, <3>2, <3>4, <4>2, Zenon DEF Joined
    <3> QED
      BY <3>3, <3>4
  <2> QED
    BY <2>1, <2>2
<1> QED
  BY <1>5, <1>6 DEF Flat, JoinedTo

(* All results can be computed. *)
LEMMA FlatExists ==
  ASSUME NEW V, NEW ss \in Seq(Seq(V))
  PROVE  \A n \in 0 .. Len(ss) : \E g : Flat(g, ss, n, V)
<1> DEFINE Bad == {n \in 0 .. Len(ss) : ~(\E g : Flat(g, ss, n, V))}
<1>1. SUFFICES ASSUME Bad # {} PROVE FALSE
  OBVIOUS
<1>2. PICK n \in Bad : \A l \in Bad : n <= l
  <2>1. Bad \in SUBSET Nat
    OBVIOUS
  <2> HIDE DEF Bad
  <2> QED
    BY <1>1, <2>1, LeastElement
<1>3. n \in 0 .. Len(ss) /\ ~(\E g : Flat(g, ss, n, V))
  OBVIOUS
<1>4. n # 0
  <2>1. PICK g : g = [i \in 1 .. 0 |-> <<>>]
    OBVIOUS
  <2>2. g \in [1 .. 0 -> Seq(V)] /\ 1 .. 0 = {}
    BY <2>1
  <2>3. Flat(g, ss, 0, V)
    BY <2>2 DEF Flat, JoinedTo
  <2> QED
    BY <1>3, <2>3
<1>5. n - 1 \in 0 .. Len(ss) /\ n \in 1 .. Len(ss) /\ ~(n <= n - 1)
  BY <1>3, <1>4
<1>6. n - 1 \notin Bad
  <2> HIDE DEF Bad
  <2> QED
    BY <1>2, <1>5
<1>7. PICK g : Flat(g, ss, n - 1, V)
  BY <1>5, <1>6
<1> QED
  BY <1>3, <1>5, <1>7, FlatLonger

(* Two such functions agree where both are defined. *)
LEMMA FlatAgree ==
  ASSUME NEW n \in Nat, NEW ss, NEW g, NEW h, JoinedTo(g, ss, n), JoinedTo(h, ss, n)
  PROVE  \A i \in 1 .. n : g[i] = h[i]
<1> DEFINE Bad == {i \in 1 .. n : g[i] # h[i]}
<1>1. SUFFICES ASSUME Bad # {} PROVE FALSE
  OBVIOUS
<1>2. PICK j \in Bad : \A l \in Bad : j <= l
  <2>1. Bad \in SUBSET Nat
    OBVIOUS
  <2> HIDE DEF Bad
  <2> QED
    BY <1>1, <2>1, LeastElement
<1>3. j \in 1 .. n /\ g[j] # h[j]
  OBVIOUS
<1>4. Joined(g, ss, j) /\ Joined(h, ss, j)
  BY <1>3 DEF JoinedTo
<1>5. j # 1
  BY <1>3, <1>4 DEF Joined
<1>6. j - 1 \in 1 .. n /\ ~(j <= j - 1)
  BY <1>3, <1>5
<1>7. j - 1 \notin Bad
  <2> HIDE DEF Bad
  <2> QED
    BY <1>2, <1>6
<1>8. g[j - 1] = h[j - 1]
  BY <1>6, <1>7
<1> QED
  BY <1>3, <1>4, <1>5, <1>8, Zenon DEF Joined

(* FlattenSeq computes such results. *)
LEMMA FlattenIs ==
  ASSUME NEW V, NEW ss \in Seq(Seq(V)), Len(ss) # 0
  PROVE  \E g : Flat(g, ss, Len(ss), V) /\ FlattenSeq(ss) = g[Len(ss)]
<1> DEFINE flat == CHOOSE g : Flattens(g, ss)
<1>1. FlattenSeq(ss) = flat[Len(ss)]
  BY DEF FlattenSeq, Flattens
<1>2. PICK g : Flat(g, ss, Len(ss), V)
  <2>1. Len(ss) \in 0 .. Len(ss)
    OBVIOUS
  <2> QED
    BY <2>1, FlatExists
<1>3. Flattens(g, ss)
  BY <1>2 DEF Flat, JoinedTo, Joined, Flattens
<1>4. Flattens(flat, ss)
  BY <1>3
<1> HIDE DEF flat
<1>5. JoinedTo(flat, ss, Len(ss))
  BY <1>4 DEF Flattens, JoinedTo, Joined
<1>6. \A i \in 1 .. Len(ss) : flat[i] = g[i]
  <2>1. Len(ss) \in Nat
    OBVIOUS
  <2>2. JoinedTo(g, ss, Len(ss))
    BY <1>2 DEF Flat, JoinedTo
  <2> QED
    BY <1>5, <2>1, <2>2, FlatAgree
<1>7. Len(ss) \in 1 .. Len(ss)
  OBVIOUS
<1> QED
  BY <1>1, <1>2, <1>6, <1>7

(* Nothing is flattened to nothing. *)
LEMMA FlattenEmpty == FlattenSeq(<<>>) = <<>>
BY DEF FlattenSeq

(* One sequence more is appended to what the others flatten to. *)
LEMMA FlattenAppend ==
  ASSUME NEW V, NEW ss \in Seq(Seq(V)), NEW s \in Seq(V)
  PROVE  /\ FlattenSeq(ss) \in Seq(V)
         /\ FlattenSeq(Append(ss, s)) = FlattenSeq(ss) \o s
<1>1. PICK tt : tt = Append(ss, s)
  OBVIOUS
<1>2. /\ tt \in Seq(Seq(V)) /\ Len(tt) = Len(ss) + 1 /\ Len(ss) \in Nat
      /\ tt[Len(ss) + 1] = s /\ \A i \in 1 .. Len(ss) : tt[i] = ss[i]
  BY <1>1
<1>3. PICK h : Flat(h, tt, Len(tt), V) /\ FlattenSeq(tt) = h[Len(tt)]
  BY <1>2, FlattenIs
<1>4. CASE Len(ss) = 0
  <2>1. ss = <<>>
    BY <1>4
  <2>2. FlattenSeq(ss) = <<>>
    BY <2>1, FlattenEmpty
  <2>3. Len(tt) = 1 /\ Joined(h, tt, 1)
    BY <1>2, <1>3, <1>4 DEF Flat, JoinedTo
  <2>4. FlattenSeq(tt) = s
    BY <1>2, <1>3, <1>4, <2>3 DEF Joined
  <2>5. <<>> \in Seq(V) /\ <<>> \o s = s
    OBVIOUS
  <2> QED
    BY <1>1, <2>2, <2>4, <2>5
<1>5. CASE Len(ss) # 0
  <2>1. PICK g : Flat(g, ss, Len(ss), V) /\ FlattenSeq(ss) = g[Len(ss)]
    BY <1>5, FlattenIs
  <2>2. ASSUME NEW i \in 1 .. Len(ss) PROVE Joined(h, ss, i)
    <3>1. i \in 1 .. Len(tt) /\ tt[i] = ss[i]
      BY <1>2
    <3>2. Joined(h, tt, i)
      BY <1>3, <3>1 DEF Flat, JoinedTo
    <3> QED
      BY <3>1, <3>2, Zenon DEF Joined
  <2>3. \A i \in 1 .. Len(ss) : g[i] = h[i]
    <3>1. JoinedTo(g, ss, Len(ss))
      BY <2>1 DEF Flat, JoinedTo
    <3>2. Len(ss) \in Nat /\ JoinedTo(h, ss, Len(ss))
      BY <1>2, <2>2 DEF JoinedTo
    <3> QED
      BY <3>1, <3>2, FlatAgree
  <2>4. Len(ss) \in 1 .. Len(ss) /\ Len(tt) \in 1 .. Len(tt) /\ Len(tt) # 1 /\ Len(tt) - 1 = Len(ss)
    BY <1>2, <1>5
  <2>5. Joined(h, tt, Len(tt))
    BY <1>3, <2>4 DEF Flat, JoinedTo
  <2>6. FlattenSeq(tt) = h[Len(ss)] \o s
    BY <1>2, <1>3, <2>4, <2>5, Zenon DEF Joined
  <2>7. FlattenSeq(ss) \in Seq(V) /\ h[Len(ss)] = FlattenSeq(ss)
    BY <2>1, <2>3, <2>4 DEF Flat, JoinedTo
  <2> QED
    BY <1>1, <2>6, <2>7
<1> QED
  BY <1>4, <1>5

-------------------------------------------------------------------------------
(*****************************************************************************)
(* The machine in the middle of calls, and what its stack operations do.     *)
(*****************************************************************************)
(* The values, frames and calls there can be *)
Names == ListFunctions \cup {"block", "println", "print", "again"}
Val ==
  {Nil, Convert, Block, PrintLn, Boolean(TRUE), Boolean(FALSE), Ref(Block)} \cup Texting
    \cup {Integer(n) : n \in Nat} \cup {List(l) : l \in Nat} \cup {Bound(f, Mine) : f \in Methods}
FrameRec == [c_func : Names, fresh : BOOLEAN, locals : Seq(Val \cup Nat)]
CallRec == [args : Seq(Val), on : Val, asked : Seq(Val), given : Seq(Val)]

(* The part of the stack a call has, and the parts of all of them *)
Held(fr, c) == Holds(fr.c_func, fr.fresh, c)
Stack(F, C) == FlattenSeq([k \in 1 .. Len(F) |-> Held(F[k], C[k])])

(* A machine, and one with the calls F, C below the call c in the frame    *)
(* fr, whose part of the stack is s                                        *)
State(v, f, i, p, c) == [vstack |-> v, frames |-> f, items |-> i, panic |-> p, calls |-> c]
Mach(F, C, fr, c, s, its) ==
  State(Stack(F, C) \o s, Append(F, fr), its, "no", Append(C, c))

(* Frames and calls that fit each other, each with a part of the stack *)
Under(F, C) ==
  /\ F \in Seq(FrameRec) /\ C \in Seq(CallRec) /\ Len(F) = Len(C) /\ Stack(F, C) \in Seq(Val)
  /\ \A k \in 1 .. Len(F) : Held(F[k], C[k]) \in Seq(Val)

(* Sequences with the same elements are the same. *)
LEMMA SameSeq ==
  ASSUME NEW V, NEW s \in Seq(V), NEW t \in Seq(V), Len(s) = Len(t),
         \A i \in 1 .. Len(s) : s[i] = t[i]
  PROVE  s = t
OBVIOUS

(* A sequence that got an element *)
LEMMA Ends ==
  ASSUME NEW V, NEW s \in Seq(V), NEW v \in V
  PROVE  /\ Append(s, v) \in Seq(V) /\ Len(Append(s, v)) = Len(s) + 1 /\ Append(s, v) # <<>>
         /\ Last(Append(s, v)) = v /\ Front(Append(s, v)) = s
         /\ \A w \in V : [Append(s, v) EXCEPT ![Len(s) + 1] = w] = Append(s, w)
<1>1. PICK t : t = Append(s, v)
  OBVIOUS
<1>2. /\ t \in Seq(V) /\ Len(t) = Len(s) + 1 /\ Len(s) \in Nat /\ t[Len(s) + 1] = v
      /\ \A i \in 1 .. Len(s) : t[i] = s[i]
  BY <1>1
<1>3. t # <<>> /\ Last(t) = v
  BY <1>2 DEF Last
<1>4. Front(t) = s
  <2>1. Len(t) - 1 = Len(s)
    BY <1>2
  <2>2. PICK u : u = SubSeq(t, 1, Len(s))
    OBVIOUS
  <2>3. u \in Seq(V) /\ Len(u) = Len(s) /\ \A i \in 1 .. Len(s) : u[i] = s[i]
    BY <1>2, <2>2
  <2>4. u = s
    BY <2>3, SameSeq
  <2> QED
    BY <2>1, <2>2, <2>4 DEF Front
<1>5. ASSUME NEW w \in V PROVE [t EXCEPT ![Len(s) + 1] = w] = Append(s, w)
  <2>1. PICK u : u = [t EXCEPT ![Len(s) + 1] = w]
    OBVIOUS
  <2>2. PICK x : x = Append(s, w)
    OBVIOUS
  <2>3. x \in Seq(V) /\ Len(x) = Len(s) + 1 /\ x[Len(s) + 1] = w /\ \A i \in 1 .. Len(s) : x[i] = s[i]
    BY <2>2
  <2>4. u \in Seq(V) /\ Len(u) = Len(s) + 1 /\ u[Len(s) + 1] = w /\ \A i \in 1 .. Len(s) : u[i] = s[i]
    BY <1>2, <2>1
  <2>5. \A i \in 1 .. Len(s) + 1 : i = Len(s) + 1 \/ i \in 1 .. Len(s)
    BY <1>2
  <2>6. u = x
    BY <2>3, <2>4, <2>5, SameSeq
  <2> QED
    BY <2>1, <2>2, <2>6
<1> QED
  BY <1>1, <1>2, <1>3, <1>4, <1>5

(* A sequence is its front and its last element. *)
LEMMA Split ==
  ASSUME NEW V, NEW s \in Seq(V), s # <<>>
  PROVE  /\ Front(s) \in Seq(V) /\ Last(s) \in V /\ Len(Front(s)) = Len(s) - 1
         /\ s = Append(Front(s), Last(s))
<1>1. Len(s) \in Nat /\ Len(s) # 0
  OBVIOUS
<1>2. Front(s) \in Seq(V) /\ Len(Front(s)) = Len(s) - 1 /\ \A i \in 1 .. Len(s) - 1 : Front(s)[i] = s[i]
  <2>1. PICK u : u = SubSeq(s, 1, Len(s) - 1)
    OBVIOUS
  <2>2. Len(s) - 1 \in 0 .. Len(s)
    BY <1>1
  <2>3. u \in Seq(V)
    BY <2>1, <2>2
  <2>4. Len(u) = Len(s) - 1
    <3>1. PICK n \in Nat : n = Len(s) - 1
      BY <2>2
    <3>2. u = [i \in 1 .. n |-> s[i]]
      BY <2>1, <2>2, <3>1
    <3> QED
      BY <2>3, <3>1, <3>2
  <2>5. \A i \in 1 .. Len(s) - 1 : u[i] = s[i]
    BY <1>1, <2>1, <2>2
  <2> QED
    BY <2>1, <2>3, <2>4, <2>5 DEF Front
<1>3. Last(s) \in V
  BY <1>1 DEF Last
<1>4. PICK t : t = Append(Front(s), Last(s))
  OBVIOUS
<1>5. t \in Seq(V) /\ Len(t) = Len(s) /\ \A i \in 1 .. Len(s) : t[i] = s[i]
  BY <1>1, <1>2, <1>3, <1>4 DEF Last
<1> QED
  BY <1>2, <1>3, <1>4, <1>5, SameSeq

(* Two sequences, one after the other *)
LEMMA Concat ==
  ASSUME NEW V, NEW s \in Seq(V), NEW t \in Seq(V)
  PROVE  /\ s \o t \in Seq(V) /\ Len(s \o t) = Len(s) + Len(t)
         /\ \A i \in 1 .. Len(s) : (s \o t)[i] = s[i]
         /\ \A i \in 1 .. Len(t) : (s \o t)[Len(s) + i] = t[i]
         /\ SubSeq(s \o t, 1, Len(s)) = s
<1>1. PICK u : u = s \o t
  OBVIOUS
<1>2. /\ u \in Seq(V) /\ Len(u) = Len(s) + Len(t) /\ Len(s) \in Nat /\ Len(t) \in Nat
      /\ \A i \in 1 .. Len(s) : u[i] = s[i]
      /\ \A i \in 1 .. Len(t) : u[Len(s) + i] = t[i]
  BY <1>1
<1>3. PICK w : w = SubSeq(u, 1, Len(s))
  OBVIOUS
<1>4. w \in Seq(V) /\ Len(w) = Len(s) /\ \A i \in 1 .. Len(s) : w[i] = s[i]
  BY <1>2, <1>3
<1>5. w = s
  BY <1>4, SameSeq
<1> QED
  BY <1>1, <1>2, <1>3, <1>5

(* Joining sequences is associative. *)
LEMMA Assoc ==
  ASSUME NEW V, NEW s \in Seq(V), NEW t \in Seq(V), NEW u \in Seq(V)
  PROVE  (s \o t) \o u = s \o (t \o u)
OBVIOUS

(* Reverse turns a sequence of values round. *)
LEMMA Reversed ==
  ASSUME NEW V, NEW s \in Seq(V)
  PROVE  /\ Reverse(s) \in Seq(V) /\ Len(Reverse(s)) = Len(s)
         /\ \A i \in 1 .. Len(s) : Reverse(s)[i] = s[Len(s) - i + 1]
BY DEF Reverse

(* Pushed on a state *)
LEMMA StatePushed ==
  ASSUME NEW v, NEW f, NEW i, NEW p, NEW k, NEW t
  PROVE  Pushed(State(v, f, i, p, k), t) = State(v \o t, f, i, p, k)
BY DEF Pushed, State

(* Popped on a state *)
LEMMA StatePopped ==
  ASSUME NEW v, NEW f, NEW i, NEW p, NEW k, NEW n
  PROVE  Popped(State(v, f, i, p, k), n) = State(SubSeq(v, 1, Len(v) - n), f, i, p, k)
<1>1. PICK w : w = SubSeq(v, 1, Len(v) - n)
  OBVIOUS
<1>2. State(v, f, i, p, k).vstack = v
  BY DEF State
<1>3. Popped(State(v, f, i, p, k), n) = [State(v, f, i, p, k) EXCEPT !.vstack = w]
  BY <1>1, <1>2 DEF Popped
<1>4. [State(v, f, i, p, k) EXCEPT !.vstack = w] = State(w, f, i, p, k)
  BY DEF State
<1> QED
  BY <1>1, <1>3, <1>4

(* What is pushed grows the part of the running call. *)
LEMMA PushedTo ==
  ASSUME NEW F, NEW C, Under(F, C), NEW fr, NEW c, NEW its, NEW s \in Seq(Val), NEW t \in Seq(Val)
  PROVE  Pushed(Mach(F, C, fr, c, s, its), t) = Mach(F, C, fr, c, s \o t, its)
<1>1. PICK v : v = Stack(F, C) \o s
  OBVIOUS
<1>2. PICK w : w = Stack(F, C) \o (s \o t)
  OBVIOUS
<1>3. w = v \o t
  <2>1. PICK q \in Seq(Val) : q = Stack(F, C)
    BY DEF Under
  <2>2. (q \o s) \o t = q \o (s \o t)
    BY Assoc
  <2> QED
    BY <1>1, <1>2, <2>1, <2>2
<1>4. Mach(F, C, fr, c, s, its) = State(v, Append(F, fr), its, "no", Append(C, c))
  BY <1>1 DEF Mach
<1>5. Mach(F, C, fr, c, s \o t, its) = State(w, Append(F, fr), its, "no", Append(C, c))
  BY <1>2 DEF Mach
<1> QED
  BY <1>3, <1>4, <1>5, StatePushed

(* What is popped shrinks it. *)
LEMMA PoppedTo ==
  ASSUME NEW F, NEW C, Under(F, C), NEW fr, NEW c, NEW its, NEW s \in Seq(Val), NEW t \in Seq(Val)
  PROVE  Popped(Mach(F, C, fr, c, s \o t, its), Len(t)) = Mach(F, C, fr, c, s, its)
<1>1. PICK v : v = Stack(F, C) \o s
  OBVIOUS
<1>2. PICK w : w = Stack(F, C) \o (s \o t)
  OBVIOUS
<1>3. w = v \o t /\ v \in Seq(Val)
  <2>1. PICK q \in Seq(Val) : q = Stack(F, C)
    BY DEF Under
  <2>2. (q \o s) \o t = q \o (s \o t)
    BY Assoc
  <2>3. q \o s \in Seq(Val)
    BY Concat
  <2> QED
    BY <1>1, <1>2, <2>1, <2>2, <2>3
<1>4. Mach(F, C, fr, c, s, its) = State(v, Append(F, fr), its, "no", Append(C, c))
  BY <1>1 DEF Mach
<1>5. Mach(F, C, fr, c, s \o t, its) = State(w, Append(F, fr), its, "no", Append(C, c))
  BY <1>2 DEF Mach
<1>6. SubSeq(w, 1, Len(w) - Len(t)) = v
  <2>1. Len(v) \in Nat /\ Len(t) \in Nat /\ Len(v \o t) = Len(v) + Len(t) /\ SubSeq(v \o t, 1, Len(v)) = v
    BY <1>3, Concat
  <2>2. Len(w) - Len(t) = Len(v)
    BY <1>3, <2>1
  <2> QED
    BY <1>3, <2>1, <2>2
<1>7. \A f, k : Popped(State(w, f, its, "no", k), Len(t)) = State(SubSeq(w, 1, Len(w) - Len(t)), f, its, "no", k)
  BY StatePopped
<1>8. \A f, k : Popped(State(w, f, its, "no", k), Len(t)) = State(v, f, its, "no", k)
  BY <1>6, <1>7
<1> QED
  BY <1>4, <1>5, <1>8

(* Peek finds what is on top of it. *)
LEMMA PeekAt ==
  ASSUME NEW F, NEW C, Under(F, C), NEW fr, NEW c, NEW its, NEW s \in Seq(Val), NEW t \in Seq(Val),
         NEW k \in 0 .. Len(t) - 1
  PROVE  Peek(Mach(F, C, fr, c, s \o t, its), k) = t[Len(t) - k]
<1>1. PICK st : st = Stack(F, C) /\ st \in Seq(Val)
  BY DEF Under
<1>2. PICK w : w = st \o (s \o t)
  OBVIOUS
<1>3. Len(s) \in Nat /\ Len(t) \in Nat /\ Len(st) \in Nat /\ Len(t) - k \in 1 .. Len(t)
      /\ Len(s \o t) = Len(s) + Len(t) /\ s \o t \in Seq(Val)
  BY <1>1, Concat
<1>4. Len(w) = Len(st) + (Len(s) + Len(t)) /\ \A i \in 1 .. Len(s) + Len(t) : w[Len(st) + i] = (s \o t)[i]
  BY <1>1, <1>2, <1>3, Concat
<1>5. Len(w) - k = Len(st) + (Len(s) + (Len(t) - k)) /\ Len(s) + (Len(t) - k) \in 1 .. Len(s) + Len(t)
  BY <1>3, <1>4
<1>6. w[Len(w) - k] = (s \o t)[Len(s) + (Len(t) - k)]
  BY <1>4, <1>5
<1>7. (s \o t)[Len(s) + (Len(t) - k)] = t[Len(t) - k]
  BY <1>3, Concat
<1>8. Mach(F, C, fr, c, s \o t, its).vstack = w
  BY <1>1, <1>2 DEF Mach, State
<1> QED
  BY <1>6, <1>7, <1>8 DEF Peek

(* What sbVm_call_func takes off the stack is what was put there. *)
LEMMA TopArgsAt ==
  ASSUME NEW F, NEW C, Under(F, C), NEW fr, NEW c, NEW its, NEW s \in Seq(Val), NEW t \in Seq(Val)
  PROVE  TopArgs(Mach(F, C, fr, c, s \o Reverse(t), its), Len(t)) = t
<1>1. Reverse(t) \in Seq(Val) /\ Len(Reverse(t)) = Len(t) /\ Len(t) \in Nat
      /\ \A i \in 1 .. Len(t) : Reverse(t)[i] = t[Len(t) - i + 1]
  BY Reversed
<1>2. ASSUME NEW k \in 1 .. Len(t) PROVE Peek(Mach(F, C, fr, c, s \o Reverse(t), its), k - 1) = t[k]
  <2>1. k - 1 \in 0 .. Len(Reverse(t)) - 1
    BY <1>1
  <2>2. Peek(Mach(F, C, fr, c, s \o Reverse(t), its), k - 1) = Reverse(t)[Len(Reverse(t)) - (k - 1)]
    BY <1>1, <2>1, PeekAt
  <2>3. Len(t) - (k - 1) \in 1 .. Len(t) /\ Len(t) - (Len(t) - (k - 1)) + 1 = k
    BY <1>1
  <2> QED
    BY <1>1, <2>2, <2>3
<1>3. PICK u : u = TopArgs(Mach(F, C, fr, c, s \o Reverse(t), its), Len(t))
  OBVIOUS
<1>4. u \in Seq(Val) /\ Len(u) = Len(t) /\ \A i \in 1 .. Len(t) : u[i] = t[i]
  BY <1>1, <1>2, <1>3 DEF TopArgs
<1> QED
  BY <1>3, <1>4, SameSeq

-------------------------------------------------------------------------------
(*****************************************************************************)
(* Operators that change the frame or the call on top.                       *)
(*****************************************************************************)
(* A frame that was entered, and a call with its history *)
Begun(f, locals) == [c_func |-> f, fresh |-> FALSE, locals |-> locals]
CallOf(args, on, asked, given) == [args |-> args, on |-> on, asked |-> asked, given |-> given]

(* A change of the top frame, or of the top call *)
TopOfFrames(f, F, fr) == F \in Seq(FrameRec) /\ fr \in FrameRec /\ f = Append(F, fr)

(* The last frame can be replaced. *)
LEMMA TopFrame ==
  ASSUME NEW F, NEW fr, NEW f, TopOfFrames(f, F, fr)
  PROVE  /\ Len(f) = Len(F) + 1 /\ f[Len(f)] = fr /\ Last(f) = fr /\ Len(f) \in DOMAIN f
         /\ \A g \in FrameRec : [f EXCEPT ![Len(f)] = g] = Append(F, g)
BY Ends DEF Last, TopOfFrames

TopOfCalls(k, C, c) == C \in Seq(CallRec) /\ c \in CallRec /\ k = Append(C, c)

(* The last call can be replaced. *)
LEMMA TopCall ==
  ASSUME NEW C, NEW c, NEW k, TopOfCalls(k, C, c)
  PROVE  /\ Len(k) = Len(C) + 1 /\ k[Len(k)] = c /\ Last(k) = c /\ Len(k) \in DOMAIN k
         /\ \A d \in CallRec : [k EXCEPT ![Len(k)] = d] = Append(C, d)
BY Ends DEF Last, TopOfCalls

(* What runs is the last frame and the last call. *)
LEMMA LastAt ==
  ASSUME NEW F, NEW C, Under(F, C), NEW fr \in FrameRec, NEW c \in CallRec, NEW its, NEW s,
         NEW m, m = Mach(F, C, fr, c, s, its)
  PROVE  /\ Last(m.frames) = fr /\ Last(m.calls) = c /\ m.items = its
         /\ Len(m.frames) = Len(F) + 1 /\ Len(m.calls) = Len(F) + 1
         /\ m.panic = "no" /\ m.vstack = Stack(F, C) \o s
<1>1. F \in Seq(FrameRec) /\ C \in Seq(CallRec) /\ Len(F) = Len(C)
  BY DEF Under
<1>2. m.frames = Append(F, fr) /\ m.calls = Append(C, c) /\ m.items = its /\ m.panic = "no"
      /\ m.vstack = Stack(F, C) \o s
  BY DEF Mach, State
<1>3. Last(m.frames) = fr /\ Len(m.frames) = Len(F) + 1
  <2>1. TopOfFrames(m.frames, F, fr)
    BY <1>1, <1>2 DEF TopOfFrames
  <2> QED
    BY <2>1, TopFrame
<1>4. Last(m.calls) = c /\ Len(m.calls) = Len(C) + 1
  <2>1. TopOfCalls(m.calls, C, c)
    BY <1>1, <1>2 DEF TopOfCalls
  <2> QED
    BY <2>1, TopCall
<1> QED
  BY <1>1, <1>2, <1>3, <1>4

(* Its locals are those of its frame. *)
LEMMA LocalAt ==
  ASSUME NEW F, NEW C, Under(F, C), NEW fr \in FrameRec, NEW c \in CallRec, NEW its, NEW s, NEW n
  PROVE  Local(Mach(F, C, fr, c, s, its), n) = fr.locals[n + 1]
<1>1. PICK m : m = Mach(F, C, fr, c, s, its)
  OBVIOUS
<1>2. Last(m.frames) = fr
  BY <1>1, LastAt
<1> QED
  BY <1>1, <1>2 DEF Local

(* Operators that change the top frame or the top call *)
NewTop(f, fr, g, h) ==
  /\ Len(f) \in DOMAIN f /\ f[Len(f)] = fr /\ fr \in FrameRec /\ h = [f EXCEPT ![Len(f)] = g]
NewCall(k, c, d, h) ==
  /\ Len(k) \in DOMAIN k /\ k[Len(k)] = c /\ c \in CallRec /\ h = [k EXCEPT ![Len(k)] = d]

(* WithLocals on a state *)
LEMMA StateLocals ==
  ASSUME NEW v, NEW f, NEW fr, NEW h, NEW i, NEW p, NEW k, NEW L,
         NewTop(f, fr, Begun(fr.c_func, L), h)
  PROVE  WithLocals(State(v, f, i, p, k), L) = State(v, h, i, p, k)
<1>1. PICK m : m = State(v, f, i, p, k)
  OBVIOUS
<1>2. PICK l : l = Len(f)
  OBVIOUS
<1>3. m.frames = f
  BY <1>1 DEF State
<1>4. WithLocals(m, L) = [m EXCEPT !.frames[l].locals = L, !.frames[l].fresh = FALSE]
  BY <1>2, <1>3, Zenon DEF WithLocals
<1>5. PICK g : g = [f[l] EXCEPT !.locals = L, !.fresh = FALSE]
  OBVIOUS
<1>6. h = [f EXCEPT ![l] = g] /\ l \in DOMAIN f /\ f[l] \in FrameRec
  <2>1. l \in DOMAIN f /\ f[l] = fr /\ fr \in FrameRec /\ h = [f EXCEPT ![l] = Begun(fr.c_func, L)]
    BY <1>2 DEF NewTop
  <2>2. g = Begun(fr.c_func, L)
    BY <1>5, <2>1 DEF FrameRec, Begun
  <2> QED
    BY <2>1, <2>2
<1>7. [m EXCEPT !.frames[l].locals = L, !.frames[l].fresh = FALSE] = [m EXCEPT !.frames = h]
  BY <1>1, <1>3, <1>5, <1>6 DEF State
<1>8. [m EXCEPT !.frames = h] = State(v, h, i, p, k)
  BY <1>1 DEF State
<1> QED
  BY <1>1, <1>4, <1>7, <1>8

(* WithLocal on a state *)
LEMMA StateLocal ==
  ASSUME NEW v, NEW f, NEW fr, NEW h, NEW i, NEW p, NEW k, NEW n, NEW x,
         NewTop(f, fr, [fr EXCEPT !.locals = [fr.locals EXCEPT ![n + 1] = x]], h)
  PROVE  WithLocal(State(v, f, i, p, k), n, x) = State(v, h, i, p, k)
<1>1. PICK m : m = State(v, f, i, p, k)
  OBVIOUS
<1>2. PICK l : l = Len(f)
  OBVIOUS
<1>3. PICK j : j = n + 1
  OBVIOUS
<1>4. m.frames = f
  BY <1>1 DEF State
<1>5. WithLocal(m, n, x) = [m EXCEPT !.frames[l].locals[j] = x]
  BY <1>2, <1>3, <1>4, Zenon DEF WithLocal
<1>6. PICK L : L = [f[l].locals EXCEPT ![j] = x]
  OBVIOUS
<1>7. PICK g : g = [f[l] EXCEPT !.locals = L]
  OBVIOUS
<1>8. h = [f EXCEPT ![l] = g] /\ l \in DOMAIN f /\ f[l] \in FrameRec
  BY <1>2, <1>3, <1>6, <1>7 DEF NewTop
<1>9. [m EXCEPT !.frames[l].locals[j] = x] = [m EXCEPT !.frames = h]
  BY <1>1, <1>4, <1>6, <1>7, <1>8 DEF State
<1>10. [m EXCEPT !.frames = h] = State(v, h, i, p, k)
  BY <1>1 DEF State
<1> QED
  BY <1>1, <1>5, <1>9, <1>10

(* A value delivered on a state *)
LEMMA StateGiven ==
  ASSUME NEW v, NEW f, NEW c, NEW h, NEW i, NEW p, NEW k, NEW x,
         NewCall(k, c, [c EXCEPT !.given = Append(@, x)], h)
  PROVE  Delivered(State(v, f, i, p, k), x) = State(v \o <<x>>, f, i, p, h)
<1>1. PICK w : w = v \o <<x>>
  OBVIOUS
<1>2. PICK m : m = State(w, f, i, p, k)
  OBVIOUS
<1>3. PICK l : l = Len(k)
  OBVIOUS
<1>4. m.calls = k /\ State(v, f, i, p, k).calls = k
  BY <1>2 DEF State
<1>5. Pushed(State(v, f, i, p, k), <<x>>) = m
  BY <1>1, <1>2, StatePushed
<1>6. Delivered(State(v, f, i, p, k), x) = [m EXCEPT !.calls[l].given = Append(@, x)]
  BY <1>3, <1>4, <1>5, Zenon DEF Delivered
<1>7. PICK y : y = Append(k[l].given, x)
  OBVIOUS
<1>8. [m EXCEPT !.calls[l].given = Append(@, x)] = [m EXCEPT !.calls[l].given = y]
  BY <1>4, <1>7
<1>9. PICK g : g = [k[l] EXCEPT !.given = y]
  OBVIOUS
<1>10. h = [k EXCEPT ![l] = g] /\ l \in DOMAIN k /\ k[l] \in CallRec
  BY <1>3, <1>7, <1>9 DEF NewCall
<1>11. [m EXCEPT !.calls[l].given = y] = [m EXCEPT !.calls = h]
  BY <1>2, <1>4, <1>9, <1>10 DEF State
<1>12. [m EXCEPT !.calls = h] = State(w, f, i, p, h)
  BY <1>2 DEF State
<1> QED
  BY <1>1, <1>6, <1>8, <1>11, <1>12

(* What the C functions note that they ask for *)
AskedIn(m, x) == [m EXCEPT !.calls[Len(m.calls)].asked = Append(@, x)]

(* Something asked on a state *)
LEMMA StateAsked ==
  ASSUME NEW v, NEW f, NEW c, NEW h, NEW i, NEW p, NEW k, NEW x, NEW m, m = State(v, f, i, p, k),
         NewCall(k, c, [c EXCEPT !.asked = Append(@, x)], h)
  PROVE  AskedIn(m, x) = State(v, f, i, p, h)
<1>3. PICK l : l = Len(k)
  OBVIOUS
<1>4. m.calls = k
  BY DEF State
<1>6. AskedIn(m, x) = [m EXCEPT !.calls[l].asked = Append(@, x)]
  BY <1>3, <1>4, Zenon DEF AskedIn
<1>7. PICK y : y = Append(k[l].asked, x)
  OBVIOUS
<1>8. [m EXCEPT !.calls[l].asked = Append(@, x)] = [m EXCEPT !.calls[l].asked = y]
  BY <1>4, <1>7
<1>9. PICK g : g = [k[l] EXCEPT !.asked = y]
  OBVIOUS
<1>10. h = [k EXCEPT ![l] = g] /\ l \in DOMAIN k /\ k[l] \in CallRec
  BY <1>3, <1>7, <1>9 DEF NewCall
<1>11. [m EXCEPT !.calls[l].asked = y] = [m EXCEPT !.calls = h]
  BY <1>4, <1>9, <1>10 DEF State
<1>12. [m EXCEPT !.calls = h] = State(v, f, i, p, h)
  BY DEF State
<1> QED
  BY <1>6, <1>8, <1>11, <1>12

(* A list with one element more *)
Longer(its, l, v) == [its EXCEPT ![l] = Append(@, v)]

(* An element appended on a state *)
LEMMA StateAppended ==
  ASSUME NEW v, NEW f, NEW i, NEW p, NEW k, NEW l, NEW x
  PROVE  Appended(State(v, f, i, p, k), List(l), x) = State(v, f, Longer(i, l, x), p, k)
<1>1. PICK m : m = State(v, f, i, p, k)
  OBVIOUS
<1>2. m.items = i /\ List(l)[2] = l
  BY <1>1 DEF State, List
<1>3. Appended(m, List(l), x) = [m EXCEPT !.items[l] = Append(@, x)]
  BY <1>2, Zenon DEF Appended
<1>4. PICK y : y = Append(i[l], x)
  OBVIOUS
<1>5. [m EXCEPT !.items[l] = Append(@, x)] = [m EXCEPT !.items[l] = y]
  BY <1>2, <1>4
<1>6. PICK h : h = [i EXCEPT ![l] = y]
  OBVIOUS
<1>7. [m EXCEPT !.items[l] = y] = [m EXCEPT !.items = h]
  BY <1>1, <1>2, <1>6 DEF State
<1>8. [m EXCEPT !.items = h] = State(v, f, h, p, k)
  BY <1>1 DEF State
<1>9. h = Longer(i, l, x)
  BY <1>4, <1>6, Zenon DEF Longer
<1> QED
  BY <1>1, <1>3, <1>5, <1>7, <1>8, <1>9

(* What a new frame on top makes of the frames *)
LEMMA NewTopIs ==
  ASSUME NEW f, NEW F, NEW fr, NEW g \in FrameRec, TopOfFrames(f, F, fr)
  PROVE  NewTop(f, fr, g, Append(F, g))
BY TopFrame DEF NewTop, TopOfFrames

(* What a new call on top makes of the calls *)
LEMMA NewCallIs ==
  ASSUME NEW k, NEW C, NEW c, NEW d \in CallRec, TopOfCalls(k, C, c)
  PROVE  NewCall(k, c, d, Append(C, d))
BY TopCall DEF NewCall, TopOfCalls

(* The running call gets its locals. *)
LEMMA WithLocalsAt ==
  ASSUME NEW F, NEW C, Under(F, C), NEW fr \in FrameRec, NEW c, NEW its, NEW s,
         NEW L \in Seq(Val \cup Nat)
  PROVE  /\ WithLocals(Mach(F, C, fr, c, s, its), L) = Mach(F, C, Begun(fr.c_func, L), c, s, its)
         /\ Begun(fr.c_func, L) \in FrameRec
<1>1. PICK f : f = Append(F, fr)
  OBVIOUS
<1>2. TopOfFrames(f, F, fr)
  BY <1>1 DEF Under, TopOfFrames
<1>3. PICK g : g = Begun(fr.c_func, L)
  OBVIOUS
<1>4. g \in FrameRec
  BY <1>3 DEF FrameRec, Begun
<1>5. PICK h : h = Append(F, g)
  OBVIOUS
<1>6. NewTop(f, fr, g, h)
  BY <1>2, <1>4, <1>5, NewTopIs
<1>7. \A v, k : WithLocals(State(v, f, its, "no", k), L) = State(v, h, its, "no", k)
  <2>1. NewTop(f, fr, Begun(fr.c_func, L), h)
    BY <1>3, <1>6
  <2> QED
    BY <2>1, StateLocals
<1> QED
  BY <1>1, <1>3, <1>4, <1>5, <1>7 DEF Mach

(* The same frame with another local *)
LocalSet(fr, k, x) == Begun(fr.c_func, [fr.locals EXCEPT ![k] = x])

(* The running call changes a local. *)
LEMMA WithLocalAt ==
  ASSUME NEW F, NEW C, Under(F, C), NEW fr \in FrameRec, NEW c, NEW its, NEW s,
         ~fr.fresh, NEW n \in Nat, NEW k \in 1 .. Len(fr.locals), k = n + 1, NEW x \in Val \cup Nat,
         NEW g, g = LocalSet(fr, k, x), NEW m, m = Mach(F, C, fr, c, s, its)
  PROVE  /\ WithLocal(m, n, x) = Mach(F, C, g, c, s, its)
         /\ g \in FrameRec
<1>1. PICK f : f = Append(F, fr)
  OBVIOUS
<1>2. TopOfFrames(f, F, fr)
  BY <1>1 DEF Under, TopOfFrames
<1>3. PICK L : L = [fr.locals EXCEPT ![n + 1] = x]
  OBVIOUS
<1>4. g = Begun(fr.c_func, L)
  BY <1>3 DEF LocalSet
<1>5. g = [fr EXCEPT !.locals = L] /\ g \in FrameRec
  <2>1. fr.locals \in Seq(Val \cup Nat)
    BY DEF FrameRec
  <2>2. L \in Seq(Val \cup Nat)
    BY <1>3, <2>1
  <2>3. fr.fresh = FALSE
    BY DEF FrameRec
  <2>4. PICK e : e = [fr EXCEPT !.locals = L]
    OBVIOUS
  <2>5. e = Begun(fr.c_func, L) /\ e \in FrameRec
    BY <2>2, <2>3, <2>4 DEF FrameRec, Begun
  <2> QED
    BY <1>4, <2>4, <2>5, Zenon
<1>6. PICK h : h = Append(F, g)
  OBVIOUS
<1>7. NewTop(f, fr, [fr EXCEPT !.locals = [fr.locals EXCEPT ![n + 1] = x]], h)
  <2>1. NewTop(f, fr, g, h)
    BY <1>2, <1>5, <1>6, NewTopIs
  <2> QED
    BY <1>3, <1>5, <2>1, Zenon
<1>8. \A v, j : WithLocal(State(v, f, its, "no", j), n, x) = State(v, h, its, "no", j)
  BY <1>7, StateLocal
<1> QED
  BY <1>1, <1>5, <1>6, <1>8 DEF Mach

(* An element is appended while it runs. *)
LEMMA AppendedAt ==
  ASSUME NEW F, NEW C, NEW fr, NEW c, NEW its, NEW s, NEW l, NEW x
  PROVE  Appended(Mach(F, C, fr, c, s, its), List(l), x) = Mach(F, C, fr, c, s, Longer(its, l, x))
<1>1. \A v, f, k : Appended(State(v, f, its, "no", k), List(l), x) = State(v, f, Longer(its, l, x), "no", k)
  BY StateAppended
<1> QED
  BY <1>1 DEF Mach

(* The same call with a value more *)
Given(c, x) == CallOf(c.args, c.on, c.asked, Append(c.given, x))

(* It is a call again. *)
LEMMA GivenCall ==
  ASSUME NEW c \in CallRec, NEW x \in Val
  PROVE  Given(c, x) \in CallRec /\ Given(c, x) = [c EXCEPT !.given = Append(@, x)]
<1>1. PICK y : y = Append(c.given, x)
  OBVIOUS
<1>2. y \in Seq(Val)
  BY <1>1 DEF CallRec
<1>3. CallOf(c.args, c.on, c.asked, y) = [c EXCEPT !.given = y]
  BY <1>2 DEF CallOf, CallRec
<1>4. CallOf(c.args, c.on, c.asked, y) \in CallRec
  BY <1>2 DEF CallOf, CallRec
<1> QED
  BY <1>1, <1>3, <1>4 DEF Given

(* A value is delivered to the running call. *)
LEMMA DeliveredAt ==
  ASSUME NEW F, NEW C, Under(F, C), NEW fr, NEW c \in CallRec, NEW its, NEW s \in Seq(Val), NEW x \in Val
  PROVE  /\ Delivered(Mach(F, C, fr, c, s, its), x) = Mach(F, C, fr, Given(c, x), s \o <<x>>, its)
         /\ Given(c, x) \in CallRec
<1>1. PICK k : k = Append(C, c)
  OBVIOUS
<1>2. TopOfCalls(k, C, c)
  BY <1>1 DEF Under, TopOfCalls
<1>3. PICK d : d = Given(c, x)
  OBVIOUS
<1>4. d \in CallRec /\ d = [c EXCEPT !.given = Append(@, x)]
  BY <1>3, GivenCall
<1>5. PICK h : h = Append(C, d)
  OBVIOUS
<1>6. NewCall(k, c, [c EXCEPT !.given = Append(@, x)], h)
  <2>1. NewCall(k, c, d, h)
    BY <1>2, <1>4, <1>5, NewCallIs
  <2> QED
    BY <1>4, <2>1
<1>7. \A v, f : Delivered(State(v, f, its, "no", k), x) = State(v \o <<x>>, f, its, "no", h)
  BY <1>6, StateGiven
<1>8. PICK w : w = (Stack(F, C) \o s) \o <<x>>
  OBVIOUS
<1>9. w = Stack(F, C) \o (s \o <<x>>)
  <2>1. Stack(F, C) \in Seq(Val) /\ <<x>> \in Seq(Val)
    BY DEF Under
  <2> QED
    BY <1>8, <2>1, Assoc, Concat
<1>10. Delivered(Mach(F, C, fr, c, s, its), x) = State(w, Append(F, fr), its, "no", h)
  BY <1>1, <1>7, <1>8 DEF Mach
<1> QED
  BY <1>3, <1>4, <1>5, <1>9, <1>10 DEF Mach

(* The same call with a question more *)
Asked(c, x) == CallOf(c.args, c.on, Append(c.asked, x), c.given)

(* It is a call again. *)
LEMMA AskedCall ==
  ASSUME NEW c \in CallRec, NEW x \in Val
  PROVE  Asked(c, x) \in CallRec /\ Asked(c, x) = [c EXCEPT !.asked = Append(@, x)]
<1>1. PICK y : y = Append(c.asked, x)
  OBVIOUS
<1>2. y \in Seq(Val)
  BY <1>1 DEF CallRec
<1>3. CallOf(c.args, c.on, y, c.given) = [c EXCEPT !.asked = y]
  BY <1>2 DEF CallOf, CallRec
<1>4. CallOf(c.args, c.on, y, c.given) \in CallRec
  BY <1>2 DEF CallOf, CallRec
<1> QED
  BY <1>1, <1>3, <1>4 DEF Asked

(* The running call asks. *)
LEMMA AskedAt ==
  ASSUME NEW F, NEW C, Under(F, C), NEW fr, NEW c \in CallRec, NEW its, NEW s, NEW x \in Val,
         NEW m, m = Mach(F, C, fr, c, s, its)
  PROVE  /\ AskedIn(m, x) = Mach(F, C, fr, Asked(c, x), s, its)
         /\ Asked(c, x) \in CallRec
<1>1. PICK k : k = Append(C, c)
  OBVIOUS
<1>2. TopOfCalls(k, C, c)
  BY <1>1 DEF Under, TopOfCalls
<1>3. PICK d : d = Asked(c, x)
  OBVIOUS
<1>4. d \in CallRec /\ d = [c EXCEPT !.asked = Append(@, x)]
  BY <1>3, AskedCall
<1>5. PICK h : h = Append(C, d)
  OBVIOUS
<1>6. NewCall(k, c, [c EXCEPT !.asked = Append(@, x)], h)
  <2>1. NewCall(k, c, d, h)
    BY <1>2, <1>4, <1>5, NewCallIs
  <2> QED
    BY <1>4, <2>1
<1>7. PICK v : v = Stack(F, C) \o s
  OBVIOUS
<1>8. m = State(v, Append(F, fr), its, "no", k)
  BY <1>1, <1>7 DEF Mach
<1>9. AskedIn(m, x) = State(v, Append(F, fr), its, "no", h)
  BY <1>6, <1>8, StateAsked
<1> QED
  BY <1>3, <1>4, <1>5, <1>7, <1>9 DEF Mach

(* A list method asks about an element. *)
LEMMA AskingAt ==
  ASSUME NEW F, NEW C, Under(F, C), NEW fr \in FrameRec, NEW c \in CallRec, NEW its, NEW s, NEW x \in Val,
         x = its[c.on[2]][Len(c.given) + 1]
  PROVE  /\ Asking(Mach(F, C, fr, c, s, its)) = Mach(F, C, fr, Asked(c, x), s, its)
         /\ Asked(c, x) \in CallRec
<1>1. PICK m : m = Mach(F, C, fr, c, s, its)
  OBVIOUS
<1>2. Last(m.calls) = c /\ m.items = its
  BY <1>1, LastAt
<1>3. PICK y : y = m.items[Last(m.calls).on[2]][Len(Last(m.calls).given) + 1]
  OBVIOUS
<1>4. Asking(m) = AskedIn(m, y)
  BY <1>3, Zenon DEF Asking, AskedIn
<1>5. y = x
  BY <1>2, <1>3
<1>6. AskedIn(m, x) = Mach(F, C, fr, Asked(c, x), s, its)
  BY <1>1, AskedAt
<1> QED
  BY <1>1, <1>4, <1>5, <1>6, AskedCall

-------------------------------------------------------------------------------
(*****************************************************************************)
(* A call is entered, and left.                                              *)
(*****************************************************************************)
(* A frame and a call that have just been entered *)
New(f) == [c_func |-> f, fresh |-> f # "block", locals |-> <<>>]
Called(args, on) == CallOf(args, on, <<>>, <<>>)

(* A call that is entered adds its part to the stack. *)
LEMMA StackGrows ==
  ASSUME NEW F, NEW C, Under(F, C), NEW fr \in FrameRec, NEW c \in CallRec, Held(fr, c) \in Seq(Val)
  PROVE  /\ Stack(Append(F, fr), Append(C, c)) = Stack(F, C) \o Held(fr, c)
         /\ Under(Append(F, fr), Append(C, c))
<1>1. /\ F \in Seq(FrameRec) /\ C \in Seq(CallRec) /\ Len(F) = Len(C) /\ Stack(F, C) \in Seq(Val)
      /\ \A k \in 1 .. Len(F) : Held(F[k], C[k]) \in Seq(Val)
  BY DEF Under
<1>2. PICK F2 : F2 = Append(F, fr)
  OBVIOUS
<1>3. PICK C2 : C2 = Append(C, c)
  OBVIOUS
<1>4. /\ F2 \in Seq(FrameRec) /\ Len(F2) = Len(F) + 1 /\ F2[Len(F) + 1] = fr
      /\ \A k \in 1 .. Len(F) : F2[k] = F[k]
  BY <1>1, <1>2
<1>5. /\ C2 \in Seq(CallRec) /\ Len(C2) = Len(F) + 1 /\ C2[Len(F) + 1] = c
      /\ \A k \in 1 .. Len(F) : C2[k] = C[k]
  BY <1>1, <1>3
<1>6. PICK ss : ss = [k \in 1 .. Len(F) |-> Held(F[k], C[k])]
  OBVIOUS
<1>7. PICK tt : tt = [k \in 1 .. Len(F2) |-> Held(F2[k], C2[k])]
  OBVIOUS
<1>8. ss \in Seq(Seq(Val)) /\ Len(ss) = Len(F)
  BY <1>1, <1>6
<1>9. \A k \in 1 .. Len(F) + 1 : k = Len(F) + 1 \/ k \in 1 .. Len(F)
  BY <1>1
<1>10. \A k \in 1 .. Len(F2) : Held(F2[k], C2[k]) \in Seq(Val)
  BY <1>1, <1>4, <1>5, <1>9
<1>11. tt \in Seq(Seq(Val)) /\ Len(tt) = Len(F) + 1 /\ tt[Len(F) + 1] = Held(fr, c)
       /\ \A k \in 1 .. Len(F) : tt[k] = ss[k]
  BY <1>1, <1>4, <1>5, <1>6, <1>7, <1>10
<1>12. tt = Append(ss, Held(fr, c))
  <2>1. PICK uu : uu = Append(ss, Held(fr, c))
    OBVIOUS
  <2>2. uu \in Seq(Seq(Val)) /\ Len(uu) = Len(F) + 1 /\ uu[Len(F) + 1] = Held(fr, c)
        /\ \A k \in 1 .. Len(F) : uu[k] = ss[k]
    BY <1>8, <2>1
  <2>3. \A k \in 1 .. Len(tt) : tt[k] = uu[k]
    BY <1>9, <1>11, <2>2
  <2>4. tt = uu
    BY <1>11, <2>2, <2>3, SameSeq
  <2> QED
    BY <2>1, <2>4
<1>13. FlattenSeq(tt) = FlattenSeq(ss) \o Held(fr, c)
  BY <1>8, <1>12, FlattenAppend
<1>14. FlattenSeq(ss) = Stack(F, C) /\ FlattenSeq(tt) = Stack(F2, C2)
  BY <1>6, <1>7 DEF Stack
<1>15. Stack(F2, C2) = Stack(F, C) \o Held(fr, c)
  BY <1>13, <1>14
<1>16. Stack(F2, C2) \in Seq(Val)
  BY <1>1, <1>15, Concat
<1>17. Under(F2, C2)
  BY <1>4, <1>5, <1>10, <1>16 DEF Under
<1> QED
  BY <1>2, <1>3, <1>15, <1>17

(* Nothing is below the script's block. *)
LEMMA EmptyUnder == Under(<<>>, <<>>) /\ Stack(<<>>, <<>>) = <<>>
<1>1. PICK ss : ss = [k \in 1 .. Len(<<>>) |-> Held(<<>>[k], <<>>[k])]
  OBVIOUS
<1>2. ss = <<>>
  BY <1>1
<1>3. Stack(<<>>, <<>>) = <<>>
  BY <1>1, <1>2, FlattenEmpty DEF Stack
<1>4. <<>> \in Seq(FrameRec) /\ <<>> \in Seq(CallRec) /\ <<>> \in Seq(Val) /\ Len(<<>>) = 0 /\ 1 .. 0 = {}
  OBVIOUS
<1> QED
  BY <1>3, <1>4 DEF Under

(* Another top in frames and calls at once *)
WithBoth(m, f, k) == [m EXCEPT !.frames = f, !.calls = k]

(* The same on a state *)
LEMMA StateBoth ==
  ASSUME NEW v, NEW f, NEW i, NEW p, NEW k, NEW f2, NEW k2
  PROVE  WithBoth(State(v, f, i, p, k), f2, k2) = State(v, f2, i, p, k2)
<1>1. [State(v, f, i, p, k) EXCEPT !.frames = f2] = State(v, f2, i, p, k)
  BY DEF State
<1>2. [State(v, f2, i, p, k) EXCEPT !.calls = k2] = State(v, f2, i, p, k2)
  BY DEF State
<1>3. WithBoth(State(v, f, i, p, k), f2, k2)
        = [[State(v, f, i, p, k) EXCEPT !.frames = f2] EXCEPT !.calls = k2]
  BY Zenon DEF WithBoth
<1> QED
  BY <1>1, <1>2, <1>3

(* Entered puts a call on top, on the same stack. *)
LEMMA EnteredAt ==
  ASSUME NEW F, NEW C, Under(F, C), NEW fr \in FrameRec, NEW c \in CallRec, NEW its,
         Held(fr, c) \in Seq(Val), NEW t \in Seq(Val), NEW f, NEW args, NEW on
  PROVE  Entered(Mach(F, C, fr, c, Held(fr, c) \o t, its), f, args, on)
           = Mach(Append(F, fr), Append(C, c), New(f), Called(args, on), t, its)
<1>1. PICK v : v = Stack(F, C) \o (Held(fr, c) \o t)
  OBVIOUS
<1>2. v = Stack(Append(F, fr), Append(C, c)) \o t
  <2>1. PICK q \in Seq(Val) : q = Stack(F, C)
    BY DEF Under
  <2>2. PICK h \in Seq(Val) : h = Held(fr, c)
    OBVIOUS
  <2>3. (q \o h) \o t = q \o (h \o t)
    BY Assoc
  <2>4. Stack(Append(F, fr), Append(C, c)) = q \o h
    <3>1. Stack(Append(F, fr), Append(C, c)) = Stack(F, C) \o Held(fr, c)
      BY StackGrows
    <3> QED
      BY <2>1, <2>2, <3>1, Zenon
  <2> QED
    BY <1>1, <2>1, <2>2, <2>3, <2>4
<1>3. PICK F2 : F2 = Append(F, fr)
  OBVIOUS
<1>4. PICK C2 : C2 = Append(C, c)
  OBVIOUS
<1>5. PICK m : m = State(v, F2, its, "no", C2)
  OBVIOUS
<1>6. m = Mach(F, C, fr, c, Held(fr, c) \o t, its)
  BY <1>1, <1>3, <1>4, <1>5 DEF Mach
<1>7. PICK F3 : F3 = Append(F2, New(f))
  OBVIOUS
<1>8. PICK C3 : C3 = Append(C2, Called(args, on))
  OBVIOUS
<1>9. m.frames = F2 /\ m.calls = C2
  BY <1>5 DEF State
<1>10. Entered(m, f, args, on) = WithBoth(m, F3, C3)
  <2>1. Entered(m, f, args, on)
          = [m EXCEPT !.frames = Append(@, New(f)), !.calls = Append(@, Called(args, on))]
    BY Zenon DEF Entered, New, Called, CallOf
  <2>2. Append(m.frames, New(f)) = F3 /\ Append(m.calls, Called(args, on)) = C3
    BY <1>7, <1>8, <1>9
  <2>3. [m EXCEPT !.frames = Append(@, New(f)), !.calls = Append(@, Called(args, on))]
          = WithBoth(m, F3, C3)
    BY <1>5, <2>2 DEF State, WithBoth
  <2> QED
    BY <2>1, <2>3
<1>11. WithBoth(m, F3, C3) = State(v, F3, its, "no", C3)
  BY <1>5, StateBoth
<1> QED
  BY <1>2, <1>3, <1>4, <1>6, <1>7, <1>8, <1>10, <1>11 DEF Mach

(* Left takes it away and finds the call below. *)
LEMMA LeftAt ==
  ASSUME NEW F, NEW C, Under(F, C), NEW fr \in FrameRec, NEW c \in CallRec, NEW its,
         Held(fr, c) \in Seq(Val), NEW t \in Seq(Val), NEW g \in FrameRec, NEW d \in CallRec
  PROVE  Left(Mach(Append(F, fr), Append(C, c), g, d, t, its))
           = Mach(F, C, fr, c, Held(fr, c) \o t, its)
<1>1. PICK v : v = Stack(F, C) \o (Held(fr, c) \o t)
  OBVIOUS
<1>2. v = Stack(Append(F, fr), Append(C, c)) \o t
  <2>1. PICK q \in Seq(Val) : q = Stack(F, C)
    BY DEF Under
  <2>2. PICK h \in Seq(Val) : h = Held(fr, c)
    OBVIOUS
  <2>3. (q \o h) \o t = q \o (h \o t)
    BY Assoc
  <2>4. Stack(Append(F, fr), Append(C, c)) = q \o h
    <3>1. Stack(Append(F, fr), Append(C, c)) = Stack(F, C) \o Held(fr, c)
      BY StackGrows
    <3> QED
      BY <2>1, <2>2, <3>1, Zenon
  <2> QED
    BY <1>1, <2>1, <2>2, <2>3, <2>4
<1>3. PICK F2 : F2 = Append(F, fr)
  OBVIOUS
<1>4. PICK C2 : C2 = Append(C, c)
  OBVIOUS
<1>5. F2 \in Seq(FrameRec) /\ C2 \in Seq(CallRec)
  BY <1>3, <1>4 DEF Under
<1>6. PICK F3 : F3 = Append(F2, g)
  OBVIOUS
<1>7. PICK C3 : C3 = Append(C2, d)
  OBVIOUS
<1>8. Front(F3) = F2 /\ Front(C3) = C2
  BY <1>5, <1>6, <1>7, Ends
<1>9. PICK m : m = State(v, F3, its, "no", C3)
  OBVIOUS
<1>10. m = Mach(F2, C2, g, d, t, its)
  BY <1>2, <1>3, <1>4, <1>6, <1>7, <1>9 DEF Mach
<1>11. m.frames = F3 /\ m.calls = C3
  BY <1>9 DEF State
<1>12. Left(m) = WithBoth(m, F2, C2)
  <2>1. Left(m) = [m EXCEPT !.frames = Front(@), !.calls = Front(@)]
    BY Zenon DEF Left
  <2>2. Front(m.frames) = F2 /\ Front(m.calls) = C2
    BY <1>8, <1>11
  <2>3. [m EXCEPT !.frames = Front(@), !.calls = Front(@)] = WithBoth(m, F2, C2)
    BY <1>9, <2>2 DEF State, WithBoth
  <2> QED
    BY <2>1, <2>3
<1>13. WithBoth(m, F2, C2) = State(v, F2, its, "no", C2)
  BY <1>9, StateBoth
<1> QED
  BY <1>1, <1>3, <1>4, <1>10, <1>12, <1>13 DEF Mach

-------------------------------------------------------------------------------
(*****************************************************************************)
(* What each kind of call has on the stack.                                  *)
(*****************************************************************************)
(* The parameters print still has; calls that had their answer, and that   *)
(* wait for it                                                             *)
LeftOf(c) == Reverse(SubSeq(c.args, Len(c.asked) + 1, Len(c.args)))
Answered(c) == c.given # <<>> /\ Len(c.given) = Len(c.asked)
Awaiting(c) == Len(c.asked) = Len(c.given) + 1

(* The block has what it was given. *)
LEMMA HoldsBlock ==
  ASSUME NEW fr \in FrameRec, NEW c \in CallRec, fr.c_func = "block"
  PROVE  Held(fr, c) = c.given
BY DEF Held, Holds, ListFunctions

(* A method that starts has its parameters and its object. *)
LEMMA HoldsParameters ==
  ASSUME NEW fr \in FrameRec, NEW c \in CallRec, fr.c_func \in ListFunctions, fr.fresh
  PROVE  Held(fr, c) = Append(Reverse(c.args), c.on)
BY DEF Held, Holds, ListFunctions

(* A method that waits has its own share. *)
LEMMA HoldsAwaiting ==
  ASSUME NEW fr \in FrameRec, NEW c \in CallRec, fr.c_func \in ListFunctions, ~fr.fresh, Awaiting(c)
  PROVE  Held(fr, c) = IF fr.c_func = "filter" THEN <<Last(c.asked)>> ELSE <<>>
<1>1. ~(c.given # <<>> /\ Len(c.given) = Len(c.asked))
  BY DEF Awaiting, CallRec
<1>2. CASE fr.c_func = "filter"
  <2>1. Held(fr, c) = <<Last(c.asked)>> \o <<>>
    BY <1>1, <1>2 DEF Held, Holds, ListFunctions
  <2> QED
    BY <1>2, <2>1
<1>3. CASE fr.c_func # "filter"
  BY <1>1, <1>3 DEF Held, Holds, ListFunctions
<1> QED
  BY <1>2, <1>3

(* Two sequences of one are one of two. *)
LEMMA PairOf ==
  ASSUME NEW V, NEW a \in V, NEW b \in V
  PROVE  <<a>> \o <<b>> = <<a, b>>
<1>1. PICK u : u = <<a>> \o <<b>>
  OBVIOUS
<1>2. <<a>> \in Seq(V) /\ <<b>> \in Seq(V) /\ Len(<<a>>) = 1 /\ Len(<<b>>) = 1
  OBVIOUS
<1>3. u \in Seq(V) /\ Len(u) = 1 + 1 /\ u[1] = a /\ u[1 + 1] = b
  BY <1>1, <1>2
<1>4. PICK w : w = <<a, b>>
  OBVIOUS
<1>5. w \in Seq(V) /\ Len(w) = 2 /\ w[1] = a /\ w[2] = b
  BY <1>4
<1>6. \A i \in 1 .. Len(u) : u[i] = w[i]
  BY <1>3, <1>5
<1>7. u = w
  BY <1>3, <1>5, <1>6, SameSeq
<1> QED
  BY <1>1, <1>4, <1>7

(* Appending is joining with one. *)
LEMMA OneMore ==
  ASSUME NEW V, NEW s \in Seq(V), NEW v \in V
  PROVE  s \o <<v>> = Append(s, v)
OBVIOUS

(* A method that was answered has its share and the answer. *)
LEMMA HoldsAnswered ==
  ASSUME NEW fr \in FrameRec, NEW c \in CallRec, fr.c_func \in ListFunctions, ~fr.fresh, Answered(c)
  PROVE  Held(fr, c) = IF fr.c_func = "filter" THEN <<Last(c.asked), Last(c.given)>> ELSE <<Last(c.given)>>
<1>1. c.given # <<>> /\ Len(c.given) = Len(c.asked)
  BY DEF Answered
<1>2. CASE fr.c_func = "filter"
  <2>1. Held(fr, c) = <<Last(c.asked)>> \o <<Last(c.given)>>
    BY <1>1, <1>2 DEF Held, Holds, ListFunctions
  <2>2. Last(c.asked) \in Val /\ Last(c.given) \in Val
    BY <1>1 DEF CallRec, Last
  <2> QED
    BY <1>2, <2>1, <2>2, PairOf
<1>3. CASE fr.c_func # "filter"
  BY <1>1, <1>3 DEF Held, Holds, ListFunctions
<1> QED
  BY <1>2, <1>3

(* Nothing asked, nothing taken. *)
LEMMA NothingAsked ==
  ASSUME NEW c \in CallRec, c.asked = <<>>
  PROVE  LeftOf(c) = Reverse(c.args)
<1>1. SubSeq(c.args, 1, Len(c.args)) = c.args
  <2>1. PICK s \in Seq(Val) : s = c.args
    BY DEF CallRec
  <2>2. SubSeq(s, 1, Len(s)) = s
    OBVIOUS
  <2> QED
    BY <2>1, <2>2
<1>2. Len(c.asked) + 1 = 1
  OBVIOUS
<1> QED
  BY <1>1, <1>2 DEF LeftOf

(* println has its parameters and their count, or its value. *)
LEMMA HoldsPrintLn ==
  ASSUME NEW fr \in FrameRec, NEW c \in CallRec, fr.c_func = "println"
  PROVE  /\ fr.fresh /\ c.asked = <<>> => Held(fr, c) = Append(Reverse(c.args), Integer(Len(c.args)))
         /\ ~fr.fresh => Held(fr, c) = c.given
<1>1. ASSUME fr.fresh, c.asked = <<>> PROVE Held(fr, c) = Append(Reverse(c.args), Integer(Len(c.args)))
  <2>1. Held(fr, c) = Append(LeftOf(c), Integer(Len(c.args)))
    BY <1>1 DEF Held, Holds, ListFunctions, LeftOf
  <2> QED
    BY <1>1, <2>1, NothingAsked
<1>2. ASSUME ~fr.fresh PROVE Held(fr, c) = c.given
  BY <1>2 DEF Held, Holds, ListFunctions
<1> QED
  BY <1>1, <1>2

(* print has the parameters left and their count. *)
LEMMA HoldsPrint ==
  ASSUME NEW fr \in FrameRec, NEW c \in CallRec, fr.c_func = "print"
  PROVE  /\ ~Answered(c) => Held(fr, c) = Append(LeftOf(c), Integer(Len(LeftOf(c))))
         /\ Answered(c) => Held(fr, c) = Append(LeftOf(c), Integer(Len(LeftOf(c)))) \o <<Last(c.given)>>
<1>1. ASSUME Answered(c)
      PROVE  Held(fr, c) = Append(LeftOf(c), Integer(Len(LeftOf(c)))) \o <<Last(c.given)>>
  BY <1>1 DEF Held, Holds, ListFunctions, LeftOf, Answered
<1>2. ASSUME ~Answered(c) PROVE Held(fr, c) = Append(LeftOf(c), Integer(Len(LeftOf(c))))
  <2>1. PICK r : r = Append(LeftOf(c), Integer(Len(LeftOf(c))))
    OBVIOUS
  <2>2. Held(fr, c) = r \o <<>>
    BY <1>2, <2>1 DEF Held, Holds, ListFunctions, LeftOf, Answered
  <2>3. r \in Seq(Val)
    <3>1. LeftOf(c) \in Seq(Val)
      <4>1. PICK s \in Seq(Val) : s = c.args
        BY DEF CallRec
      <4>2. Len(c.asked) \in Nat
        BY DEF CallRec
      <4>3. SubSeq(s, Len(c.asked) + 1, Len(s)) \in Seq(Val)
        BY <4>2
      <4> QED
        BY <4>1, <4>3, Reversed DEF LeftOf
    <3>2. Integer(Len(LeftOf(c))) \in Val
      <4>1. Len(LeftOf(c)) \in Nat
        BY <3>1
      <4> QED
        BY <4>1 DEF Val
    <3> QED
      BY <2>1, <3>1, <3>2
  <2>4. r \o <<>> = r
    BY <2>3
  <2> QED
    BY <2>1, <2>2, <2>4
<1> QED
  BY <1>1, <1>2

(* again has its object and the method that converts it. *)
LEMMA HoldsAgain ==
  ASSUME NEW fr \in FrameRec, NEW c \in CallRec, fr.c_func = "again"
  PROVE  /\ fr.fresh => Held(fr, c) = <<Integer(0), Convert, Integer(1), c.on>>
         /\ ~fr.fresh => Held(fr, c) = <<Integer(0)>> \o c.given
BY DEF Held, Holds, ListFunctions

-------------------------------------------------------------------------------
(*****************************************************************************)
(* The states of a call, what calls what, and the invariant of the machine.  *)
(*****************************************************************************)
(* A call that waits for a value, and one whose turn it is *)
Waits(fr, c) ==
  /\ ~fr.fresh
  /\ \/ fr.c_func = "block"
     \/ fr.c_func \in ListFunctions \cup {"print"} /\ Awaiting(c)
     \/ fr.c_func \in {"println", "again"} /\ c.given = <<>>
Ready(fr, c) ==
  \/ fr.c_func = "block" /\ ~fr.fresh
  \/ fr.c_func # "block" /\ fr.fresh /\ c.asked = <<>> /\ c.given = <<>> /\ fr.locals = <<>>
  \/ /\ ~fr.fresh
     /\ \/ fr.c_func \in ListFunctions \cup {"print"} /\ Answered(c)
        \/ fr.c_func = "println" /\ c.given = <<Nil>>
        \/ fr.c_func = "again" /\ Len(c.given) = 1

(* What a list method has after d answers *)
Own(fr) == fr.locals[4][2]
Gathers(fr) == fr.c_func \in {"map", "filter"} /\ ~fr.fresh
SoFar(c, d) == IF d = 0 THEN c.args[1] ELSE c.given[d]
Yes(c, d) == {p \in 1 .. d : ~Falsy(c.given[p])}
KeptTo(kept, c, d) ==
  \E from \in [DOMAIN kept -> Yes(c, d)] :
    /\ \A k \in Yes(c, d) : \E j \in DOMAIN kept : from[j] = k
    /\ \A i, j \in DOMAIN kept : i < j => from[i] < from[j]
    /\ \A j \in DOMAIN kept : kept[j] = c.asked[from[j]]
InLocals(fr, c, its) ==
  /\ Len(fr.locals) = IF fr.c_func \in {"each", "any", "all"} THEN 3 ELSE 4
  /\ fr.locals[1] = List(Mine) /\ fr.locals[2] = Len(c.asked)
  /\ fr.locals[3] = c.args[Arity(fr.c_func)]
  /\ Len(c.asked) <= Len(its[Mine])
  /\ fr.c_func \in {"map", "filter"} => \E r \in 2 .. Len(its) : fr.locals[4] = List(r)

(* What map has made, and what each method has after d answers *)
MapsTo(made, c, d) == Len(made) = d /\ \A p \in 1 .. d : made[p] = c.given[p]
Gathered(fr, c, its, d) ==
  /\ fr.c_func = "map" => MapsTo(its[Own(fr)], c, d)
  /\ fr.c_func = "filter" => KeptTo(its[Own(fr)], c, d)
  /\ fr.c_func = "reduce" => fr.locals[4] = SoFar(c, d)
  /\ fr.c_func = "any" => \A p \in 1 .. d : Falsy(c.given[p])
  /\ fr.c_func = "all" => \A p \in 1 .. d : ~Falsy(c.given[p])

(* A call is one that its function can be in. *)
Suited(f, c) ==
  /\ f \in ListFunctions => c.on = List(Mine) /\ Len(c.args) = Arity(f)
  /\ f = "print" => Len(c.asked) <= Len(c.args) /\ \A p \in 1 .. Len(c.asked) : c.asked[p] = c.args[p]
Proper(fr, c, its) ==
  /\ Suited(fr.c_func, c)
  /\ fr.c_func \in ListFunctions /\ ~fr.fresh =>
       InLocals(fr, c, its) /\ Gathered(fr, c, its, Len(c.asked) - 1)

(* What calls what, and with what *)
Linked(fr, c, f, args) ==
  /\ f = "print" <=> fr.c_func = "println"
  /\ f = "again" => fr.c_func = "print"
  /\ fr.c_func \in ListFunctions =>
       args = IF fr.c_func = "reduce" THEN <<Last(c.asked), SoFar(c, Len(c.given))>>
              ELSE <<Last(c.asked)>>
Follows(F, C, f, args) ==
  IF F = <<>> THEN f = "block" ELSE Linked(Last(F), Last(C), f, args)
Apart(F, fr) == \A k \in 1 .. Len(F) : Gathers(F[k]) /\ Gathers(fr) => Own(F[k]) # Own(fr)

(* Lists, the first of them the one the methods walk *)
Lists(its) == its \in Seq(Seq(Val)) /\ Len(its) >= 1

(* Below the running call all wait, each for the one above it, and no two  *)
(* gather in the same list.                                                *)
Chain(F, C, its) ==
  /\ Under(F, C)
  /\ F # <<>> => F[1].c_func = "block"
  /\ \A k \in 1 .. Len(F) : Waits(F[k], C[k]) /\ Proper(F[k], C[k], its)
  /\ \A k \in 1 .. Len(F) - 1 : Linked(F[k], C[k], F[k + 1].c_func, C[k + 1].args)
  /\ \A k, l \in 1 .. Len(F) : Gathers(F[k]) /\ Gathers(F[l]) /\ k # l => Own(F[k]) # Own(F[l])

(* What runs on top of such calls *)
Atop(F, C, fr, c, its) ==
  /\ Chain(F, C, its) /\ Lists(its) /\ fr \in FrameRec /\ c \in CallRec
  /\ Follows(F, C, fr.c_func, c.args) /\ Apart(F, fr)

(* The machine is in such calls, and the one on top has what it needs. *)
Good(m) ==
  \E F, C, fr, c, its :
    /\ m = Mach(F, C, fr, c, Held(fr, c), its)
    /\ Atop(F, C, fr, c, its) /\ Proper(fr, c, its) /\ Ready(fr, c)

(* The script was at fault: the calls are as they were, whatever is left   *)
(* on the stack of the one on top.                                         *)
Broken(m) ==
  \E F, C, fr, c, s, its :
    /\ m = Panicked(Mach(F, C, fr, c, s, its), "script")
    /\ Atop(F, C, fr, c, its) /\ (fr.fresh => fr.locals = <<>>)

(* What print has left are values. *)
LEMMA LeftTyped ==
  ASSUME NEW c \in CallRec
  PROVE  LeftOf(c) \in Seq(Val) /\ Integer(Len(LeftOf(c))) \in Val
         /\ Append(LeftOf(c), Integer(Len(LeftOf(c)))) \in Seq(Val)
<1>1. LeftOf(c) \in Seq(Val)
  <2>1. PICK s \in Seq(Val) : s = c.args
    BY DEF CallRec
  <2>2. Len(c.asked) \in Nat
    BY DEF CallRec
  <2>3. SubSeq(s, Len(c.asked) + 1, Len(s)) \in Seq(Val)
    BY <2>2
  <2> QED
    BY <2>1, <2>3, Reversed DEF LeftOf
<1>2. Integer(Len(LeftOf(c))) \in Val
  <2>1. Len(LeftOf(c)) \in Nat
    BY <1>1
  <2> QED
    BY <2>1 DEF Val
<1> QED
  BY <1>1, <1>2

(* Values that calls push are values. *)
LEMMA ValsIn ==
  /\ Nil \in Val /\ Convert \in Val /\ Block \in Val /\ \A n \in Nat : Integer(n) \in Val /\ List(n) \in Val
  /\ Boolean(TRUE) \in Val /\ Boolean(FALSE) \in Val
BY DEF Val

(* What a waiting call has on the stack are values. *)
LEMMA WaitingHolds ==
  ASSUME NEW fr \in FrameRec, NEW c \in CallRec, Waits(fr, c)
  PROVE  Held(fr, c) \in Seq(Val)
<1>1. CASE fr.c_func = "block"
  BY <1>1, HoldsBlock DEF CallRec
<1>2. CASE fr.c_func \in ListFunctions
  <2>1. Awaiting(c) /\ ~fr.fresh
    BY <1>2 DEF Waits, ListFunctions
  <2>2. Last(c.asked) \in Val
    BY <2>1 DEF CallRec, Awaiting, Last
  <2>3. <<Last(c.asked)>> \in Seq(Val) /\ <<>> \in Seq(Val)
    BY <2>2
  <2> QED
    BY <1>2, <2>1, <2>3, HoldsAwaiting
<1>3. CASE fr.c_func = "print"
  <2>1. ~Answered(c)
    BY <1>3 DEF Waits, ListFunctions, Awaiting, Answered, CallRec
  <2> QED
    BY <1>3, <2>1, HoldsPrint, LeftTyped
<1>4. CASE fr.c_func = "println"
  BY <1>4, HoldsPrintLn DEF Waits, CallRec
<1>5. CASE fr.c_func = "again"
  <2>1. <<Integer(0)>> \in Seq(Val) /\ c.given \in Seq(Val)
    BY ValsIn DEF CallRec
  <2>2. Held(fr, c) = <<Integer(0)>> \o c.given
    BY <1>5, HoldsAgain DEF Waits
  <2> QED
    BY <2>1, <2>2, Concat
<1> QED
  BY <1>1, <1>2, <1>3, <1>4, <1>5 DEF FrameRec, Names

(* The call on top may wait and another one run. *)
LEMMA ChainGrows ==
  ASSUME NEW F, NEW C, NEW fr, NEW c, NEW its, Atop(F, C, fr, c, its), Proper(fr, c, its), Waits(fr, c)
  PROVE  /\ Chain(Append(F, fr), Append(C, c), its) /\ Held(fr, c) \in Seq(Val)
         /\ Append(F, fr) # <<>> /\ Last(Append(F, fr)) = fr /\ Last(Append(C, c)) = c
<1>1. /\ Under(F, C) /\ fr \in FrameRec /\ c \in CallRec /\ F \in Seq(FrameRec) /\ C \in Seq(CallRec)
      /\ Len(F) \in Nat /\ Len(C) = Len(F)
  BY DEF Atop, Chain, Under
<1>2. Held(fr, c) \in Seq(Val)
  BY <1>1, WaitingHolds
<1>3. PICK F2 : F2 = Append(F, fr)
  OBVIOUS
<1>4. PICK C2 : C2 = Append(C, c)
  OBVIOUS
<1>5. Under(F2, C2)
  BY <1>1, <1>2, <1>3, <1>4, StackGrows
<1>6. /\ F2 # <<>> /\ Last(F2) = fr /\ Len(F2) = Len(F) + 1 /\ F2[Len(F) + 1] = fr
      /\ \A k \in 1 .. Len(F) : F2[k] = F[k]
  BY <1>1, <1>3, Ends
<1>7. /\ Last(C2) = c /\ Len(C2) = Len(F) + 1 /\ C2[Len(F) + 1] = c
      /\ \A k \in 1 .. Len(F) : C2[k] = C[k]
  BY <1>1, <1>4, Ends
<1>8. \A k \in 1 .. Len(F2) : k = Len(F) + 1 \/ k \in 1 .. Len(F)
  BY <1>1, <1>6
<1>9. F2[1].c_func = "block"
  <2>1. CASE F = <<>>
    <3>1. fr.c_func = "block" /\ Len(F) = 0
      BY <2>1 DEF Atop, Follows
    <3> QED
      BY <1>6, <3>1
  <2>2. CASE F # <<>>
    <3>1. F[1].c_func = "block" /\ 1 \in 1 .. Len(F)
      BY <1>1, <2>2 DEF Atop, Chain
    <3> QED
      BY <1>6, <3>1
  <2> QED
    BY <2>1, <2>2
<1>10. \A k \in 1 .. Len(F2) : Waits(F2[k], C2[k]) /\ Proper(F2[k], C2[k], its)
  <2>1. \A k \in 1 .. Len(F) : Waits(F[k], C[k]) /\ Proper(F[k], C[k], its)
    BY DEF Atop, Chain
  <2> QED
    BY <1>6, <1>7, <1>8, <2>1
<1>11. ASSUME NEW k \in 1 .. Len(F2) - 1 PROVE Linked(F2[k], C2[k], F2[k + 1].c_func, C2[k + 1].args)
  <2>1. k \in 1 .. Len(F)
    BY <1>1, <1>6
  <2>2. CASE k = Len(F)
    <3>1. F # <<>> /\ Last(F) = F[k] /\ Last(C) = C[k]
      BY <1>1, <2>1, <2>2 DEF Last
    <3>2. Linked(F[k], C[k], fr.c_func, c.args)
      BY <3>1 DEF Atop, Follows
    <3> QED
      BY <1>6, <1>7, <2>1, <2>2, <3>2
  <2>3. CASE k # Len(F)
    <3>1. k \in 1 .. Len(F) - 1 /\ k + 1 \in 1 .. Len(F)
      BY <1>1, <2>1, <2>3
    <3>2. Linked(F[k], C[k], F[k + 1].c_func, C[k + 1].args)
      BY <3>1 DEF Atop, Chain
    <3> QED
      BY <1>6, <1>7, <2>1, <3>1, <3>2
  <2> QED
    BY <2>2, <2>3
<1>12. ASSUME NEW k \in 1 .. Len(F2), NEW l \in 1 .. Len(F2), Gathers(F2[k]), Gathers(F2[l]), k # l
       PROVE  Own(F2[k]) # Own(F2[l])
  <2>1. \A i \in 1 .. Len(F) : Gathers(F[i]) /\ Gathers(fr) => Own(F[i]) # Own(fr)
    BY DEF Atop, Apart
  <2>2. \A i, j \in 1 .. Len(F) : Gathers(F[i]) /\ Gathers(F[j]) /\ i # j => Own(F[i]) # Own(F[j])
    BY DEF Atop, Chain
  <2> QED
    BY <1>6, <1>8, <1>12, <2>1, <2>2
<1>13. Chain(F2, C2, its)
  BY <1>5, <1>9, <1>10, <1>11, <1>12 DEF Chain
<1> QED
  BY <1>2, <1>3, <1>4, <1>6, <1>7, <1>13

-------------------------------------------------------------------------------
(*****************************************************************************)
(* Waiting calls are not disturbed by what runs above them.                  *)
(*****************************************************************************)
(* The stack holds values. *)
LEMMA StackTyped ==
  ASSUME NEW F, NEW C, \A k \in 1 .. Len(F) : Held(F[k], C[k]) \in Seq(Val), Len(F) \in Nat
  PROVE  Stack(F, C) \in Seq(Val)
<1>1. PICK ss : ss = [k \in 1 .. Len(F) |-> Held(F[k], C[k])]
  OBVIOUS
<1>2. ss \in Seq(Seq(Val)) /\ <<>> \in Seq(Val)
  BY <1>1
<1>3. FlattenSeq(ss) \in Seq(Val)
  BY <1>2, FlattenAppend
<1> QED
  BY <1>1, <1>3 DEF Stack

(* The last waiting call is taken from the others. *)
LEMMA ChainSplits ==
  ASSUME NEW F, NEW C, NEW its, Chain(F, C, its), Lists(its), F # <<>>
  PROVE  \E G, D, fr, c :
           /\ F = Append(G, fr) /\ C = Append(D, c)
           /\ Atop(G, D, fr, c, its) /\ Proper(fr, c, its) /\ Waits(fr, c)
<1>1. F \in Seq(FrameRec) /\ C \in Seq(CallRec) /\ Len(F) = Len(C) /\ Len(F) \in Nat /\ C # <<>>
  BY DEF Chain, Under
<1>2. PICK G \in Seq(FrameRec), fr \in FrameRec : F = Append(G, fr)
  BY <1>1, Split
<1>3. PICK D \in Seq(CallRec), c \in CallRec : C = Append(D, c)
  BY <1>1, Split
<1>4. /\ Len(F) = Len(G) + 1 /\ F[Len(G) + 1] = fr /\ Len(G) \in Nat
      /\ \A k \in 1 .. Len(G) : F[k] = G[k] /\ k \in 1 .. Len(F)
  BY <1>2
<1>5. /\ Len(C) = Len(D) + 1 /\ C[Len(D) + 1] = c /\ Len(D) = Len(G)
      /\ \A k \in 1 .. Len(G) : C[k] = D[k]
  BY <1>1, <1>3, <1>4
<1>6. Len(G) + 1 \in 1 .. Len(F)
  BY <1>4
<1>7. Proper(fr, c, its) /\ Waits(fr, c)
  BY <1>4, <1>5, <1>6 DEF Chain
<1>8. Under(G, D)
  <2>1. \A k \in 1 .. Len(F) : Held(F[k], C[k]) \in Seq(Val)
    BY DEF Chain, Under
  <2>2. \A k \in 1 .. Len(G) : Held(G[k], D[k]) \in Seq(Val)
    BY <1>4, <1>5, <2>1
  <2> QED
    BY <1>4, <1>5, <2>2, StackTyped DEF Under
<1>9. G # <<>> => G[1].c_func = "block"
  <2> SUFFICES ASSUME G # <<>> PROVE G[1].c_func = "block"
    OBVIOUS
  <2>1. 1 \in 1 .. Len(G) /\ F[1].c_func = "block"
    BY <1>4 DEF Chain
  <2> QED
    BY <1>4, <2>1
<1>10. \A k \in 1 .. Len(G) : Waits(G[k], D[k]) /\ Proper(G[k], D[k], its)
  BY <1>4, <1>5 DEF Chain
<1>11. ASSUME NEW k \in 1 .. Len(G) PROVE Linked(G[k], D[k], F[k + 1].c_func, C[k + 1].args)
  <2>1. k \in 1 .. Len(F) - 1
    BY <1>4
  <2>2. Linked(F[k], C[k], F[k + 1].c_func, C[k + 1].args)
    BY <2>1 DEF Chain
  <2> QED
    BY <1>4, <1>5, <2>2
<1>12. \A k \in 1 .. Len(G) - 1 : Linked(G[k], D[k], G[k + 1].c_func, D[k + 1].args)
  <2> SUFFICES ASSUME NEW k \in 1 .. Len(G) - 1 PROVE Linked(G[k], D[k], G[k + 1].c_func, D[k + 1].args)
    OBVIOUS
  <2>1. k \in 1 .. Len(G) /\ k + 1 \in 1 .. Len(G)
    BY <1>4
  <2> QED
    BY <1>4, <1>5, <1>11, <2>1
<1>13. Follows(G, D, fr.c_func, c.args)
  <2>1. CASE G = <<>>
    <3>1. F[1] = fr
      BY <1>4, <2>1
    <3> QED
      BY <2>1, <3>1 DEF Follows, Chain
  <2>2. CASE G # <<>>
    <3>1. Len(G) \in 1 .. Len(G) /\ Last(G) = G[Len(G)] /\ Last(D) = D[Len(G)]
      BY <1>4, <1>5, <2>2 DEF Last
    <3>2. Linked(Last(G), Last(D), fr.c_func, c.args)
      BY <1>4, <1>5, <1>11, <3>1
    <3> QED
      BY <2>2, <3>2 DEF Follows
  <2> QED
    BY <2>1, <2>2
<1>14. \A k, l \in 1 .. Len(F) : Gathers(F[k]) /\ Gathers(F[l]) /\ k # l => Own(F[k]) # Own(F[l])
  BY DEF Chain
<1>15. \A k, l \in 1 .. Len(G) : Gathers(G[k]) /\ Gathers(G[l]) /\ k # l => Own(G[k]) # Own(G[l])
  BY <1>4, <1>14
<1>16. Apart(G, fr)
  <2> SUFFICES ASSUME NEW k \in 1 .. Len(G), Gathers(G[k]), Gathers(fr) PROVE Own(G[k]) # Own(fr)
    BY DEF Apart
  <2>1. k # Len(G) + 1
    BY <1>4
  <2> QED
    BY <1>4, <1>6, <1>14, <2>1
<1>17. Atop(G, D, fr, c, its)
  BY <1>8, <1>9, <1>10, <1>12, <1>13, <1>15, <1>16 DEF Atop, Chain
<1> QED
  BY <1>2, <1>3, <1>7, <1>17

(* Lists may grow, and new ones come, while a call waits; those that a     *)
(* waiting call gathers in stay as they are.                               *)
Grown(its, its2) ==
  Lists(its) /\ Lists(its2) /\ Len(its) <= Len(its2) /\ Len(its[Mine]) <= Len(its2[Mine])
Spared(fr, its, its2) == Gathers(fr) => its2[Own(fr)] = its[Own(fr)]

(* A waiting call stays as it should while lists grow. *)
LEMMA ProperKept ==
  ASSUME NEW fr \in FrameRec, NEW c \in CallRec, NEW its, NEW its2, Proper(fr, c, its), Grown(its, its2),
         Spared(fr, its, its2)
  PROVE  Proper(fr, c, its2)
<1>1. Suited(fr.c_func, c)
  BY DEF Proper
<1>2. ASSUME fr.c_func \in ListFunctions, ~fr.fresh
      PROVE  InLocals(fr, c, its2) /\ Gathered(fr, c, its2, Len(c.asked) - 1)
  <2>1. InLocals(fr, c, its) /\ Gathered(fr, c, its, Len(c.asked) - 1)
    BY <1>2 DEF Proper
  <2>2. Len(its) \in Nat /\ Len(its2) \in Nat /\ Len(its) <= Len(its2)
        /\ Len(c.asked) \in Nat /\ Len(its[Mine]) \in Nat /\ Len(its2[Mine]) \in Nat
        /\ Len(its[Mine]) <= Len(its2[Mine])
    BY DEF Grown, Lists, Mine, CallRec
  <2>3. \A r \in 2 .. Len(its) : r \in 2 .. Len(its2)
    BY <2>2
  <2>4. fr.c_func \in {"map", "filter"} => \E r \in 2 .. Len(its2) : fr.locals[4] = List(r)
    BY <2>1, <2>3 DEF InLocals
  <2>5. Len(c.asked) <= Len(its2[Mine])
    BY <2>1, <2>2 DEF InLocals
  <2>6. InLocals(fr, c, its2)
    BY <2>1, <2>4, <2>5 DEF InLocals
  <2>7. fr.c_func \in {"map", "filter"} => its2[Own(fr)] = its[Own(fr)]
    BY <1>2 DEF Spared, Gathers
  <2>8. Gathered(fr, c, its2, Len(c.asked) - 1)
    BY <2>1, <2>7 DEF Gathered
  <2> QED
    BY <2>6, <2>8
<1> QED
  BY <1>1, <1>2 DEF Proper

(* So do all of them. *)
LEMMA ChainKept ==
  ASSUME NEW F, NEW C, NEW its, NEW its2, Chain(F, C, its), Grown(its, its2),
         \A k \in 1 .. Len(F) : Spared(F[k], its, its2)
  PROVE  Chain(F, C, its2)
<1>1. F \in Seq(FrameRec) /\ C \in Seq(CallRec) /\ Len(C) = Len(F)
  BY DEF Chain, Under
<1>2. ASSUME NEW k \in 1 .. Len(F) PROVE Proper(F[k], C[k], its2)
  <2>1. F[k] \in FrameRec /\ C[k] \in CallRec
    BY <1>1
  <2>2. Proper(F[k], C[k], its) /\ Spared(F[k], its, its2)
    BY DEF Chain
  <2> QED
    BY <2>1, <2>2, ProperKept
<1> QED
  BY <1>2 DEF Chain

-------------------------------------------------------------------------------
(*****************************************************************************)
(* A call ends.                                                              *)
(*****************************************************************************)
(* The kinds of calls *)
LEMMA FuncCases ==
  ASSUME NEW fr \in FrameRec
  PROVE  \/ fr.c_func = "block" /\ fr.c_func \notin ListFunctions
         \/ fr.c_func \in ListFunctions
         \/ fr.c_func = "print" /\ fr.c_func \notin ListFunctions
         \/ fr.c_func = "println" /\ fr.c_func \notin ListFunctions
         \/ fr.c_func = "again" /\ fr.c_func \notin ListFunctions
BY DEF FrameRec, Names, ListFunctions

(* What a waiting call waits for *)
LEMMA WaitsCases ==
  ASSUME NEW fr, NEW c, Waits(fr, c)
  PROVE  /\ ~fr.fresh
         /\ fr.c_func \in ListFunctions => Awaiting(c)
         /\ fr.c_func = "print" => Awaiting(c)
         /\ fr.c_func \in {"println", "again"} => c.given = <<>>
BY DEF Waits, ListFunctions

(* A call that was given a value *)
LEMMA GivenFields ==
  ASSUME NEW c \in CallRec, NEW v \in Val
  PROVE  /\ Given(c, v).args = c.args /\ Given(c, v).on = c.on /\ Given(c, v).asked = c.asked
         /\ Given(c, v).given = Append(c.given, v)
         /\ Len(Given(c, v).given) = Len(c.given) + 1 /\ Given(c, v).given # <<>>
         /\ Last(Given(c, v).given) = v
         /\ \A p \in 1 .. Len(c.given) : Given(c, v).given[p] = c.given[p]
         /\ Given(c, v).given[Len(c.given) + 1] = v
         /\ LeftOf(Given(c, v)) = LeftOf(c)
<1>1. /\ Given(c, v).args = c.args /\ Given(c, v).on = c.on /\ Given(c, v).asked = c.asked
      /\ Given(c, v).given = Append(c.given, v)
  BY DEF Given, CallOf
<1>2. PICK s : s = Append(c.given, v)
  OBVIOUS
<1>3. c.given \in Seq(Val)
  BY DEF CallRec
<1>4. /\ Len(s) = Len(c.given) + 1 /\ s # <<>> /\ Last(s) = v
  BY <1>2, <1>3, Ends
<1>5. (\A p \in 1 .. Len(c.given) : s[p] = c.given[p]) /\ s[Len(c.given) + 1] = v
  BY <1>2, <1>3
<1> QED
  BY <1>1, <1>2, <1>4, <1>5 DEF LeftOf

(* A value delivered to a waiting call is what its part of the stack grows by. *)
LEMMA AnswerHeld ==
  ASSUME NEW fr \in FrameRec, NEW c \in CallRec, Waits(fr, c), NEW v \in Val
  PROVE  Held(fr, Given(c, v)) = Held(fr, c) \o <<v>>
<1>1. PICK d \in CallRec : d = Given(c, v)
  BY GivenCall
<1>2. /\ d.args = c.args /\ d.on = c.on /\ d.asked = c.asked /\ d.given = Append(c.given, v)
      /\ Len(d.given) = Len(c.given) + 1 /\ d.given # <<>> /\ Last(d.given) = v
      /\ LeftOf(d) = LeftOf(c)
  BY <1>1, GivenFields
<1>3. c.given \in Seq(Val) /\ c.given \o <<v>> = d.given /\ <<v>> \in Seq(Val) /\ <<>> \o <<v>> = <<v>>
  BY <1>2, OneMore DEF CallRec
<1>4. CASE fr.c_func = "block"
  BY <1>1, <1>3, <1>4, HoldsBlock
<1>5. CASE fr.c_func \in ListFunctions
  <2>1. Awaiting(c) /\ ~fr.fresh
    BY <1>5, WaitsCases
  <2>2. Answered(d)
    BY <1>2, <2>1 DEF Answered, Awaiting
  <2>3. Last(c.asked) \in Val
    BY <2>1 DEF CallRec, Awaiting, Last
  <2>4. Held(fr, c) = IF fr.c_func = "filter" THEN <<Last(c.asked)>> ELSE <<>>
    BY <1>5, <2>1, HoldsAwaiting
  <2>5. Held(fr, d) = IF fr.c_func = "filter" THEN <<Last(c.asked), v>> ELSE <<v>>
    BY <1>2, <1>5, <2>1, <2>2, HoldsAnswered
  <2>6. <<Last(c.asked)>> \o <<v>> = <<Last(c.asked), v>>
    BY <2>3, PairOf
  <2> QED
    BY <1>1, <1>3, <2>4, <2>5, <2>6
<1>6. CASE fr.c_func = "print"
  <2>1. Awaiting(c)
    BY <1>6, WaitsCases
  <2>2. ~Answered(c) /\ Answered(d)
    BY <1>2, <2>1 DEF Answered, Awaiting, CallRec
  <2>3. Held(fr, c) = Append(LeftOf(c), Integer(Len(LeftOf(c))))
    BY <1>6, <2>2, HoldsPrint
  <2>4. Held(fr, d) = Append(LeftOf(c), Integer(Len(LeftOf(c)))) \o <<v>>
    BY <1>2, <1>6, <2>2, HoldsPrint
  <2> QED
    BY <1>1, <2>3, <2>4
<1>7. CASE fr.c_func = "println"
  BY <1>1, <1>3, <1>7, HoldsPrintLn DEF Waits
<1>8. CASE fr.c_func = "again"
  <2>1. Held(fr, c) = <<Integer(0)>> \o c.given /\ Held(fr, d) = <<Integer(0)>> \o d.given
    BY <1>8, HoldsAgain DEF Waits
  <2>2. PICK z \in Seq(Val) : z = <<Integer(0)>>
    <3>1. <<Integer(0)>> \in Seq(Val)
      BY ValsIn
    <3> QED
      BY <3>1
  <2>3. PICK g \in Seq(Val) : g = c.given
    BY <1>3
  <2>4. (z \o g) \o <<v>> = z \o (g \o <<v>>)
    BY <1>3, Assoc, Concat
  <2> QED
    BY <1>1, <1>3, <2>1, <2>2, <2>3, <2>4
<1> QED
  BY <1>4, <1>5, <1>6, <1>7, <1>8, FuncCases

(* A waiting call that got its value is ready. *)
LEMMA AnswerReady ==
  ASSUME NEW fr \in FrameRec, NEW c \in CallRec, Waits(fr, c), NEW v \in Val,
         fr.c_func = "println" => v = Nil
  PROVE  Ready(fr, Given(c, v))
<1>1. PICK d \in CallRec : d = Given(c, v)
  BY GivenCall
<1>2. /\ d.asked = c.asked /\ d.given = Append(c.given, v)
      /\ Len(d.given) = Len(c.given) + 1 /\ d.given # <<>>
  BY <1>1, GivenFields
<1>3. CASE fr.c_func = "block"
  BY <1>1, <1>3 DEF Waits, Ready
<1>4. CASE fr.c_func \in ListFunctions \cup {"print"}
  <2>1. Awaiting(c) /\ ~fr.fresh
    BY <1>4, WaitsCases
  <2>2. Answered(d)
    BY <1>2, <2>1 DEF Answered, Awaiting
  <2> QED
    BY <1>1, <1>4, <2>1, <2>2 DEF Ready
<1>5. CASE fr.c_func = "println"
  <2>1. c.given = <<>> /\ ~fr.fresh
    BY <1>5, WaitsCases
  <2>2. d.given = <<Nil>>
    BY <1>2, <1>5, <2>1
  <2> QED
    BY <1>1, <1>5, <2>1, <2>2 DEF Ready
<1>6. CASE fr.c_func = "again"
  <2>1. c.given = <<>> /\ ~fr.fresh
    BY <1>6, WaitsCases
  <2>2. Len(d.given) = 1
    BY <1>2, <2>1
  <2> QED
    BY <1>1, <1>6, <2>1, <2>2 DEF Ready
<1> QED
  BY <1>3, <1>4, <1>5, <1>6, FuncCases

(* It still is what it should be. *)
LEMMA AnswerProper ==
  ASSUME NEW fr \in FrameRec, NEW c \in CallRec, NEW its, Waits(fr, c), Proper(fr, c, its), NEW v \in Val
  PROVE  Proper(fr, Given(c, v), its)
<1>1. PICK d \in CallRec : d = Given(c, v)
  BY GivenCall
<1>2. /\ d.args = c.args /\ d.on = c.on /\ d.asked = c.asked
      /\ Len(d.given) = Len(c.given) + 1
      /\ \A p \in 1 .. Len(c.given) : d.given[p] = c.given[p]
  BY <1>1, GivenFields
<1>3. Suited(fr.c_func, d)
  BY <1>2 DEF Proper, Suited
<1>4. ASSUME fr.c_func \in ListFunctions, ~fr.fresh
      PROVE  InLocals(fr, d, its) /\ Gathered(fr, d, its, Len(d.asked) - 1)
  <2>1. InLocals(fr, c, its) /\ Gathered(fr, c, its, Len(c.asked) - 1)
    BY <1>4 DEF Proper
  <2>2. InLocals(fr, d, its)
    BY <1>2, <2>1 DEF InLocals
  <2>3. Awaiting(c)
    BY <1>4, WaitsCases
  <2>4. Len(c.asked) - 1 = Len(c.given) /\ Len(c.given) \in Nat
    BY <2>3 DEF Awaiting, CallRec
  <2>5. PICK n \in Nat : n = Len(c.given)
    BY <2>4
  <2>6. Gathered(fr, c, its, n)
    BY <2>1, <2>4, <2>5
  <2>7. \A p \in 1 .. n : d.given[p] = c.given[p]
    BY <1>2, <2>5
  <2>8. SoFar(d, n) = SoFar(c, n)
    BY <1>2, <2>5, <2>7 DEF SoFar
  <2>9. Yes(d, n) = Yes(c, n)
    BY <2>7 DEF Yes
  <2>10. \A kept : KeptTo(kept, c, n) => KeptTo(kept, d, n)
    BY <1>2, <2>9 DEF KeptTo
  <2>11. \A made : MapsTo(made, c, n) => MapsTo(made, d, n)
    BY <2>7 DEF MapsTo
  <2>12. Gathered(fr, d, its, n)
    BY <2>6, <2>7, <2>8, <2>10, <2>11 DEF Gathered
  <2> QED
    BY <1>2, <2>2, <2>4, <2>5, <2>12
<1> QED
  BY <1>1, <1>3, <1>4 DEF Proper

(* A value for the call on top of the waiting ones: the machine is good. *)
LEMMA DeliveredGood ==
  ASSUME NEW F, NEW C, NEW fr, NEW c, NEW its, Atop(F, C, fr, c, its), Proper(fr, c, its), Waits(fr, c),
         NEW v \in Val, fr.c_func = "println" => v = Nil
  PROVE  /\ Delivered(Mach(F, C, fr, c, Held(fr, c), its), v)
              = Mach(F, C, fr, Given(c, v), Held(fr, Given(c, v)), its)
         /\ Atop(F, C, fr, Given(c, v), its)
         /\ Good(Delivered(Mach(F, C, fr, c, Held(fr, c), its), v))
<1>1. Under(F, C) /\ fr \in FrameRec /\ c \in CallRec
  BY DEF Atop, Chain
<1>2. PICK h \in Seq(Val) : h = Held(fr, c)
  BY <1>1, WaitingHolds
<1>3. PICK d \in CallRec : d = Given(c, v)
  BY <1>1, GivenCall
<1>4. Held(fr, d) = h \o <<v>>
  BY <1>1, <1>2, <1>3, AnswerHeld
<1>5. Delivered(Mach(F, C, fr, c, h, its), v) = Mach(F, C, fr, d, h \o <<v>>, its)
  BY <1>1, <1>3, DeliveredAt
<1>6. Proper(fr, d, its) /\ Ready(fr, d)
  BY <1>1, <1>3, AnswerProper, AnswerReady
<1>7. d.args = c.args
  BY <1>1, <1>3, GivenFields
<1>8. Atop(F, C, fr, d, its)
  BY <1>7 DEF Atop
<1>9. Delivered(Mach(F, C, fr, c, Held(fr, c), its), v) = Mach(F, C, fr, d, Held(fr, d), its)
  BY <1>2, <1>4, <1>5
<1>10. Good(Delivered(Mach(F, C, fr, c, Held(fr, c), its), v))
  BY <1>6, <1>8, <1>9 DEF Good
<1> QED
  BY <1>3, <1>8, <1>9, <1>10

(* A call ends: its value goes to the one below. *)
Returned(m, its, n, v) ==
  m.items = its /\ Len(m.calls) = n /\ Last(Last(m.calls).given) = v

(* A call that ends leaves a good machine, its value on top. *)
LEMMA FinishedGood ==
  ASSUME NEW F, NEW C, NEW fr, NEW c, NEW its, Atop(F, C, fr, c, its), F # <<>>,
         NEW v \in Val, fr.c_func = "print" => v = Nil
  PROVE  /\ Good(Finished(Mach(F, C, fr, c, <<>>, its), v))
         /\ Returned(Finished(Mach(F, C, fr, c, <<>>, its), v), its, Len(F), v)
<1>1. Chain(F, C, its) /\ Lists(its) /\ fr \in FrameRec /\ c \in CallRec
  BY DEF Atop
<1>2. PICK G, D, g, d :
           /\ F = Append(G, g) /\ C = Append(D, d)
           /\ Atop(G, D, g, d, its) /\ Proper(g, d, its) /\ Waits(g, d)
  BY <1>1, ChainSplits
<1>3. Under(G, D) /\ g \in FrameRec /\ d \in CallRec /\ G \in Seq(FrameRec) /\ D \in Seq(CallRec)
      /\ Len(G) = Len(D)
  BY <1>2 DEF Atop, Chain, Under
<1>4. PICK h \in Seq(Val) : h = Held(g, d)
  BY <1>2, <1>3, WaitingHolds
<1>5. Left(Mach(F, C, fr, c, <<>>, its)) = Mach(G, D, g, d, h, its)
  <2>1. PICK t \in Seq(Val) : t = <<>>
    <3>1. <<>> \in Seq(Val)
      OBVIOUS
    <3> QED
      BY <3>1
  <2>2. h \o t = h
    BY <2>1
  <2>3. Held(g, d) \in Seq(Val)
    BY <1>4
  <2>4. Left(Mach(Append(G, g), Append(D, d), fr, c, t, its)) = Mach(G, D, g, d, Held(g, d) \o t, its)
    BY <1>1, <1>3, <2>3, LeftAt
  <2> QED
    BY <1>2, <1>4, <2>1, <2>2, <2>4
<1>6. g.c_func = "println" => v = Nil
  <2>1. Last(F) = g /\ Last(C) = d
    BY <1>2, <1>3, Ends
  <2>2. Linked(g, d, fr.c_func, c.args)
    BY <2>1 DEF Atop, Follows
  <2> QED
    BY <2>2 DEF Linked
<1>7. PICK m : m = Finished(Mach(F, C, fr, c, <<>>, its), v)
  OBVIOUS
<1>8. m = Delivered(Mach(G, D, g, d, Held(g, d), its), v)
  BY <1>4, <1>5, <1>7 DEF Finished
<1>9. Good(m) /\ m = Mach(G, D, g, Given(d, v), Held(g, Given(d, v)), its)
  BY <1>2, <1>6, <1>8, DeliveredGood
<1>10. Given(d, v) \in CallRec /\ Last(Given(d, v).given) = v
  BY <1>3, GivenCall, GivenFields
<1>11. m.items = its /\ Last(m.calls) = Given(d, v) /\ Len(m.calls) = Len(G) + 1
  BY <1>3, <1>9, <1>10, LastAt
<1>12. Len(F) = Len(G) + 1
  BY <1>2, <1>3
<1> QED
  BY <1>7, <1>9, <1>10, <1>11, <1>12 DEF Returned

-------------------------------------------------------------------------------
(*****************************************************************************)
(* A call is entered.                                                        *)
(*****************************************************************************)
(* A list that got an element, among the others *)
LEMMA LongerIs ==
  ASSUME NEW its, Lists(its), NEW l \in 1 .. Len(its), NEW v \in Val
  PROVE  /\ Grown(its, Longer(its, l, v)) /\ Len(Longer(its, l, v)) = Len(its)
         /\ Longer(its, l, v)[l] = Append(its[l], v)
         /\ \A k \in 1 .. Len(its) : k # l => Longer(its, l, v)[k] = its[k]
<1>1. PICK y : y = Append(its[l], v)
  OBVIOUS
<1>2. PICK i2 : i2 = [its EXCEPT ![l] = y]
  OBVIOUS
<1>3. i2 = Longer(its, l, v)
  BY <1>1, <1>2, Zenon DEF Longer
<1>4. its \in Seq(Seq(Val)) /\ Len(its) \in Nat /\ Len(its) >= 1 /\ its[l] \in Seq(Val)
  BY DEF Lists
<1>5. y \in Seq(Val) /\ Len(y) = Len(its[l]) + 1
  BY <1>1, <1>4
<1>6. /\ i2 \in Seq(Seq(Val)) /\ Len(i2) = Len(its) /\ i2[l] = y
      /\ \A k \in 1 .. Len(its) : k # l => i2[k] = its[k]
  BY <1>2, <1>4, <1>5
<1>7. Len(its[Mine]) <= Len(i2[Mine])
  <2>1. Mine \in 1 .. Len(its) /\ its[Mine] \in Seq(Val)
    BY <1>4 DEF Mine
  <2>2. Len(its[Mine]) \in Nat
    BY <2>1
  <2>3. CASE l = Mine
    BY <1>5, <1>6, <2>2, <2>3
  <2>4. CASE l # Mine
    BY <1>6, <2>1, <2>2, <2>4
  <2> QED
    BY <2>3, <2>4
<1>8. Grown(its, i2)
  BY <1>4, <1>6, <1>7 DEF Grown, Lists
<1> QED
  BY <1>1, <1>3, <1>6, <1>8

(* The list a method gathers in is not the one the methods walk. *)
LEMMA OwnIs ==
  ASSUME NEW fr \in FrameRec, NEW c, NEW its, Proper(fr, c, its), Gathers(fr)
  PROVE  Own(fr) \in 2 .. Len(its) /\ fr.locals[4] = List(Own(fr))
<1>1. fr.c_func \in {"map", "filter"} /\ ~fr.fresh /\ fr.c_func \in ListFunctions
  BY DEF Gathers, ListFunctions
<1>2. PICK r \in 2 .. Len(its) : fr.locals[4] = List(r)
  BY <1>1 DEF Proper, InLocals
<1>3. List(r)[2] = r
  BY DEF List
<1> QED
  BY <1>2, <1>3 DEF Own

(* A waiting call gathers in a list there is. *)
LEMMA ChainOwn ==
  ASSUME NEW F, NEW C, NEW its, Chain(F, C, its), NEW k \in 1 .. Len(F), Gathers(F[k])
  PROVE  Own(F[k]) \in 2 .. Len(its)
<1>1. F[k] \in FrameRec /\ Proper(F[k], C[k], its)
  BY DEF Chain, Under
<1> QED
  BY <1>1, OwnIs

(* All of this stays while lists grow that no waiting call gathers in. *)
LEMMA AtopKept ==
  ASSUME NEW F, NEW C, NEW fr, NEW c, NEW its, NEW its2, Atop(F, C, fr, c, its), Grown(its, its2),
         \A k \in 1 .. Len(F) : Spared(F[k], its, its2)
  PROVE  Atop(F, C, fr, c, its2)
BY ChainKept DEF Atop, Grown

(* A frame that was just made gathers nothing. *)
LEMMA NewFrame ==
  ASSUME NEW f \in Names, NEW args \in Seq(Val), NEW on \in Val
  PROVE  /\ New(f) \in FrameRec /\ New(f).c_func = f /\ New(f).fresh = (f # "block") /\ New(f).locals = <<>>
         /\ Called(args, on) \in CallRec /\ Called(args, on).args = args /\ Called(args, on).on = on
         /\ Called(args, on).asked = <<>> /\ Called(args, on).given = <<>>
         /\ Ready(New(f), Called(args, on))
<1>1. <<>> \in Seq(Val) /\ <<>> \in Seq(Val \cup Nat) /\ (f # "block") \in BOOLEAN
  OBVIOUS
<1>2. New(f) \in FrameRec /\ New(f).c_func = f /\ New(f).fresh = (f # "block") /\ New(f).locals = <<>>
  BY <1>1 DEF New, FrameRec
<1>3. /\ Called(args, on) \in CallRec /\ Called(args, on).args = args /\ Called(args, on).on = on
      /\ Called(args, on).asked = <<>> /\ Called(args, on).given = <<>>
  BY <1>1 DEF Called, CallOf, CallRec
<1>4. Ready(New(f), Called(args, on))
  BY <1>2, <1>3 DEF Ready
<1> QED
  BY <1>2, <1>3, <1>4

(* A call that is entered leaves a good machine. *)
LEMMA EnteredGood ==
  ASSUME NEW F, NEW C, NEW fr, NEW c, NEW its, Atop(F, C, fr, c, its), Proper(fr, c, its), Waits(fr, c),
         NEW f \in Names, NEW args \in Seq(Val), NEW on \in Val,
         Linked(fr, c, f, args), Suited(f, Called(args, on)),
         NEW t \in Seq(Val), t = Held(New(f), Called(args, on))
  PROVE  /\ Good(Entered(Mach(F, C, fr, c, Held(fr, c) \o t, its), f, args, on))
         /\ Len(Entered(Mach(F, C, fr, c, Held(fr, c) \o t, its), f, args, on).calls) = Len(F) + 2
<1>1. Under(F, C) /\ fr \in FrameRec /\ c \in CallRec /\ Lists(its) /\ F \in Seq(FrameRec)
  BY DEF Atop, Chain, Under
<1>2. Held(fr, c) \in Seq(Val)
  BY <1>1, WaitingHolds
<1>3. PICK F2 : F2 = Append(F, fr)
  OBVIOUS
<1>4. PICK C2 : C2 = Append(C, c)
  OBVIOUS
<1>5. PICK g \in FrameRec : g = New(f)
  BY NewFrame
<1>6. PICK d \in CallRec : d = Called(args, on)
  BY NewFrame
<1>7. /\ g.c_func = f /\ g.fresh = (f # "block") /\ g.locals = <<>> /\ d.args = args /\ d.on = on
      /\ d.asked = <<>> /\ d.given = <<>> /\ Ready(g, d)
  BY <1>5, <1>6, NewFrame
<1>8. PICK m : m = Mach(F2, C2, g, d, t, its)
  OBVIOUS
<1>9. Entered(Mach(F, C, fr, c, Held(fr, c) \o t, its), f, args, on) = m
  BY <1>1, <1>2, <1>3, <1>4, <1>5, <1>6, <1>8, EnteredAt
<1>10. Chain(F2, C2, its) /\ F2 # <<>> /\ Last(F2) = fr /\ Last(C2) = c
  BY <1>3, <1>4, ChainGrows
<1>11. Follows(F2, C2, g.c_func, d.args)
  BY <1>7, <1>10 DEF Follows
<1>12. ~Gathers(g)
  BY <1>7 DEF Gathers
<1>13. Atop(F2, C2, g, d, its)
  BY <1>1, <1>10, <1>11, <1>12 DEF Atop, Apart
<1>14. Proper(g, d, its)
  <2>1. f \in ListFunctions => g.fresh
    BY <1>7 DEF ListFunctions
  <2> QED
    BY <1>6, <1>7, <2>1 DEF Proper
<1>15. Good(m)
  BY <1>5, <1>6, <1>7, <1>8, <1>13, <1>14 DEF Good
<1>16. Len(m.calls) = Len(F2) + 1
  BY <1>8, <1>10, LastAt DEF Chain
<1>17. Len(F2) = Len(F) + 1 /\ Len(F) \in Nat
  BY <1>1, <1>3
<1>18. Len(m.calls) = Len(F) + 2
  BY <1>16, <1>17
<1> QED
  BY <1>9, <1>15, <1>18


-------------------------------------------------------------------------------
(*****************************************************************************)
(* What can be called: the script's block, println, a method.                *)
(*****************************************************************************)
(* The kinds of values are told apart by their first field. *)
LEMMA ValTags ==
  ASSUME NEW v \in Val
  PROVE  /\ v[1] = "block" => v = Block
         /\ v[1] = "builtin" => v = PrintLn
         /\ v[1] = "bound" => \E f \in Methods : v = Bound(f, Mine)
         /\ v[1] = "ref" => v = Ref(Block)
         /\ v[1] = "integer" => \E n \in Nat : v = Integer(n)
<1>1. \/ v \in {Nil, Convert, Block, PrintLn, Boolean(TRUE), Boolean(FALSE), Ref(Block)}
      \/ \E s \in Texts : v = Text(s)
      \/ \E n \in Nat : v = Integer(n)
      \/ \E l \in Nat : v = List(l)
      \/ \E f \in Methods : v = Bound(f, Mine)
  BY DEF Val, Texting
<1>2. /\ Nil[1] = "nil" /\ Convert[1] = "symbol" /\ Block[1] = "block" /\ PrintLn[1] = "builtin"
      /\ Boolean(TRUE)[1] = "boolean" /\ Boolean(FALSE)[1] = "boolean" /\ Ref(Block)[1] = "ref"
      /\ \A s \in Texts : Text(s)[1] = "text"
      /\ \A n \in Nat : Integer(n)[1] = "integer"
      /\ \A l \in Nat : List(l)[1] = "list"
      /\ \A f \in Methods : Bound(f, Mine)[1] = "bound"
  BY DEF Nil, Convert, Block, PrintLn, Boolean, Ref, Text, Integer, List, Bound
<1> QED
  BY <1>1, <1>2

(* A call waits for what f, a value, makes of these parameters. *)
Gets(fr, c, args) ==
  fr.c_func \in ListFunctions =>
    args = IF fr.c_func = "reduce" THEN <<Last(c.asked), SoFar(c, Len(c.given))>> ELSE <<Last(c.asked)>>
Calling(F, C, fr, c, its, args) ==
  /\ Atop(F, C, fr, c, its) /\ Proper(fr, c, its) /\ Waits(fr, c)
  /\ fr.c_func # "println" /\ args \in Seq(Val) /\ Gets(fr, c, args)
Goes(m, n) == Good(m) /\ (Len(m.calls) = n \/ Len(m.calls) = n + 1)

(* What is known of a call that calls *)
LEMMA CallingFacts ==
  ASSUME NEW F, NEW C, NEW fr, NEW c, NEW its, NEW args, Calling(F, C, fr, c, its, args)
  PROVE  /\ Under(F, C) /\ F \in Seq(FrameRec) /\ fr \in FrameRec /\ c \in CallRec /\ Lists(its)
         /\ Held(fr, c) \in Seq(Val)
         /\ Reverse(args) \in Seq(Val) /\ Len(Reverse(args)) = Len(args) /\ Len(args) \in Nat
         /\ Integer(Len(args)) \in Val
         /\ \A f : f # "print" /\ f # "again" => Linked(fr, c, f, args)
<1>1. Under(F, C) /\ F \in Seq(FrameRec) /\ fr \in FrameRec /\ c \in CallRec /\ Lists(its)
  BY DEF Calling, Atop, Chain, Under
<1>2. Held(fr, c) \in Seq(Val)
  BY <1>1, WaitingHolds DEF Calling
<1>3. args \in Seq(Val)
  BY DEF Calling
<1>4. Reverse(args) \in Seq(Val) /\ Len(Reverse(args)) = Len(args) /\ Len(args) \in Nat
  BY <1>3, Reversed
<1>5. Integer(Len(args)) \in Val
  BY <1>4, ValsIn
<1>6. \A f : f # "print" /\ f # "again" => Linked(fr, c, f, args)
  BY DEF Calling, Gets, Linked
<1> QED
  BY <1>1, <1>2, <1>4, <1>5, <1>6

(* The script's block is called: it runs. *)
LEMMA CallsBlock ==
  ASSUME NEW F, NEW C, NEW fr, NEW c, NEW its, NEW args, Calling(F, C, fr, c, its, args), NEW on \in Val
  PROVE  Goes(Entered(Mach(F, C, fr, c, Held(fr, c), its), "block", args, on), Len(F) + 1)
<1>1. PICK h \in Seq(Val) : h = Held(fr, c)
  BY CallingFacts
<1>2. PICK t \in Seq(Val) : t = <<>>
  <2>1. <<>> \in Seq(Val)
    OBVIOUS
  <2> QED
    BY <2>1
<1>3. args \in Seq(Val) /\ Linked(fr, c, "block", args) /\ "block" \in Names /\ Len(F) \in Nat
  BY CallingFacts DEF Calling, Names
<1>4. t = Held(New("block"), Called(args, on))
  BY <1>2, <1>3, HoldsBlock, NewFrame
<1>5. Suited("block", Called(args, on))
  BY DEF Suited, ListFunctions
<1>6. h \o t = h
  BY <1>1, <1>2
<1>7. PICK m : m = Entered(Mach(F, C, fr, c, Held(fr, c) \o t, its), "block", args, on)
  OBVIOUS
<1>8. Good(m) /\ Len(m.calls) = Len(F) + 2
  BY <1>3, <1>4, <1>5, <1>7, EnteredGood DEF Calling
<1>9. Goes(m, Len(F) + 1)
  BY <1>3, <1>8 DEF Goes
<1> QED
  BY <1>1, <1>6, <1>7, <1>9

(* A function just entered has its parameters. *)
LEMMA FreshHeld ==
  ASSUME NEW args \in Seq(Val), NEW on \in Val
  PROVE  /\ Held(New("println"), Called(args, on)) = Append(Reverse(args), Integer(Len(args)))
         /\ \A f \in ListFunctions : Held(New(f), Called(args, on)) = Append(Reverse(args), on)
<1>1. Held(New("println"), Called(args, on)) = Append(Reverse(args), Integer(Len(args)))
  <2>1. "println" \in Names
    BY DEF Names
  <2>2. PICK g \in FrameRec : g = New("println") /\ g.c_func = "println" /\ g.fresh
    BY <2>1, NewFrame
  <2>3. PICK d \in CallRec : d = Called(args, on) /\ d.args = args /\ d.asked = <<>>
    BY <2>1, NewFrame
  <2>4. Held(g, d) = Append(Reverse(d.args), Integer(Len(d.args)))
    BY <2>2, <2>3, HoldsPrintLn
  <2> QED
    BY <2>2, <2>3, <2>4
<1>2. ASSUME NEW f \in ListFunctions PROVE Held(New(f), Called(args, on)) = Append(Reverse(args), on)
  <2>1. f \in Names /\ f # "block"
    BY DEF Names, ListFunctions
  <2>2. PICK g \in FrameRec : g = New(f) /\ g.c_func = f /\ g.fresh
    BY <2>1, NewFrame
  <2>3. PICK d \in CallRec : d = Called(args, on) /\ d.args = args /\ d.on = on
    BY <2>1, NewFrame
  <2>4. Held(g, d) = Append(Reverse(d.args), d.on)
    BY <2>2, <2>3, HoldsParameters
  <2> QED
    BY <2>2, <2>3, <2>4
<1> QED
  BY <1>1, <1>2

(* println is called: it runs. *)
LEMMA CallsPrintLn ==
  ASSUME NEW F, NEW C, NEW fr, NEW c, NEW its, NEW args, Calling(F, C, fr, c, its, args), NEW on \in Val
  PROVE  Goes(Entered(Mach(F, C, fr, c, Held(fr, c) \o Append(Reverse(args), Integer(Len(args))), its),
                      "println", args, on), Len(F) + 1)
<1>1. PICK t \in Seq(Val) : t = Append(Reverse(args), Integer(Len(args)))
  <2>1. Append(Reverse(args), Integer(Len(args))) \in Seq(Val)
    BY CallingFacts
  <2> QED
    BY <2>1
<1>2. args \in Seq(Val) /\ Linked(fr, c, "println", args) /\ "println" \in Names /\ Len(F) \in Nat
  BY CallingFacts DEF Calling, Names
<1>3. t = Held(New("println"), Called(args, on))
  BY <1>1, <1>2, FreshHeld
<1>4. Suited("println", Called(args, on))
  BY DEF Suited, ListFunctions
<1>5. PICK m : m = Entered(Mach(F, C, fr, c, Held(fr, c) \o t, its), "println", args, on)
  OBVIOUS
<1>6. Good(m) /\ Len(m.calls) = Len(F) + 2
  BY <1>2, <1>3, <1>4, <1>5, EnteredGood DEF Calling
<1> QED
  BY <1>1, <1>2, <1>5, <1>6 DEF Goes

(* A method is push or walks the list; none has the name of a built-in     *)
(* function.                                                               *)
LEMMA MethodNames ==
  ASSUME NEW f \in Methods
  PROVE  /\ f = "push" \/ f \in ListFunctions
         /\ f \in ListFunctions => f \in Names /\ f # "print" /\ f # "again" /\ f # "block" /\ f # "push"
BY DEF Methods, ListFunctions, Names

(* A method is called: it runs. *)
LEMMA CallsMethod ==
  ASSUME NEW F, NEW C, NEW fr, NEW c, NEW its, NEW args, Calling(F, C, fr, c, its, args),
         NEW f \in ListFunctions, f \in Methods, Len(args) = Arity(f)
  PROVE  Goes(Entered(Pushed(Mach(F, C, fr, c, Held(fr, c) \o Reverse(args), its), <<List(Mine)>>),
                      f, args, List(Mine)), Len(F) + 1)
<1>1. PICK h \in Seq(Val) : h = Held(fr, c)
  BY CallingFacts
<1>2. PICK r \in Seq(Val) : r = Reverse(args)
  BY CallingFacts
<1>3. PICK l \in Val : l = List(Mine)
  BY ValsIn DEF Mine
<1>4. PICK z \in Seq(Val) : z = <<l>>
  <2>1. <<l>> \in Seq(Val)
    OBVIOUS
  <2> QED
    BY <2>1
<1>5. PICK t \in Seq(Val) : t = Append(r, l)
  <2>1. Append(r, l) \in Seq(Val)
    OBVIOUS
  <2> QED
    BY <2>1
<1>6. PICK x \in Seq(Val) : x = h \o r
  BY Concat
<1>7. Pushed(Mach(F, C, fr, c, h \o r, its), z) = Mach(F, C, fr, c, h \o t, its)
  <2>1. r \o z = t
    <3>1. r \o <<l>> = Append(r, l)
      BY OneMore
    <3> QED
      BY <3>1, <1>4, <1>5, Zenon
  <2>2. (h \o r) \o z = h \o (r \o z)
    OBVIOUS
  <2>3. x \o z = h \o t
    BY <1>6, <2>1, <2>2
  <2>4. Pushed(Mach(F, C, fr, c, x, its), z) = Mach(F, C, fr, c, x \o z, its)
    BY PushedTo, CallingFacts
  <2> QED
    BY <1>6, <2>3, <2>4
<1>8. args \in Seq(Val) /\ Linked(fr, c, f, args) /\ f \in Names /\ f # "block" /\ f # "print" /\ Len(F) \in Nat
  BY CallingFacts, MethodNames DEF Calling
<1>9. t = Held(New(f), Called(args, l))
  BY <1>2, <1>3, <1>5, <1>8, FreshHeld
<1>10. Suited(f, Called(args, l))
  BY <1>3, <1>8, NewFrame DEF Suited
<1>11. PICK m : m = Entered(Mach(F, C, fr, c, Held(fr, c) \o t, its), f, args, l)
  OBVIOUS
<1>12. Good(m) /\ Len(m.calls) = Len(F) + 2
  BY <1>8, <1>9, <1>10, <1>11, EnteredGood DEF Calling
<1>13. Goes(m, Len(F) + 1)
  BY <1>8, <1>12 DEF Goes
<1> QED
  BY <1>1, <1>2, <1>3, <1>4, <1>7, <1>11, <1>13

(* An element is added to the list the methods walk. *)
LEMMA Pushes ==
  ASSUME NEW F, NEW C, NEW fr, NEW c, NEW its, NEW args, Calling(F, C, fr, c, its, args), NEW v \in Val
  PROVE  Goes(Delivered(Appended(Mach(F, C, fr, c, Held(fr, c), its), List(Mine), v), Nil), Len(F) + 1)
<1>1. PICK i2 : i2 = Longer(its, Mine, v)
  OBVIOUS
<1>2. Lists(its) /\ Under(F, C) /\ fr \in FrameRec /\ c \in CallRec /\ Mine \in 1 .. Len(its)
  BY CallingFacts DEF Lists, Mine
<1>3. Grown(its, i2) /\ \A k \in 1 .. Len(its) : k # Mine => i2[k] = its[k]
  BY <1>1, <1>2, LongerIs
<1>4. \A k \in 1 .. Len(F) : Spared(F[k], its, i2)
  <2> SUFFICES ASSUME NEW k \in 1 .. Len(F), Gathers(F[k]) PROVE i2[Own(F[k])] = its[Own(F[k])]
    BY DEF Spared
  <2>1. Own(F[k]) \in 2 .. Len(its)
    BY ChainOwn DEF Calling, Atop
  <2> QED
    BY <1>3, <2>1 DEF Mine
<1>5. Spared(fr, its, i2)
  <2> SUFFICES ASSUME Gathers(fr) PROVE i2[Own(fr)] = its[Own(fr)]
    BY DEF Spared
  <2>1. Own(fr) \in 2 .. Len(its)
    BY <1>2, OwnIs DEF Calling
  <2> QED
    BY <1>3, <2>1 DEF Mine
<1>6. Atop(F, C, fr, c, i2)
  BY <1>3, <1>4, AtopKept DEF Calling
<1>7. Proper(fr, c, i2)
  BY <1>2, <1>3, <1>5, ProperKept DEF Calling
<1>8. Appended(Mach(F, C, fr, c, Held(fr, c), its), List(Mine), v) = Mach(F, C, fr, c, Held(fr, c), i2)
  BY <1>1, AppendedAt
<1>9. PICK m : m = Delivered(Mach(F, C, fr, c, Held(fr, c), i2), Nil)
  OBVIOUS
<1>10. Good(m) /\ m = Mach(F, C, fr, Given(c, Nil), Held(fr, Given(c, Nil)), i2)
  BY <1>6, <1>7, <1>9, ValsIn, DeliveredGood DEF Calling
<1>11. Given(c, Nil) \in CallRec
  BY <1>2, ValsIn, GivenCall
<1>12. Len(m.calls) = Len(F) + 1
  BY <1>2, <1>10, <1>11, LastAt
<1> QED
  BY <1>8, <1>9, <1>10, <1>12 DEF Goes

-------------------------------------------------------------------------------
(*****************************************************************************)
(* sbVm_call_func.                                                           *)
(*****************************************************************************)
(* The count is read back from its value. *)
LEMMA IntegerIs ==
  ASSUME NEW n
  PROVE  Integer(n)[1] = "integer" /\ Integer(n)[2] = n
BY DEF Integer

(* What sbVm_call_func finds on the stack *)
LEMMA CountOnTop ==
  ASSUME NEW F, NEW C, Under(F, C), NEW fr, NEW c, NEW its, NEW h \in Seq(Val), NEW args \in Seq(Val),
         NEW m, m = Mach(F, C, fr, c, h \o Append(Reverse(args), Integer(Len(args))), its)
  PROVE  /\ Peek(m, 0) = Integer(Len(args))
         /\ Popped(m, 1) = Mach(F, C, fr, c, h \o Reverse(args), its)
         /\ Popped(m, Len(args) + 1) = Mach(F, C, fr, c, h, its)
         /\ TopArgs(Popped(m, 1), Len(args)) = args
<1>1. PICK r \in Seq(Val) : r = Reverse(args) /\ Len(r) = Len(args)
  BY Reversed
<1>2. PICK i \in Val : i = Integer(Len(args))
  BY ValsIn
<1>3. PICK t \in Seq(Val) : t = Append(r, i) /\ Len(t) = Len(args) + 1 /\ t[Len(args) + 1] = i
  <2>1. Append(r, i) \in Seq(Val) /\ Len(Append(r, i)) = Len(args) + 1 /\ Append(r, i)[Len(args) + 1] = i
    BY <1>1
  <2> QED
    BY <2>1
<1>4. m = Mach(F, C, fr, c, h \o t, its)
  BY <1>1, <1>2, <1>3
<1>5. Peek(m, 0) = i
  <2>1. 0 \in 0 .. Len(t) - 1 /\ Len(t) - 0 = Len(args) + 1
    BY <1>3
  <2>2. Peek(Mach(F, C, fr, c, h \o t, its), 0) = t[Len(t) - 0]
    BY <2>1, PeekAt
  <2> QED
    BY <1>3, <1>4, <2>1, <2>2
<1>6. Popped(m, 1) = Mach(F, C, fr, c, h \o r, its)
  <2>1. PICK z \in Seq(Val) : z = <<i>>
    <3>1. <<i>> \in Seq(Val)
      OBVIOUS
    <3> QED
      BY <3>1
  <2>2. r \o z = t
    <3>1. r \o <<i>> = Append(r, i)
      BY OneMore
    <3> QED
      BY <1>3, <2>1, <3>1, Zenon
  <2>3. (h \o r) \o z = h \o (r \o z)
    OBVIOUS
  <2>4. PICK x \in Seq(Val) : x = h \o r
    BY Concat
  <2>5. Len(z) = 1
    BY <2>1
  <2>6. Popped(Mach(F, C, fr, c, x \o z, its), Len(z)) = Mach(F, C, fr, c, x, its)
    BY PoppedTo
  <2>7. x \o z = h \o t
    BY <2>2, <2>3, <2>4
  <2> QED
    BY <1>4, <2>4, <2>5, <2>6, <2>7
<1>7. Popped(m, Len(args) + 1) = Mach(F, C, fr, c, h, its)
  <2>1. Popped(Mach(F, C, fr, c, h \o t, its), Len(t)) = Mach(F, C, fr, c, h, its)
    BY PoppedTo
  <2> QED
    BY <1>3, <1>4, <2>1
<1>8. TopArgs(Mach(F, C, fr, c, h \o Reverse(args), its), Len(args)) = args
  BY TopArgsAt
<1> QED
  BY <1>1, <1>2, <1>5, <1>6, <1>7, <1>8

(* The parameter of push *)
LEMMA OneOnTop ==
  ASSUME NEW F, NEW C, Under(F, C), NEW fr, NEW c, NEW its, NEW h \in Seq(Val), NEW args \in Seq(Val),
         Len(args) = 1, NEW m, m = Mach(F, C, fr, c, h \o Reverse(args), its)
  PROVE  Popped(m, 1) = Mach(F, C, fr, c, h, its) /\ Peek(m, 0) \in Val
<1>1. PICK r \in Seq(Val) : r = Reverse(args) /\ Len(r) = 1
  BY Reversed
<1>2. m = Mach(F, C, fr, c, h \o r, its)
  BY <1>1
<1>3. Popped(Mach(F, C, fr, c, h \o r, its), Len(r)) = Mach(F, C, fr, c, h, its)
  BY PoppedTo
<1>4. 0 \in 0 .. Len(r) - 1 /\ Len(r) - 0 = 1
  BY <1>1
<1>5. Peek(Mach(F, C, fr, c, h \o r, its), 0) = r[Len(r) - 0]
  BY <1>4, PeekAt
<1>6. r[1] \in Val
  <2>1. 1 \in 1 .. Len(r)
    BY <1>1
  <2>2. \A i \in 1 .. Len(r) : r[i] \in Val
    OBVIOUS
  <2> QED
    BY <2>1, <2>2
<1> QED
  BY <1>1, <1>2, <1>3, <1>4, <1>5, <1>6

(* A fault of the script in the middle of calls *)
LEMMA BrokenHere ==
  ASSUME NEW F, NEW C, NEW fr, NEW c, NEW its, NEW s, Atop(F, C, fr, c, its), fr.fresh => fr.locals = <<>>
  PROVE  Broken(Panicked(Mach(F, C, fr, c, s, its), "script"))
BY DEF Broken

(* A method is called with any number of parameters: if it is not the      *)
(* right one the script is at fault.                                       *)
LEMMA MethodGoes ==
  ASSUME NEW F, NEW C, NEW fr, NEW c, NEW its, NEW args, Calling(F, C, fr, c, its, args),
         NEW f \in Methods, NEW p, p = Mach(F, C, fr, c, Held(fr, c) \o Reverse(args), its),
         TopArgs(p, Len(args)) = args,
         NEW m, m = MethodCalled(p, f, Mine, Len(args))
  PROVE  Goes(m, Len(F) + 1) \/ Broken(m)
<1>1. PICK h \in Seq(Val) : h = Held(fr, c)
  BY CallingFacts
<1>2. Under(F, C) /\ args \in Seq(Val) /\ Len(args) \in Nat
  BY CallingFacts DEF Calling
<1>3. CASE Len(args) # Arity(f)
  <2>1. m = Panicked(p, "script")
    BY <1>3 DEF MethodCalled
  <2>2. Atop(F, C, fr, c, its) /\ ~fr.fresh
    BY DEF Calling, Waits
  <2> QED
    BY <2>1, <2>2, BrokenHere
<1>4. CASE Len(args) = Arity(f) /\ f = "push"
  <2>1. m = Delivered(Appended(Popped(p, 1), List(Mine), Peek(p, 0)), Nil)
    BY <1>4 DEF MethodCalled
  <2>2. Len(args) = 1
    BY <1>4 DEF Arity
  <2>3. Popped(p, 1) = Mach(F, C, fr, c, h, its) /\ Peek(p, 0) \in Val
    BY <1>1, <1>2, <2>2, OneOnTop
  <2>4. PICK v \in Val : v = Peek(p, 0)
    BY <2>3
  <2>5. Goes(Delivered(Appended(Mach(F, C, fr, c, Held(fr, c), its), List(Mine), v), Nil), Len(F) + 1)
    BY Pushes
  <2> QED
    BY <1>1, <2>1, <2>3, <2>4, <2>5
<1>5. CASE Len(args) = Arity(f) /\ f # "push"
  <2>1. m = Entered(Pushed(p, <<List(Mine)>>), f, TopArgs(p, Len(args)), List(Mine))
    BY <1>5 DEF MethodCalled
  <2>2. f \in ListFunctions
    BY <1>5, MethodNames
  <2> QED
    BY <1>5, <2>1, <2>2, CallsMethod
<1> QED
  BY <1>3, <1>4, <1>5

(* Whatever a C function, or the script, calls with parameters and their   *)
(* count on the stack: a call begins, a method is done, or the script      *)
(* fails.                                                                  *)
LEMMA FuncGoes ==
  ASSUME NEW F, NEW C, NEW fr, NEW c, NEW its, NEW args, Calling(F, C, fr, c, its, args), NEW f \in Val,
         NEW m, m = Mach(F, C, fr, c, Held(fr, c) \o Append(Reverse(args), Integer(Len(args))), its)
  PROVE  Goes(FuncCalled(m, f), Len(F) + 1) \/ Broken(FuncCalled(m, f))
<1>1. PICK h \in Seq(Val) : h = Held(fr, c)
  BY CallingFacts
<1>2. Under(F, C) /\ args \in Seq(Val) /\ Len(args) \in Nat
  BY CallingFacts DEF Calling
<1>3. m = Mach(F, C, fr, c, h \o Append(Reverse(args), Integer(Len(args))), its)
  BY <1>1
<1>4. /\ Peek(m, 0) = Integer(Len(args))
      /\ Popped(m, 1) = Mach(F, C, fr, c, h \o Reverse(args), its)
      /\ Popped(m, Len(args) + 1) = Mach(F, C, fr, c, h, its)
      /\ TopArgs(Popped(m, 1), Len(args)) = args
  BY <1>2, <1>3, CountOnTop
<1>5. Peek(m, 0)[1] = "integer" /\ Peek(m, 0)[2] = Len(args)
  BY <1>4, IntegerIs
<1>6. CASE f[1] \notin {"block", "builtin", "bound"}
  <2>1. FuncCalled(m, f) = Panicked(m, "script")
    BY <1>6, Zenon DEF FuncCalled
  <2>2. Atop(F, C, fr, c, its) /\ ~fr.fresh
    BY DEF Calling, Waits
  <2> QED
    BY <2>1, <2>2, BrokenHere
<1>7. CASE f[1] = "block"
  <2>1. FuncCalled(m, f) = Entered(Popped(m, Len(args) + 1), "block", args, f)
    BY <1>4, <1>5, <1>7 DEF FuncCalled
  <2> QED
    BY <1>1, <1>4, <2>1, CallsBlock
<1>8. CASE f[1] = "builtin"
  <2>1. FuncCalled(m, f) = Entered(m, "println", args, f)
    BY <1>4, <1>5, <1>8 DEF FuncCalled
  <2> QED
    BY <1>1, <1>3, <2>1, CallsPrintLn
<1>9. CASE f[1] = "bound"
  <2>1. PICK g \in Methods : f = Bound(g, Mine)
    BY <1>9, ValTags
  <2>2. f[2] = g /\ f[3] = Mine
    BY <2>1 DEF Bound
  <2>3. PICK p : p = Popped(m, 1)
    OBVIOUS
  <2>4. FuncCalled(m, f) = MethodCalled(p, g, Mine, Len(args))
    BY <1>4, <1>5, <1>9, <2>2, <2>3 DEF FuncCalled
  <2>5. p = Mach(F, C, fr, c, Held(fr, c) \o Reverse(args), its) /\ TopArgs(p, Len(args)) = args
    BY <1>1, <1>4, <2>3
  <2> QED
    BY <2>4, <2>5, MethodGoes
<1> QED
  BY <1>6, <1>7, <1>8, <1>9

-------------------------------------------------------------------------------
(*****************************************************************************)
(* A list method between two turns.                                          *)
(*****************************************************************************)
(* A list method between two turns: n elements are dealt with. *)
Turn(F, C, fr, c, its) ==
  /\ Atop(F, C, fr, c, its)
  /\ fr.c_func \in ListFunctions /\ ~fr.fresh /\ Suited(fr.c_func, c)
  /\ Len(c.asked) = Len(c.given) /\ InLocals(fr, c, its) /\ Gathered(fr, c, its, Len(c.given))

(* What a call that ends promises, stated of lists before and after *)
Keeps(f, c, value, its, its2) ==
  LET all == Len(c.given) = Len(its[c.on[2]])
  IN  CASE f = "each" -> value = Nil /\ all
        [] f = "map" -> its2[value[2]] = c.given /\ all
        [] f = "filter" -> AreKept(its2[value[2]], c) /\ all
        [] f = "reduce" -> all /\ value = IF c.given = <<>> THEN c.args[1] ELSE Last(c.given)
        [] f = "any" -> value = Boolean(Picked(c) # {}) /\ (all \/ Picked(c) # {})
        [] f = "all" -> /\ value = Boolean(Picked(c) = DOMAIN c.given)
                        /\ all \/ Picked(c) # DOMAIN c.given
        [] f = "println" -> value = Nil
        [] f = "print" -> value = Nil /\ c.asked = c.args
        [] OTHER -> TRUE
Outcome(m, F, f, c, its) ==
  \/ Goes(m, Len(F) + 1)
  \/ Broken(m)
  \/ Good(m) /\ Len(m.calls) = Len(F) /\ Keeps(f, c, Last(Last(m.calls).given), its, m.items)

(* What is known of a method between two turns *)
LEMMA TurnFacts ==
  ASSUME NEW F, NEW C, NEW fr, NEW c, NEW its, Turn(F, C, fr, c, its)
  PROVE  /\ Under(F, C) /\ F \in Seq(FrameRec) /\ F # <<>> /\ fr \in FrameRec /\ c \in CallRec
         /\ Lists(its) /\ its[Mine] \in Seq(Val) /\ c.on = List(Mine) /\ Len(c.given) \in Nat
         /\ Len(c.given) <= Len(its[Mine]) /\ Len(c.args) = Arity(fr.c_func)
         /\ fr.locals \in Seq(Val \cup Nat) /\ fr.locals[1] = List(Mine) /\ fr.locals[2] = Len(c.given)
         /\ fr.locals[3] = c.args[Arity(fr.c_func)] /\ fr.locals[3] \in Val
         /\ Len(fr.locals) = IF fr.c_func \in {"each", "any", "all"} THEN 3 ELSE 4
<1>1. /\ Under(F, C) /\ F \in Seq(FrameRec) /\ fr \in FrameRec /\ c \in CallRec /\ Lists(its)
  BY DEF Turn, Atop, Chain, Under
<1>2. F # <<>>
  BY DEF Turn, Atop, Follows, ListFunctions
<1>3. its[Mine] \in Seq(Val)
  BY <1>1 DEF Lists, Mine
<1>4. c.on = List(Mine) /\ Len(c.args) = Arity(fr.c_func)
  BY DEF Turn, Suited
<1>5. Len(c.given) \in Nat /\ Len(c.asked) = Len(c.given)
  BY <1>1 DEF Turn, CallRec
<1>6. /\ Len(c.given) <= Len(its[Mine]) /\ fr.locals[1] = List(Mine) /\ fr.locals[2] = Len(c.given)
      /\ fr.locals[3] = c.args[Arity(fr.c_func)]
      /\ Len(fr.locals) = IF fr.c_func \in {"each", "any", "all"} THEN 3 ELSE 4
  BY <1>5 DEF Turn, InLocals
<1>7. fr.locals[3] \in Val
  <2>1. Arity(fr.c_func) \in 1 .. Len(c.args)
    BY <1>4 DEF Arity
  <2>2. c.args \in Seq(Val)
    BY <1>1 DEF CallRec
  <2> QED
    BY <1>6, <2>1, <2>2
<1>8. fr.locals \in Seq(Val \cup Nat)
  BY <1>1 DEF FrameRec
<1> QED
  BY <1>1, <1>2, <1>3, <1>4, <1>5, <1>6, <1>7, <1>8

(* What it gathered is what it promises. *)
LEMMA Gathering ==
  ASSUME NEW F, NEW C, NEW fr, NEW c, NEW its, Turn(F, C, fr, c, its), NEW n \in Nat, n = Len(c.given)
  PROVE  /\ fr.c_func = "map" => fr.locals[4] = List(Own(fr)) /\ Own(fr) \in 2 .. Len(its)
                                 /\ its[Own(fr)] = c.given
         /\ fr.c_func = "filter" => fr.locals[4] = List(Own(fr)) /\ Own(fr) \in 2 .. Len(its)
                                    /\ KeptTo(its[Own(fr)], c, n)
         /\ fr.c_func = "reduce" => fr.locals[4] = SoFar(c, n) /\ SoFar(c, n) \in Val
         /\ fr.c_func = "any" => \A p \in 1 .. n : Falsy(c.given[p])
         /\ fr.c_func = "all" => \A p \in 1 .. n : ~Falsy(c.given[p])
<1>1. Gathered(fr, c, its, n) /\ InLocals(fr, c, its)
  BY DEF Turn
<1>2. c \in CallRec /\ Lists(its) /\ fr \in FrameRec /\ Len(c.args) = Arity(fr.c_func)
  BY TurnFacts
<1>3. ASSUME fr.c_func \in {"map", "filter"}
      PROVE  fr.locals[4] = List(Own(fr)) /\ Own(fr) \in 2 .. Len(its)
  <2>1. PICK r \in 2 .. Len(its) : fr.locals[4] = List(r)
    BY <1>1, <1>3 DEF InLocals
  <2>2. List(r)[2] = r
    BY DEF List
  <2> QED
    BY <2>1, <2>2 DEF Own
<1>4. ASSUME fr.c_func = "map" PROVE its[Own(fr)] = c.given
  <2>1. MapsTo(its[Own(fr)], c, n)
    BY <1>1, <1>4 DEF Gathered
  <2>2. PICK r \in 2 .. Len(its) : r = Own(fr)
    BY <1>3, <1>4
  <2>3. its[r] \in Seq(Val) /\ c.given \in Seq(Val)
    BY <1>2 DEF Lists, CallRec
  <2>4. Len(its[r]) = Len(c.given) /\ \A p \in 1 .. Len(its[r]) : its[r][p] = c.given[p]
    BY <2>1, <2>2 DEF MapsTo
  <2>5. its[r] = c.given
    BY <2>3, <2>4, SameSeq
  <2> QED
    BY <2>2, <2>5
<1>5. SoFar(c, n) \in Val \/ fr.c_func # "reduce"
  <2>1. c.args \in Seq(Val) /\ c.given \in Seq(Val)
    BY <1>2 DEF CallRec
  <2>2. fr.c_func = "reduce" => Len(c.args) = 2
    BY <1>2 DEF Arity
  <2>3. n # 0 => n \in 1 .. Len(c.given)
    OBVIOUS
  <2> QED
    BY <2>1, <2>2, <2>3 DEF SoFar
<1> QED
  BY <1>1, <1>3, <1>4, <1>5 DEF Gathered

(* The answers that were yes *)
LEMMA PickedAre ==
  ASSUME NEW c \in CallRec, NEW n \in Nat, n = Len(c.given)
  PROVE  /\ Picked(c) = Yes(c, n) /\ DOMAIN c.given = 1 .. n
         /\ \A kept : KeptTo(kept, c, n) => AreKept(kept, c)
<1>1. DOMAIN c.given = 1 .. n
  BY DEF CallRec
<1>2. Picked(c) = Yes(c, n)
  BY <1>1 DEF Picked, Yes
<1>3. \A kept : KeptTo(kept, c, n) => AreKept(kept, c)
  BY <1>2 DEF KeptTo, AreKept
<1> QED
  BY <1>1, <1>2, <1>3

(* The value a method has after the last element is the one it promises. *)
LEMMA ResultKeeps ==
  ASSUME NEW F, NEW C, NEW fr, NEW c, NEW its, Turn(F, C, fr, c, its), Len(c.given) = Len(its[Mine]),
         NEW m, m = Mach(F, C, fr, c, <<>>, its)
  PROVE  /\ Result(m, fr.c_func) \in Val
         /\ Keeps(fr.c_func, c, Result(m, fr.c_func), its, its)
<1>1. PICK n \in Nat : n = Len(c.given)
  BY TurnFacts
<1>2. c \in CallRec /\ c.on = List(Mine) /\ fr \in FrameRec /\ Under(F, C) /\ fr.c_func \in ListFunctions
  BY TurnFacts DEF Turn
<1>3. c.on[2] = Mine
  BY <1>2 DEF List
<1>4. Len(c.given) = Len(its[c.on[2]])
  BY <1>3
<1>5. Local(m, 3) = fr.locals[4]
  BY <1>2, LocalAt
<1>6. CASE fr.c_func = "each"
  <2>1. Result(m, fr.c_func) = Nil
    BY <1>6 DEF Result
  <2> QED
    BY <1>4, <1>6, <2>1, ValsIn DEF Keeps
<1>7. CASE fr.c_func = "map"
  <2>1. Result(m, fr.c_func) = List(Own(fr)) /\ Own(fr) \in Nat /\ its[Own(fr)] = c.given
    BY <1>1, <1>5, <1>7, Gathering DEF Result
  <2>2. List(Own(fr))[2] = Own(fr)
    BY DEF List
  <2> QED
    BY <1>4, <1>7, <2>1, <2>2, ValsIn DEF Keeps
<1>8. CASE fr.c_func = "filter"
  <2>1. Result(m, fr.c_func) = List(Own(fr)) /\ Own(fr) \in Nat /\ KeptTo(its[Own(fr)], c, n)
    BY <1>1, <1>5, <1>8, Gathering DEF Result
  <2>2. List(Own(fr))[2] = Own(fr)
    BY DEF List
  <2>3. AreKept(its[Own(fr)], c)
    BY <1>1, <1>2, <2>1, PickedAre
  <2> QED
    BY <1>4, <1>8, <2>1, <2>2, <2>3, ValsIn DEF Keeps
<1>9. CASE fr.c_func = "reduce"
  <2>1. Result(m, fr.c_func) = SoFar(c, n) /\ SoFar(c, n) \in Val
    BY <1>1, <1>5, <1>9, Gathering DEF Result
  <2>2. SoFar(c, n) = IF c.given = <<>> THEN c.args[1] ELSE Last(c.given)
    BY <1>1, <1>2 DEF SoFar, CallRec, Last
  <2> QED
    BY <1>4, <1>9, <2>1, <2>2 DEF Keeps
<1>10. CASE fr.c_func = "any"
  <2>1. Result(m, fr.c_func) = Boolean(FALSE)
    BY <1>10 DEF Result
  <2>2. Picked(c) = {}
    BY <1>1, <1>2, <1>10, Gathering, PickedAre DEF Yes
  <2>3. Boolean(Picked(c) # {}) = Boolean(FALSE)
    BY <2>2, Zenon
  <2> QED
    BY <1>4, <1>10, <2>1, <2>3, ValsIn, Zenon DEF Keeps
<1>11. CASE fr.c_func = "all"
  <2>1. Result(m, fr.c_func) = Boolean(TRUE)
    BY <1>11 DEF Result
  <2>2. Picked(c) = DOMAIN c.given
    <3>1. \A p \in 1 .. n : ~Falsy(c.given[p])
      BY <1>1, <1>11, Gathering
    <3>2. Yes(c, n) = 1 .. n
      BY <3>1 DEF Yes
    <3> QED
      BY <1>1, <1>2, <3>2, PickedAre
  <2>3. Boolean(Picked(c) = DOMAIN c.given) = Boolean(TRUE)
    BY <2>2, Zenon
  <2> QED
    BY <1>4, <1>11, <2>1, <2>3, ValsIn, Zenon DEF Keeps
<1> QED
  BY <1>2, <1>6, <1>7, <1>8, <1>9, <1>10, <1>11 DEF ListFunctions

-------------------------------------------------------------------------------
(*****************************************************************************)
(* The method's position moves on; after the last element it ends.           *)
(*****************************************************************************)
(* The method at another position *)
Stepped(fr, n) == LocalSet(fr, 2, n)

(* It is the same method. *)
LEMMA SteppedIs ==
  ASSUME NEW F, NEW C, NEW fr, NEW c, NEW its, Turn(F, C, fr, c, its), NEW n \in Nat,
         NEW m, m = Mach(F, C, fr, c, <<>>, its), NEW g, g = Stepped(fr, n)
  PROVE  /\ WithLocal(m, 1, n) = Mach(F, C, g, c, <<>>, its)
         /\ g \in FrameRec /\ g.c_func = fr.c_func /\ ~g.fresh
         /\ Len(g.locals) = Len(fr.locals) /\ g.locals[2] = n
         /\ \A k \in 1 .. Len(fr.locals) : k # 2 => g.locals[k] = fr.locals[k]
         /\ Own(g) = Own(fr) \/ ~Gathers(fr)
<1>1. /\ Under(F, C) /\ fr \in FrameRec /\ fr.locals \in Seq(Val \cup Nat)
      /\ Len(fr.locals) = IF fr.c_func \in {"each", "any", "all"} THEN 3 ELSE 4
  BY TurnFacts
<1>2. ~fr.fresh
  BY DEF Turn
<1>3. PICK at \in 1 .. Len(fr.locals) : at = 1 + 1
  BY <1>1
<1>4. at = 2 /\ g = LocalSet(fr, at, n)
  BY <1>3 DEF Stepped
<1>5. PICK L : L = [fr.locals EXCEPT ![2] = n]
  OBVIOUS
<1>8. g = Begun(fr.c_func, L)
  BY <1>5 DEF Stepped, LocalSet
<1>9. WithLocal(m, 1, n) = Mach(F, C, g, c, <<>>, its) /\ g \in FrameRec
  BY <1>1, <1>2, <1>3, <1>4, WithLocalAt
<1>10. g.c_func = fr.c_func /\ ~g.fresh /\ g.locals = L
  BY <1>8 DEF Begun
<1>11. Len(L) = Len(fr.locals) /\ L[2] = n /\ \A k \in 1 .. Len(fr.locals) : k # 2 => L[k] = fr.locals[k]
  BY <1>1, <1>5
<1>12. Own(g) = Own(fr) \/ ~Gathers(fr)
  <2>1. Gathers(fr) => Len(fr.locals) = 4
    BY <1>1 DEF Gathers
  <2> QED
    BY <1>10, <1>11, <2>1 DEF Own
<1> QED
  BY <1>9, <1>10, <1>11, <1>12

(* It gathers in the same list. *)
LEMMA SteppedApart ==
  ASSUME NEW F, NEW fr, NEW g, Apart(F, fr), g.c_func = fr.c_func, ~g.fresh, ~fr.fresh,
         Own(g) = Own(fr) \/ ~Gathers(fr)
  PROVE  Apart(F, g)
<1>1. Gathers(g) <=> Gathers(fr)
  BY DEF Gathers
<1> QED
  BY <1>1 DEF Apart

(* After the last element the method ends with what it promises. *)
LEMMA TurnEnds ==
  ASSUME NEW F, NEW C, NEW fr, NEW c, NEW its, Turn(F, C, fr, c, its), Len(c.given) = Len(its[Mine]),
         NEW m, m = Mach(F, C, fr, c, <<>>, its), NEW n \in Nat
  PROVE  Outcome(Finished(WithLocal(m, 1, n), Result(m, fr.c_func)), F, fr.c_func, c, its)
<1>1. PICK g : g = Stepped(fr, n)
  OBVIOUS
<1>2. /\ WithLocal(m, 1, n) = Mach(F, C, g, c, <<>>, its)
      /\ g \in FrameRec /\ g.c_func = fr.c_func /\ ~g.fresh
      /\ Own(g) = Own(fr) \/ ~Gathers(fr)
  BY <1>1, SteppedIs
<1>3. PICK v \in Val : v = Result(m, fr.c_func)
  BY ResultKeeps
<1>4. Keeps(fr.c_func, c, v, its, its)
  BY <1>3, ResultKeeps
<1>5. F # <<>> /\ Lists(its) /\ Len(F) \in Nat /\ ~fr.fresh
  BY TurnFacts DEF Turn, FrameRec
<1>6. Apart(F, g)
  BY <1>2, <1>5, SteppedApart DEF Turn, Atop
<1>7. Atop(F, C, g, c, its)
  BY <1>2, <1>6 DEF Turn, Atop
<1>8. g.c_func # "print"
  BY <1>2 DEF Turn, ListFunctions
<1>9. PICK m2 : m2 = Finished(Mach(F, C, g, c, <<>>, its), v)
  OBVIOUS
<1>10. Good(m2) /\ Returned(m2, its, Len(F), v)
  BY <1>5, <1>7, <1>8, <1>9, FinishedGood
<1>11. Outcome(m2, F, fr.c_func, c, its)
  BY <1>4, <1>10 DEF Returned, Outcome
<1> QED
  BY <1>2, <1>3, <1>9, <1>11

-------------------------------------------------------------------------------
(*****************************************************************************)
(* The next element is asked about.                                          *)
(*****************************************************************************)
(* A call that asked once more *)
LEMMA AskedFields ==
  ASSUME NEW c \in CallRec, NEW x \in Val, NEW d, d = Asked(c, x)
  PROVE  /\ d \in CallRec /\ d.args = c.args /\ d.on = c.on /\ d.given = c.given
         /\ d.asked = Append(c.asked, x) /\ Len(d.asked) = Len(c.asked) + 1 /\ Last(d.asked) = x
         /\ \A p \in 1 .. Len(c.asked) : d.asked[p] = c.asked[p]
<1>1. d \in CallRec
  BY AskedCall
<1>2. d.args = c.args /\ d.on = c.on /\ d.given = c.given /\ d.asked = Append(c.asked, x)
  BY DEF Asked, CallOf
<1>3. PICK s : s = Append(c.asked, x)
  OBVIOUS
<1>4. c.asked \in Seq(Val)
  BY DEF CallRec
<1>5. Len(s) = Len(c.asked) + 1 /\ Last(s) = x
  BY <1>3, <1>4, Ends
<1>6. \A p \in 1 .. Len(c.asked) : s[p] = c.asked[p]
  BY <1>3, <1>4
<1> QED
  BY <1>1, <1>2, <1>3, <1>5, <1>6

(* The same method with the same answers gathered *)
Alike(fr, g) ==
  /\ g.c_func = fr.c_func /\ ~fr.fresh /\ ~g.fresh
  /\ Gathers(fr) => Own(g) = Own(fr)
  /\ fr.c_func = "reduce" => g.locals[4] = fr.locals[4]

(* What is kept of the answers does not change with what is asked next. *)
LEMMA AskedGathered ==
  ASSUME NEW fr, NEW g, NEW c \in CallRec, NEW its, NEW n \in Nat, NEW x \in Val, NEW d, d = Asked(c, x),
         Alike(fr, g), n <= Len(c.asked), Gathered(fr, c, its, n)
  PROVE  Gathered(g, d, its, n) /\ SoFar(d, n) = SoFar(c, n)
<1>1. /\ d.args = c.args /\ d.given = c.given /\ \A p \in 1 .. Len(c.asked) : d.asked[p] = c.asked[p]
  BY AskedFields
<1>2. \A made : MapsTo(made, c, n) => MapsTo(made, d, n)
  BY <1>1 DEF MapsTo
<1>3. Yes(d, n) = Yes(c, n)
  BY <1>1 DEF Yes
<1>4. \A p \in Yes(c, n) : d.asked[p] = c.asked[p]
  <2>1. Len(c.asked) \in Nat
    BY DEF CallRec
  <2> QED
    BY <1>1, <2>1 DEF Yes
<1>5. \A kept : KeptTo(kept, c, n) => KeptTo(kept, d, n)
  BY <1>3, <1>4 DEF KeptTo
<1>6. SoFar(d, n) = SoFar(c, n)
  BY <1>1 DEF SoFar
<1>7. fr.c_func \in {"map", "filter"} => Own(g) = Own(fr)
  BY DEF Gathers, Alike
<1>8. g.c_func = fr.c_func /\ (fr.c_func = "reduce" => g.locals[4] = fr.locals[4])
  BY DEF Alike
<1> QED
  BY <1>1, <1>2, <1>5, <1>6, <1>7, <1>8 DEF Gathered

(* One turn further: the next element is asked about. *)
LEMMA AskedProper ==
  ASSUME NEW F, NEW C, NEW fr, NEW c, NEW its, Turn(F, C, fr, c, its),
         NEW n \in Nat, n = Len(c.given), n < Len(its[Mine]),
         NEW x \in Val, NEW d, d = Asked(c, x), NEW g, g = Stepped(fr, n + 1)
  PROVE  /\ Atop(F, C, g, d, its) /\ Proper(g, d, its) /\ Waits(g, d)
         /\ SoFar(d, Len(d.given)) = SoFar(c, n)
<1>1. /\ fr \in FrameRec /\ c \in CallRec /\ Lists(its) /\ its[Mine] \in Seq(Val)
      /\ fr.locals[1] = List(Mine) /\ fr.locals[3] = c.args[Arity(fr.c_func)]
      /\ Len(fr.locals) = IF fr.c_func \in {"each", "any", "all"} THEN 3 ELSE 4
      /\ fr.c_func \in ListFunctions /\ ~fr.fresh
  BY TurnFacts DEF Turn
<1>2. PICK m : m = Mach(F, C, fr, c, <<>>, its)
  OBVIOUS
<1>3. n + 1 \in Nat
  OBVIOUS
<1>4. /\ g \in FrameRec /\ g.c_func = fr.c_func /\ ~g.fresh
      /\ Len(g.locals) = Len(fr.locals) /\ g.locals[2] = n + 1
      /\ \A k \in 1 .. Len(fr.locals) : k # 2 => g.locals[k] = fr.locals[k]
      /\ Own(g) = Own(fr) \/ ~Gathers(fr)
  BY <1>2, <1>3, SteppedIs
<1>5. /\ d \in CallRec /\ d.args = c.args /\ d.on = c.on /\ d.given = c.given
      /\ Len(d.asked) = Len(c.asked) + 1
  <2>1. c \in CallRec
    BY <1>1
  <2> QED
    BY <2>1, AskedFields
<1>6. Len(c.asked) = n /\ Len(d.asked) = n + 1 /\ Len(d.asked) - 1 = n
  BY <1>5 DEF Turn
<1>7. g.locals[1] = fr.locals[1] /\ g.locals[3] = fr.locals[3]
      /\ (Len(fr.locals) = 4 => g.locals[4] = fr.locals[4])
  BY <1>1, <1>4
<1>8. Gathered(g, d, its, n) /\ SoFar(d, n) = SoFar(c, n)
  <2>1. Gathered(fr, c, its, n)
    BY DEF Turn
  <2>2. fr.c_func = "reduce" => g.locals[4] = fr.locals[4]
    BY <1>1, <1>7
  <2>3. Alike(fr, g)
    BY <1>1, <1>4, <2>2 DEF Alike
  <2>4. n <= Len(c.asked)
    BY <1>6
  <2> QED
    BY <1>1, <2>1, <2>3, <2>4, AskedGathered
<1>9. InLocals(g, d, its)
  <2>1. fr.c_func \in {"map", "filter"} => \E r \in 2 .. Len(its) : fr.locals[4] = List(r)
    BY DEF Turn, InLocals
  <2>2. fr.c_func \in {"map", "filter"} => g.locals[4] = fr.locals[4]
    BY <1>1, <1>7
  <2>3. Len(d.asked) <= Len(its[Mine])
    BY <1>1, <1>6
  <2> QED
    BY <1>1, <1>4, <1>5, <1>6, <1>7, <2>1, <2>2, <2>3 DEF InLocals
<1>10. Suited(g.c_func, d)
  BY <1>1, <1>4, <1>5 DEF Turn, Suited, ListFunctions
<1>11. Proper(g, d, its)
  BY <1>6, <1>8, <1>9, <1>10 DEF Proper
<1>12. Awaiting(d)
  BY <1>5, <1>6 DEF Awaiting
<1>13. Waits(g, d)
  BY <1>1, <1>4, <1>12 DEF Waits
<1>14. Apart(F, g)
  BY <1>1, <1>4, SteppedApart DEF Turn, Atop
<1>15. Atop(F, C, g, d, its)
  BY <1>4, <1>5, <1>14 DEF Turn, Atop
<1> QED
  BY <1>5, <1>8, <1>11, <1>13, <1>15

(* What is pushed for it is the method's own share and the parameters of   *)
(* its callback.                                                           *)
AskedOf(fr, c, x) == IF fr.c_func = "reduce" THEN <<x, SoFar(c, Len(c.given))>> ELSE <<x>>

(* A pair, element by element *)
LEMMA TupleGrows ==
  ASSUME NEW x \in Val, NEW y \in Val, NEW k \in Val
  PROVE  /\ Append(<<x>>, k) = <<x, k>> /\ Append(<<y, x>>, k) = <<y, x, k>>
         /\ <<y>> \o <<x, k>> = <<y, x, k>>
<1>1. PICK a \in Seq(Val) : a = <<x>>
  <2>1. <<x>> \in Seq(Val)
    OBVIOUS
  <2> QED
    BY <2>1
<1>2. PICK b \in Seq(Val) : b = <<y, x>>
  <2>1. <<y, x>> \in Seq(Val)
    OBVIOUS
  <2> QED
    BY <2>1
<1>3. PICK u \in Seq(Val) : u = <<x, k>>
  <2>1. <<x, k>> \in Seq(Val)
    OBVIOUS
  <2> QED
    BY <2>1
<1>4. PICK w \in Seq(Val) : w = <<y, x, k>>
  <2>1. <<y, x, k>> \in Seq(Val)
    OBVIOUS
  <2> QED
    BY <2>1
<1>5. PICK e \in Seq(Val) : e = <<y>>
  <2>1. <<y>> \in Seq(Val)
    OBVIOUS
  <2> QED
    BY <2>1
<1>6. /\ Len(a) = 1 /\ a[1] = x /\ Len(b) = 2 /\ b[1] = y /\ b[2] = x /\ Len(e) = 1 /\ e[1] = y
      /\ Len(u) = 2 /\ u[1] = x /\ u[2] = k /\ Len(w) = 3 /\ w[1] = y /\ w[2] = x /\ w[3] = k
  BY <1>1, <1>2, <1>3, <1>4, <1>5
<1>7. (\A i \in 1 .. 2 : i = 1 \/ i = 2) /\ (\A i \in 1 .. 3 : i = 1 \/ i = 2 \/ i = 3)
  OBVIOUS
<1>8. Append(a, k) = u
  <2>1. PICK z \in Seq(Val) : z = Append(a, k)
    BY Ends
  <2>2. Len(z) = 2 /\ z[1] = x /\ z[2] = k
    <3>1. Len(z) = Len(a) + 1 /\ z[Len(a) + 1] = k /\ \A i \in 1 .. Len(a) : z[i] = a[i]
      BY <2>1
    <3> QED
      BY <1>6, <3>1
  <2> QED
    BY <1>6, <1>7, <2>1, <2>2, SameSeq
<1>9. Append(b, k) = w
  <2>1. PICK z \in Seq(Val) : z = Append(b, k)
    BY Ends
  <2>2. Len(z) = 3 /\ z[1] = y /\ z[2] = x /\ z[3] = k
    <3>1. Len(z) = Len(b) + 1 /\ z[Len(b) + 1] = k /\ \A i \in 1 .. Len(b) : z[i] = b[i]
      BY <2>1
    <3> QED
      BY <1>6, <3>1
  <2>3. \A i \in 1 .. 3 : z[i] = w[i]
    BY <1>6, <1>7, <2>2
  <2>4. Len(z) = Len(w) /\ \A i \in 1 .. Len(z) : z[i] = w[i]
    BY <1>6, <2>2, <2>3
  <2> QED
    BY <2>1, <2>4, SameSeq
<1>10. e \o u = w
  <2>1. PICK z \in Seq(Val) : z = e \o u
    BY Concat
  <2>2. Len(z) = 3 /\ z[1] = y /\ z[2] = x /\ z[3] = k
    <3>1. /\ Len(z) = Len(e) + Len(u) /\ \A i \in 1 .. Len(e) : z[i] = e[i]
          /\ \A i \in 1 .. Len(u) : z[Len(e) + i] = u[i]
      BY <2>1, Concat
    <3> QED
      BY <1>6, <3>1
  <2>3. \A i \in 1 .. 3 : z[i] = w[i]
    BY <1>6, <1>7, <2>2
  <2>4. Len(z) = Len(w) /\ \A i \in 1 .. Len(z) : z[i] = w[i]
    BY <1>6, <2>2, <2>3
  <2> QED
    BY <2>1, <2>4, SameSeq
<1> QED
  BY <1>1, <1>2, <1>3, <1>4, <1>5, <1>8, <1>9, <1>10, Zenon

(* The parameters of a callback are pushed last first. *)
LEMMA ReversedPair ==
  ASSUME NEW x \in Val, NEW y \in Val, NEW k \in Val
  PROVE  /\ Append(Reverse(<<x>>), k) = <<x, k>> /\ Len(<<x>>) = 1 /\ <<x>> \in Seq(Val)
         /\ Append(Reverse(<<x, y>>), k) = <<y, x, k>> /\ Len(<<x, y>>) = 2 /\ <<x, y>> \in Seq(Val)
<1>1. Reverse(<<x>>) = <<x>>
  <2>1. PICK s \in Seq(Val) : s = <<x>>
    <3>1. <<x>> \in Seq(Val)
      OBVIOUS
    <3> QED
      BY <3>1
  <2>2. Len(s) = 1 /\ s[1] = x
    BY <2>1
  <2>3. Reverse(s) \in Seq(Val) /\ Len(Reverse(s)) = 1 /\ Reverse(s)[1] = s[1]
    BY <2>2, Reversed
  <2>4. Reverse(s) = s
    BY <2>2, <2>3, SameSeq
  <2> QED
    BY <2>1, <2>4
<1>2. Reverse(<<x, y>>) = <<y, x>>
  <2>1. PICK s \in Seq(Val) : s = <<x, y>>
    <3>1. <<x, y>> \in Seq(Val)
      OBVIOUS
    <3> QED
      BY <3>1
  <2>2. PICK t \in Seq(Val) : t = <<y, x>>
    <3>1. <<y, x>> \in Seq(Val)
      OBVIOUS
    <3> QED
      BY <3>1
  <2>3. Len(s) = 2 /\ s[1] = x /\ s[2] = y /\ Len(t) = 2 /\ t[1] = y /\ t[2] = x
    BY <2>1, <2>2
  <2>4. Reverse(s) \in Seq(Val) /\ Len(Reverse(s)) = 2
        /\ \A i \in 1 .. Len(s) : Reverse(s)[i] = s[Len(s) - i + 1]
    BY <2>3, Reversed
  <2>5. Reverse(s)[1] = s[2] /\ Reverse(s)[2] = s[1]
    BY <2>3, <2>4
  <2>6. \A i \in 1 .. 2 : i = 1 \/ i = 2
    OBVIOUS
  <2>7. Reverse(s) = t
    BY <2>3, <2>4, <2>5, <2>6, SameSeq
  <2> QED
    BY <2>1, <2>2, <2>7
<1>3. Append(<<x>>, k) = <<x, k>> /\ Append(<<y, x>>, k) = <<y, x, k>>
  BY TupleGrows
<1>4. Len(<<x>>) = 1 /\ <<x>> \in Seq(Val) /\ Len(<<x, y>>) = 2 /\ <<x, y>> \in Seq(Val)
  OBVIOUS
<1> QED
  BY <1>1, <1>2, <1>3, <1>4, Zenon

(* What is on the stack when a method calls its callback *)
Beneath(g, d, args) == Held(g, d) \o Append(Reverse(args), Integer(Len(args)))

(* Operands pushes just that. *)
LEMMA OperandsAre ==
  ASSUME NEW F, NEW C, NEW fr, NEW c, NEW its, Turn(F, C, fr, c, its),
         NEW n \in Nat, n = Len(c.given), n < Len(its[Mine]),
         NEW x \in Val, NEW d, d = Asked(c, x), NEW g, g = Stepped(fr, n + 1),
         NEW m, m = Mach(F, C, fr, c, <<>>, its), NEW args, args = AskedOf(fr, c, x)
  PROVE  /\ args \in Seq(Val)
         /\ Operands(m, fr.c_func, x) = Beneath(g, d, args)
         /\ Gets(g, d, args)
<1>1. /\ fr \in FrameRec /\ c \in CallRec /\ fr.c_func \in ListFunctions /\ ~fr.fresh /\ Under(F, C)
  BY TurnFacts DEF Turn
<1>2. d \in CallRec /\ Last(d.asked) = x /\ d.given = c.given
  BY <1>1, AskedFields
<1>3. g \in FrameRec /\ g.c_func = fr.c_func /\ ~g.fresh
  <2>1. n + 1 \in Nat
    OBVIOUS
  <2> QED
    BY <2>1, SteppedIs
<1>4. Awaiting(d) /\ SoFar(d, Len(d.given)) = SoFar(c, n)
  <2>1. Waits(g, d) /\ SoFar(d, Len(d.given)) = SoFar(c, n)
    BY AskedProper
  <2> QED
    BY <1>1, <1>3, <2>1, WaitsCases
<1>5. Held(g, d) = IF fr.c_func = "filter" THEN <<x>> ELSE <<>>
  BY <1>1, <1>2, <1>3, <1>4, HoldsAwaiting
<1>6. PICK one \in Val : one = Integer(1)
  BY ValsIn
<1>7. PICK two \in Val : two = Integer(2)
  BY ValsIn
<1>8. CASE fr.c_func = "reduce"
  <2>1. Local(m, 3) = SoFar(c, n) /\ SoFar(c, n) \in Val
    BY <1>1, <1>8, LocalAt, Gathering
  <2>2. PICK y \in Val : y = SoFar(c, n)
    BY <2>1
  <2>3. args = <<x, y>>
    BY <1>8, <2>2 DEF AskedOf
  <2>4. args \in Seq(Val) /\ Append(Reverse(args), Integer(Len(args))) = <<y, x, two>>
    <3>1. /\ Append(Reverse(<<x, y>>), two) = <<y, x, two>> /\ Len(<<x, y>>) = 2
          /\ <<x, y>> \in Seq(Val)
      BY ReversedPair
    <3> QED
      BY <1>7, <2>3, <3>1, Zenon
  <2>5. <<y, x, two>> \in Seq(Val) /\ <<>> \o <<y, x, two>> = <<y, x, two>>
    OBVIOUS
  <2>6. Operands(m, fr.c_func, x) = <<y, x, two>>
    BY <1>7, <1>8, <2>1, <2>2 DEF Operands
  <2>7. Held(g, d) = <<>>
    BY <1>5, <1>8
  <2>8. Gets(g, d, args)
    BY <1>2, <1>3, <1>4, <1>8, <2>2, <2>3 DEF Gets
  <2> QED
    BY <2>4, <2>5, <2>6, <2>7, <2>8 DEF Beneath
<1>9. CASE fr.c_func # "reduce"
  <2>1. args = <<x>>
    BY <1>9 DEF AskedOf
  <2>2. args \in Seq(Val) /\ Append(Reverse(args), Integer(Len(args))) = <<x, one>>
    <3>1. Append(Reverse(<<x>>), one) = <<x, one>> /\ Len(<<x>>) = 1 /\ <<x>> \in Seq(Val)
      BY ReversedPair
    <3> QED
      BY <1>6, <2>1, <3>1, Zenon
  <2>3. Gets(g, d, args)
    BY <1>2, <1>3, <1>9, <2>1 DEF Gets
  <2>4. CASE fr.c_func = "filter"
    <3>1. Operands(m, fr.c_func, x) = <<x, x, one>>
      BY <1>6, <2>4 DEF Operands
    <3>2. <<x>> \o <<x, one>> = <<x, x, one>>
      BY TupleGrows
    <3>3. Held(g, d) = <<x>>
      BY <1>5, <2>4
    <3> QED
      BY <2>2, <2>3, <3>1, <3>2, <3>3 DEF Beneath
  <2>5. CASE fr.c_func # "filter"
    <3>1. Operands(m, fr.c_func, x) = <<x, one>>
      BY <1>6, <1>9, <2>5 DEF Operands
    <3>2. <<>> \o <<x, one>> = <<x, one>>
      OBVIOUS
    <3>3. Held(g, d) = <<>>
      BY <1>5, <2>5
    <3> QED
      BY <2>2, <2>3, <3>1, <3>2, <3>3 DEF Beneath
  <2> QED
    BY <2>4, <2>5
<1> QED
  BY <1>8, <1>9

-------------------------------------------------------------------------------
(*****************************************************************************)
(* A turn of a list method.                                                  *)
(*****************************************************************************)
(* If there is an element left the method calls its callback. *)
LEMMA TurnAsks ==
  ASSUME NEW F, NEW C, NEW fr, NEW c, NEW its, Turn(F, C, fr, c, its),
         NEW n \in Nat, n = Len(c.given), n < Len(its[Mine]),
         NEW m, m = Mach(F, C, fr, c, <<>>, its), NEW x, x = its[Mine][n + 1],
         NEW f \in Val
  PROVE  Outcome(FuncCalled(Pushed(Asking(WithLocal(m, 1, n + 1)), Operands(m, fr.c_func, x)), f),
                 F, fr.c_func, c, its)
<1>1. /\ Under(F, C) /\ fr \in FrameRec /\ c \in CallRec /\ Lists(its) /\ its[Mine] \in Seq(Val)
      /\ c.on = List(Mine)
  BY TurnFacts
<1>2. x \in Val
  <2>1. n + 1 \in 1 .. Len(its[Mine])
    BY <1>1
  <2> QED
    BY <1>1, <2>1
<1>3. PICK d : d = Asked(c, x)
  OBVIOUS
<1>4. PICK k \in Nat : k = n + 1
  OBVIOUS
<1>5. PICK g : g = Stepped(fr, k)
  OBVIOUS
<1>6. WithLocal(m, 1, k) = Mach(F, C, g, c, <<>>, its) /\ g \in FrameRec
  BY <1>5, SteppedIs
<1>7. Asking(WithLocal(m, 1, k)) = Mach(F, C, g, d, <<>>, its)
  <2>1. x = its[c.on[2]][Len(c.given) + 1]
    BY <1>1 DEF List
  <2>2. Asking(Mach(F, C, g, c, <<>>, its)) = Mach(F, C, g, Asked(c, x), <<>>, its)
    BY <1>1, <1>2, <1>6, <2>1, AskingAt
  <2> QED
    BY <1>3, <1>6, <2>2, Zenon
<1>8. PICK args : args = AskedOf(fr, c, x)
  OBVIOUS
<1>9. g = Stepped(fr, n + 1)
  BY <1>4, <1>5
<1>10. args \in Seq(Val) /\ Operands(m, fr.c_func, x) = Beneath(g, d, args) /\ Gets(g, d, args)
  BY <1>2, <1>3, <1>8, <1>9, OperandsAre
<1>11. Atop(F, C, g, d, its) /\ Proper(g, d, its) /\ Waits(g, d)
  BY <1>2, <1>3, <1>9, AskedProper
<1>12. g.c_func # "println"
  <2>1. g.c_func = fr.c_func
    BY <1>5, SteppedIs
  <2> QED
    BY <2>1 DEF Turn, ListFunctions
<1>13. Calling(F, C, g, d, its, args)
  BY <1>10, <1>11, <1>12 DEF Calling
<1>14. PICK t \in Seq(Val) : t = Append(Reverse(args), Integer(Len(args)))
  <2>1. Append(Reverse(args), Integer(Len(args))) \in Seq(Val)
    BY <1>13, CallingFacts
  <2> QED
    BY <2>1
<1>15. PICK h \in Seq(Val) : h = Held(g, d)
  BY <1>13, CallingFacts
<1>16. PICK s \in Seq(Val) : s = h \o t
  BY Concat
<1>17. Pushed(Mach(F, C, g, d, <<>>, its), s) = Mach(F, C, g, d, s, its)
  <2>1. PICK e \in Seq(Val) : e = <<>>
    <3>1. <<>> \in Seq(Val)
      OBVIOUS
    <3> QED
      BY <3>1
  <2>2. Pushed(Mach(F, C, g, d, e, its), s) = Mach(F, C, g, d, e \o s, its)
    BY <1>1, PushedTo
  <2>3. e \o s = s
    BY <2>1
  <2> QED
    BY <2>1, <2>2, <2>3
<1>18. PICK p : p = Mach(F, C, g, d, Held(g, d) \o Append(Reverse(args), Integer(Len(args))), its)
  OBVIOUS
<1>19. Pushed(Asking(WithLocal(m, 1, k)), Operands(m, fr.c_func, x)) = p
  BY <1>7, <1>10, <1>14, <1>15, <1>16, <1>17, <1>18 DEF Beneath
<1>20. Goes(FuncCalled(p, f), Len(F) + 1) \/ Broken(FuncCalled(p, f))
  BY <1>13, <1>18, FuncGoes
<1>21. Pushed(Asking(WithLocal(m, 1, n + 1)), Operands(m, fr.c_func, x)) = p
  BY <1>4, <1>19
<1> QED
  BY <1>20, <1>21 DEF Outcome

(* Either way the turn comes out well. *)
LEMMA TurnGoes ==
  ASSUME NEW F, NEW C, NEW fr, NEW c, NEW its, Turn(F, C, fr, c, its),
         NEW m, m = Mach(F, C, fr, c, <<>>, its)
  PROVE  Outcome(Advanced(m, fr.c_func), F, fr.c_func, c, its)
<1>1. /\ Under(F, C) /\ fr \in FrameRec /\ c \in CallRec /\ its[Mine] \in Seq(Val)
      /\ fr.locals[1] = List(Mine) /\ fr.locals[2] = Len(c.given) /\ fr.locals[3] \in Val
      /\ Len(c.given) \in Nat /\ Len(c.given) <= Len(its[Mine])
  BY TurnFacts
<1>2. PICK n \in Nat : n = Len(c.given)
  BY <1>1
<1>3. PICK f \in Val : f = fr.locals[3]
  BY <1>1
<1>4. Local(m, 0) = List(Mine) /\ Local(m, 1) = n /\ Local(m, 2) = f
  <2>1. \A k : Local(m, k) = fr.locals[k + 1]
    BY <1>1, LocalAt
  <2>2. 0 + 1 = 1 /\ 1 + 1 = 2 /\ 2 + 1 = 3
    OBVIOUS
  <2>3. Local(m, 0) = fr.locals[1] /\ Local(m, 1) = fr.locals[2] /\ Local(m, 2) = fr.locals[3]
    BY <2>1, <2>2
  <2> QED
    BY <1>1, <1>2, <1>3, <2>3
<1>5. m.items = its
  BY <1>1, LastAt
<1>6. Local(m, 0)[2] = Mine
  BY <1>4 DEF List
<1>7. m.items[Local(m, 0)[2]] = its[Mine]
  BY <1>5, <1>6
<1>8. CASE n < Len(its[Mine])
  <2>1. PICK x : x = its[Mine][n + 1]
    OBVIOUS
  <2>2. Advanced(m, fr.c_func)
          = FuncCalled(Pushed(Asking(WithLocal(m, 1, n + 1)), Operands(m, fr.c_func, x)), f)
    BY <1>4, <1>7, <1>8, <2>1 DEF Advanced
  <2>3. Outcome(FuncCalled(Pushed(Asking(WithLocal(m, 1, n + 1)), Operands(m, fr.c_func, x)), f),
                F, fr.c_func, c, its)
    BY <1>2, <1>8, <2>1, TurnAsks
  <2> QED
    BY <2>2, <2>3
<1>9. CASE ~(n < Len(its[Mine]))
  <2>1. Len(c.given) = Len(its[Mine])
    BY <1>1, <1>2, <1>9
  <2>2. PICK k \in Nat : k = n + 1
    OBVIOUS
  <2>3. Advanced(m, fr.c_func) = Finished(WithLocal(m, 1, k), Result(m, fr.c_func))
    BY <1>4, <1>7, <1>9, <2>2 DEF Advanced
  <2> QED
    BY <2>1, <2>3, TurnEnds
<1> QED
  BY <1>8, <1>9

-------------------------------------------------------------------------------
(*****************************************************************************)
(* What is gathered grows.                                                   *)
(*****************************************************************************)
(* What is promised depends on the list that is walked alone. *)
LEMMA KeepsSame ==
  ASSUME NEW f, NEW c, NEW v, NEW its, NEW i2, NEW i3, its[Mine] = i2[Mine],
         f \in ListFunctions => c.on = List(Mine)
  PROVE  Keeps(f, c, v, its, i3) <=> Keeps(f, c, v, i2, i3)
<1>1. CASE f \in ListFunctions
  <2>1. c.on[2] = Mine
    BY <1>1 DEF List
  <2>2. its[c.on[2]] = i2[c.on[2]]
    BY <2>1
  <2> QED
    BY <2>2, Zenon DEF Keeps
<1>2. CASE f \notin ListFunctions
  <2>1. f # "each" /\ f # "map" /\ f # "filter" /\ f # "reduce" /\ f # "any" /\ f # "all"
    BY <1>2 DEF ListFunctions
  <2> QED
    BY <2>1, Zenon DEF Keeps
<1> QED
  BY <1>1, <1>2

(* So does how a turn comes out. *)
LEMMA OutcomeSame ==
  ASSUME NEW m, NEW F, NEW f, NEW c, NEW its, NEW i2, its[Mine] = i2[Mine],
         f \in ListFunctions => c.on = List(Mine), Outcome(m, F, f, c, i2)
  PROVE  Outcome(m, F, f, c, its)
BY KeepsSame DEF Outcome

(* map has one answer more. *)
LEMMA MapGrows ==
  ASSUME NEW c \in CallRec, NEW n \in Nat, n + 1 <= Len(c.given), NEW made \in Seq(Val), MapsTo(made, c, n)
  PROVE  MapsTo(Append(made, c.given[n + 1]), c, n + 1)
<1>1. PICK v : v = c.given[n + 1]
  OBVIOUS
<1>2. PICK s : s = Append(made, v)
  OBVIOUS
<1>3. Len(made) = n /\ \A p \in 1 .. n : made[p] = c.given[p]
  BY DEF MapsTo
<1>4. Len(s) = n + 1 /\ s[n + 1] = v /\ \A p \in 1 .. n : s[p] = made[p]
  BY <1>2, <1>3
<1>5. \A p \in 1 .. n + 1 : p = n + 1 \/ p \in 1 .. n
  OBVIOUS
<1> QED
  BY <1>1, <1>2, <1>3, <1>4, <1>5 DEF MapsTo

(* filter keeps the element, or does not. *)
LEMMA KeptGrows ==
  ASSUME NEW c \in CallRec, NEW n \in Nat, NEW k, k = n + 1, NEW kept \in Seq(Val), KeptTo(kept, c, n)
  PROVE  /\ Falsy(c.given[k]) => KeptTo(kept, c, k)
         /\ ~Falsy(c.given[k]) => KeptTo(Append(kept, c.asked[k]), c, k)
<1>1. \A p : p \in 1 .. k <=> p = k \/ p \in 1 .. n
  OBVIOUS
<1>2. ASSUME Falsy(c.given[k]) PROVE KeptTo(kept, c, k)
  <2>1. Yes(c, k) = Yes(c, n)
    BY <1>1, <1>2 DEF Yes
  <2> QED
    BY <2>1 DEF KeptTo
<1>3. ASSUME ~Falsy(c.given[k]) PROVE KeptTo(Append(kept, c.asked[k]), c, k)
  <2>1. Yes(c, k) = Yes(c, n) \cup {k}
    BY <1>1, <1>3 DEF Yes
  <2>2. PICK L \in Nat : L = Len(kept) /\ DOMAIN kept = 1 .. L
    OBVIOUS
  <2>3. PICK from \in [DOMAIN kept -> Yes(c, n)] :
          /\ \A p \in Yes(c, n) : \E j \in DOMAIN kept : from[j] = p
          /\ \A i, j \in DOMAIN kept : i < j => from[i] < from[j]
          /\ \A j \in DOMAIN kept : kept[j] = c.asked[from[j]]
    BY DEF KeptTo
  <2>4. PICK x : x = c.asked[k]
    OBVIOUS
  <2>5. PICK s : s = Append(kept, x)
    OBVIOUS
  <2>6. /\ DOMAIN s = 1 .. L + 1 /\ s[L + 1] = x /\ \A j \in 1 .. L : s[j] = kept[j]
    BY <2>2, <2>5
  <2>7. PICK g : g = [j \in 1 .. L + 1 |-> IF j = L + 1 THEN k ELSE from[j]]
    OBVIOUS
  <2>8. \A j : j \in 1 .. L + 1 <=> j = L + 1 \/ j \in 1 .. L
    BY <2>2
  <2>9. L + 1 \notin 1 .. L
    BY <2>2
  <2>10. g[L + 1] = k /\ \A j \in 1 .. L : g[j] = from[j] /\ from[j] \in Yes(c, n)
    BY <2>2, <2>3, <2>7, <2>8, <2>9
  <2>11. g \in [DOMAIN s -> Yes(c, k)]
    BY <2>1, <2>6, <2>7, <2>8, <2>10
  <2>12. \A p \in Yes(c, k) : \E j \in DOMAIN s : g[j] = p
    BY <2>1, <2>2, <2>3, <2>6, <2>8, <2>10
  <2>13. ASSUME NEW i \in 1 .. L + 1, NEW j \in 1 .. L + 1, i < j PROVE g[i] < g[j]
    <3>1. i \in 1 .. L
      BY <2>2, <2>13
    <3>2. CASE j \in 1 .. L
      BY <2>2, <2>3, <2>10, <2>13, <3>1, <3>2
    <3>3. CASE j = L + 1
      <4>1. g[i] \in 1 .. n
        BY <2>10, <3>1 DEF Yes
      <4> QED
        BY <2>10, <3>3, <4>1
    <3> QED
      BY <2>8, <3>2, <3>3
  <2>14. \A j \in 1 .. L + 1 : s[j] = c.asked[g[j]]
    BY <2>2, <2>3, <2>4, <2>6, <2>8, <2>10
  <2>15. KeptTo(s, c, k)
    BY <2>6, <2>11, <2>12, <2>13, <2>14 DEF KeptTo
  <2> QED
    BY <2>4, <2>5, <2>15
<1> QED
  BY <1>2, <1>3

(* All of its part is taken off the stack. *)
LEMMA PoppedAll ==
  ASSUME NEW F, NEW C, Under(F, C), NEW fr, NEW c, NEW its, NEW t \in Seq(Val), NEW m, m = Mach(F, C, fr, c, t, its)
  PROVE  Popped(m, Len(t)) = Mach(F, C, fr, c, <<>>, its)
<1>1. PICK e \in Seq(Val) : e = <<>>
  <2>1. <<>> \in Seq(Val)
    OBVIOUS
  <2> QED
    BY <2>1
<1>2. Popped(Mach(F, C, fr, c, e \o t, its), Len(t)) = Mach(F, C, fr, c, e, its)
  BY PoppedTo
<1>3. e \o t = t
  BY <1>1
<1> QED
  BY <1>1, <1>2, <1>3

(* The list a method gathers in grows; nobody else's does. *)
LEMMA OwnGrows ==
  ASSUME NEW F, NEW C, NEW fr, NEW c, NEW its, Atop(F, C, fr, c, its), Gathers(fr),
         NEW r \in 2 .. Len(its), r = Own(fr), NEW v \in Val, NEW i2, i2 = Longer(its, r, v)
  PROVE  /\ Atop(F, C, fr, c, i2) /\ Lists(i2) /\ i2[r] = Append(its[r], v) /\ i2[Mine] = its[Mine]
         /\ Len(i2) = Len(its) /\ its[r] \in Seq(Val)
<1>1. Lists(its) /\ r \in 1 .. Len(its) /\ r # Mine /\ Mine \in 1 .. Len(its)
  BY DEF Atop, Lists, Mine
<1>2. /\ Grown(its, i2) /\ Len(i2) = Len(its) /\ i2[r] = Append(its[r], v)
      /\ \A k \in 1 .. Len(its) : k # r => i2[k] = its[k]
  BY <1>1, LongerIs
<1>3. \A k \in 1 .. Len(F) : Spared(F[k], its, i2)
  <2> SUFFICES ASSUME NEW k \in 1 .. Len(F), Gathers(F[k]) PROVE i2[Own(F[k])] = its[Own(F[k])]
    BY DEF Spared
  <2>1. Own(F[k]) \in 2 .. Len(its) /\ Own(F[k]) # r
    BY ChainOwn DEF Atop, Apart
  <2>2. Own(F[k]) \in 1 .. Len(its)
    BY <2>1
  <2> QED
    BY <1>2, <2>1, <2>2
<1>4. Atop(F, C, fr, c, i2)
  BY <1>2, <1>3, AtopKept
<1>5. its[r] \in Seq(Val)
  BY <1>1 DEF Lists
<1> QED
  BY <1>1, <1>2, <1>4, <1>5 DEF Atop

-------------------------------------------------------------------------------
(*****************************************************************************)
(* A list method goes on after an answer of its callback.                    *)
(*****************************************************************************)
(* What Peek finds in a part of the stack *)
LEMMA PeekAll ==
  ASSUME NEW F, NEW C, Under(F, C), NEW fr, NEW c, NEW its, NEW t \in Seq(Val), NEW k \in 0 .. Len(t) - 1,
         NEW m, m = Mach(F, C, fr, c, t, its)
  PROVE  Peek(m, k) = t[Len(t) - k]
<1>1. PICK e \in Seq(Val) : e = <<>>
  <2>1. <<>> \in Seq(Val)
    OBVIOUS
  <2> QED
    BY <2>1
<1>2. Peek(Mach(F, C, fr, c, e \o t, its), k) = t[Len(t) - k]
  BY PeekAt
<1>3. e \o t = t
  BY <1>1
<1> QED
  BY <1>2, <1>3

(* A list method whose callback has answered *)
Back(F, C, fr, c, its) ==
  /\ Atop(F, C, fr, c, its) /\ Proper(fr, c, its)
  /\ fr.c_func \in ListFunctions /\ ~fr.fresh /\ Answered(c)

(* What is known of a method that was answered *)
LEMMA BackFacts ==
  ASSUME NEW F, NEW C, NEW fr, NEW c, NEW its, Back(F, C, fr, c, its)
  PROVE  /\ Under(F, C) /\ fr \in FrameRec /\ c \in CallRec /\ Lists(its)
         /\ fr.c_func \in ListFunctions /\ ~fr.fresh /\ Suited(fr.c_func, c) /\ InLocals(fr, c, its)
         /\ Len(c.given) \in Nat \ {0} /\ Len(c.asked) = Len(c.given)
         /\ Gathered(fr, c, its, Len(c.given) - 1) /\ F # <<>>
         /\ Last(c.given) = c.given[Len(c.given)] /\ Last(c.asked) = c.asked[Len(c.given)]
         /\ Last(c.given) \in Val /\ Last(c.asked) \in Val /\ c.on = List(Mine)
<1>1. /\ Under(F, C) /\ fr \in FrameRec /\ c \in CallRec /\ Lists(its)
      /\ fr.c_func \in ListFunctions /\ ~fr.fresh
  BY DEF Back, Atop, Chain
<1>2. Suited(fr.c_func, c) /\ InLocals(fr, c, its) /\ Gathered(fr, c, its, Len(c.asked) - 1)
  BY DEF Back, Proper
<1>3. c.given \in Seq(Val) /\ c.asked \in Seq(Val) /\ c.given # <<>> /\ Len(c.given) = Len(c.asked)
  BY <1>1 DEF Back, Answered, CallRec
<1>4. /\ Len(c.given) \in Nat \ {0}
      /\ Last(c.given) = c.given[Len(c.given)] /\ Last(c.asked) = c.asked[Len(c.given)]
      /\ Last(c.given) \in Val /\ Last(c.asked) \in Val
  BY <1>3 DEF Last
<1>5. F # <<>>
  BY <1>1 DEF Back, Atop, Follows, ListFunctions
<1>6. c.on = List(Mine)
  BY <1>1, <1>2 DEF Suited
<1> QED
  BY <1>1, <1>2, <1>3, <1>4, <1>5, <1>6

(* What the method finds on the stack, and the stack without it *)
LEMMA BackStack ==
  ASSUME NEW F, NEW C, NEW fr, NEW c, NEW its, Back(F, C, fr, c, its), NEW i2,
         NEW m, m = Mach(F, C, fr, c, Held(fr, c), i2)
  PROVE  /\ Peek(m, 0) = Last(c.given)
         /\ fr.c_func = "filter" =>
              Peek(m, 1) = Last(c.asked) /\ Popped(m, 2) = Mach(F, C, fr, c, <<>>, i2)
         /\ fr.c_func # "filter" => Popped(m, 1) = Mach(F, C, fr, c, <<>>, i2)
<1>1. Under(F, C) /\ fr \in FrameRec /\ c \in CallRec
  BY BackFacts
<1>2. PICK v \in Val : v = Last(c.given)
  BY BackFacts
<1>3. PICK x \in Val : x = Last(c.asked)
  BY BackFacts
<1>4. Held(fr, c) = IF fr.c_func = "filter" THEN <<x, v>> ELSE <<v>>
  BY <1>1, <1>2, <1>3, HoldsAnswered DEF Back
<1>5. CASE fr.c_func = "filter"
  <2>1. PICK t \in Seq(Val) : t = <<x, v>>
    <3>1. <<x, v>> \in Seq(Val)
      OBVIOUS
    <3> QED
      BY <3>1
  <2>2. Len(t) = 2 /\ t[2] = v /\ t[1] = x
    BY <2>1
  <2>3. m = Mach(F, C, fr, c, t, i2)
    BY <1>4, <1>5, <2>1
  <2>4. Popped(m, Len(t)) = Mach(F, C, fr, c, <<>>, i2)
    BY <1>1, <2>3, PoppedAll
  <2>5. Peek(m, 0) = t[Len(t) - 0] /\ Peek(m, 1) = t[Len(t) - 1]
    <3>1. 0 \in 0 .. Len(t) - 1 /\ 1 \in 0 .. Len(t) - 1
      BY <2>2
    <3> QED
      BY <1>1, <2>3, <3>1, PeekAll
  <2>6. Peek(m, 0) = v /\ Peek(m, 1) = x
    BY <2>2, <2>5
  <2> QED
    BY <1>2, <1>3, <1>5, <2>2, <2>4, <2>6
<1>6. CASE fr.c_func # "filter"
  <2>1. PICK t \in Seq(Val) : t = <<v>>
    <3>1. <<v>> \in Seq(Val)
      OBVIOUS
    <3> QED
      BY <3>1
  <2>2. Len(t) = 1 /\ t[1] = v
    BY <2>1
  <2>3. m = Mach(F, C, fr, c, t, i2)
    BY <1>4, <1>6, <2>1
  <2>4. Popped(m, Len(t)) = Mach(F, C, fr, c, <<>>, i2)
    BY <1>1, <2>3, PoppedAll
  <2>5. Peek(m, 0) = t[Len(t) - 0]
    <3>1. 0 \in 0 .. Len(t) - 1
      BY <2>2
    <3> QED
      BY <1>1, <2>3, <3>1, PeekAll
  <2>6. Peek(m, 0) = v
    BY <2>2, <2>5
  <2> QED
    BY <1>2, <1>6, <2>2, <2>4, <2>6
<1> QED
  BY <1>5, <1>6

(* With the answer dealt with, the next turn can begin. *)
LEMMA BackTurn ==
  ASSUME NEW F, NEW C, NEW fr, NEW c, NEW its, Back(F, C, fr, c, its),
         Gathered(fr, c, its, Len(c.given))
  PROVE  Turn(F, C, fr, c, its)
BY BackFacts DEF Back, Turn

(* each, any and all keep nothing; any and all may stop here. *)
LEMMA BackSimple ==
  ASSUME NEW F, NEW C, NEW fr, NEW c, NEW its, Back(F, C, fr, c, its), fr.c_func \in {"each", "any", "all"},
         fr.c_func = "any" => Falsy(Last(c.given)), fr.c_func = "all" => ~Falsy(Last(c.given)),
         NEW m, m = Mach(F, C, fr, c, Held(fr, c), its)
  PROVE  Outcome(Advanced(Resumed(m, fr.c_func), fr.c_func), F, fr.c_func, c, its)
<1>1. PICK n \in Nat \ {0} : n = Len(c.given)
  BY BackFacts
<1>2. Gathered(fr, c, its, n - 1) /\ Last(c.given) = c.given[n]
  BY <1>1, BackFacts
<1>3. \A p : p \in 1 .. n <=> p = n \/ p \in 1 .. n - 1
  OBVIOUS
<1>4. Gathered(fr, c, its, n)
  BY <1>2, <1>3 DEF Gathered
<1>5. Turn(F, C, fr, c, its)
  BY <1>1, <1>4, BackTurn
<1>6. Popped(m, 1) = Mach(F, C, fr, c, <<>>, its)
  BY BackStack
<1>7. Resumed(m, fr.c_func) = Popped(m, 1)
  BY DEF Resumed
<1> QED
  BY <1>5, <1>6, <1>7, TurnGoes

(* any and all end with the answer that decides. *)
LEMMA BackStops ==
  ASSUME NEW F, NEW C, NEW fr, NEW c, NEW its, Back(F, C, fr, c, its),
         NEW v, \/ fr.c_func = "any" /\ ~Falsy(Last(c.given)) /\ v = Boolean(TRUE)
                \/ fr.c_func = "all" /\ Falsy(Last(c.given)) /\ v = Boolean(FALSE),
         NEW m, m = Mach(F, C, fr, c, Held(fr, c), its)
  PROVE  Outcome(Finished(Popped(m, 1), v), F, fr.c_func, c, its)
<1>1. PICK n \in Nat \ {0} : n = Len(c.given)
  BY BackFacts
<1>2. Last(c.given) = c.given[n] /\ c \in CallRec
  BY <1>1, BackFacts
<1>3. Picked(c) = Yes(c, n) /\ DOMAIN c.given = 1 .. n /\ n \in 1 .. n
  BY <1>1, <1>2, PickedAre
<1>4. v \in Val
  BY ValsIn
<1>5. Keeps(fr.c_func, c, v, its, its)
  <2>1. CASE fr.c_func = "any"
    <3>1. n \in Picked(c)
      BY <1>2, <1>3, <2>1 DEF Yes
    <3>2. Picked(c) # {}
      BY <3>1
    <3>3. v = Boolean(TRUE)
      BY <2>1
    <3>4. Boolean(Picked(c) # {}) = Boolean(TRUE)
      BY <3>2, Zenon
    <3> QED
      BY <2>1, <3>2, <3>3, <3>4, Zenon DEF Keeps
  <2>2. CASE fr.c_func = "all"
    <3>1. n \notin Picked(c)
      BY <1>2, <1>3, <2>2 DEF Yes
    <3>2. Picked(c) # DOMAIN c.given
      BY <1>3, <3>1
    <3>3. v = Boolean(FALSE)
      BY <2>2
    <3>4. Boolean(Picked(c) = DOMAIN c.given) = Boolean(FALSE)
      BY <3>2, Zenon
    <3> QED
      BY <2>2, <3>2, <3>3, <3>4, Zenon DEF Keeps
  <2> QED
    BY <2>1, <2>2
<1>6. Popped(m, 1) = Mach(F, C, fr, c, <<>>, its)
  <2>1. fr.c_func # "filter"
    OBVIOUS
  <2> QED
    BY <2>1, BackStack
<1>7. Atop(F, C, fr, c, its) /\ F # <<>> /\ fr.c_func # "print"
  BY BackFacts DEF Back
<1>8. PICK m2 : m2 = Finished(Mach(F, C, fr, c, <<>>, its), v)
  OBVIOUS
<1>9. Good(m2) /\ Returned(m2, its, Len(F), v)
  BY <1>4, <1>7, <1>8, FinishedGood
<1>10. Outcome(m2, F, fr.c_func, c, its)
  BY <1>5, <1>9 DEF Returned, Outcome
<1> QED
  BY <1>6, <1>8, <1>10

(* The list gathered in grows by what map or filter gathers. *)
Gains(F, C, fr, c, its, v, i2, r) ==
  /\ r = Own(fr) /\ r \in 2 .. Len(its) /\ its[r] \in Seq(Val)
  /\ i2[r] = Append(its[r], v) /\ its[Mine] = i2[Mine]
  /\ Atop(F, C, fr, c, i2) /\ InLocals(fr, c, i2)

(* The machine after it is the same with the longer list. *)
LEMMA BackGrows ==
  ASSUME NEW F, NEW C, NEW fr, NEW c, NEW its, Back(F, C, fr, c, its), Gathers(fr), NEW v \in Val,
         NEW m, m = Mach(F, C, fr, c, Held(fr, c), its)
  PROVE  \E i2, r : /\ Appended(m, Local(m, 3), v) = Mach(F, C, fr, c, Held(fr, c), i2)
                    /\ Gains(F, C, fr, c, its, v, i2, r)
<1>1. Under(F, C) /\ fr \in FrameRec /\ c \in CallRec /\ Lists(its) /\ InLocals(fr, c, its)
  BY BackFacts
<1>2. PICK r \in 2 .. Len(its) : r = Own(fr) /\ fr.locals[4] = List(r)
  BY <1>1, OwnIs DEF Back
<1>3. Local(m, 3) = List(r)
  <2>1. Local(m, 3) = fr.locals[3 + 1]
    BY <1>1, LocalAt
  <2>2. 3 + 1 = 4
    OBVIOUS
  <2> QED
    BY <1>2, <2>1, <2>2
<1>4. PICK i2 : i2 = Longer(its, r, v)
  OBVIOUS
<1>5. Appended(m, Local(m, 3), v) = Mach(F, C, fr, c, Held(fr, c), i2)
  BY <1>3, <1>4, AppendedAt
<1>6. /\ Atop(F, C, fr, c, i2) /\ i2[r] = Append(its[r], v) /\ i2[Mine] = its[Mine]
      /\ Len(i2) = Len(its) /\ its[r] \in Seq(Val)
  <2>1. Atop(F, C, fr, c, its)
    BY DEF Back
  <2>2. r = Own(fr)
    BY <1>2
  <2>3. Atop(F, C, fr, c, i2)
    BY <1>4, <2>1, <2>2, OwnGrows
  <2>4. i2[r] = Append(its[r], v)
    BY <1>4, <2>1, <2>2, OwnGrows
  <2>5. i2[Mine] = its[Mine]
    BY <1>4, <2>1, <2>2, OwnGrows
  <2>6. Len(i2) = Len(its) /\ its[r] \in Seq(Val)
    BY <1>4, <2>1, <2>2, OwnGrows
  <2> QED
    BY <2>3, <2>4, <2>5, <2>6
<1>7. InLocals(fr, c, i2)
  BY <1>1, <1>6 DEF InLocals
<1>8. Gains(F, C, fr, c, its, v, i2, r)
  BY <1>2, <1>6, <1>7 DEF Gains
<1> QED
  BY <1>5, <1>8, Zenon

(* The same call with the list it gathers in one longer *)
LEMMA BackOther ==
  ASSUME NEW F, NEW C, NEW fr, NEW c, NEW its, Back(F, C, fr, c, its), NEW i2, its[Mine] = i2[Mine],
         Atop(F, C, fr, c, i2), InLocals(fr, c, i2), Gathered(fr, c, i2, Len(c.given)),
         NEW m, m = Mach(F, C, fr, c, <<>>, i2)
  PROVE  Outcome(Advanced(m, fr.c_func), F, fr.c_func, c, its)
<1>1. Turn(F, C, fr, c, i2)
  BY BackFacts DEF Turn
<1>2. Outcome(Advanced(m, fr.c_func), F, fr.c_func, c, i2)
  BY <1>1, TurnGoes
<1> QED
  BY <1>2, BackFacts, OutcomeSame

(* map gathers the answer. *)
LEMMA BackMap ==
  ASSUME NEW F, NEW C, NEW fr, NEW c, NEW its, Back(F, C, fr, c, its), fr.c_func = "map",
         NEW m, m = Mach(F, C, fr, c, Held(fr, c), its)
  PROVE  Outcome(Advanced(Resumed(m, fr.c_func), fr.c_func), F, fr.c_func, c, its)
<1>1. Gathers(fr)
  BY DEF Gathers, Back
<1>2. PICK v \in Val : v = Last(c.given)
  BY BackFacts
<1>3. PICK i2, r : /\ Appended(m, Local(m, 3), v) = Mach(F, C, fr, c, Held(fr, c), i2)
                   /\ Gains(F, C, fr, c, its, v, i2, r)
  BY <1>1, BackGrows
<1>4. PICK m2 : m2 = Mach(F, C, fr, c, Held(fr, c), i2)
  OBVIOUS
<1>5. Popped(m2, 1) = Mach(F, C, fr, c, <<>>, i2)
  <2>1. Under(F, C) /\ fr \in FrameRec /\ c \in CallRec
    BY BackFacts
  <2>2. PICK t \in Seq(Val) : t = <<v>>
    <3>1. <<v>> \in Seq(Val)
      OBVIOUS
    <3> QED
      BY <3>1
  <2>3. Held(fr, c) = t
    BY <1>2, <2>1, <2>2, HoldsAnswered DEF Back
  <2>4. Popped(m2, Len(t)) = Mach(F, C, fr, c, <<>>, i2)
    BY <1>4, <2>1, <2>3, PoppedAll
  <2> QED
    BY <2>2, <2>4
<1>6. Resumed(m, fr.c_func) = Mach(F, C, fr, c, <<>>, i2)
  <2>1. Peek(m, 0) = v
    BY <1>2, BackStack
  <2>2. Resumed(m, fr.c_func) = Popped(Appended(m, Local(m, 3), v), 1)
    BY <2>1 DEF Resumed
  <2> QED
    BY <1>3, <1>4, <1>5, <2>2
<1>7. Gathered(fr, c, i2, Len(c.given))
  <2>1. PICK n \in Nat : n + 1 = Len(c.given)
    <3>1. Len(c.given) - 1 \in Nat /\ (Len(c.given) - 1) + 1 = Len(c.given)
      BY BackFacts
    <3> QED
      BY <3>1
  <2>2. Len(c.given) - 1 = n
    BY <2>1, BackFacts
  <2>3. MapsTo(its[r], c, n)
    BY <1>3, <2>2, BackFacts DEF Gathered, Gains
  <2>4. v = c.given[n + 1] /\ n + 1 <= Len(c.given) /\ c \in CallRec
    BY <1>2, <2>1, BackFacts
  <2>5. MapsTo(i2[r], c, n + 1)
    BY <1>3, <2>3, <2>4, MapGrows DEF Gains
  <2> QED
    BY <1>3, <2>1, <2>5 DEF Gathered, Gains
<1> QED
  BY <1>3, <1>6, <1>7, BackOther DEF Gains

(* filter gathers the element if the answer was yes. *)
LEMMA BackFilter ==
  ASSUME NEW F, NEW C, NEW fr, NEW c, NEW its, Back(F, C, fr, c, its), fr.c_func = "filter",
         NEW m, m = Mach(F, C, fr, c, Held(fr, c), its)
  PROVE  Outcome(Advanced(Resumed(m, fr.c_func), fr.c_func), F, fr.c_func, c, its)
<1>1. Gathers(fr)
  BY DEF Gathers, Back
<1>2. PICK x \in Val : x = Last(c.asked)
  BY BackFacts
<1>3. PICK n \in Nat : n + 1 = Len(c.given) /\ Len(c.given) - 1 = n
  <2>1. Len(c.given) - 1 \in Nat /\ (Len(c.given) - 1) + 1 = Len(c.given)
    BY BackFacts
  <2> QED
    BY <2>1
<1>4. KeptTo(its[Own(fr)], c, n) /\ c \in CallRec
  BY <1>3, BackFacts DEF Gathered
<1>5. PICK k \in Nat : k = Len(c.given) /\ k = n + 1
  BY <1>3
<1>6. Last(c.given) = c.given[k] /\ x = c.asked[k]
  BY <1>2, <1>5, BackFacts
<1>7. Peek(m, 0) = Last(c.given) /\ Peek(m, 1) = x /\ Popped(m, 2) = Mach(F, C, fr, c, <<>>, its)
  BY <1>2, BackStack
<1>8. PICK r \in 2 .. Len(its) : r = Own(fr) /\ its[r] \in Seq(Val)
  <2>1. Own(fr) \in 2 .. Len(its)
    BY <1>1, BackFacts, OwnIs DEF Back
  <2>2. Own(fr) \in 1 .. Len(its) /\ its \in Seq(Seq(Val))
    BY <2>1, BackFacts DEF Lists
  <2> QED
    BY <2>1, <2>2
<1>9. CASE Falsy(Last(c.given))
  <2>1. Resumed(m, fr.c_func) = Popped(m, 2)
    BY <1>7, <1>9 DEF Resumed
  <2>2. KeptTo(its[r], c, k)
    BY <1>4, <1>5, <1>6, <1>8, <1>9, KeptGrows
  <2>3. Gathered(fr, c, its, Len(c.given))
    BY <1>5, <1>8, <2>2 DEF Gathered
  <2> QED
    BY <1>7, <2>1, <2>3, BackTurn, TurnGoes
<1>10. CASE ~Falsy(Last(c.given))
  <2>1. PICK i2, q : /\ Appended(m, Local(m, 3), x) = Mach(F, C, fr, c, Held(fr, c), i2)
                     /\ Gains(F, C, fr, c, its, x, i2, q)
    BY <1>1, BackGrows
  <2>2. PICK m2 : m2 = Mach(F, C, fr, c, Held(fr, c), i2)
    OBVIOUS
  <2>3. Popped(m2, 2) = Mach(F, C, fr, c, <<>>, i2)
    BY <2>2, BackStack
  <2>4. Resumed(m, fr.c_func) = Popped(Appended(m, Local(m, 3), x), 2)
    BY <1>7, <1>10 DEF Resumed
  <2>5. Resumed(m, fr.c_func) = Mach(F, C, fr, c, <<>>, i2)
    BY <2>1, <2>2, <2>3, <2>4
  <2>6. KeptTo(Append(its[r], x), c, k)
    BY <1>4, <1>5, <1>6, <1>8, <1>10, KeptGrows
  <2>7. Gathered(fr, c, i2, Len(c.given))
    BY <1>5, <1>8, <2>1, <2>6 DEF Gathered, Gains
  <2> QED
    BY <2>1, <2>5, <2>7, BackOther DEF Gains
<1> QED
  BY <1>9, <1>10

(* reduce takes the answer as its value so far. *)
LEMMA BackReduce ==
  ASSUME NEW F, NEW C, NEW fr, NEW c, NEW its, Back(F, C, fr, c, its), fr.c_func = "reduce",
         NEW m, m = Mach(F, C, fr, c, Held(fr, c), its)
  PROVE  Outcome(Advanced(Resumed(m, fr.c_func), fr.c_func), F, fr.c_func, c, its)
<1>1. /\ Under(F, C) /\ fr \in FrameRec /\ c \in CallRec /\ Lists(its) /\ ~fr.fresh
      /\ Suited(fr.c_func, c) /\ InLocals(fr, c, its) /\ Len(c.asked) = Len(c.given) /\ Len(c.given) # 0
  BY BackFacts
<1>2. PICK v \in Val : v = Last(c.given)
  BY BackFacts
<1>3. fr.locals \in Seq(Val \cup Nat) /\ Len(fr.locals) = 4
  BY <1>1 DEF InLocals, FrameRec
<1>4. PICK at \in 1 .. Len(fr.locals) : at = 3 + 1 /\ at = 4
  BY <1>3
<1>5. PICK g : g = LocalSet(fr, at, v)
  OBVIOUS
<1>6. PICK L : L = [fr.locals EXCEPT ![4] = v]
  OBVIOUS
<1>7. g = Begun(fr.c_func, L)
  BY <1>4, <1>5, <1>6 DEF LocalSet
<1>8. g.c_func = fr.c_func /\ ~g.fresh /\ g.locals = L
  BY <1>7 DEF Begun
<1>9. L[4] = v /\ Len(L) = 4 /\ L[1] = fr.locals[1] /\ L[2] = fr.locals[2] /\ L[3] = fr.locals[3]
  BY <1>3, <1>6
<1>10. WithLocal(m, 3, v) = Mach(F, C, g, c, Held(fr, c), its) /\ g \in FrameRec
  BY <1>1, <1>4, <1>5, WithLocalAt
<1>11. Popped(Mach(F, C, g, c, Held(fr, c), its), 1) = Mach(F, C, g, c, <<>>, its)
  <2>1. PICK t \in Seq(Val) : t = <<v>>
    <3>1. <<v>> \in Seq(Val)
      OBVIOUS
    <3> QED
      BY <3>1
  <2>2. Held(fr, c) = t
    BY <1>1, <1>2, <2>1, HoldsAnswered DEF Back
  <2>3. PICK m2 : m2 = Mach(F, C, g, c, t, its)
    OBVIOUS
  <2>4. Popped(m2, Len(t)) = Mach(F, C, g, c, <<>>, its)
    BY <1>1, <2>3, PoppedAll
  <2> QED
    BY <2>1, <2>2, <2>3, <2>4
<1>12. Resumed(m, fr.c_func) = Mach(F, C, g, c, <<>>, its)
  <2>1. Peek(m, 0) = v
    BY <1>2, BackStack
  <2>2. Resumed(m, fr.c_func) = Popped(WithLocal(m, 3, v), 1)
    BY <2>1 DEF Resumed
  <2> QED
    BY <1>10, <1>11, <2>2
<1>13. Turn(F, C, g, c, its)
  <2>1. ~Gathers(g) /\ ~Gathers(fr)
    BY <1>8 DEF Gathers
  <2>2. Atop(F, C, g, c, its)
    BY <1>8, <1>10, <2>1 DEF Atop, Apart, Back
  <2>3. InLocals(g, c, its)
    BY <1>1, <1>3, <1>8, <1>9 DEF InLocals
  <2>4. SoFar(c, Len(c.given)) = v
    BY <1>1, <1>2, BackFacts DEF SoFar
  <2>5. Gathered(g, c, its, Len(c.given))
    BY <1>8, <1>9, <2>4 DEF Gathered
  <2> QED
    BY <1>1, <1>8, <2>2, <2>3, <2>5 DEF Turn, ListFunctions
<1>14. PICK m3 : m3 = Mach(F, C, g, c, <<>>, its)
  OBVIOUS
<1>15. Outcome(Advanced(m3, g.c_func), F, g.c_func, c, its)
  BY <1>13, <1>14, TurnGoes
<1> QED
  BY <1>8, <1>12, <1>14, <1>15

-------------------------------------------------------------------------------
(*****************************************************************************)
(* A list method starts.                                                     *)
(*****************************************************************************)
(* A list method that has just been called *)
Start(F, C, fr, c, its) ==
  /\ Atop(F, C, fr, c, its) /\ Proper(fr, c, its)
  /\ fr.c_func \in ListFunctions /\ fr.fresh /\ c.asked = <<>> /\ c.given = <<>>

(* What is known of a method that starts *)
LEMMA StartFacts ==
  ASSUME NEW F, NEW C, NEW fr, NEW c, NEW its, Start(F, C, fr, c, its)
  PROVE  /\ Under(F, C) /\ fr \in FrameRec /\ c \in CallRec /\ Lists(its)
         /\ fr.c_func \in ListFunctions /\ Suited(fr.c_func, c) /\ c.on = List(Mine)
         /\ Len(c.args) = Arity(fr.c_func) /\ c.args \in Seq(Val)
         /\ Held(fr, c) = Append(Reverse(c.args), List(Mine))
<1>1. /\ Under(F, C) /\ fr \in FrameRec /\ c \in CallRec /\ Lists(its) /\ fr.c_func \in ListFunctions
  BY DEF Start, Atop, Chain
<1>2. Suited(fr.c_func, c)
  BY DEF Start, Proper
<1>3. c.on = List(Mine) /\ Len(c.args) = Arity(fr.c_func)
  BY <1>1, <1>2 DEF Suited
<1>4. c.args \in Seq(Val)
  BY <1>1 DEF CallRec
<1>5. Held(fr, c) = Append(Reverse(c.args), List(Mine))
  BY <1>1, <1>3, HoldsParameters DEF Start
<1> QED
  BY <1>1, <1>2, <1>3, <1>4, <1>5

(* Its parameters, first below the object the method is of *)
LEMMA StartStack ==
  ASSUME NEW F, NEW C, NEW fr, NEW c, NEW its, Start(F, C, fr, c, its), NEW g,
         NEW m, m = Mach(F, C, g, c, Held(fr, c), its)
  PROVE  /\ Peek(m, 0) = List(Mine) /\ Peek(m, 1) = c.args[1]
         /\ fr.c_func = "reduce" => Peek(m, 2) = c.args[2] /\ Popped(m, 3) = Mach(F, C, g, c, <<>>, its)
         /\ fr.c_func # "reduce" => Popped(m, 2) = Mach(F, C, g, c, <<>>, its)
<1>1. Under(F, C) /\ c.args \in Seq(Val)
  BY StartFacts
<1>2. PICK o \in Val : o = List(Mine)
  BY ValsIn DEF Mine
<1>3. PICK r \in Seq(Val) : r = Reverse(c.args)
  BY <1>1, Reversed
<1>4. PICK t \in Seq(Val) : t = Append(r, o)
  <2>1. Append(r, o) \in Seq(Val)
    OBVIOUS
  <2> QED
    BY <2>1
<1>5. Held(fr, c) = t
  BY <1>2, <1>3, <1>4, StartFacts
<1>12. Len(t) = Len(r) + 1 /\ t[Len(r) + 1] = o /\ \A k \in 1 .. Len(r) : t[k] = r[k]
  BY <1>4
<1>6. m = Mach(F, C, g, c, t, its)
  BY <1>5
<1>7. Popped(m, Len(t)) = Mach(F, C, g, c, <<>>, its)
  BY <1>1, <1>6, PoppedAll
<1>8. \A k \in 0 .. Len(t) - 1 : Peek(m, k) = t[Len(t) - k]
  BY <1>1, <1>6, PeekAll
<1>9. Len(r) = Len(c.args) /\ \A k \in 1 .. Len(c.args) : r[k] = c.args[Len(c.args) - k + 1]
  BY <1>1, <1>3, Reversed
<1>10. CASE fr.c_func = "reduce"
  <2>1. Len(c.args) = 2
    BY <1>10, StartFacts DEF Arity
  <2>2. Len(t) = 3 /\ t[3] = o /\ t[2] = c.args[1] /\ t[1] = c.args[2]
    <3>1. Len(r) = 2 /\ 1 \in 1 .. Len(c.args) /\ 2 \in 1 .. Len(c.args)
      BY <1>9, <2>1
    <3>2. r[1] = c.args[Len(c.args) - 1 + 1] /\ r[2] = c.args[Len(c.args) - 2 + 1]
      BY <1>9, <3>1
    <3>3. r[1] = c.args[2] /\ r[2] = c.args[1]
      BY <2>1, <3>2
    <3>4. t[2 + 1] = o /\ t[1] = r[1] /\ t[2] = r[2] /\ Len(t) = 2 + 1
      BY <1>12, <2>1, <3>1
    <3> QED
      BY <3>3, <3>4
  <2>3. Peek(m, 0) = t[3] /\ Peek(m, 1) = t[2] /\ Peek(m, 2) = t[1]
    BY <1>8, <2>2
  <2> QED
    BY <1>2, <1>7, <1>10, <2>2, <2>3
<1>11. CASE fr.c_func # "reduce"
  <2>1. Len(c.args) = 1
    BY <1>11, StartFacts DEF Arity
  <2>2. Len(t) = 2 /\ t[2] = o /\ t[1] = c.args[1]
    <3>1. Len(r) = 1 /\ 1 \in 1 .. Len(c.args)
      BY <1>9, <2>1
    <3>2. r[1] = c.args[Len(c.args) - 1 + 1]
      BY <1>9, <3>1
    <3>3. r[1] = c.args[1]
      BY <2>1, <3>2
    <3>4. t[1 + 1] = o /\ t[1] = r[1] /\ Len(t) = 1 + 1
      BY <1>12, <2>1, <3>1
    <3> QED
      BY <3>3, <3>4
  <2>3. Peek(m, 0) = t[2] /\ Peek(m, 1) = t[1]
    BY <1>8, <2>2
  <2> QED
    BY <1>2, <1>7, <1>11, <2>2, <2>3
<1> QED
  BY <1>10, <1>11

(* The method's locals; nobody else gathers in its list. *)
LEMMA StartLocals ==
  ASSUME NEW F, NEW C, NEW fr, NEW c, NEW its, Start(F, C, fr, c, its),
         NEW L \in Seq(Val \cup Nat), NEW g, g = Begun(fr.c_func, L), Apart(F, g),
         NEW m, m = Mach(F, C, fr, c, Held(fr, c), its)
  PROVE  /\ WithLocals(m, L) = Mach(F, C, g, c, Held(fr, c), its)
         /\ g \in FrameRec /\ g.c_func = fr.c_func /\ ~g.fresh /\ g.locals = L
         /\ Atop(F, C, g, c, its)
<1>1. Under(F, C) /\ fr \in FrameRec
  BY StartFacts
<1>2. WithLocals(m, L) = Mach(F, C, g, c, Held(fr, c), its) /\ g \in FrameRec
  BY <1>1, WithLocalsAt
<1>3. g.c_func = fr.c_func /\ ~g.fresh /\ g.locals = L
  BY DEF Begun
<1>4. Atop(F, C, g, c, its)
  BY <1>2, <1>3 DEF Start, Atop
<1> QED
  BY <1>2, <1>3, <1>4

(* Nothing is gathered before the first turn. *)
LEMMA NothingGathered ==
  ASSUME NEW fr, NEW c, NEW its, fr.c_func \in {"map", "filter"} => its[Own(fr)] = <<>>,
         fr.c_func = "reduce" => fr.locals[4] = c.args[1]
  PROVE  Gathered(fr, c, its, 0)
<1>1. PICK e : e = <<>>
  OBVIOUS
<1>2. Len(e) = 0 /\ DOMAIN e = {}
  BY <1>1
<1>3. MapsTo(e, c, 0)
  BY <1>2 DEF MapsTo
<1>4. Yes(c, 0) = {}
  BY DEF Yes
<1>5. KeptTo(e, c, 0)
  <2>1. PICK from : from = [j \in {} |-> j]
    OBVIOUS
  <2>2. from \in [DOMAIN e -> Yes(c, 0)]
    BY <1>2, <2>1
  <2> QED
    BY <1>2, <1>4, <2>2 DEF KeptTo
<1> QED
  BY <1>1, <1>3, <1>5 DEF Gathered, SoFar

(* A method can take its first turn with these locals, on these lists. *)
LEMMA StartTurn ==
  ASSUME NEW F, NEW C, NEW fr, NEW c, NEW its, Start(F, C, fr, c, its),
         NEW g, g.c_func = fr.c_func, ~g.fresh,
         NEW i2, its[Mine] = i2[Mine], Atop(F, C, g, c, i2), InLocals(g, c, i2), Gathered(g, c, i2, 0),
         NEW m, m = Mach(F, C, g, c, <<>>, i2)
  PROVE  Outcome(Advanced(m, fr.c_func), F, fr.c_func, c, its)
<1>1. Len(c.asked) = Len(c.given) /\ Len(c.given) = 0
  BY DEF Start
<1>2. Suited(g.c_func, c) /\ g.c_func \in ListFunctions
  BY StartFacts
<1>3. Turn(F, C, g, c, i2)
  BY <1>1, <1>2 DEF Turn
<1>4. Outcome(Advanced(m, g.c_func), F, g.c_func, c, i2)
  BY <1>3, TurnGoes
<1>5. Outcome(Advanced(m, fr.c_func), F, fr.c_func, c, i2)
  BY <1>4
<1> QED
  BY <1>5, StartFacts, OutcomeSame

(* The value reduce starts from is its first parameter. *)
LEMMA FirstOf ==
  ASSUME NEW F, NEW C, NEW fr, NEW c, NEW its, Start(F, C, fr, c, its)
  PROVE  /\ c.args[1] \in Val /\ List(Mine) \in Val /\ 0 \in Nat /\ Len(c.asked) = 0
         /\ fr.c_func # "reduce" => Arity(fr.c_func) = 1
         /\ fr.c_func = "reduce" => Arity(fr.c_func) = 2 /\ c.args[2] \in Val
         /\ \A l \in Seq(Val) : 0 <= Len(l)
<1>1. c.args \in Seq(Val) /\ Len(c.args) = Arity(fr.c_func)
  BY StartFacts
<1>2. /\ fr.c_func # "reduce" => Arity(fr.c_func) = 1
      /\ fr.c_func = "reduce" => Arity(fr.c_func) = 2
  BY DEF Arity
<1>3. List(Mine) \in Val
  BY ValsIn DEF Mine
<1>4. c.args[1] \in Val /\ (fr.c_func = "reduce" => c.args[2] \in Val)
  BY <1>1, <1>2
<1>5. Len(c.asked) = 0
  BY DEF Start
<1> QED
  BY <1>2, <1>3, <1>4, <1>5

(* each, any and all start. *)
LEMMA StartSimple ==
  ASSUME NEW F, NEW C, NEW fr, NEW c, NEW its, Start(F, C, fr, c, its), fr.c_func \in {"each", "any", "all"},
         NEW m, m = Mach(F, C, fr, c, Held(fr, c), its)
  PROVE  Outcome(Advanced(Started(m, fr.c_func), fr.c_func), F, fr.c_func, c, its)
<1>1. PICK x \in Val : x = c.args[1]
  BY FirstOf
<1>2. PICK o \in Val : o = List(Mine)
  BY FirstOf
<1>3. PICK L \in Seq(Val \cup Nat) : L = <<o, 0, x>>
  <2>1. <<o, 0, x>> \in Seq(Val \cup Nat)
    OBVIOUS
  <2> QED
    BY <2>1
<1>4. PICK g : g = Begun(fr.c_func, L)
  OBVIOUS
<1>5. Apart(F, g)
  BY <1>4 DEF Begun, Apart, Gathers
<1>6. /\ WithLocals(m, L) = Mach(F, C, g, c, Held(fr, c), its)
      /\ g.c_func = fr.c_func /\ ~g.fresh /\ g.locals = L
      /\ Atop(F, C, g, c, its)
  <2>1. WithLocals(m, L) = Mach(F, C, g, c, Held(fr, c), its)
    BY <1>4, <1>5, StartLocals
  <2>2. g.c_func = fr.c_func /\ ~g.fresh /\ g.locals = L
    BY <1>4 DEF Begun
  <2>3. Atop(F, C, g, c, its)
    BY <1>4, <1>5, StartLocals
  <2> QED
    BY <2>1, <2>2, <2>3
<1>7. PICK m2 : m2 = Mach(F, C, g, c, Held(fr, c), its)
  OBVIOUS
<1>8. Popped(m2, 2) = Mach(F, C, g, c, <<>>, its)
  <2>1. fr.c_func # "reduce"
    OBVIOUS
  <2> QED
    BY <1>7, <2>1, StartStack
<1>9. Peek(m, 0) = o /\ Peek(m, 1) = x
  BY <1>1, <1>2, StartStack
<1>10. Started(m, fr.c_func) = Mach(F, C, g, c, <<>>, its)
  <2>1. Started(m, fr.c_func) = Popped(WithLocals(m, <<Peek(m, 0), 0, Peek(m, 1)>>), 2)
    BY DEF Started
  <2> QED
    BY <1>3, <1>6, <1>7, <1>8, <1>9, <2>1
<1>11. InLocals(g, c, its)
  <2>1. Arity(g.c_func) = 1 /\ Len(c.asked) = 0 /\ Len(c.asked) <= Len(its[Mine])
    <3>1. its[Mine] \in Seq(Val)
      BY StartFacts DEF Lists, Mine
    <3> QED
      BY <1>6, <3>1, FirstOf
  <2>2. Len(L) = 3 /\ L[1] = o /\ L[2] = 0 /\ L[3] = x
    BY <1>3
  <2> QED
    BY <1>1, <1>2, <1>6, <2>1, <2>2 DEF InLocals
<1>12. Gathered(g, c, its, 0)
  BY <1>6, NothingGathered
<1>13. PICK m3 : m3 = Mach(F, C, g, c, <<>>, its)
  OBVIOUS
<1>14. Outcome(Advanced(m3, fr.c_func), F, fr.c_func, c, its)
  BY <1>6, <1>11, <1>12, <1>13, StartTurn
<1> QED
  BY <1>10, <1>13, <1>14

(* reduce starts. *)
LEMMA StartReduce ==
  ASSUME NEW F, NEW C, NEW fr, NEW c, NEW its, Start(F, C, fr, c, its), fr.c_func = "reduce",
         NEW m, m = Mach(F, C, fr, c, Held(fr, c), its)
  PROVE  Outcome(Advanced(Started(m, fr.c_func), fr.c_func), F, fr.c_func, c, its)
<1>1. PICK x \in Val : x = c.args[1]
  BY FirstOf
<1>2. PICK y \in Val : y = c.args[2]
  BY FirstOf
<1>3. PICK o \in Val : o = List(Mine)
  BY FirstOf
<1>4. PICK L \in Seq(Val \cup Nat) : L = <<o, 0, y, x>>
  <2>1. <<o, 0, y, x>> \in Seq(Val \cup Nat)
    OBVIOUS
  <2> QED
    BY <2>1
<1>5. PICK g : g = Begun(fr.c_func, L)
  OBVIOUS
<1>6. Apart(F, g)
  BY <1>5 DEF Begun, Apart, Gathers
<1>7. /\ WithLocals(m, L) = Mach(F, C, g, c, Held(fr, c), its)
      /\ g.c_func = fr.c_func /\ ~g.fresh /\ g.locals = L
      /\ Atop(F, C, g, c, its)
  <2>1. WithLocals(m, L) = Mach(F, C, g, c, Held(fr, c), its)
    BY <1>5, <1>6, StartLocals
  <2>2. g.c_func = fr.c_func /\ ~g.fresh /\ g.locals = L
    BY <1>5 DEF Begun
  <2>3. Atop(F, C, g, c, its)
    BY <1>5, <1>6, StartLocals
  <2> QED
    BY <2>1, <2>2, <2>3
<1>8. PICK m2 : m2 = Mach(F, C, g, c, Held(fr, c), its)
  OBVIOUS
<1>9. Popped(m2, 3) = Mach(F, C, g, c, <<>>, its)
  BY <1>8, StartStack
<1>10. Peek(m, 0) = o /\ Peek(m, 1) = x /\ Peek(m, 2) = y
  BY <1>1, <1>2, <1>3, StartStack
<1>11. Started(m, fr.c_func) = Mach(F, C, g, c, <<>>, its)
  <2>1. Started(m, fr.c_func) = Popped(WithLocals(m, <<Peek(m, 0), 0, Peek(m, 2), Peek(m, 1)>>), 3)
    BY DEF Started
  <2> QED
    BY <1>4, <1>7, <1>8, <1>9, <1>10, <2>1
<1>12. Len(L) = 4 /\ L[1] = o /\ L[2] = 0 /\ L[3] = y /\ L[4] = x
  BY <1>4
<1>13. InLocals(g, c, its)
  <2>1. Arity(g.c_func) = 2 /\ Len(c.asked) = 0 /\ Len(c.asked) <= Len(its[Mine])
    <3>1. its[Mine] \in Seq(Val)
      BY StartFacts DEF Lists, Mine
    <3> QED
      BY <1>7, <3>1, FirstOf
  <2> QED
    BY <1>2, <1>3, <1>7, <1>12, <2>1 DEF InLocals
<1>14. Gathered(g, c, its, 0)
  BY <1>1, <1>7, <1>12, NothingGathered
<1>15. PICK m3 : m3 = Mach(F, C, g, c, <<>>, its)
  OBVIOUS
<1>16. Outcome(Advanced(m3, fr.c_func), F, fr.c_func, c, its)
  BY <1>7, <1>13, <1>14, <1>15, StartTurn
<1> QED
  BY <1>11, <1>15, <1>16

(* A new list for what is gathered *)
NewList(m) == [m EXCEPT !.items = Append(@, <<>>)]
WithNew(its) == Append(its, <<>>)

(* It is made while the call runs. *)
LEMMA NewListAt ==
  ASSUME NEW F, NEW C, NEW fr, NEW c, NEW s, NEW its
  PROVE  NewList(Mach(F, C, fr, c, s, its)) = Mach(F, C, fr, c, s, WithNew(its))
<1>1. ASSUME NEW v, NEW f, NEW i, NEW p, NEW k, NEW i2, i2 = WithNew(i)
      PROVE  NewList(State(v, f, i, p, k)) = State(v, f, i2, p, k)
  <2>1. NewList(State(v, f, i, p, k)) = [State(v, f, i, p, k) EXCEPT !.items = Append(State(v, f, i, p, k).items, <<>>)]
    BY DEF NewList
  <2>2. Append(State(v, f, i, p, k).items, <<>>) = i2
    BY <1>1 DEF WithNew, State
  <2> QED
    BY <2>1, <2>2 DEF State
<1> QED
  BY <1>1 DEF Mach

(* The other lists stay as they are. *)
LEMMA WithNewIs ==
  ASSUME NEW its, Lists(its), NEW i2, i2 = WithNew(its)
  PROVE  /\ Grown(its, i2) /\ Len(i2) = Len(its) + 1 /\ i2[Len(its) + 1] = <<>> /\ i2[Mine] = its[Mine]
         /\ \A k \in 1 .. Len(its) : i2[k] = its[k]
<1>1. PICK e \in Seq(Val) : e = <<>>
  <2>1. <<>> \in Seq(Val)
    OBVIOUS
  <2> QED
    BY <2>1
<1>2. its \in Seq(Seq(Val)) /\ Len(its) >= 1 /\ i2 = Append(its, e)
  BY <1>1 DEF Lists, WithNew
<1>3. /\ i2 \in Seq(Seq(Val)) /\ Len(i2) = Len(its) + 1 /\ i2[Len(its) + 1] = e
      /\ \A k \in 1 .. Len(its) : i2[k] = its[k]
  BY <1>2
<1>4. i2[Mine] = its[Mine] /\ its[Mine] \in Seq(Val)
  BY <1>2, <1>3 DEF Mine
<1>5. Grown(its, i2)
  BY <1>2, <1>3, <1>4 DEF Grown, Lists
<1> QED
  BY <1>1, <1>3, <1>4, <1>5

(* map and filter start with a list of their own. *)
LEMMA StartGathers ==
  ASSUME NEW F, NEW C, NEW fr, NEW c, NEW its, Start(F, C, fr, c, its), fr.c_func \in {"map", "filter"},
         NEW m, m = Mach(F, C, fr, c, Held(fr, c), its)
  PROVE  Outcome(Advanced(Started(m, fr.c_func), fr.c_func), F, fr.c_func, c, its)
<1>1. PICK x \in Val : x = c.args[1]
  BY FirstOf
<1>2. PICK o \in Val : o = List(Mine)
  BY FirstOf
<1>3. Lists(its) /\ Len(its) \in Nat /\ Len(its) >= 1 /\ Chain(F, C, its)
  BY StartFacts DEF Lists, Start, Atop
<1>4. PICK n \in Nat : n = Len(its) + 1
  BY <1>3
<1>5. PICK r \in Val : r = List(n)
  BY ValsIn
<1>6. PICK L \in Seq(Val \cup Nat) : L = <<o, 0, x, r>>
  <2>1. <<o, 0, x, r>> \in Seq(Val \cup Nat)
    OBVIOUS
  <2> QED
    BY <2>1
<1>7. Len(L) = 4 /\ L[1] = o /\ L[2] = 0 /\ L[3] = x /\ L[4] = r
  BY <1>6
<1>8. PICK g : g = Begun(fr.c_func, L)
  OBVIOUS
<1>9. Own(g) = n
  <2>1. r[2] = n
    BY <1>5 DEF List
  <2> QED
    BY <1>7, <1>8, <2>1 DEF Begun, Own
<1>10. Apart(F, g)
  <2> SUFFICES ASSUME NEW k \in 1 .. Len(F), Gathers(F[k]) PROVE Own(F[k]) # Own(g)
    BY DEF Apart
  <2>1. Own(F[k]) \in 2 .. Len(its)
    BY <1>3, ChainOwn
  <2> QED
    BY <1>3, <1>4, <1>9, <2>1
<1>11. /\ WithLocals(m, L) = Mach(F, C, g, c, Held(fr, c), its)
       /\ g.c_func = fr.c_func /\ ~g.fresh /\ g.locals = L
       /\ Atop(F, C, g, c, its)
  BY <1>8, <1>10, StartLocals
<1>12. PICK m2 : m2 = Mach(F, C, g, c, Held(fr, c), its)
  OBVIOUS
<1>13. Popped(m2, 2) = Mach(F, C, g, c, <<>>, its)
  <2>1. fr.c_func # "reduce"
    OBVIOUS
  <2> QED
    BY <1>12, <2>1, StartStack
<1>14. Peek(m, 0) = o /\ Peek(m, 1) = x
  BY <1>1, <1>2, StartStack
<1>15. m.items = its
  BY StartFacts, LastAt
<1>16. PICK i2 : i2 = WithNew(its)
  OBVIOUS
<1>17. Started(m, fr.c_func) = Mach(F, C, g, c, <<>>, i2)
  <2>1. Started(m, fr.c_func)
          = NewList(Popped(WithLocals(m, <<Peek(m, 0), 0, Peek(m, 1), List(Len(m.items) + 1)>>), 2))
    BY DEF Started, NewList
  <2>2. <<Peek(m, 0), 0, Peek(m, 1), List(Len(m.items) + 1)>> = L
    BY <1>4, <1>5, <1>6, <1>14, <1>15
  <2>3. Started(m, fr.c_func) = NewList(Mach(F, C, g, c, <<>>, its))
    BY <1>11, <1>12, <1>13, <2>1, <2>2
  <2> QED
    BY <1>16, <2>3, NewListAt
<1>18. /\ Grown(its, i2) /\ Len(i2) = n /\ i2[n] = <<>> /\ i2[Mine] = its[Mine]
       /\ \A k \in 1 .. Len(its) : i2[k] = its[k]
  BY <1>3, <1>4, <1>16, WithNewIs
<1>19. Atop(F, C, g, c, i2)
  <2>1. \A k \in 1 .. Len(F) : Spared(F[k], its, i2)
    <3> SUFFICES ASSUME NEW k \in 1 .. Len(F), Gathers(F[k]) PROVE i2[Own(F[k])] = its[Own(F[k])]
      BY DEF Spared
    <3>1. Own(F[k]) \in 2 .. Len(its)
      BY <1>3, ChainOwn
    <3>2. Own(F[k]) \in 1 .. Len(its)
      BY <3>1
    <3> QED
      BY <1>18, <3>2
  <2> QED
    BY <1>11, <1>18, <2>1, AtopKept
<1>20. InLocals(g, c, i2)
  <2>1. Arity(g.c_func) = 1 /\ Len(c.asked) = 0 /\ Len(c.asked) <= Len(i2[Mine])
    <3>1. its[Mine] \in Seq(Val)
      BY <1>3 DEF Lists, Mine
    <3> QED
      BY <1>11, <1>18, <3>1, FirstOf
  <2>2. n \in 2 .. Len(i2)
    BY <1>3, <1>4, <1>18
  <2> QED
    BY <1>1, <1>2, <1>5, <1>7, <1>11, <2>1, <2>2 DEF InLocals
<1>21. Gathered(g, c, i2, 0)
  <2>1. i2[Own(g)] = <<>>
    BY <1>9, <1>18
  <2>2. g.c_func # "reduce"
    BY <1>11
  <2> QED
    BY <2>1, <2>2, NothingGathered
<1>22. PICK m3 : m3 = Mach(F, C, g, c, <<>>, i2)
  OBVIOUS
<1>23. its[Mine] = i2[Mine]
  BY <1>18
<1>24. Outcome(Advanced(m3, fr.c_func), F, fr.c_func, c, its)
  BY <1>11, <1>19, <1>20, <1>21, <1>22, <1>23, StartTurn
<1> QED
  BY <1>17, <1>22, <1>24

(* A list method, called or called again, asks about the next element or   *)
(* ends with what it promises; or the script fails.                        *)
LEMMA ListMethodGoes ==
  ASSUME NEW F, NEW C, NEW fr, NEW c, NEW its, Atop(F, C, fr, c, its), Proper(fr, c, its), Ready(fr, c),
         fr.c_func \in ListFunctions, NEW m, m = Mach(F, C, fr, c, Held(fr, c), its)
  PROVE  Outcome(ListFunction(m, fr.c_func), F, fr.c_func, c, its)
<1>1. Under(F, C) /\ fr \in FrameRec /\ c \in CallRec
  BY DEF Atop, Chain
<1>2. Last(m.frames) = fr
  BY <1>1, LastAt
<1>3. CASE fr.fresh
  <2>1. Start(F, C, fr, c, its)
    BY <1>3 DEF Start, Ready, ListFunctions
  <2>2. ListFunction(m, fr.c_func) = Advanced(Started(m, fr.c_func), fr.c_func)
    BY <1>2, <1>3 DEF ListFunction
  <2>3. \/ fr.c_func \in {"each", "any", "all"} \/ fr.c_func = "reduce" \/ fr.c_func \in {"map", "filter"}
    BY DEF ListFunctions
  <2> QED
    BY <2>1, <2>2, <2>3, StartSimple, StartReduce, StartGathers
<1>4. CASE ~fr.fresh
  <2>1. Back(F, C, fr, c, its)
    BY <1>4 DEF Back, Ready, ListFunctions
  <2>2. Peek(m, 0) = Last(c.given)
    BY <2>1, BackStack
  <2>3. CASE fr.c_func = "any" /\ ~Falsy(Last(c.given))
    <3>1. ListFunction(m, fr.c_func) = Finished(Popped(m, 1), Boolean(TRUE))
      BY <1>2, <1>4, <2>2, <2>3 DEF ListFunction
    <3> QED
      BY <2>1, <2>3, <3>1, BackStops
  <2>4. CASE fr.c_func = "all" /\ Falsy(Last(c.given))
    <3>1. ListFunction(m, fr.c_func) = Finished(Popped(m, 1), Boolean(FALSE))
      BY <1>2, <1>4, <2>2, <2>4 DEF ListFunction
    <3> QED
      BY <2>1, <2>4, <3>1, BackStops
  <2>5. CASE ~(fr.c_func = "any" /\ ~Falsy(Last(c.given))) /\ ~(fr.c_func = "all" /\ Falsy(Last(c.given)))
    <3>1. ListFunction(m, fr.c_func) = Advanced(Resumed(m, fr.c_func), fr.c_func)
      BY <1>2, <1>4, <2>2, <2>5 DEF ListFunction
    <3>2. CASE fr.c_func \in {"each", "any", "all"}
      BY <2>1, <2>5, <3>1, <3>2, BackSimple
    <3>3. CASE fr.c_func = "map"
      BY <2>1, <3>1, <3>3, BackMap
    <3>4. CASE fr.c_func = "filter"
      BY <2>1, <3>1, <3>4, BackFilter
    <3>5. CASE fr.c_func = "reduce"
      BY <2>1, <3>1, <3>5, BackReduce
    <3> QED
      BY <3>2, <3>3, <3>4, <3>5 DEF ListFunctions
  <2> QED
    BY <2>3, <2>4, <2>5
<1> QED
  BY <1>3, <1>4

-------------------------------------------------------------------------------
(*****************************************************************************)
(* println.                                                                  *)
(*****************************************************************************)
(* What runs above a caller *)
Runs(F, C, fr, c, its) ==
  Atop(F, C, fr, c, its) /\ Proper(fr, c, its) /\ Ready(fr, c) /\ fr.c_func # "block"

(* What is known of it *)
LEMMA RunsFacts ==
  ASSUME NEW F, NEW C, NEW fr, NEW c, NEW its, Runs(F, C, fr, c, its)
  PROVE  /\ Under(F, C) /\ fr \in FrameRec /\ c \in CallRec /\ F # <<>>
         /\ c.args \in Seq(Val) /\ c.asked \in Seq(Val) /\ c.given \in Seq(Val) /\ c.on \in Val
         /\ fr.fresh => c.asked = <<>> /\ c.given = <<>> /\ fr.locals = <<>>
<1>1. Under(F, C) /\ fr \in FrameRec /\ c \in CallRec
  BY DEF Runs, Atop, Chain
<1>2. F # <<>>
  BY DEF Runs, Atop, Follows
<1>3. c.args \in Seq(Val) /\ c.asked \in Seq(Val) /\ c.given \in Seq(Val) /\ c.on \in Val
  BY <1>1 DEF CallRec
<1>4. fr.fresh => c.asked = <<>> /\ c.given = <<>> /\ fr.locals = <<>>
  BY DEF Runs, Ready
<1> QED
  BY <1>1, <1>2, <1>3, <1>4

(* println and print start with no locals. *)
LEMMA BeginsBare ==
  ASSUME NEW F, NEW C, NEW fr, NEW c, NEW its, Atop(F, C, fr, c, its), fr.c_func \notin ListFunctions,
         NEW s, NEW m, m = Mach(F, C, fr, c, s, its)
  PROVE  \E g : /\ WithLocals(m, <<>>) = Mach(F, C, g, c, s, its)
                /\ g \in FrameRec /\ g.c_func = fr.c_func /\ ~g.fresh
                /\ Atop(F, C, g, c, its)
<1>1. Under(F, C) /\ fr \in FrameRec
  BY DEF Atop, Chain
<1>2. PICK L \in Seq(Val \cup Nat) : L = <<>>
  <2>1. <<>> \in Seq(Val \cup Nat)
    OBVIOUS
  <2> QED
    BY <2>1
<1>3. PICK g : g = Begun(fr.c_func, L)
  OBVIOUS
<1>4. WithLocals(m, L) = Mach(F, C, g, c, s, its) /\ g \in FrameRec
  BY <1>1, <1>3, WithLocalsAt
<1>5. g.c_func = fr.c_func /\ ~g.fresh
  BY <1>3 DEF Begun
<1>6. ~Gathers(g)
  BY <1>5 DEF Gathers, ListFunctions
<1>7. Atop(F, C, g, c, its)
  BY <1>4, <1>5, <1>6 DEF Atop, Apart
<1>8. WithLocals(m, <<>>) = Mach(F, C, g, c, s, its)
  BY <1>2, <1>4
<1> QED
  BY <1>4, <1>5, <1>7, <1>8

(* A call that ends with a value it owes *)
LEMMA EndsWith ==
  ASSUME NEW F, NEW C, NEW fr, NEW c, NEW its, Atop(F, C, fr, c, its), F # <<>>, NEW v \in Val,
         fr.c_func = "print" => v = Nil, Keeps(fr.c_func, c, v, its, its),
         NEW p, p = Mach(F, C, fr, c, <<>>, its)
  PROVE  Outcome(Finished(p, v), F, fr.c_func, c, its)
<1>1. PICK m : m = Finished(p, v)
  OBVIOUS
<1>2. Good(m) /\ Returned(m, its, Len(F), v)
  BY <1>1, FinishedGood
<1>3. Outcome(m, F, fr.c_func, c, its)
  BY <1>2 DEF Returned, Outcome
<1> QED
  BY <1>1, <1>3

(* println calls print with its parameters, or ends after it. *)
LEMMA PrintLnGoes ==
  ASSUME NEW F, NEW C, NEW fr, NEW c, NEW its, Runs(F, C, fr, c, its), fr.c_func = "println",
         NEW m, m = Mach(F, C, fr, c, Held(fr, c), its)
  PROVE  Outcome(PrintLnFunction(m), F, fr.c_func, c, its)
<1>1. /\ Under(F, C) /\ fr \in FrameRec /\ c \in CallRec /\ F # <<>>
      /\ c.args \in Seq(Val) /\ Atop(F, C, fr, c, its) /\ Ready(fr, c)
  BY RunsFacts DEF Runs
<1>2. Last(m.frames) = fr /\ Last(m.calls) = c
  BY <1>1, LastAt
<1>3. CASE fr.fresh
  <2>1. c.asked = <<>> /\ c.given = <<>>
    BY <1>3, RunsFacts
  <2>2. PICK g : /\ WithLocals(m, <<>>) = Mach(F, C, g, c, Held(fr, c), its)
                 /\ g \in FrameRec /\ g.c_func = "println" /\ ~g.fresh
                 /\ Atop(F, C, g, c, its)
    <3>1. "println" \notin ListFunctions
      BY DEF ListFunctions
    <3> QED
      BY <1>1, <3>1, BeginsBare
  <2>3. Waits(g, c) /\ Proper(g, c, its)
    BY <2>1, <2>2 DEF Waits, Proper, Suited, ListFunctions
  <2>4. PICK t \in Seq(Val) : t = Held(fr, c)
    <3>1. PICK r \in Seq(Val) : r = Reverse(c.args) /\ Len(r) = Len(c.args)
      BY <1>1, Reversed
    <3>2. Held(fr, c) = Append(r, Integer(Len(r)))
      BY <1>1, <1>3, <2>1, <3>1, HoldsPrintLn
    <3>3. Append(r, Integer(Len(r))) \in Seq(Val)
      <4>1. PICK k \in Val : k = Integer(Len(r))
        BY ValsIn
      <4> QED
        BY <4>1
    <3> QED
      BY <3>2, <3>3
  <2>5. PICK d : d = Called(c.args, Nil)
    OBVIOUS
  <2>6. /\ New("print") \in FrameRec /\ New("print").c_func = "print"
        /\ d \in CallRec /\ d.args = c.args /\ d.asked = <<>> /\ d.given = <<>>
    BY <1>1, <2>5, NewFrame, ValsIn DEF Names
  <2>7. t = Held(New("print"), d)
    <3>1. ~Answered(d)
      BY <2>6 DEF Answered
    <3>2. Held(New("print"), d) = Append(LeftOf(d), Integer(Len(LeftOf(d))))
      BY <2>6, <3>1, HoldsPrint
    <3>3. LeftOf(d) = Reverse(c.args) /\ Len(Reverse(c.args)) = Len(c.args)
      BY <1>1, <2>6, NothingAsked, Reversed
    <3>4. Held(fr, c) = Append(Reverse(c.args), Integer(Len(c.args)))
      BY <1>1, <1>3, <2>1, HoldsPrintLn
    <3> QED
      BY <2>4, <3>2, <3>3, <3>4
  <2>8. Linked(g, c, "print", c.args)
    BY <2>2 DEF Linked, ListFunctions
  <2>9. Suited("print", d)
    BY <2>6 DEF Suited, ListFunctions
  <2>10. PICK m2 : m2 = Entered(Mach(F, C, g, c, Held(g, c) \o t, its), "print", c.args, Nil)
    OBVIOUS
  <2>11. Good(m2) /\ Len(m2.calls) = Len(F) + 2
    BY <1>1, <2>2, <2>3, <2>5, <2>7, <2>8, <2>9, <2>10, EnteredGood, ValsIn DEF Names
  <2>12. Held(g, c) \o t = t
    <3>1. Held(g, c) = <<>>
      BY <1>1, <2>1, <2>2, HoldsPrintLn
    <3> QED
      BY <3>1
  <2>13. PrintLnFunction(m) = m2
    BY <1>2, <1>3, <2>2, <2>4, <2>10, <2>12 DEF PrintLnFunction
  <2>14. Len(F) \in Nat
    BY <1>1 DEF Under
  <2> QED
    BY <2>11, <2>13, <2>14 DEF Outcome, Goes
<1>4. CASE ~fr.fresh
  <2>1. c.given = <<Nil>>
    BY <1>1, <1>4 DEF Ready, ListFunctions
  <2>2. PICK t \in Seq(Val) : t = <<Nil>>
    BY <2>1, RunsFacts
  <2>3. Held(fr, c) = t
    BY <1>1, <1>4, <2>1, <2>2, HoldsPrintLn
  <2>4. Len(t) = 1 /\ t[1] = Nil
    BY <2>2
  <2>5. m = Mach(F, C, fr, c, t, its)
    BY <2>3
  <2>6. Popped(m, Len(t)) = Mach(F, C, fr, c, <<>>, its)
    BY <1>1, <2>5, PoppedAll
  <2>7. Peek(m, 0) = t[Len(t) - 0]
    <3>1. 0 \in 0 .. Len(t) - 1
      BY <2>4
    <3> QED
      BY <1>1, <2>5, <3>1, PeekAll
  <2>8. PrintLnFunction(m) = Finished(Popped(m, 1), Nil)
    BY <1>2, <1>4, <2>4, <2>7 DEF PrintLnFunction
  <2>9. Keeps(fr.c_func, c, Nil, its, its)
    BY DEF Keeps
  <2> QED
    BY <1>1, <2>4, <2>6, <2>8, <2>9, EndsWith, ValsIn
<1> QED
  BY <1>3, <1>4

-------------------------------------------------------------------------------
(*****************************************************************************)
(* print, one parameter at a time.                                           *)
(*****************************************************************************)
(* What print finds between two parameters: those left and their count *)
Counted(c) == Append(LeftOf(c), Integer(Len(LeftOf(c))))

(* print when its turn has come *)
PrintTurn(F, C, fr, c, its) ==
  /\ Atop(F, C, fr, c, its) /\ fr.c_func = "print" /\ ~fr.fresh /\ F # <<>>
  /\ Suited("print", c) /\ Len(c.asked) = Len(c.given)

(* What is known of it *)
LEMMA PrintFacts ==
  ASSUME NEW F, NEW C, NEW fr, NEW c, NEW its, PrintTurn(F, C, fr, c, its)
  PROVE  /\ Under(F, C) /\ fr \in FrameRec /\ c \in CallRec
         /\ c.args \in Seq(Val) /\ c.asked \in Seq(Val) /\ Len(c.asked) \in Nat
         /\ Len(c.asked) <= Len(c.args) /\ \A p \in 1 .. Len(c.asked) : c.asked[p] = c.args[p]
         /\ Counted(c) \in Seq(Val) /\ LeftOf(c) \in Seq(Val) /\ Len(F) \in Nat
<1>1. Under(F, C) /\ fr \in FrameRec /\ c \in CallRec
  BY DEF PrintTurn, Atop, Chain
<1>2. c.args \in Seq(Val) /\ c.asked \in Seq(Val) /\ Len(c.asked) \in Nat
  BY <1>1 DEF CallRec
<1>3. Len(c.asked) <= Len(c.args) /\ \A p \in 1 .. Len(c.asked) : c.asked[p] = c.args[p]
  BY DEF PrintTurn, Suited
<1>4. Counted(c) \in Seq(Val) /\ LeftOf(c) \in Seq(Val)
  BY <1>1, LeftTyped DEF Counted
<1>5. Len(F) \in Nat
  BY <1>1 DEF Under
<1> QED
  BY <1>1, <1>2, <1>3, <1>4, <1>5

(* a parameters are asked for, z are left. *)
Parted(c, a, z) == Len(c.asked) = a /\ Len(c.args) = a + z
Reversing(l, w, n) == Len(l) = n /\ \A p \in 1 .. n : l[p] = w[Len(w) - p + 1]

(* The parameters left, last first *)
LEMMA LeftElements ==
  ASSUME NEW c \in CallRec, NEW a \in Nat, NEW z \in Nat, Parted(c, a, z), NEW l, l = LeftOf(c)
  PROVE  l \in Seq(Val) /\ Reversing(l, c.args, z)
<1>1. PICK w \in Seq(Val) : w = c.args
  BY DEF CallRec
<1>2. PICK k \in Nat : k = a + 1
  OBVIOUS
<1>3. PICK n \in Nat : n = a + z
  OBVIOUS
<1>4. Len(w) = n
  BY <1>1, <1>3 DEF Parted
<1>5. PICK s : s = SubSeq(w, k, n)
  OBVIOUS
<1>6. s \in Seq(Val) /\ Len(s) = z /\ \A p \in 1 .. z : s[p] = w[a + p]
  BY <1>2, <1>3, <1>4, <1>5
<1>7. l = Reverse(s)
  <2>1. LeftOf(c) = Reverse(SubSeq(w, k, n))
    BY <1>1, <1>2, <1>4 DEF LeftOf, Parted
  <2> QED
    BY <1>5, <2>1
<1>8. Reverse(s) \in Seq(Val) /\ Len(Reverse(s)) = z
  BY <1>6, Reversed
<1>9. ASSUME NEW p \in 1 .. z PROVE l[p] = w[Len(w) - p + 1]
  <2>1. PICK q \in 1 .. z : q = z - p + 1
    <3>1. z - p + 1 \in 1 .. z
      OBVIOUS
    <3> QED
      BY <3>1
  <2>2. Reverse(s)[p] = s[z - p + 1]
    BY <1>6, Reversed
  <2>3. s[q] = w[a + q]
    BY <1>6
  <2>4. a + q = Len(w) - p + 1
    BY <1>3, <1>4, <2>1
  <2> QED
    BY <1>7, <2>1, <2>2, <2>3, <2>4
<1>10. Reversing(l, w, z)
  BY <1>7, <1>8, <1>9 DEF Reversing
<1> QED
  BY <1>1, <1>7, <1>8, <1>10

(* Asking for the next parameter takes it from those left. *)
LEMMA LeftShrinks ==
  ASSUME NEW c \in CallRec, NEW a \in Nat, NEW y \in Nat, NEW z \in Nat, y = z + 1, Parted(c, a, y),
         NEW x, x = c.args[a + 1], NEW d, d = Asked(c, x), NEW l, l = LeftOf(d)
  PROVE  /\ x \in Val /\ l \in Seq(Val) /\ LeftOf(c) = Append(l, x) /\ Parted(d, a + 1, z)
<1>1. PICK w \in Seq(Val) : w = c.args
  BY DEF CallRec
<1>2. Len(w) = a + y /\ x = w[a + 1]
  BY <1>1 DEF Parted
<1>3. x \in Val
  BY <1>2
<1>4. d \in CallRec /\ d.args = w /\ Len(d.asked) = Len(c.asked) + 1
  BY <1>1, <1>3, AskedFields
<1>5. PICK b \in Nat : b = a + 1
  OBVIOUS
<1>6. Parted(d, b, z)
  BY <1>2, <1>4, <1>5 DEF Parted
<1>7. l \in Seq(Val) /\ Reversing(l, w, z)
  BY <1>4, <1>6, LeftElements
<1>8. PICK h : h = LeftOf(c)
  OBVIOUS
<1>9. h \in Seq(Val) /\ Reversing(h, w, y)
  BY <1>1, <1>8, LeftElements
<1>10. PICK t \in Seq(Val) : t = Append(l, x)
  <2>1. Append(l, x) \in Seq(Val)
    BY <1>3, <1>7
  <2> QED
    BY <2>1
<1>11. Len(t) = Len(l) + 1 /\ t[Len(l) + 1] = x /\ \A p \in 1 .. Len(l) : t[p] = l[p]
  BY <1>3, <1>7, <1>10
<1>12. Len(l) = z
  BY <1>7 DEF Reversing
<1>13. ASSUME NEW p \in 1 .. y PROVE h[p] = t[p]
  <2>1. h[p] = w[Len(w) - p + 1]
    BY <1>9 DEF Reversing
  <2>2. CASE p \in 1 .. z
    <3>1. l[p] = w[Len(w) - p + 1]
      BY <1>7, <2>2 DEF Reversing
    <3> QED
      BY <1>11, <1>12, <2>1, <2>2, <3>1
  <2>3. CASE p = y
    <3>1. Len(w) - p + 1 = a + 1
      BY <1>2, <2>3
    <3> QED
      BY <1>2, <1>11, <1>12, <2>1, <2>3, <3>1
  <2>4. p \in 1 .. z \/ p = y
    OBVIOUS
  <2> QED
    BY <2>2, <2>3, <2>4
<1>14. h = t
  <2>1. Len(h) = y /\ Len(t) = y
    BY <1>9, <1>11, <1>12 DEF Reversing
  <2> QED
    BY <1>9, <1>13, <2>1, SameSeq
<1> QED
  BY <1>3, <1>5, <1>6, <1>7, <1>8, <1>10, <1>14

(* The machine with one more parameter asked for *)
Taken(F, C, fr, d, its) ==
  /\ Atop(F, C, fr, d, its) /\ Proper(fr, d, its) /\ Waits(fr, d) /\ fr.c_func = "print"

(* The stack of print with one parameter less *)
LEMMA PrintAsks ==
  ASSUME NEW F, NEW C, NEW fr, NEW c, NEW its, PrintTurn(F, C, fr, c, its),
         NEW a \in Nat, NEW y \in Nat, NEW z \in Nat, y = z + 1, Parted(c, a, y),
         NEW x, x = c.args[a + 1], NEW d, d = Asked(c, x)
  PROVE  /\ Taken(F, C, fr, d, its)
         /\ Held(fr, d) = Append(LeftOf(d), Integer(Len(LeftOf(d))))
<1>1. Under(F, C) /\ fr \in FrameRec /\ c \in CallRec
  BY PrintFacts
<1>2. x \in Val
  BY <1>1, LeftShrinks
<1>3. Len(c.asked) = a /\ Len(c.args) = a + y /\ c.asked \in Seq(Val)
  BY PrintFacts DEF Parted
<1>4. d \in CallRec /\ d.args = c.args /\ d.on = c.on /\ d.given = c.given /\ d.asked = Append(c.asked, x)
  BY <1>1, <1>2, AskedFields
<1>5. Len(d.asked) = a + 1 /\ d.asked[a + 1] = x /\ \A p \in 1 .. a : d.asked[p] = c.asked[p]
  BY <1>2, <1>3, <1>4
<1>6. Atop(F, C, fr, d, its)
  BY <1>4 DEF PrintTurn, Atop
<1>7. Awaiting(d) /\ ~Answered(d)
  <2>1. Len(d.given) = a
    BY <1>3, <1>4 DEF PrintTurn
  <2>2. Len(d.asked) = Len(d.given) + 1 /\ Len(d.asked) # Len(d.given)
    BY <1>5, <2>1
  <2> QED
    BY <2>2 DEF Awaiting, Answered
<1>8. Waits(fr, d)
  BY <1>7 DEF PrintTurn, Waits
<1>9. Suited("print", d)
  <2>1. ASSUME NEW p \in 1 .. a + 1 PROVE d.asked[p] = d.args[p]
    <3>1. CASE p = a + 1
      BY <1>4, <1>5, <3>1
    <3>2. CASE p \in 1 .. a
      BY <1>3, <1>4, <1>5, <3>2, PrintFacts
    <3> QED
      BY <3>1, <3>2
  <2>2. a + 1 <= Len(d.args)
    BY <1>3, <1>4
  <2> QED
    BY <1>5, <2>1, <2>2 DEF Suited, ListFunctions
<1>10. Proper(fr, d, its)
  BY <1>9 DEF Proper, PrintTurn, ListFunctions
<1>11. Held(fr, d) = Append(LeftOf(d), Integer(Len(LeftOf(d))))
  BY <1>1, <1>4, <1>7, HoldsPrint DEF PrintTurn
<1> QED
  BY <1>6, <1>8, <1>10, <1>11 DEF Taken, PrintTurn

-------------------------------------------------------------------------------
(*****************************************************************************)
(* print goes on until nothing is left.                                      *)
(*****************************************************************************)
(* The next parameter is turned into a text, or a call begins that does. *)
LEMMA ConvertedGoes ==
  ASSUME NEW F, NEW C, NEW fr, NEW d, NEW its, Taken(F, C, fr, d, its), NEW x \in Val,
         NEW m, m = Mach(F, C, fr, d, Held(fr, d), its)
  PROVE  Goes(Converted(m, x), Len(F) + 1) \/ Broken(Converted(m, x))
<1>1. /\ Under(F, C) /\ fr \in FrameRec /\ d \in CallRec /\ Len(F) \in Nat
      /\ Atop(F, C, fr, d, its) /\ Proper(fr, d, its) /\ Waits(fr, d) /\ fr.c_func = "print"
  <2>1. Atop(F, C, fr, d, its) /\ Proper(fr, d, its) /\ Waits(fr, d) /\ fr.c_func = "print"
    BY DEF Taken
  <2>2. Under(F, C) /\ fr \in FrameRec /\ d \in CallRec
    BY <2>1 DEF Atop, Chain
  <2>3. Len(F) \in Nat
    BY <2>2 DEF Under
  <2> QED
    BY <2>1, <2>2, <2>3
<1>2. CASE x[1] = "text"
  <2>1. PICK m2 : m2 = Delivered(m, x)
    OBVIOUS
  <2>2. m2 = Mach(F, C, fr, Given(d, x), Held(fr, Given(d, x)), its) /\ Good(m2)
    BY <1>1, <2>1, DeliveredGood
  <2>3. Len(m2.calls) = Len(F) + 1
    <3>1. Given(d, x) \in CallRec
      BY <1>1, GivenCall
    <3> QED
      BY <1>1, <2>2, <3>1, LastAt
  <2>4. Converted(m, x) = m2
    BY <1>2, <2>1 DEF Converted
  <2> QED
    BY <2>2, <2>3, <2>4 DEF Goes
<1>3. CASE x[1] \in {"block", "bound"}
  <2>1. PICK t \in Seq(Val) : t = <<Integer(0), Convert, Integer(1), x>>
    <3>1. PICK i0 \in Val : i0 = Integer(0)
      BY ValsIn
    <3>2. PICK i1 \in Val : i1 = Integer(1)
      BY ValsIn
    <3>3. PICK k \in Val : k = Convert
      BY ValsIn
    <3>4. <<i0, k, i1, x>> \in Seq(Val)
      OBVIOUS
    <3> QED
      BY <3>1, <3>2, <3>3, <3>4
  <2>2. PICK e \in Seq(Val) : e = <<>>
    <3>1. <<>> \in Seq(Val)
      OBVIOUS
    <3> QED
      BY <3>1
  <2>3. PICK q : q = Called(e, x)
    OBVIOUS
  <2>4. /\ New("again") \in FrameRec /\ New("again").c_func = "again" /\ New("again").fresh
        /\ q \in CallRec /\ q.on = x
    <3>1. "again" \in Names
      BY DEF Names
    <3>2. New("again") \in FrameRec /\ q \in CallRec /\ q.on = x
      BY <2>3, <3>1, NewFrame
    <3> QED
      BY <3>2 DEF New
  <2>5. t = Held(New("again"), q)
    BY <2>1, <2>4, HoldsAgain
  <2>6. Linked(fr, d, "again", e)
    BY <1>1 DEF Linked, ListFunctions
  <2>7. Suited("again", q)
    BY DEF Suited, ListFunctions
  <2>8. PICK m2 : m2 = Entered(Mach(F, C, fr, d, Held(fr, d) \o t, its), "again", e, x)
    OBVIOUS
  <2>9. Good(m2) /\ Len(m2.calls) = Len(F) + 2
    BY <1>1, <2>3, <2>5, <2>6, <2>7, <2>8, EnteredGood DEF Names
  <2>10. Pushed(m, t) = Mach(F, C, fr, d, Held(fr, d) \o t, its)
    BY <1>1, WaitingHolds, PushedTo
  <2>11. Converted(m, x) = m2
    BY <1>3, <2>1, <2>2, <2>8, <2>10 DEF Converted
  <2> QED
    BY <1>1, <2>9, <2>11 DEF Goes
<1>4. CASE x[1] # "text" /\ x[1] \notin {"block", "bound"}
  <2>1. Converted(m, x) = Panicked(m, "script")
    BY <1>4 DEF Converted
  <2>2. ~fr.fresh
    BY <1>1 DEF Waits
  <2> QED
    BY <1>1, <2>1, <2>2, BrokenHere
<1> QED
  BY <1>2, <1>3, <1>4

(* After the last parameter print ends with nil. *)
LEMMA NothingLeft ==
  ASSUME NEW c \in CallRec, LeftOf(c) = <<>>, Suited("print", c)
  PROVE  c.asked = c.args
<1>1. c.args \in Seq(Val) /\ c.asked \in Seq(Val)
  BY DEF CallRec
<1>2. Len(c.asked) <= Len(c.args) /\ \A p \in 1 .. Len(c.asked) : c.asked[p] = c.args[p]
  BY DEF Suited
<1>3. PICK a \in Nat : a = Len(c.asked)
  BY <1>1
<1>4. PICK z \in Nat : Len(c.args) = a + z
  <2>1. PICK n \in Nat : n = Len(c.args)
    BY <1>1
  <2>2. n - a \in Nat /\ n = a + (n - a)
    BY <1>2, <1>3, <2>1
  <2> QED
    BY <2>1, <2>2
<1>5. Parted(c, a, z)
  BY <1>3, <1>4 DEF Parted
<1>6. PICK l : l = LeftOf(c)
  OBVIOUS
<1>7. Reversing(l, c.args, z)
  BY <1>5, <1>6, LeftElements
<1>8. z = 0
  BY <1>6, <1>7 DEF Reversing
<1>9. Len(c.asked) = Len(c.args)
  BY <1>3, <1>4, <1>8
<1> QED
  BY <1>1, <1>2, <1>9, SameSeq

(* print takes up the next parameter. *)
LEMMA NextPrintedGoes ==
  ASSUME NEW F, NEW C, NEW fr, NEW c, NEW its, PrintTurn(F, C, fr, c, its),
         NEW m, m = Mach(F, C, fr, c, Counted(c), its)
  PROVE  Outcome(NextPrinted(m), F, "print", c, its)
<1>1. /\ Under(F, C) /\ fr \in FrameRec /\ c \in CallRec /\ F # <<>>
      /\ Atop(F, C, fr, c, its) /\ fr.c_func = "print" /\ Suited("print", c)
      /\ Counted(c) \in Seq(Val) /\ LeftOf(c) \in Seq(Val)
  BY PrintFacts DEF PrintTurn
<1>2. PICK h \in Seq(Val) : h = LeftOf(c)
  BY <1>1
<1>3. PICK n \in Nat : n = Len(h)
  OBVIOUS
<1>4. PICK k \in Val : k = Integer(n)
  BY ValsIn
<1>5. PICK t \in Seq(Val) : t = Append(h, k)
  <2>1. Append(h, k) \in Seq(Val)
    OBVIOUS
  <2> QED
    BY <2>1
<1>6. Counted(c) = t
  BY <1>2, <1>3, <1>4, <1>5 DEF Counted
<1>7. m = Mach(F, C, fr, c, t, its)
  BY <1>6
<1>8. Len(t) = n + 1 /\ t[n + 1] = k /\ \A p \in 1 .. n : t[p] = h[p]
  BY <1>3, <1>5
<1>9. \A p \in 0 .. Len(t) - 1 : Peek(m, p) = t[Len(t) - p]
  BY <1>1, <1>7, PeekAll
<1>10. Peek(m, 0) = k
  <2>1. 0 \in 0 .. Len(t) - 1 /\ Len(t) - 0 = n + 1
    BY <1>8
  <2> QED
    BY <1>8, <1>9, <2>1
<1>11. Peek(m, 0)[1] = "integer" /\ Peek(m, 0)[2] = n
  BY <1>4, <1>10, IntegerIs
<1>12. CASE n = 0
  <2>1. h = <<>>
    <3>1. Len(h) = 0
      BY <1>3, <1>12
    <3> QED
      BY <3>1
  <2>2. Popped(m, Len(t)) = Mach(F, C, fr, c, <<>>, its)
    BY <1>1, <1>7, PoppedAll
  <2>3. Len(t) = 1
    BY <1>8, <1>12
  <2>4. NextPrinted(m) = Finished(Popped(m, 1), Nil)
    BY <1>11, <1>12 DEF NextPrinted
  <2>5. c.asked = c.args
    BY <1>1, <1>2, <2>1, NothingLeft
  <2>6. Keeps("print", c, Nil, its, its)
    BY <2>5 DEF Keeps
  <2>7. PICK p : p = Mach(F, C, fr, c, <<>>, its)
    OBVIOUS
  <2>8. Outcome(Finished(p, Nil), F, fr.c_func, c, its)
    BY <1>1, <2>6, <2>7, EndsWith, ValsIn
  <2> QED
    BY <1>1, <2>2, <2>3, <2>4, <2>7, <2>8
<1>13. CASE n # 0
  <2>1. PICK z \in Nat : n = z + 1
    <3>1. n - 1 \in Nat /\ n = (n - 1) + 1
      BY <1>13
    <3> QED
      BY <3>1
  <2>2. PICK a \in Nat : a = Len(c.asked)
    BY <1>1 DEF CallRec
  <2>3. Parted(c, a, n)
    <3>1. PICK y \in Nat : Len(c.args) = a + y
      <4>1. PICK q \in Nat : q = Len(c.args)
        BY <1>1 DEF CallRec
      <4>2. a <= q
        BY <2>2, <4>1, PrintFacts
      <4>3. q - a \in Nat /\ q = a + (q - a)
        BY <4>2
      <4> QED
        BY <4>1, <4>3
    <3>2. Parted(c, a, y)
      BY <2>2, <3>1 DEF Parted
    <3>3. Reversing(h, c.args, y)
      BY <1>1, <1>2, <3>2, LeftElements
    <3>4. y = n
      BY <1>3, <3>3 DEF Reversing
    <3> QED
      BY <3>2, <3>4
  <2>4. PICK x : x = c.args[a + 1]
    OBVIOUS
  <2>5. PICK d : d = Asked(c, x)
    OBVIOUS
  <2>6. PICK l : l = LeftOf(d)
    OBVIOUS
  <2>7. x \in Val /\ l \in Seq(Val) /\ h = Append(l, x) /\ Parted(d, a + 1, z)
    BY <1>1, <1>2, <2>1, <2>3, <2>4, <2>5, <2>6, LeftShrinks
  <2>8. Taken(F, C, fr, d, its) /\ Held(fr, d) = Append(l, Integer(Len(l)))
    BY <2>1, <2>3, <2>4, <2>5, <2>6, PrintAsks
  <2>9. Len(l) + 1 = n /\ h[n] = x /\ Len(l) = z
    <3>1. Len(Append(l, x)) = Len(l) + 1 /\ Append(l, x)[Len(l) + 1] = x
      BY <2>7
    <3>2. Len(l) + 1 = n
      BY <1>3, <2>7, <3>1
    <3>3. h[n] = x
      BY <2>7, <3>1, <3>2
    <3>4. Len(l) = z
      BY <2>1, <2>7, <3>2
    <3> QED
      BY <3>2, <3>3, <3>4
  <2>10. Peek(m, 1) = x
    <3>1. 1 \in 0 .. Len(t) - 1 /\ Len(t) - 1 = n /\ n \in 1 .. n
      BY <1>8, <1>13
    <3> QED
      BY <1>8, <1>9, <2>9, <3>1
  <2>11. PICK m1 : m1 = Mach(F, C, fr, d, t, its)
    OBVIOUS
  <2>12. AskedIn(m, x) = m1
    BY <1>1, <1>7, <2>5, <2>7, <2>11, AskedAt
  <2>13. PICK u \in Seq(Val) : u = <<x, k>>
    <3>1. <<x, k>> \in Seq(Val)
      BY <2>7
    <3> QED
      BY <3>1
  <2>14. t = l \o u
    BY <1>5, <2>7, <2>13
  <2>15. Popped(m1, 2) = Mach(F, C, fr, d, l, its)
    <3>1. Len(u) = 2
      BY <2>13
    <3>2. Popped(Mach(F, C, fr, d, l \o u, its), Len(u)) = Mach(F, C, fr, d, l, its)
      BY <1>1, <2>7, PoppedTo
    <3> QED
      BY <2>11, <2>14, <3>1, <3>2
  <2>16. PICK j \in Val : j = Integer(n - 1)
    <3>1. n - 1 = z
      BY <2>1
    <3> QED
      BY <3>1, ValsIn
  <2>17. PICK w \in Seq(Val) : w = <<j>>
    <3>1. <<j>> \in Seq(Val)
      OBVIOUS
    <3> QED
      BY <3>1
  <2>18. l \o w = Held(fr, d)
    <3>1. l \o w = Append(l, j)
      BY <2>7, <2>17, OneMore
    <3>2. n - 1 = Len(l)
      BY <2>1, <2>9
    <3> QED
      BY <2>8, <2>16, <3>1, <3>2
  <2>19. PICK m2 : m2 = Mach(F, C, fr, d, Held(fr, d), its)
    OBVIOUS
  <2>20. Pushed(Popped(m1, 2), <<Integer(n - 1)>>) = m2
    <3>1. Pushed(Mach(F, C, fr, d, l, its), w) = Mach(F, C, fr, d, l \o w, its)
      BY <1>1, <2>7, PushedTo
    <3> QED
      BY <2>15, <2>16, <2>17, <2>18, <2>19, <3>1
  <2>21. NextPrinted(m) = Converted(m2, x)
    <3>1. NextPrinted(m) = Converted(Pushed(Popped(AskedIn(m, Peek(m, 1)), 2),
                                            <<Integer(Peek(m, 0)[2] - 1)>>), Peek(m, 1))
      BY <1>11, <1>13 DEF NextPrinted, AskedIn
    <3> QED
      BY <1>11, <2>10, <2>12, <2>20, <3>1
  <2>22. Goes(Converted(m2, x), Len(F) + 1) \/ Broken(Converted(m2, x))
    BY <2>7, <2>8, <2>19, ConvertedGoes
  <2> QED
    BY <2>21, <2>22 DEF Outcome
<1> QED
  BY <1>12, <1>13

(* print runs. *)
LEMMA PrintGoes ==
  ASSUME NEW F, NEW C, NEW fr, NEW c, NEW its, Runs(F, C, fr, c, its), fr.c_func = "print",
         NEW m, m = Mach(F, C, fr, c, Held(fr, c), its)
  PROVE  Outcome(PrintFunction(m), F, fr.c_func, c, its)
<1>1. /\ Under(F, C) /\ fr \in FrameRec /\ c \in CallRec /\ F # <<>>
      /\ c.given \in Seq(Val) /\ Atop(F, C, fr, c, its) /\ Ready(fr, c) /\ Suited("print", c)
  BY RunsFacts DEF Runs, Proper
<1>2. Last(m.frames) = fr
  BY <1>1, LastAt
<1>3. CASE fr.fresh
  <2>1. c.asked = <<>> /\ c.given = <<>>
    BY <1>3, RunsFacts
  <2>2. PICK g : /\ WithLocals(m, <<>>) = Mach(F, C, g, c, Held(fr, c), its)
                 /\ g \in FrameRec /\ g.c_func = "print" /\ ~g.fresh
                 /\ Atop(F, C, g, c, its)
    <3>1. "print" \notin ListFunctions
      BY DEF ListFunctions
    <3> QED
      BY <1>1, <3>1, BeginsBare
  <2>3. Held(fr, c) = Counted(c)
    BY <1>1, <2>1, HoldsPrint DEF Answered, Counted
  <2>4. PrintTurn(F, C, g, c, its)
    BY <1>1, <2>1, <2>2 DEF PrintTurn
  <2>5. PICK m2 : m2 = Mach(F, C, g, c, Counted(c), its)
    OBVIOUS
  <2>6. Outcome(NextPrinted(m2), F, "print", c, its)
    BY <2>4, <2>5, NextPrintedGoes
  <2>7. PrintFunction(m) = NextPrinted(m2)
    BY <1>2, <1>3, <2>2, <2>3, <2>5 DEF PrintFunction
  <2> QED
    BY <2>6, <2>7
<1>4. CASE ~fr.fresh
  <2>1. Answered(c)
    BY <1>1, <1>4 DEF Ready, ListFunctions
  <2>2. Len(c.asked) = Len(c.given)
    BY <2>1 DEF Answered
  <2>3. PICK v \in Val : v = Last(c.given)
    BY <1>1, <2>1 DEF Answered, Last
  <2>4. PICK s \in Seq(Val) : s = Counted(c)
    BY <1>1, LeftTyped DEF Counted
  <2>5. PICK t \in Seq(Val) : t = <<v>>
    <3>1. <<v>> \in Seq(Val)
      OBVIOUS
    <3> QED
      BY <3>1
  <2>6. Held(fr, c) = s \o t
    BY <1>1, <2>1, <2>3, <2>4, <2>5, HoldsPrint DEF Counted
  <2>7. m = Mach(F, C, fr, c, s \o t, its)
    BY <2>6
  <2>8. Len(t) = 1 /\ t[1] = v
    BY <2>5
  <2>9. Peek(m, 0) = v
    <3>1. 0 \in 0 .. Len(t) - 1 /\ Len(t) - 0 = 1
      BY <2>8
    <3>2. Peek(Mach(F, C, fr, c, s \o t, its), 0) = t[Len(t) - 0]
      BY <1>1, <3>1, PeekAt
    <3> QED
      BY <2>7, <2>8, <3>1, <3>2
  <2>10. Popped(m, 1) = Mach(F, C, fr, c, s, its)
    <3>1. Popped(Mach(F, C, fr, c, s \o t, its), Len(t)) = Mach(F, C, fr, c, s, its)
      BY <1>1, PoppedTo
    <3> QED
      BY <2>7, <2>8, <3>1
  <2>11. CASE v[1] # "text"
    <3>1. PrintFunction(m) = Panicked(m, "script")
      BY <1>2, <1>4, <2>9, <2>11 DEF PrintFunction
    <3> QED
      BY <1>1, <1>4, <2>7, <3>1, BrokenHere DEF Outcome
  <2>12. CASE v[1] = "text"
    <3>1. PrintTurn(F, C, fr, c, its)
      BY <1>1, <1>4, <2>2 DEF PrintTurn
    <3>2. PICK m2 : m2 = Mach(F, C, fr, c, Counted(c), its)
      OBVIOUS
    <3>3. Outcome(NextPrinted(m2), F, "print", c, its)
      BY <3>1, <3>2, NextPrintedGoes
    <3>4. PrintFunction(m) = NextPrinted(m2)
      BY <1>2, <1>4, <2>4, <2>9, <2>10, <2>12, <3>2 DEF PrintFunction
    <3> QED
      BY <3>3, <3>4
  <2> QED
    BY <2>11, <2>12
<1> QED
  BY <1>3, <1>4

-------------------------------------------------------------------------------
(*****************************************************************************)
(* again, and every C function.                                              *)
(*****************************************************************************)
(* A sequence of one value *)
LEMMA Alone ==
  ASSUME NEW v \in Val
  PROVE  <<v>> \in Seq(Val) /\ Len(<<v>>) = 1 /\ <<v>>[1] = v /\ Reverse(<<v>>) = <<v>>
<1>1. PICK s \in Seq(Val) : s = <<v>>
  <2>1. <<v>> \in Seq(Val)
    OBVIOUS
  <2> QED
    BY <2>1
<1>2. Len(s) = 1 /\ s[1] = v
  BY <1>1
<1>3. Reverse(s) \in Seq(Val) /\ Len(Reverse(s)) = 1 /\ Reverse(s)[1] = s[1]
  <2>1. 1 \in 1 .. Len(s) /\ Len(s) - 1 + 1 = 1
    BY <1>2
  <2> QED
    BY <1>2, <2>1, Reversed
<1>4. Reverse(s) = s
  BY <1>2, <1>3, SameSeq
<1> QED
  BY <1>1, <1>2, <1>4

(* Nothing turned round is nothing. *)
LEMMA NoneReversed == <<>> \in Seq(Val) /\ Len(<<>>) = 0 /\ Reverse(<<>>) = <<>>
<1>1. PICK s \in Seq(Val) : s = <<>>
  <2>1. <<>> \in Seq(Val)
    OBVIOUS
  <2> QED
    BY <2>1
<1>2. Len(s) = 0
  BY <1>1
<1>3. PICK t \in Seq(Val) : t = Reverse(s) /\ Len(t) = 0
  BY <1>2, Reversed
<1>4. t = s
  BY <1>2, <1>3, SameSeq
<1> QED
  BY <1>1, <1>2, <1>3, <1>4

(* The first call asks the object for the method that converts it. *)
LEMMA AgainAsks ==
  ASSUME NEW F, NEW C, NEW fr, NEW c, NEW its, Runs(F, C, fr, c, its), fr.c_func = "again", fr.fresh,
         NEW m, m = Mach(F, C, fr, c, Held(fr, c), its)
  PROVE  Outcome(CallAgainFunction(m), F, fr.c_func, c, its)
<1>1. /\ Under(F, C) /\ fr \in FrameRec /\ c \in CallRec /\ c.on \in Val /\ c.given = <<>>
      /\ Atop(F, C, fr, c, its)
  BY RunsFacts DEF Runs
<1>2. PICK i0 \in Val : i0 = Integer(0)
  BY ValsIn
<1>3. PICK i1 \in Val : i1 = Integer(1)
  BY ValsIn
<1>4. PICK k \in Val : k = Convert
  BY ValsIn
<1>5. PICK o \in Val : o = c.on
  BY <1>1
<1>6. PICK s \in Seq(Val) : s = <<i0, k, i1>>
  <2>1. <<i0, k, i1>> \in Seq(Val)
    OBVIOUS
  <2> QED
    BY <2>1
<1>7. PICK t \in Seq(Val) : t = <<o>>
  BY Alone
<1>8. Held(fr, c) = s \o t
  <2>1. Held(fr, c) = <<i0, k, i1, o>>
    BY <1>1, <1>2, <1>3, <1>4, <1>5, HoldsAgain
  <2>2. <<i0, k, i1, o>> = s \o t
    <3>1. PICK u \in Seq(Val) : u = <<i0, k, i1, o>>
      <4>1. <<i0, k, i1, o>> \in Seq(Val)
        OBVIOUS
      <4> QED
        BY <4>1
    <3>2. u = s \o t
      BY <1>6, <1>7, <3>1
    <3> QED
      BY <3>1, <3>2
  <2> QED
    BY <2>1, <2>2
<1>9. m = Mach(F, C, fr, c, s \o t, its) /\ Len(t) = 1 /\ t[1] = o
  BY <1>7, <1>8
<1>10. Peek(m, 0) = o
  <2>1. 0 \in 0 .. Len(t) - 1 /\ Len(t) - 0 = 1
    BY <1>9
  <2>2. Peek(Mach(F, C, fr, c, s \o t, its), 0) = t[Len(t) - 0]
    BY <1>1, <2>1, PeekAt
  <2> QED
    BY <1>9, <2>1, <2>2
<1>11. PICK m1 : m1 = Mach(F, C, fr, c, s, its)
  OBVIOUS
<1>12. Popped(m, 1) = m1
  <2>1. Popped(Mach(F, C, fr, c, s \o t, its), Len(t)) = Mach(F, C, fr, c, s, its)
    BY <1>1, PoppedTo
  <2> QED
    BY <1>9, <1>11, <2>1
<1>13. PICK g : /\ WithLocals(m1, <<>>) = Mach(F, C, g, c, s, its)
                /\ g \in FrameRec /\ g.c_func = "again" /\ ~g.fresh
                /\ Atop(F, C, g, c, its)
  <2>1. "again" \notin ListFunctions
    BY DEF ListFunctions
  <2> QED
    BY <1>1, <1>11, <2>1, BeginsBare
<1>14. PICK args \in Seq(Val) : args = <<k>> /\ Len(args) = 1 /\ Reverse(args) = args
  BY Alone
<1>15. Calling(F, C, g, c, its, args)
  BY <1>1, <1>13 DEF Calling, Waits, Proper, Suited, Gets, ListFunctions
<1>16. s = Held(g, c) \o Append(Reverse(args), Integer(Len(args)))
  <2>1. Held(g, c) = <<i0>> \o <<>>
    BY <1>1, <1>2, <1>13, HoldsAgain
  <2>2. <<i0>> \o <<>> = <<i0>>
    OBVIOUS
  <2>3. Append(args, i1) = <<k, i1>>
    BY <1>14, TupleGrows
  <2>4. <<i0>> \o <<k, i1>> = <<i0, k, i1>>
    BY TupleGrows
  <2> QED
    BY <1>3, <1>6, <1>14, <2>1, <2>2, <2>3, <2>4
<1>17. PICK m2 : m2 = Mach(F, C, g, c, Held(g, c) \o Append(Reverse(args), Integer(Len(args))), its)
  OBVIOUS
<1>18. Goes(FuncCalled(m2, o), Len(F) + 1) \/ Broken(FuncCalled(m2, o))
  BY <1>15, <1>17, FuncGoes
<1>19. CallAgainFunction(m) = FuncCalled(m2, o)
  <2>1. Last(m.frames) = fr
    BY <1>1, LastAt
  <2>2. CallAgainFunction(m) = FuncCalled(WithLocals(Popped(m, 1), <<>>), Peek(m, 0))
    BY <2>1 DEF CallAgainFunction
  <2> QED
    BY <1>10, <1>12, <1>13, <1>16, <1>17, <2>2
<1> QED
  BY <1>18, <1>19 DEF Outcome

(* The second call runs that method in its own place. *)
LEMMA AgainCalls ==
  ASSUME NEW F, NEW C, NEW fr, NEW c, NEW its, Runs(F, C, fr, c, its), fr.c_func = "again", ~fr.fresh,
         NEW m, m = Mach(F, C, fr, c, Held(fr, c), its)
  PROVE  Outcome(CallAgainFunction(m), F, fr.c_func, c, its)
<1>1. /\ Under(F, C) /\ fr \in FrameRec /\ c \in CallRec /\ c.given \in Seq(Val) /\ F # <<>>
      /\ Atop(F, C, fr, c, its) /\ Ready(fr, c)
  BY RunsFacts DEF Runs
<1>2. Len(c.given) = 1
  BY <1>1 DEF Ready, ListFunctions
<1>3. PICK i0 \in Val : i0 = Integer(0)
  BY ValsIn
<1>4. PICK s \in Seq(Val) : s = <<i0>>
  BY Alone
<1>5. PICK t \in Seq(Val) : t = c.given /\ Len(t) = 1
  BY <1>1, <1>2
<1>6. PICK w \in Val : w = t[1]
  BY <1>5
<1>7. m = Mach(F, C, fr, c, s \o t, its)
  BY <1>1, <1>3, <1>4, <1>5, HoldsAgain
<1>8. Peek(m, 0) = w
  <2>1. 0 \in 0 .. Len(t) - 1 /\ Len(t) - 0 = 1
    BY <1>5
  <2>2. Peek(Mach(F, C, fr, c, s \o t, its), 0) = t[Len(t) - 0]
    BY <1>1, <2>1, PeekAt
  <2> QED
    BY <1>6, <1>7, <2>1, <2>2
<1>9. Popped(m, 1) = Mach(F, C, fr, c, s, its)
  <2>1. Popped(Mach(F, C, fr, c, s \o t, its), Len(t)) = Mach(F, C, fr, c, s, its)
    BY <1>1, PoppedTo
  <2> QED
    BY <1>5, <1>7, <2>1
<1>10. Last(m.frames) = fr
  BY <1>1, LastAt
<1>11. CASE w[1] # "ref"
  <2>1. CallAgainFunction(m) = Panicked(m, "script")
    BY <1>8, <1>10, <1>11 DEF CallAgainFunction
  <2> QED
    BY <1>1, <1>7, <2>1, BrokenHere DEF Outcome
<1>12. CASE w[1] = "ref"
  <2>1. w = Ref(Block)
    BY <1>12, ValTags
  <2>2. w[2] = Block
    BY <2>1 DEF Ref
  <2>3. Chain(F, C, its) /\ Lists(its)
    BY <1>1 DEF Atop
  <2>4. PICK G, D, g, d : /\ F = Append(G, g) /\ C = Append(D, d)
                          /\ Atop(G, D, g, d, its) /\ Proper(g, d, its) /\ Waits(g, d)
    BY <1>1, <2>3, ChainSplits
  <2>5. Under(G, D) /\ g \in FrameRec /\ d \in CallRec /\ Len(G) \in Nat /\ G \in Seq(FrameRec)
    <3>1. Under(G, D) /\ g \in FrameRec /\ d \in CallRec
      BY <2>4 DEF Atop, Chain
    <3>2. G \in Seq(FrameRec)
      BY <3>1 DEF Under
    <3>3. Len(G) \in Nat
      BY <3>2
    <3> QED
      BY <3>1, <3>2, <3>3
  <2>6. g.c_func = "print"
    <3>1. Last(F) = g
      BY <2>4, <2>5, Ends
    <3>2. Linked(Last(F), Last(C), "again", c.args)
      BY <1>1 DEF Atop, Follows
    <3> QED
      BY <3>1, <3>2 DEF Linked
  <2>7. PICK args \in Seq(Val) : args = <<>> /\ Len(args) = 0 /\ Reverse(args) = args
    BY NoneReversed
  <2>8. Calling(G, D, g, d, its, args)
    BY <2>4, <2>6 DEF Calling, Gets, ListFunctions
  <2>9. Append(Reverse(args), Integer(Len(args))) = s
    <3>1. Append(<<>>, i0) = <<i0>>
      OBVIOUS
    <3>2. Append(Reverse(args), Integer(Len(args))) = Append(<<>>, i0)
      BY <1>3, <2>7
    <3> QED
      BY <1>4, <3>1, <3>2
  <2>10. Held(g, d) \in Seq(Val)
    BY <2>4, <2>5, WaitingHolds
  <2>11. PICK m2 : m2 = Mach(G, D, g, d, Held(g, d) \o Append(Reverse(args), Integer(Len(args))), its)
    OBVIOUS
  <2>12. Left(Popped(m, 1)) = m2
    <3>1. Left(Mach(Append(G, g), Append(D, d), fr, c, s, its)) = Mach(G, D, g, d, Held(g, d) \o s, its)
      BY <1>1, <2>5, <2>10, LeftAt
    <3> QED
      BY <1>9, <2>4, <2>9, <2>11, <3>1
  <2>13. PICK m3 : m3 = FuncCalled(m2, Block)
    OBVIOUS
  <2>14. Goes(m3, Len(G) + 1) \/ Broken(m3)
    BY <2>8, <2>11, <2>13, FuncGoes, ValsIn
  <2>15. Len(F) = Len(G) + 1
    BY <2>4, <2>5, Ends
  <2>16. CallAgainFunction(m) = m3
    <3>1. CallAgainFunction(m) = FuncCalled(Left(Popped(m, 1)), Peek(m, 0)[2])
      BY <1>8, <1>10, <1>12 DEF CallAgainFunction
    <3> QED
      BY <1>8, <2>2, <2>12, <2>13, <3>1
  <2>17. Keeps(fr.c_func, c, Last(Last(m3.calls).given), its, m3.items)
    BY DEF Keeps
  <2>18. (Good(m3) /\ (Len(m3.calls) = Len(F) \/ Len(m3.calls) = Len(F) + 1)) \/ Broken(m3)
    BY <2>14, <2>15 DEF Goes
  <2> QED
    BY <2>16, <2>17, <2>18 DEF Outcome, Goes
<1> QED
  BY <1>11, <1>12

(* Whatever C function runs *)
LEMMA CFunctionGoes ==
  ASSUME NEW F, NEW C, NEW fr, NEW c, NEW its, Runs(F, C, fr, c, its),
         NEW m, m = Mach(F, C, fr, c, Held(fr, c), its)
  PROVE  Outcome(CFunction(m), F, fr.c_func, c, its)
<1>1. Under(F, C) /\ fr \in FrameRec /\ c \in CallRec
  BY RunsFacts
<1>2. Last(m.frames) = fr
  BY <1>1, LastAt
<1>3. CASE fr.c_func \in ListFunctions
  <2>1. CFunction(m) = ListFunction(m, fr.c_func)
    BY <1>2, <1>3 DEF CFunction, ListFunctions
  <2> QED
    BY <1>3, <2>1, ListMethodGoes DEF Runs
<1>4. CASE fr.c_func = "println"
  <2>1. CFunction(m) = PrintLnFunction(m)
    BY <1>2, <1>4 DEF CFunction, ListFunctions
  <2> QED
    BY <1>4, <2>1, PrintLnGoes
<1>5. CASE fr.c_func = "print"
  <2>1. CFunction(m) = PrintFunction(m)
    BY <1>2, <1>5 DEF CFunction, ListFunctions
  <2> QED
    BY <1>5, <2>1, PrintGoes
<1>6. CASE fr.c_func = "again"
  <2>1. CFunction(m) = CallAgainFunction(m)
    BY <1>2, <1>6 DEF CFunction, ListFunctions
  <2> QED
    BY <1>6, <2>1, AgainAsks, AgainCalls
<1> QED
  BY <1>1, <1>3, <1>4, <1>5, <1>6, FuncCases DEF Runs

-------------------------------------------------------------------------------
(*****************************************************************************)
(* The steps of the machine.                                                 *)
(*****************************************************************************)
(* The machine is in the middle of the calls F and C below fr and c. *)
Sized == \A l \in DOMAIN items : Len(items[l]) <= MaxLength
Small(m) == \A l \in DOMAIN m.items : Len(m.items[l]) <= MaxLength
Here(F, C, fr, c, its) ==
  /\ Machine = Mach(F, C, fr, c, Held(fr, c), its)
  /\ Atop(F, C, fr, c, its) /\ Proper(fr, c, its) /\ Ready(fr, c)

(* The variables are the machine. *)
LEMMA MachineIs == Machine = State(vstack, frames, items, panic, calls)
BY DEF Machine, State

(* A machine is told by its parts. *)
LEMMA StateIs ==
  ASSUME NEW v, NEW f, NEW i, NEW p, NEW k, NEW v2, NEW f2, NEW i2, NEW p2, NEW k2,
         State(v, f, i, p, k) = State(v2, f2, i2, p2, k2)
  PROVE  v = v2 /\ f = f2 /\ i = i2 /\ p = p2 /\ k = k2
<1>1. PICK m : m = State(v, f, i, p, k)
  OBVIOUS
<1>2. m.vstack = v /\ m.frames = f /\ m.items = i /\ m.panic = p /\ m.calls = k
  BY <1>1 DEF State
<1>3. m = State(v2, f2, i2, p2, k2)
  BY <1>1
<1>4. m.vstack = v2 /\ m.frames = f2 /\ m.items = i2 /\ m.panic = p2 /\ m.calls = k2
  BY <1>3 DEF State
<1> QED
  BY <1>2, <1>4

(* The parts of a machine in calls are the variables. *)
LEMMA MachineHas ==
  ASSUME NEW F, NEW C, NEW fr, NEW c, NEW s, NEW its, Machine = Mach(F, C, fr, c, s, its)
  PROVE  /\ vstack = Stack(F, C) \o s /\ frames = Append(F, fr) /\ items = its /\ panic = "no"
         /\ calls = Append(C, c)
<1>1. PICK v, f, k : v = Stack(F, C) \o s /\ f = Append(F, fr) /\ k = Append(C, c)
  OBVIOUS
<1>2. State(vstack, frames, items, panic, calls) = State(v, f, its, "no", k)
  BY <1>1, MachineIs DEF Mach
<1>3. vstack = v /\ frames = f /\ items = its /\ panic = "no" /\ calls = k
  BY <1>2, StateIs
<1> QED
  BY <1>1, <1>3

(* What is known when the machine is in these calls *)
LEMMA HereFacts ==
  ASSUME NEW F, NEW C, NEW fr, NEW c, NEW its, Here(F, C, fr, c, its)
  PROVE  /\ Under(F, C) /\ F \in Seq(FrameRec) /\ C \in Seq(CallRec) /\ fr \in FrameRec /\ c \in CallRec
         /\ Lists(its) /\ Len(F) \in Nat /\ Len(C) = Len(F)
         /\ vstack = Stack(F, C) \o Held(fr, c) /\ frames = Append(F, fr) /\ items = its
         /\ panic = "no" /\ calls = Append(C, c)
         /\ Last(frames) = fr /\ Last(calls) = c /\ Len(frames) = Len(F) + 1 /\ Len(calls) = Len(F) + 1
<1>1. Machine = Mach(F, C, fr, c, Held(fr, c), its) /\ Atop(F, C, fr, c, its)
  BY DEF Here
<1>2. Under(F, C) /\ fr \in FrameRec /\ c \in CallRec /\ Lists(its)
  BY <1>1 DEF Atop, Chain
<1>3. F \in Seq(FrameRec) /\ C \in Seq(CallRec) /\ Len(C) = Len(F)
  BY <1>2 DEF Under
<1>4. /\ vstack = Stack(F, C) \o Held(fr, c) /\ frames = Append(F, fr) /\ items = its
      /\ panic = "no" /\ calls = Append(C, c)
  BY <1>1, MachineHas
<1>5. Last(Append(F, fr)) = fr /\ Len(Append(F, fr)) = Len(F) + 1
  BY <1>2, <1>3, Ends
<1>6. Last(Append(C, c)) = c /\ Len(Append(C, c)) = Len(C) + 1
  BY <1>2, <1>3, Ends
<1>7. Len(F) \in Nat
  BY <1>3
<1> QED
  BY <1>2, <1>3, <1>4, <1>5, <1>6, <1>7

(* What a step of the machine makes of it *)
Moves(F, C, fr, c, its) ==
  \E m : Become(m) /\ Outcome(m, F, fr.c_func, c, its) /\ Small(m)

(* A C function runs. *)
LEMMA CFunctionMoves ==
  ASSUME NEW F, NEW C, NEW fr, NEW c, NEW its, Here(F, C, fr, c, its), RunCFunction
  PROVE  Moves(F, C, fr, c, its)
<1>1. PICK m0 : m0 = Mach(F, C, fr, c, Held(fr, c), its)
  OBVIOUS
<1>2. Machine = m0
  BY <1>1 DEF Here
<1>3. PICK m : m = CFunction(m0)
  OBVIOUS
<1>4. Runs(F, C, fr, c, its)
  BY HereFacts DEF Runs, Here, RunCFunction
<1>5. Outcome(m, F, fr.c_func, c, its)
  BY <1>1, <1>3, <1>4, CFunctionGoes
<1>6. Bounded(m) /\ Become(m)
  BY <1>2, <1>3 DEF RunCFunction
<1>7. Small(m)
  BY <1>6 DEF Bounded, Small
<1> QED
  BY <1>5, <1>6, <1>7 DEF Moves

(* The script's own block runs. *)
LEMMA BlockFacts ==
  ASSUME NEW F, NEW C, NEW fr, NEW c, NEW its, Here(F, C, fr, c, its), Running
  PROVE  /\ fr.c_func = "block" /\ ~fr.fresh /\ Waits(fr, c) /\ Held(fr, c) = c.given
         /\ Held(fr, c) \in Seq(Val) /\ c.given \in Seq(Val)
         /\ \A args \in Seq(Val) : Calling(F, C, fr, c, its, args)
<1>1. fr.c_func = "block" /\ Ready(fr, c) /\ fr \in FrameRec /\ c \in CallRec
  BY HereFacts DEF Here, Running
<1>2. ~fr.fresh
  BY <1>1 DEF Ready, ListFunctions
<1>3. Waits(fr, c)
  BY <1>1, <1>2 DEF Waits
<1>4. Held(fr, c) = c.given /\ c.given \in Seq(Val)
  BY <1>1, HoldsBlock DEF CallRec
<1>5. \A args \in Seq(Val) : Calling(F, C, fr, c, its, args)
  BY <1>1, <1>3 DEF Here, Calling, Gets, ListFunctions
<1> QED
  BY <1>1, <1>2, <1>3, <1>4, <1>5

(* The block computes a value. *)
LEMMA ComputeMoves ==
  ASSUME NEW F, NEW C, NEW fr, NEW c, NEW its, Here(F, C, fr, c, its), Sized, Compute(Nil)
  PROVE  Moves(F, C, fr, c, its)
<1>1. PICK m0 : m0 = Mach(F, C, fr, c, Held(fr, c), its)
  OBVIOUS
<1>2. PICK m : m = Delivered(m0, Nil)
  OBVIOUS
<1>3. Become(m)
  BY <1>1, <1>2 DEF Compute, Here
<1>4. /\ Atop(F, C, fr, c, its) /\ Proper(fr, c, its) /\ Waits(fr, c)
      /\ fr.c_func # "println" /\ Under(F, C) /\ fr \in FrameRec /\ c \in CallRec /\ items = its
  BY BlockFacts, HereFacts DEF Here, Compute
<1>5. m = Mach(F, C, fr, Given(c, Nil), Held(fr, Given(c, Nil)), its) /\ Good(m)
  BY <1>1, <1>2, <1>4, DeliveredGood, ValsIn
<1>6. Given(c, Nil) \in CallRec
  BY <1>4, GivenCall, ValsIn
<1>7. Len(m.calls) = Len(F) + 1 /\ m.items = its
  BY <1>4, <1>5, <1>6, LastAt
<1>8. Outcome(m, F, fr.c_func, c, its)
  BY <1>5, <1>7 DEF Outcome, Goes
<1>9. Small(m)
  BY <1>4, <1>7 DEF Sized, Small
<1> QED
  BY <1>3, <1>8, <1>9 DEF Moves

(* The block calls. *)
LEMMA CallMoves ==
  ASSUME NEW F, NEW C, NEW fr, NEW c, NEW its, Here(F, C, fr, c, its),
         NEW f \in Val, NEW args \in Seq(Val), Call(f, args)
  PROVE  Moves(F, C, fr, c, its)
<1>1. PICK m0 : m0 = Mach(F, C, fr, c, Held(fr, c), its)
  OBVIOUS
<1>2. PICK t \in Seq(Val) : t = Append(Reverse(args), Integer(Len(args)))
  <2>1. PICK r \in Seq(Val) : r = Reverse(args)
    BY Reversed
  <2>2. PICK k \in Val : k = Integer(Len(args))
    BY ValsIn
  <2>3. Append(r, k) \in Seq(Val)
    OBVIOUS
  <2> QED
    BY <2>1, <2>2, <2>3
<1>3. PICK m1 : m1 = Mach(F, C, fr, c, Held(fr, c) \o Append(Reverse(args), Integer(Len(args))), its)
  OBVIOUS
<1>4. Running
  BY DEF Call
<1>5. Calling(F, C, fr, c, its, args) /\ Under(F, C) /\ Held(fr, c) \in Seq(Val)
  BY <1>4, BlockFacts, HereFacts
<1>6. Pushed(m0, t) = m1
  <2>1. PICK h \in Seq(Val) : h = Held(fr, c)
    BY <1>5
  <2>2. Pushed(Mach(F, C, fr, c, h, its), t) = Mach(F, C, fr, c, h \o t, its)
    BY <1>5, PushedTo
  <2> QED
    BY <1>1, <1>2, <1>3, <2>1, <2>2
<1>7. PICK m : m = FuncCalled(m1, f)
  OBVIOUS
<1>8. Bounded(m) /\ Become(m)
  <2>1. Machine = m0
    BY <1>1 DEF Here
  <2> QED
    BY <1>2, <1>6, <1>7, <2>1 DEF Call
<1>9. Goes(m, Len(F) + 1) \/ Broken(m)
  BY <1>3, <1>5, <1>7, FuncGoes
<1>10. Outcome(m, F, fr.c_func, c, its)
  BY <1>9 DEF Outcome
<1>11. Small(m)
  BY <1>8 DEF Bounded, Small
<1> QED
  BY <1>8, <1>10, <1>11 DEF Moves

(* The block returns. *)
LEMMA ReturnMoves ==
  ASSUME NEW F, NEW C, NEW fr, NEW c, NEW its, Here(F, C, fr, c, its), Sized,
         NEW v \in Val, Return(v)
  PROVE  Moves(F, C, fr, c, its)
<1>1. PICK m0 : m0 = Mach(F, C, fr, c, <<>>, its)
  OBVIOUS
<1>2. PICK m : m = Finished(m0, v)
  OBVIOUS
<1>3. Running /\ Len(frames) > 1 /\ Last(calls).given = <<>>
  BY DEF Return
<1>4. /\ fr.c_func = "block" /\ Held(fr, c) = c.given /\ c.given = <<>> /\ Len(F) + 1 > 1
      /\ items = its /\ Len(F) \in Nat /\ Atop(F, C, fr, c, its) /\ F \in Seq(FrameRec)
  BY <1>3, BlockFacts, HereFacts DEF Here
<1>5. F # <<>>
  BY <1>4
<1>6. Become(m)
  <2>1. Machine = m0
    BY <1>1, <1>4 DEF Here
  <2> QED
    BY <1>2, <2>1 DEF Return
<1>7. Good(m) /\ Returned(m, its, Len(F), v)
  BY <1>1, <1>2, <1>4, <1>5, FinishedGood
<1>8. Keeps(fr.c_func, c, Last(Last(m.calls).given), its, m.items)
  BY <1>4 DEF Keeps
<1>9. Outcome(m, F, fr.c_func, c, its)
  BY <1>7, <1>8 DEF Outcome, Returned
<1>10. Small(m)
  BY <1>4, <1>7 DEF Sized, Small, Returned
<1> QED
  BY <1>6, <1>9, <1>10 DEF Moves

(* A value less on the script's part of the stack *)
Without(m) == [m EXCEPT !.calls[Len(m.calls)].given = Front(@)]

(* The same on a state *)
LEMMA StateWithout ==
  ASSUME NEW v, NEW f, NEW c, NEW h, NEW i, NEW p, NEW k, NEW m, m = State(v, f, i, p, k),
         NewCall(k, c, [c EXCEPT !.given = Front(@)], h)
  PROVE  Without(m) = State(v, f, i, p, h)
<1>1. PICK n : n = Len(k)
  OBVIOUS
<1>2. m.calls = k
  BY DEF State
<1>3. Without(m) = [m EXCEPT !.calls[n].given = Front(@)]
  BY <1>1, <1>2 DEF Without
<1> QED
  BY <1>1, <1>2, <1>3 DEF NewCall, State

-------------------------------------------------------------------------------
(*****************************************************************************)
(* The last step, and the inductive invariant.                               *)
(*****************************************************************************)
(* The block drops a value. *)
LEMMA DiscardMoves ==
  ASSUME NEW F, NEW C, NEW fr, NEW c, NEW its, Here(F, C, fr, c, its), Sized, Discard
  PROVE  Moves(F, C, fr, c, its)
<1>1. PICK m0 : m0 = Mach(F, C, fr, c, Held(fr, c), its)
  OBVIOUS
<1>2. Machine = m0
  BY <1>1 DEF Here
<1>3. Running /\ Last(calls).given # <<>>
  BY DEF Discard
<1>4. /\ fr.c_func = "block" /\ ~fr.fresh /\ Held(fr, c) = c.given /\ c.given \in Seq(Val)
      /\ Under(F, C) /\ fr \in FrameRec /\ c \in CallRec /\ items = its /\ C \in Seq(CallRec)
      /\ Len(calls) = Len(F) + 1 /\ c.given # <<>> /\ Len(F) \in Nat /\ calls = Append(C, c)
  BY <1>3, BlockFacts, HereFacts
<1>5. PICK s \in Seq(Val) : s = Front(c.given)
  BY <1>4, Split
<1>6. PICK v \in Val : v = Last(c.given)
  BY <1>4, Split
<1>7. PICK t \in Seq(Val) : t = <<v>> /\ Len(t) = 1
  BY Alone
<1>8. c.given = s \o t
  <2>1. c.given = Append(s, v)
    BY <1>4, <1>5, <1>6, Split
  <2>2. s \o <<v>> = Append(s, v)
    BY OneMore
  <2> QED
    BY <1>7, <2>1, <2>2
<1>9. PICK m1 : m1 = Mach(F, C, fr, c, s, its)
  OBVIOUS
<1>10. Popped(m0, 1) = m1
  <2>1. Popped(Mach(F, C, fr, c, s \o t, its), Len(t)) = Mach(F, C, fr, c, s, its)
    BY <1>4, PoppedTo
  <2> QED
    BY <1>1, <1>4, <1>7, <1>8, <1>9, <2>1
<1>11. PICK d : d = CallOf(c.args, c.on, c.asked, s)
  OBVIOUS
<1>12. d \in CallRec /\ d = [c EXCEPT !.given = s] /\ d.args = c.args /\ d.given = s
  <2>1. c \in CallRec
    BY <1>4
  <2>2. d = [c EXCEPT !.given = s]
    <3>1. PICK a, o, q, g : c = [args |-> a, on |-> o, asked |-> q, given |-> g]
      BY <2>1 DEF CallRec
    <3>2. d = [args |-> a, on |-> o, asked |-> q, given |-> s]
      BY <1>11, <3>1 DEF CallOf
    <3> QED
      BY <3>1, <3>2
  <2>3. d \in CallRec
    BY <1>11, <2>1 DEF CallOf, CallRec
  <2>4. d.args = c.args /\ d.given = s
    BY <1>11 DEF CallOf
  <2> QED
    BY <2>2, <2>3, <2>4
<1>13. PICK h : h = Append(C, d)
  OBVIOUS
<1>14. PICK k : k = Append(C, c)
  OBVIOUS
<1>15. NewCall(k, c, d, h)
  BY <1>4, <1>12, <1>13, <1>14, NewCallIs DEF TopOfCalls
<1>16. NewCall(k, c, [c EXCEPT !.given = Front(@)], h)
  <2>1. [c EXCEPT !.given = Front(@)] = [c EXCEPT !.given = s]
    BY <1>5
  <2> QED
    BY <1>12, <1>15, <2>1
<1>17. PICK m : m = Mach(F, C, fr, d, s, its)
  OBVIOUS
<1>18. Without(m1) = m
  <2>1. PICK st, f : st = Stack(F, C) \o s /\ f = Append(F, fr)
    OBVIOUS
  <2>2. m1 = State(st, f, its, "no", k) /\ m = State(st, f, its, "no", h)
    BY <1>9, <1>13, <1>14, <1>17, <2>1 DEF Mach
  <2>3. Without(m1) = State(st, f, its, "no", h)
    BY <1>16, <2>2, StateWithout
  <2> QED
    BY <2>2, <2>3
<1>19. Become(m)
  <2>1. m1.calls = calls
    BY <1>4, <1>9 DEF Mach, State
  <2>2. Without(m1) = [m1 EXCEPT !.calls[Len(calls)].given = Front(@)]
    BY <2>1, Zenon DEF Without
  <2>3. [Popped(Machine, 1) EXCEPT !.calls[Len(calls)].given = Front(@)] = m
    BY <1>2, <1>10, <1>18, <2>2
  <2> QED
    BY <2>3 DEF Discard
<1>20. Good(m)
  <2>1. Held(fr, d) = s
    BY <1>4, <1>12, HoldsBlock
  <2>2. Atop(F, C, fr, d, its)
    BY <1>12 DEF Here, Atop
  <2>3. Proper(fr, d, its) /\ Ready(fr, d)
    BY <1>4 DEF Proper, Suited, Ready, ListFunctions
  <2> QED
    BY <1>17, <2>1, <2>2, <2>3 DEF Good
<1>21. Len(m.calls) = Len(F) + 1 /\ m.items = its
  BY <1>4, <1>12, <1>17, LastAt
<1>22. Outcome(m, F, fr.c_func, c, its)
  BY <1>20, <1>21 DEF Outcome, Goes
<1>23. Small(m)
  BY <1>4, <1>21 DEF Sized, Small
<1> QED
  BY <1>19, <1>22, <1>23 DEF Moves

(* Every step of the program *)
LEMMA NextMoves ==
  ASSUME NEW F, NEW C, NEW fr, NEW c, NEW its, Here(F, C, fr, c, its), Sized, Next
  PROVE  Moves(F, C, fr, c, its)
<1>1. /\ \A v \in Texting : v \in Val
      /\ \A f \in Methods : Bound(f, Mine) \in Val
      /\ \A g \in Functions : g \in Val
      /\ PrintLn \in Val /\ Block \in Val /\ Nil \in Val /\ Ref(Block) \in Val
  BY DEF Val, Functions
<1>2. CASE RunCFunction
  BY <1>2, CFunctionMoves
<1>3. CASE Discard
  BY <1>3, DiscardMoves
<1>4. CASE Compute(Nil)
  BY <1>4, ComputeMoves
<1>5. CASE \E v \in Texting \cup {Nil, Ref(Block)} : Return(v)
  <2>1. PICK v \in Texting \cup {Nil, Ref(Block)} : Return(v)
    BY <1>5
  <2>2. v \in Val
    BY <1>1
  <2> QED
    BY <2>1, <2>2, ReturnMoves
<1>6. CASE \E v \in Texting \cup {Block} : Call(Bound("push", Mine), <<v>>)
  <2>1. PICK v \in Texting \cup {Block} : Call(Bound("push", Mine), <<v>>)
    BY <1>6
  <2>2. PICK f \in Val : f = Bound("push", Mine)
    BY <1>1 DEF Methods
  <2>3. v \in Val
    BY <1>1
  <2>4. PICK args \in Seq(Val) : args = <<v>>
    BY <2>3, Alone
  <2> QED
    BY <2>1, <2>2, <2>4, CallMoves
<1>7. CASE \E f \in Methods \ {"push", "reduce"}, g \in Functions : Call(Bound(f, Mine), <<g>>)
  <2>1. PICK q \in Methods \ {"push", "reduce"}, g \in Functions : Call(Bound(q, Mine), <<g>>)
    BY <1>7
  <2>2. PICK f \in Val : f = Bound(q, Mine)
    BY <1>1
  <2>3. g \in Val
    BY <1>1
  <2>4. PICK args \in Seq(Val) : args = <<g>>
    BY <2>3, Alone
  <2> QED
    BY <2>1, <2>2, <2>4, CallMoves
<1>8. CASE \E v \in Texting, g \in Functions : Call(Bound("reduce", Mine), <<v, g>>)
  <2>1. PICK v \in Texting, g \in Functions : Call(Bound("reduce", Mine), <<v, g>>)
    BY <1>8
  <2>2. PICK f \in Val : f = Bound("reduce", Mine)
    BY <1>1 DEF Methods
  <2>3. v \in Val /\ g \in Val
    BY <1>1
  <2>4. PICK args \in Seq(Val) : args = <<v, g>>
    <3>1. <<v, g>> \in Seq(Val)
      BY <2>3
    <3> QED
      BY <3>1
  <2> QED
    BY <2>1, <2>2, <2>4, CallMoves
<1>9. CASE \E args \in Printing : Call(PrintLn, args)
  <2>1. PICK args \in Printing : Call(PrintLn, args)
    BY <1>9
  <2>2. args \in Seq(Val)
    <3>1. CASE args = <<>>
      BY <3>1, NoneReversed
    <3>2. ASSUME NEW v \in Texting, args = <<v, Block>> PROVE args \in Seq(Val)
      <4>1. v \in Val /\ Block \in Val
        BY <1>1
      <4>2. PICK b \in Val : b = Block
        BY <4>1
      <4>3. <<v, b>> \in Seq(Val)
        BY <4>1
      <4> QED
        BY <3>2, <4>2, <4>3
    <3> QED
      BY <3>1, <3>2 DEF Printing
  <2> QED
    BY <1>1, <2>1, <2>2, CallMoves
<1> QED
  BY <1>2, <1>3, <1>4, <1>5, <1>6, <1>7, <1>8, <1>9 DEF Next

(* The inductive invariant: the calls in progress, and the stack, are what *)
(* they should be; or the script was at fault.                             *)
Inv == Sized /\ \E m : m = Machine /\ (Good(m) \/ Broken(m))

(* What a faulty script leaves *)
LEMMA BrokenIs ==
  ASSUME NEW m, m = Machine, Broken(m)
  PROVE  \E F, C, fr, c, its :
           /\ frames = Append(F, fr) /\ calls = Append(C, c) /\ panic = "script"
           /\ Atop(F, C, fr, c, its) /\ (fr.fresh => fr.locals = <<>>)
<1>1. PICK F, C, fr, c, s, its :
        /\ m = Panicked(Mach(F, C, fr, c, s, its), "script")
        /\ Atop(F, C, fr, c, its) /\ (fr.fresh => fr.locals = <<>>)
  BY DEF Broken
<1>2. PICK v, f, k : v = Stack(F, C) \o s /\ f = Append(F, fr) /\ k = Append(C, c)
  OBVIOUS
<1>3. m = State(v, f, its, "script", k)
  BY <1>1, <1>2 DEF Panicked, Mach, State
<1>4. frames = f /\ panic = "script" /\ calls = k
  <2>1. State(vstack, frames, items, panic, calls) = State(v, f, its, "script", k)
    BY <1>3, MachineIs
  <2> QED
    BY <2>1, StateIs
<1> QED
  BY <1>1, <1>2, <1>4

(* A good machine is in calls that are ready. *)
LEMMA GoodIs ==
  ASSUME NEW m, m = Machine, Good(m)
  PROVE  \E F, C, fr, c, its : Here(F, C, fr, c, its)
BY DEF Good, Here

-------------------------------------------------------------------------------
(*****************************************************************************)
(* The invariant holds.                                                      *)
(*****************************************************************************)
(* The start: the script's block alone, with its one list *)
LEMMA StartsGood ==
  ASSUME Init
  PROVE  \E F, C, fr, c, its : Here(F, C, fr, c, its)
<1>1. PICK F : F = <<>>
  OBVIOUS
<1>2. PICK C : C = <<>>
  OBVIOUS
<1>3. Under(F, C) /\ Stack(F, C) = <<>>
  BY <1>1, <1>2, EmptyUnder
<1>4. PICK L : L = <<>> /\ L \in Seq(Val \cup Nat)
  <2>1. <<>> \in Seq(Val \cup Nat)
    OBVIOUS
  <2> QED
    BY <2>1
<1>5. PICK e \in Seq(Val) : e = <<>>
  BY NoneReversed
<1>6. PICK fr : fr = [c_func |-> "block", fresh |-> FALSE, locals |-> L]
  OBVIOUS
<1>7. fr \in FrameRec /\ fr.c_func = "block" /\ ~fr.fresh
  BY <1>4, <1>6 DEF FrameRec, Names
<1>8. PICK c : c = [args |-> e, on |-> Nil, asked |-> e, given |-> e]
  OBVIOUS
<1>9. c \in CallRec /\ c.given = e /\ c.args = e
  BY <1>8, ValsIn DEF CallRec
<1>10. PICK its : its = <<e>>
  OBVIOUS
<1>11. Lists(its)
  BY <1>10 DEF Lists
<1>12. Held(fr, c) = <<>>
  BY <1>5, <1>7, <1>9, HoldsBlock
<1>13. Append(F, fr) = <<fr>> /\ Append(C, c) = <<c>> /\ Stack(F, C) \o Held(fr, c) = <<>>
  BY <1>1, <1>12, <1>2, <1>3
<1>14. Machine = Mach(F, C, fr, c, Held(fr, c), its)
  BY <1>4, <1>5, <1>6, <1>8, <1>10, <1>13 DEF Init, Machine, Mach, State
<1>15. Len(F) = 0
  BY <1>1
<1>16. Chain(F, C, its) /\ Apart(F, fr) /\ Follows(F, C, fr.c_func, c.args)
  BY <1>1, <1>7, <1>15, <1>2, <1>3 DEF Chain, Apart, Follows
<1>17. Proper(fr, c, its) /\ Ready(fr, c)
  BY <1>7 DEF Proper, Suited, Ready, ListFunctions
<1> QED
  BY <1>7, <1>9, <1>11, <1>14, <1>16, <1>17 DEF Here, Atop

(* And the other way round. *)
LEMMA HereGood ==
  ASSUME NEW F, NEW C, NEW fr, NEW c, NEW its, Here(F, C, fr, c, its)
  PROVE  \E m : m = Machine /\ (Good(m) \/ Broken(m))
<1>1. PICK m : m = Machine
  OBVIOUS
<1>2. m = Mach(F, C, fr, c, Held(fr, c), its) /\ Atop(F, C, fr, c, its) /\ Proper(fr, c, its) /\ Ready(fr, c)
  BY <1>1 DEF Here
<1>3. Good(m)
  BY <1>2, Zenon DEF Good
<1> QED
  BY <1>1, <1>3

(* The invariant holds at the start. *)
LEMMA InitInv ==
  ASSUME Init
  PROVE  Inv
<1>1. Sized
  <2>1. MaxLength \in Nat
    BY CFunctionsAssumption
  <2>2. items = <<<<>>>>
    BY DEF Init
  <2> QED
    BY <2>1, <2>2 DEF Sized
<1>2. \E m : m = Machine /\ (Good(m) \/ Broken(m))
  BY StartsGood, HereGood
<1> QED
  BY <1>1, <1>2 DEF Inv

(* While the program runs the machine is good. *)
LEMMA RunsGood ==
  ASSUME Inv, panic = "no"
  PROVE  \E F, C, fr, c, its : Here(F, C, fr, c, its)
<1>1. PICK m : m = Machine /\ (Good(m) \/ Broken(m))
  BY DEF Inv
<1>2. ~Broken(m)
  BY <1>1, BrokenIs
<1> QED
  BY <1>1, <1>2, GoodIs

(* Only a program that has not failed takes steps. *)
LEMMA NextRuns ==
  ASSUME Next
  PROVE  panic = "no"
BY DEF Next, RunCFunction, Discard, Compute, Return, Call, Running

(* The machine a step ends with is that of the next state. *)
LEMMA BecomeIs ==
  ASSUME NEW m, Become(m), Good(m) \/ Broken(m)
  PROVE  m = Machine'
<1>1. \E v, f, i, p, k : m = State(v, f, i, p, k)
  <2>1. CASE Good(m)
    BY <2>1 DEF Good, Mach
  <2>2. CASE Broken(m)
    <3>1. PICK F, C, fr, c, s, its : m = Panicked(Mach(F, C, fr, c, s, its), "script")
      BY <2>2 DEF Broken
    <3>2. PICK v, f, k : v = Stack(F, C) \o s /\ f = Append(F, fr) /\ k = Append(C, c)
      OBVIOUS
    <3>3. m = State(v, f, its, "script", k)
      BY <3>1, <3>2 DEF Panicked, Mach, State
    <3> QED
      BY <3>3
  <2> QED
    BY <2>1, <2>2
<1>2. PICK v, f, i, p, k : m = State(v, f, i, p, k)
  BY <1>1
<1>3. vstack' = v /\ frames' = f /\ items' = i /\ panic' = p /\ calls' = k
  BY <1>2 DEF Become, State
<1>4. Machine' = State(v, f, i, p, k)
  BY <1>3 DEF Machine, State
<1> QED
  BY <1>2, <1>4

(* One step keeps the invariant, and a call that ends keeps its promise. *)
LEMMA StepInv ==
  ASSUME Inv, Next
  PROVE  Inv' /\ (Finishes => Promised(Last(frames).c_func, Last(calls), Last(Last(calls').given)))
<1>1. panic = "no" /\ Sized
  BY NextRuns DEF Inv
<1>2. PICK F, C, fr, c, its : Here(F, C, fr, c, its)
  BY <1>1, RunsGood
<1>3. Moves(F, C, fr, c, its)
  BY <1>1, <1>2, NextMoves
<1>4. PICK m : Become(m) /\ Outcome(m, F, fr.c_func, c, its) /\ Small(m)
  BY <1>3 DEF Moves
<1>5. Good(m) \/ Broken(m)
  BY <1>4 DEF Outcome, Goes
<1>6. m = Machine'
  BY <1>4, <1>5, BecomeIs
<1>7. items' = m.items /\ calls' = m.calls /\ panic' = m.panic
  BY <1>4 DEF Become
<1>8. Sized'
  BY <1>4, <1>7 DEF Small, Sized
<1>9. Inv'
  BY <1>5, <1>6, <1>8 DEF Inv
<1>10. ASSUME Finishes
       PROVE  Promised(Last(frames).c_func, Last(calls), Last(Last(calls').given))
  <2>1. /\ Last(frames) = fr /\ Last(calls) = c /\ Len(calls) = Len(F) + 1 /\ Len(F) \in Nat /\ items = its
    BY <1>2, HereFacts
  <2>2. Len(m.calls) = Len(F) /\ m.panic = "no"
    BY <1>7, <1>10, <2>1 DEF Finishes
  <2>3. ~Broken(m)
    BY <2>2 DEF Broken, Panicked, Mach, State
  <2>4. ~Goes(m, Len(F) + 1)
    BY <2>1, <2>2 DEF Goes
  <2>5. Keeps(fr.c_func, c, Last(Last(m.calls).given), its, m.items)
    BY <1>4, <2>3, <2>4 DEF Outcome
  <2>6. PICK v : v = Last(Last(calls').given)
    OBVIOUS
  <2>7. Keeps(fr.c_func, c, v, items, items')
    BY <1>7, <2>1, <2>5, <2>6
  <2>8. Promised(fr.c_func, c, v)
    BY <2>7, Zenon DEF Keeps, Promised
  <2> QED
    BY <2>1, <2>6, <2>8
<1> QED
  BY <1>9, <1>10

(* In whatever order calls begin and end (exec.c and the files of lib/),   *)
(* every call below the running one waits for the one above it, with the   *)
(* locals and the part of the operand stack it needs to go on, and no two  *)
(* list methods gather in the same list; or the script was at fault.       *)
THEOREM Invariance == Spec => []Inv
<1>1. Init => Inv
  BY InitInv
<1>2. Inv /\ [Next]_vars => Inv'
  <2>1. ASSUME Inv, Next PROVE Inv'
    BY <2>1, StepInv
  <2>2. ASSUME Inv, UNCHANGED vars PROVE Inv'
    BY <2>2 DEF Inv, Sized, vars, Machine
  <2> QED
    BY <2>1, <2>2
<1> QED
  BY <1>1, <1>2, PTL DEF Spec

(* A method or built-in function that ends delivers what its caller was    *)
(* promised: each, map, filter, reduce, any and all the value that their   *)
(* callbacks' answers make, println and print nil after every parameter    *)
(* was turned into a text.                                                 *)
THEOREM PromisesKept == Spec => ResultsAsPromised
<1>1. Inv /\ [Next]_vars
        => [Finishes => Promised(Last(frames).c_func, Last(calls), Last(Last(calls').given))]_vars
  BY StepInv
<1> QED
  BY <1>1, Invariance, PTL DEF Spec, ResultsAsPromised

-------------------------------------------------------------------------------
(*****************************************************************************)
(* What follows from it.                                                     *)
(*****************************************************************************)
(* What runs, and what waits below it, in either case *)
Chained(F, C, fr, c, its) ==
  /\ frames = Append(F, fr) /\ calls = Append(C, c)
  /\ Atop(F, C, fr, c, its) /\ (fr.fresh => fr.locals = <<>>)

(* Either way the calls are chained, and nothing failed inside. *)
LEMMA InvChained ==
  ASSUME Inv
  PROVE  panic \in {"no", "script"} /\ \E F, C, fr, c, its : Chained(F, C, fr, c, its)
<1>1. PICK m : m = Machine /\ (Good(m) \/ Broken(m))
  BY DEF Inv
<1>2. CASE Good(m)
  <2>1. PICK F, C, fr, c, its : Here(F, C, fr, c, its)
    BY <1>1, <1>2, GoodIs
  <2>2. frames = Append(F, fr) /\ calls = Append(C, c) /\ panic = "no"
    BY <2>1, HereFacts
  <2>3. Atop(F, C, fr, c, its) /\ (fr.fresh => fr.locals = <<>>)
    BY <2>1 DEF Here, Ready
  <2> QED
    BY <2>2, <2>3 DEF Chained
<1>3. CASE Broken(m)
  BY <1>1, <1>3, BrokenIs DEF Chained
<1> QED
  BY <1>1, <1>2, <1>3

(* Frames and calls, one by one *)
LEMMA ChainedFacts ==
  ASSUME NEW F, NEW C, NEW fr, NEW c, NEW its, Chained(F, C, fr, c, its)
  PROVE  /\ Under(F, C) /\ F \in Seq(FrameRec) /\ C \in Seq(CallRec) /\ fr \in FrameRec /\ c \in CallRec
         /\ Len(F) \in Nat /\ Len(frames) = Len(F) + 1 /\ Len(calls) = Len(F) + 1
         /\ frames[Len(F) + 1] = fr /\ calls[Len(F) + 1] = c
         /\ \A k \in 1 .. Len(F) : frames[k] = F[k] /\ calls[k] = C[k]
<1>1. Under(F, C) /\ fr \in FrameRec /\ c \in CallRec
  BY DEF Chained, Atop, Chain
<1>2. F \in Seq(FrameRec) /\ C \in Seq(CallRec) /\ Len(F) = Len(C)
  BY <1>1 DEF Under
<1>3. frames = Append(F, fr) /\ calls = Append(C, c)
  BY DEF Chained
<1>4. /\ Len(frames) = Len(F) + 1 /\ frames[Len(F) + 1] = fr
      /\ \A k \in 1 .. Len(F) : frames[k] = F[k]
  BY <1>1, <1>2, <1>3
<1>5. /\ Len(calls) = Len(C) + 1 /\ calls[Len(C) + 1] = c
      /\ \A k \in 1 .. Len(C) : calls[k] = C[k]
  BY <1>1, <1>2, <1>3
<1>6. Len(F) \in Nat
  BY <1>2
<1> QED
  BY <1>1, <1>2, <1>4, <1>5, <1>6

(* The invariant gives the types, *)
LEMMA InvTypeOK ==
  ASSUME Inv
  PROVE  TypeOK
<1>1. PICK F, C, fr, c, its : Chained(F, C, fr, c, its)
  BY InvChained
<1>2. /\ F \in Seq(FrameRec) /\ fr \in FrameRec /\ Len(F) \in Nat
      /\ Len(frames) = Len(F) + 1 /\ Len(calls) = Len(F) + 1 /\ frames[Len(F) + 1] = fr
  BY <1>1, ChainedFacts
<1>3. \A k \in 1 .. Len(F) : frames[k] = F[k]
  BY <1>1, ChainedFacts
<1>4. DOMAIN frames = 1 .. Len(F) + 1
  BY <1>1, <1>2 DEF Chained
<1>5. ASSUME NEW k \in DOMAIN frames
      PROVE  /\ frames[k].c_func \in ListFunctions \cup {"block", "println", "print", "again"}
             /\ frames[k].fresh => k = Len(frames) /\ frames[k].locals = <<>>
  <2>1. CASE k = Len(F) + 1
    <3>1. frames[k] = fr /\ k = Len(frames)
      BY <1>2, <2>1
    <3>2. fr.fresh => fr.locals = <<>>
      BY <1>1 DEF Chained
    <3>3. fr.c_func \in ListFunctions \cup {"block", "println", "print", "again"}
      BY <1>2 DEF FrameRec, Names
    <3> QED
      BY <3>1, <3>2, <3>3
  <2>2. CASE k \in 1 .. Len(F)
    <3>1. frames[k] = F[k] /\ F[k] \in FrameRec
      BY <1>2, <1>3, <2>2
    <3>2. Waits(F[k], C[k])
      BY <1>1, <2>2 DEF Chained, Atop, Chain
    <3>3. ~F[k].fresh
      BY <3>2 DEF Waits
    <3> QED
      BY <3>1, <3>3 DEF FrameRec, Names
  <2>3. k = Len(F) + 1 \/ k \in 1 .. Len(F)
    BY <1>2, <1>4
  <2> QED
    BY <2>1, <2>2, <2>3
<1>6. panic \in {"no", "script", "internal"}
  BY InvChained
<1>7. Len(calls) = Len(frames)
  BY <1>2
<1> QED
  BY <1>5, <1>6, <1>7 DEF TypeOK, Inv, Sized

(* Frames, calls and lists have the shape that exec.c and the C functions  *)
(* give them, at whatever depth.                                           *)
THEOREM CFunctionsTypeOK == Spec => []TypeOK
<1>1. Inv => TypeOK
  BY InvTypeOK
<1> QED
  BY <1>1, Invariance, PTL

(* No C function finds its locals, its object or the stack other than it   *)
(* left them: the failures that lib/ and exec.c report as their own never  *)
(* happen.                                                                 *)
THEOREM NeverInternal == Spec => []NoInternalFailure
<1>1. Inv => NoInternalFailure
  BY InvChained DEF NoInternalFailure
<1> QED
  BY <1>1, Invariance, PTL

(* What SoFar is for the one that calls *)
LEMMA SoFarIs ==
  ASSUME NEW c \in CallRec
  PROVE  SoFar(c, Len(c.given)) = IF c.given = <<>> THEN c.args[1] ELSE Last(c.given)
<1>1. PICK g \in Seq(Val) : g = c.given
  BY DEF CallRec
<1>2. Len(g) = 0 <=> g = <<>>
  BY <1>1
<1> QED
  BY <1>1, <1>2 DEF SoFar, Last

(* it gives callbacks their parameters, *)
LEMMA InvCallback ==
  ASSUME Inv
  PROVE  CallbackGetsElement
<1>1. PICK F, C, fr, c, its : Chained(F, C, fr, c, its)
  BY InvChained
<1>2. /\ Under(F, C) /\ F \in Seq(FrameRec) /\ C \in Seq(CallRec) /\ fr \in FrameRec /\ c \in CallRec
      /\ Len(F) \in Nat /\ Len(frames) = Len(F) + 1 /\ Len(C) = Len(F)
      /\ frames[Len(F) + 1] = fr /\ calls[Len(F) + 1] = c
  BY <1>1, ChainedFacts DEF Under
<1>3. \A k \in 1 .. Len(F) : frames[k] = F[k] /\ calls[k] = C[k]
  BY <1>1, ChainedFacts
<1>4. ASSUME NEW k \in 1 .. Len(frames) - 1
      PROVE  Linked(frames[k], calls[k], frames[k + 1].c_func, calls[k + 1].args) /\ calls[k] \in CallRec
  <2>1. k \in 1 .. Len(F)
    BY <1>2
  <2>2. frames[k] = F[k] /\ calls[k] = C[k] /\ C[k] \in CallRec
    BY <1>2, <1>3, <2>1
  <2>3. CASE k = Len(F)
    <3>1. frames[k + 1] = fr /\ calls[k + 1] = c
      BY <1>2, <2>3
    <3>2. F # <<>>
      BY <1>2, <2>1
    <3>3. Linked(Last(F), Last(C), fr.c_func, c.args)
      BY <1>1, <3>2 DEF Chained, Atop, Follows
    <3>4. Last(F) = F[k] /\ Last(C) = C[k]
      BY <1>2, <2>3 DEF Last
    <3> QED
      BY <2>2, <3>1, <3>3, <3>4
  <2>4. CASE k \in 1 .. Len(F) - 1
    <3>1. Linked(F[k], C[k], F[k + 1].c_func, C[k + 1].args)
      BY <1>1, <2>4 DEF Chained, Atop, Chain
    <3>2. k + 1 \in 1 .. Len(F)
      BY <1>2, <2>4
    <3>3. frames[k + 1] = F[k + 1] /\ calls[k + 1] = C[k + 1]
      BY <1>3, <3>2
    <3> QED
      BY <2>2, <3>1, <3>3
  <2>5. k = Len(F) \/ k \in 1 .. Len(F) - 1
    BY <1>2, <2>1
  <2> QED
    BY <2>3, <2>4, <2>5
<1> SUFFICES ASSUME NEW k \in 1 .. Len(frames) - 1, frames[k].c_func \in ListFunctions
             PROVE  calls[k + 1].args
                      = IF frames[k].c_func = "reduce"
                        THEN <<Last(calls[k].asked),
                               IF calls[k].given = <<>> THEN calls[k].args[1] ELSE Last(calls[k].given)>>
                        ELSE <<Last(calls[k].asked)>>
  BY DEF CallbackGetsElement
<1>5. PICK a, b, d : a = frames[k] /\ b = calls[k] /\ d = calls[k + 1].args
  OBVIOUS
<1>6. Linked(a, b, frames[k + 1].c_func, d) /\ b \in CallRec /\ a.c_func \in ListFunctions
  BY <1>4, <1>5
<1>7. d = IF a.c_func = "reduce" THEN <<Last(b.asked), SoFar(b, Len(b.given))>> ELSE <<Last(b.asked)>>
  BY <1>6, Zenon DEF Linked
<1>8. SoFar(b, Len(b.given)) = IF b.given = <<>> THEN b.args[1] ELSE Last(b.given)
  BY <1>6, SoFarIs
<1> QED
  BY <1>5, <1>7, <1>8

(* A callback of a list method is called with the element that the method  *)
(* is at, and that of reduce with the value so far besides, however deep   *)
(* the methods are nested and whatever the callbacks did to other lists.   *)
THEOREM ElementsDelivered == Spec => []CallbackGetsElement
<1>1. Inv => CallbackGetsElement
  BY InvCallback
<1> QED
  BY <1>1, Invariance, PTL

(* What runs has its part of the stack too. *)
LEMMA ReadyHolds ==
  ASSUME NEW fr \in FrameRec, NEW c \in CallRec, Ready(fr, c)
  PROVE  Held(fr, c) \in Seq(Val)
<1>1. /\ c.args \in Seq(Val) /\ c.asked \in Seq(Val) /\ c.given \in Seq(Val) /\ c.on \in Val
  BY DEF CallRec
<1>2. PICK r \in Seq(Val) : r = Reverse(c.args)
  BY <1>1, Reversed
<1>3. CASE fr.c_func = "block"
  BY <1>1, <1>3, HoldsBlock
<1>4. CASE fr.c_func \in ListFunctions
  <2>1. CASE fr.fresh
    <3>1. Append(r, c.on) \in Seq(Val)
      BY <1>1
    <3> QED
      BY <1>2, <1>4, <2>1, <3>1, HoldsParameters
  <2>2. CASE ~fr.fresh
    <3>1. Answered(c)
      BY <1>4, <2>2 DEF Ready, ListFunctions
    <3>2. PICK v \in Val : v = Last(c.given)
      BY <1>1, <3>1 DEF Answered, Last
    <3>3. PICK x \in Val : x = Last(c.asked)
      <4>1. c.asked # <<>>
        BY <1>1, <3>1 DEF Answered
      <4> QED
        BY <1>1, <4>1 DEF Last
    <3>4. <<v>> \in Seq(Val) /\ <<x, v>> \in Seq(Val)
      OBVIOUS
    <3> QED
      BY <1>4, <2>2, <3>1, <3>2, <3>3, <3>4, HoldsAnswered
  <2> QED
    BY <2>1, <2>2
<1>5. CASE fr.c_func = "println"
  <2>1. CASE fr.fresh
    <3>1. c.asked = <<>>
      BY <1>5, <2>1 DEF Ready
    <3>2. PICK k \in Val : k = Integer(Len(c.args))
      BY <1>1, ValsIn
    <3>3. Append(r, k) \in Seq(Val)
      OBVIOUS
    <3> QED
      BY <1>2, <1>5, <2>1, <3>1, <3>2, <3>3, HoldsPrintLn
  <2>2. CASE ~fr.fresh
    BY <1>1, <1>5, <2>2, HoldsPrintLn
  <2> QED
    BY <2>1, <2>2
<1>6. CASE fr.c_func = "print"
  <2>1. PICK s \in Seq(Val) : s = Counted(c)
    BY LeftTyped DEF Counted
  <2>2. CASE Answered(c)
    <3>1. PICK v \in Val : v = Last(c.given)
      BY <1>1, <2>2 DEF Answered, Last
    <3>2. s \o <<v>> \in Seq(Val)
      OBVIOUS
    <3> QED
      BY <1>6, <2>1, <2>2, <3>1, <3>2, HoldsPrint DEF Counted
  <2>3. CASE ~Answered(c)
    BY <1>6, <2>1, <2>3, HoldsPrint DEF Counted
  <2> QED
    BY <2>2, <2>3
<1>7. CASE fr.c_func = "again"
  <2>1. PICK i0 \in Val : i0 = Integer(0)
    BY ValsIn
  <2>2. PICK i1 \in Val : i1 = Integer(1)
    BY ValsIn
  <2>3. PICK k \in Val : k = Convert
    BY ValsIn
  <2>4. PICK o \in Val : o = c.on
    BY <1>1
  <2>5. <<i0, k, i1, o>> \in Seq(Val)
    OBVIOUS
  <2>6. PICK g \in Seq(Val) : g = c.given
    BY <1>1
  <2>7. <<i0>> \o g \in Seq(Val)
    OBVIOUS
  <2> QED
    BY <1>7, <2>1, <2>2, <2>3, <2>4, <2>5, <2>6, <2>7, HoldsAgain
<1> QED
  BY <1>3, <1>4, <1>5, <1>6, <1>7, FuncCases

(* and it gives the stack. *)
LEMMA InvOperands ==
  ASSUME Inv
  PROVE  OperandsExact
<1> SUFFICES ASSUME panic = "no"
             PROVE  vstack = FlattenSeq([k \in DOMAIN frames |->
                               Holds(frames[k].c_func, frames[k].fresh, calls[k])])
  BY DEF OperandsExact
<1>1. PICK F, C, fr, c, its : Here(F, C, fr, c, its)
  BY RunsGood
<1>2. /\ Under(F, C) /\ fr \in FrameRec /\ c \in CallRec /\ F \in Seq(FrameRec)
      /\ vstack = Stack(F, C) \o Held(fr, c) /\ frames = Append(F, fr) /\ calls = Append(C, c)
      /\ Ready(fr, c)
  BY <1>1, HereFacts DEF Here
<1>3. Held(fr, c) \in Seq(Val)
  BY <1>2, ReadyHolds
<1>4. Stack(Append(F, fr), Append(C, c)) = Stack(F, C) \o Held(fr, c)
  BY <1>2, <1>3, StackGrows
<1>5. vstack = Stack(frames, calls)
  BY <1>2, <1>4
<1>6. DOMAIN frames = 1 .. Len(frames)
  BY <1>2
<1>7. [k \in DOMAIN frames |-> Holds(frames[k].c_func, frames[k].fresh, calls[k])]
        = [k \in 1 .. Len(frames) |-> Held(frames[k], calls[k])]
  BY <1>6 DEF Held
<1> QED
  BY <1>5, <1>7 DEF Stack

(* While the program runs the operand stack is what the calls in progress  *)
(* need, in their order: what a C function or an instruction takes off is  *)
(* what was put there for it, and nothing stays behind.                    *)
THEOREM OperandsKept == Spec => []OperandsExact
<1>1. Inv => OperandsExact
  BY InvOperands
<1> QED
  BY <1>1, Invariance, PTL

===============================================================================
