--------------------------- MODULE VariablesProofs ---------------------------
(***************************************************************************)
(* Proofs about Variables.tla for every number of frames, slots, variables *)
(* and closures.  Two inductive invariants: where a frame's cells lie and  *)
(* what a cell, a closure and the operand stack may hold, which keeps the  *)
(* headers of the frames; and a home for each variable of the script, its  *)
(* slot until it has moved, one entry of the heap from then on.            *)
(***************************************************************************)
EXTENDS Variables, FiniteSetTheorems, TLAPS

Cells == 1 .. MaxFrames * (Locals + 1)
Pointers(n) == {HeapVar(h) : h \in 1 .. n}

(* The values a script may have when there are these closures, which       *)
(* captured these variables, and n variables.                              *)
Usable(cl, cap, n) ==
  {Nothing} \cup {Integer(k) : k \in Number} \cup {Function(c) : c \in 0 .. Len(cl)}
    \cup {LocalRef(a, b) : a \in Cells, b \in 1 .. n}
    \cup {v \in {UpvarRef(c, j, b) : c \in 1 .. Len(cl), j \in 1 .. MaxCaptured, b \in 1 .. n} :
            v[3] \in 1 .. Len(cl[v[2]]) /\ v[4] = cap[v[2]][v[3]]}
Now == Usable(closures, captured, Len(content))

CellInv ==
  /\ memory \in [Cells -> Now \cup {Header} \cup Pointers(Len(heap))]
  /\ heap \in Seq(Now)

ClosureInv ==
  /\ closures \in Seq(Seq(Pointers(Len(heap))))
  /\ captured \in Seq(Seq(1 .. Len(content)))
  /\ Len(captured) = Len(closures)
  /\ \A c \in 1 .. Len(closures) :
       Len(captured[c]) = Len(closures[c]) /\ Len(closures[c]) <= MaxCaptured
  /\ Len(closures) <= MaxClosures

ValueInv ==
  /\ operands \in Seq(Now)
  /\ content \in Seq(Now)
  /\ Len(content) <= MaxVariables

StackInv ==
  /\ frames \in Seq([base : Cells, locals : 0 .. Locals, closure : 0 .. Len(closures)])
  /\ Len(frames) \in 1 .. MaxFrames
  /\ \A f \in 1 .. Len(frames) : frames[f].base <= (f - 1) * (Locals + 1) + 1
  /\ \A f, g \in 1 .. Len(frames) :
       f < g => frames[f].base + frames[f].locals < frames[g].base

HeaderInv == \A f \in 1 .. Len(frames) : memory[frames[f].base] = Header

Within(a, f) == a > frames[f].base /\ a <= frames[f].base + frames[f].locals
BoxInv ==
  /\ box \in [Cells -> 0 .. Len(content)]
  /\ \A a \in Cells : box[a] # 0 =>
       memory[a] # Header /\ \E f \in 1 .. Len(frames) : Within(a, f)

FrameInv == CellInv /\ ClosureInv /\ ValueInv /\ StackInv /\ HeaderInv /\ BoxInv

-------------------------------------------------------------------------------
LEMMA SeqWider == ASSUME NEW S, NEW T, S \subseteq T, NEW s \in Seq(S) PROVE s \in Seq(T)
OBVIOUS

LEMMA Appended ==
  ASSUME NEW T, NEW s \in Seq(T), NEW v
  PROVE  /\ Len(s) \in Nat /\ Len(Append(s, v)) = Len(s) + 1
         /\ Append(s, v)[Len(s) + 1] = v
         /\ \A i \in 1 .. Len(s) : Append(s, v)[i] = s[i]
         /\ v \in T => Append(s, v) \in Seq(T)
OBVIOUS

LEMMA Shortened ==
  ASSUME NEW T, NEW s \in Seq(T), Len(s) >= 1
  PROVE  /\ Rest(s) \in Seq(T) /\ Len(s) \in Nat /\ Len(Rest(s)) = Len(s) - 1
         /\ \A i \in 1 .. Len(s) - 1 : Rest(s)[i] = s[i]
         /\ Last(s) \in T
<1>1. Len(s) \in Nat /\ Last(s) \in T
  BY DEF Last
<1>2. PICK n \in Nat : Len(s) = n + 1
  <2>1. Len(s) - 1 \in Nat /\ Len(s) = (Len(s) - 1) + 1
    BY <1>1
  <2> QED
    BY <2>1
<1>3. Rest(s) = SubSeq(s, 1, n)
  BY <1>2 DEF Rest
<1>4. Rest(s) = [i \in 1 .. n |-> s[i]]
  BY <1>1, <1>2, <1>3
<1>5. \A i \in 1 .. n : s[i] \in T
  BY <1>1, <1>2
<1>6. Rest(s) \in [1 .. n -> T]
  BY <1>4, <1>5
<1>7. Rest(s) \in Seq(T) /\ Len(Rest(s)) = n
  BY <1>6
<1> QED
  BY <1>1, <1>2, <1>4, <1>7

LEMMA UsableTags ==
  ASSUME NEW cl, NEW cap, NEW n, NEW v \in Usable(cl, cap, n)
  PROVE  /\ v # Header
         /\ v[1] # "heap"
         /\ IsRef(v) /\ v[1] = "local" => v[2] \in Cells /\ v[4] \in 1 .. n
         /\ v[1] = "upvar" => /\ v[2] \in 1 .. Len(cl)
                              /\ v[3] \in 1 .. Len(cl[v[2]])
                              /\ v[4] \in 1 .. n
                              /\ v[4] = cap[v[2]][v[3]]
         /\ v[1] = "func" => v[2] \in 0 .. Len(cl)
BY DEF Usable, Nothing, Integer, Function, LocalRef, UpvarRef, Header, IsRef

LEMMA PointerTags ==
  ASSUME NEW n, NEW v \in Pointers(n)
  PROVE  v[1] = "heap" /\ v[2] \in 1 .. n /\ v = HeapVar(v[2]) /\ v # Header
BY DEF Pointers, HeapVar, Header

LEMMA PointersGrow ==
  ASSUME NEW n \in Nat, NEW m \in Nat, n <= m
  PROVE  Pointers(n) \subseteq Pointers(m)
BY DEF Pointers

(* More closures and more variables: what was a value stays one. *)
LEMMA UsableGrows ==
  ASSUME NEW cl, NEW cap, NEW n \in Nat, NEW cl2, NEW cap2, NEW n2 \in Nat,
         Len(cl) \in Nat, Len(cl2) \in Nat,
         Len(cl) <= Len(cl2), n <= n2,
         \A c \in 1 .. Len(cl) : cl2[c] = cl[c] /\ cap2[c] = cap[c]
  PROVE  Usable(cl, cap, n) \subseteq Usable(cl2, cap2, n2)
<1> SUFFICES ASSUME NEW v \in Usable(cl, cap, n) PROVE v \in Usable(cl2, cap2, n2)
  OBVIOUS
<1>1. CASE v = Nothing \/ \E k \in Number : v = Integer(k)
  BY <1>1 DEF Usable
<1>2. CASE \E c \in 0 .. Len(cl) : v = Function(c)
  BY <1>2 DEF Usable
<1>3. CASE \E a \in Cells, b \in 1 .. n : v = LocalRef(a, b)
  BY <1>3 DEF Usable
<1>4. CASE \E c \in 1 .. Len(cl), j \in 1 .. MaxCaptured, b \in 1 .. n :
             v = UpvarRef(c, j, b) /\ v[3] \in 1 .. Len(cl[v[2]]) /\ v[4] = cap[v[2]][v[3]]
  <2>1. PICK c \in 1 .. Len(cl), j \in 1 .. MaxCaptured, b \in 1 .. n :
               v = UpvarRef(c, j, b) /\ v[3] \in 1 .. Len(cl[v[2]]) /\ v[4] = cap[v[2]][v[3]]
    BY <1>4
  <2>2. c \in 1 .. Len(cl2) /\ b \in 1 .. n2 /\ v[2] = c
    BY <2>1 DEF UpvarRef
  <2>3. v[3] \in 1 .. Len(cl2[v[2]]) /\ v[4] = cap2[v[2]][v[3]]
    BY <2>1, <2>2
  <2>4. v \in {UpvarRef(e, i, a) : e \in 1 .. Len(cl2), i \in 1 .. MaxCaptured, a \in 1 .. n2}
    BY <2>1, <2>2
  <2> QED
    BY <2>3, <2>4 DEF Usable
<1> QED
  BY <1>1, <1>2, <1>3, <1>4 DEF Usable

-------------------------------------------------------------------------------
(* Where a frame ends is known from where the next one starts; the next    *)
(* frame still fits.                                                       *)
LEMMA CellsOfFrames ==
  ASSUME NEW f \in Nat, f < MaxFrames, NEW n \in 0 .. Locals, NEW a \in Nat,
         a <= f * (Locals + 1) + 1
  PROVE  a + n <= MaxFrames * (Locals + 1) /\ a + n + 1 <= (f + 1) * (Locals + 1) + 1
<1> DEFINE k == Locals + 1
<1>1. k \in Nat /\ MaxFrames \in Nat /\ n + 1 <= k
  BY VariablesAssumption
<1> HIDE DEF k
<1>2. (f + 1) * k = f * k + k
  BY <1>1
<1>3. (f + 1) * k <= MaxFrames * k
  <2>1. PICK d \in Nat : MaxFrames = (f + 1) + d
    <3>1. MaxFrames - (f + 1) \in Nat /\ MaxFrames = (f + 1) + (MaxFrames - (f + 1))
      BY <1>1
    <3> QED
      BY <3>1
  <2>2. MaxFrames * k = (f + 1) * k + d * k /\ d * k \in Nat /\ (f + 1) * k \in Nat
    BY <2>1, <1>1
  <2> QED
    BY <2>2
<1>4. f * k \in Nat /\ MaxFrames * k \in Nat
  BY <1>1
<1>5. a <= f * k + 1
  BY DEF k
<1>6. a + n <= MaxFrames * k /\ a + n + 1 <= (f + 1) * k + 1
  BY <1>1, <1>2, <1>3, <1>4, <1>5
<1> QED
  BY <1>6 DEF k

LEMMA CellsNat == MaxFrames * (Locals + 1) \in Nat /\ 1 \in Cells
<1>1. Locals + 1 \in Nat /\ MaxFrames \in Nat /\ Locals + 1 >= 1 /\ MaxFrames >= 1
  BY VariablesAssumption
<1>2. 1 <= MaxFrames * (Locals + 1)
  BY CellsOfFrames, VariablesAssumption
<1> QED
  BY <1>1, <1>2 DEF Cells

LEMMA FramesAre ==
  ASSUME StackInv
  PROVE  /\ Len(frames) \in Nat /\ Len(frames) >= 1
         /\ \A f \in 1 .. Len(frames) :
              /\ frames[f].base \in Cells /\ frames[f].base \in Nat /\ frames[f].base >= 1
              /\ frames[f].locals \in 0 .. Locals /\ frames[f].locals \in Nat
              /\ frames[f].closure \in 0 .. Len(closures)
<1> DEFINE R == [base : Cells, locals : 0 .. Locals, closure : 0 .. Len(closures)]
<1>1. frames \in Seq(R) /\ Len(frames) \in 1 .. MaxFrames
  BY DEF StackInv
<1>2. \A f \in 1 .. Len(frames) : frames[f] \in R
  <2> HIDE DEF R
  <2> QED
    BY <1>1
<1>3. \A x \in Cells : x \in Nat /\ x >= 1
  BY CellsNat DEF Cells
<1>4. \A x \in 0 .. Locals : x \in Nat
  BY VariablesAssumption
<1>5. \A f \in 1 .. Len(frames) :
        /\ frames[f].base \in Cells /\ frames[f].locals \in 0 .. Locals
        /\ frames[f].closure \in 0 .. Len(closures)
  BY <1>2
<1>6. Len(frames) \in Nat /\ Len(frames) >= 1
  BY <1>1, VariablesAssumption
<1> QED
  BY <1>3, <1>4, <1>5, <1>6

(* The slots of the running frame. *)
LEMMA SlotsAre ==
  ASSUME StackInv
  PROVE  /\ Frame.base \in Nat /\ Frame.locals \in 0 .. Locals
         /\ Frame.closure \in 0 .. Len(closures)
         /\ \A j \in Nat : j <= Frame.locals => Slot(j) \in Cells
         /\ NextBase \in Nat
         /\ \A f \in 1 .. Len(frames) : frames[f].base + frames[f].locals < NextBase
<1>1. Len(frames) \in 1 .. MaxFrames /\ Len(frames) \in 1 .. Len(frames) /\ Frame = frames[Len(frames)]
  BY FramesAre DEF StackInv, Frame
<1>3. /\ Frame.base \in Nat /\ Frame.base >= 1
      /\ Frame.locals \in 0 .. Locals /\ Frame.locals \in Nat
      /\ Frame.closure \in 0 .. Len(closures)
  BY <1>1, FramesAre
<1>4. Frame.base <= (Len(frames) - 1) * (Locals + 1) + 1
  BY <1>1 DEF StackInv
<1>5. Frame.base + Frame.locals <= MaxFrames * (Locals + 1)
  <2>1. Len(frames) - 1 \in Nat /\ Len(frames) - 1 < MaxFrames
    BY <1>1, VariablesAssumption
  <2> QED
    BY <2>1, <1>3, <1>4, CellsOfFrames
<1>6. \A j \in Nat : j <= Frame.locals => Slot(j) \in Cells
  <2> SUFFICES ASSUME NEW j \in Nat, j <= Frame.locals PROVE Slot(j) \in Cells
    OBVIOUS
  <2>1. PICK top \in Nat : top = MaxFrames * (Locals + 1)
    BY CellsNat
  <2>2. Slot(j) \in Nat /\ Slot(j) >= 1 /\ Slot(j) <= top
    BY <1>3, <1>5, <2>1 DEF Slot
  <2> QED
    BY <2>1, <2>2 DEF Cells
<1>7. ASSUME NEW f \in 1 .. Len(frames) PROVE frames[f].base + frames[f].locals < NextBase
  <2>1. frames[f].base \in Nat /\ frames[f].locals \in Nat
    BY FramesAre
  <2>2. CASE f = Len(frames)
    BY <1>1, <1>3, <2>2 DEF NextBase
  <2>3. CASE f < Len(frames)
    <3>1. frames[f].base + frames[f].locals < Frame.base
      <4>1. PICK g \in 1 .. Len(frames) : g = Len(frames) /\ Frame = frames[g]
        BY <1>1
      <4>2. f < g
        BY <2>3, <4>1
      <4> QED
        BY <4>1, <4>2 DEF StackInv
    <3>2. PICK top \in Nat : top = frames[f].base + frames[f].locals
      BY <2>1
    <3>3. Frame.base \in Nat /\ Frame.locals \in Nat /\ top < Frame.base
      BY <1>3, <3>1, <3>2
    <3>4. top < Frame.base + Frame.locals + 1
      BY <3>3
    <3> QED
      BY <3>2, <3>4 DEF NextBase
  <2> QED
    BY <1>1, <2>2, <2>3
<1> QED
  BY <1>3, <1>6, <1>7 DEF NextBase

-------------------------------------------------------------------------------
(* What it does to move cells to the heap. *)
LEMMA InTurnIs ==
  ASSUME NEW S, IsFiniteSet(S)
  PROVE  /\ Cardinality(S) \in Nat
         /\ InTurn(S) \in [1 .. Cardinality(S) -> S]
         /\ \A a \in S : \E d \in 1 .. Cardinality(S) : InTurn(S)[d] = a
<1>1. Cardinality(S) \in Nat /\ ExistsBijection(1 .. Cardinality(S), S)
  BY FS_CardinalityType
<1>2. PICK s \in [1 .. Cardinality(S) -> S] : \A a \in S : \E d \in 1 .. Cardinality(S) : s[d] = a
  BY <1>1 DEF ExistsBijection, Bijection, Surjection
<1>3. DOMAIN s = 1 .. Cardinality(S)
  OBVIOUS
<1>4. \E r \in [1 .. Cardinality(S) -> S] : \A a \in S : \E d \in DOMAIN r : r[d] = a
  BY <1>2, <1>3
<1>5. /\ InTurn(S) \in [1 .. Cardinality(S) -> S]
      /\ \A a \in S : \E d \in DOMAIN InTurn(S) : InTurn(S)[d] = a
  BY <1>4 DEF InTurn
<1> QED
  BY <1>1, <1>5

Moving(S) == {a \in S : memory[a][1] # "heap"}
LEMMA MoveToHeapDoes ==
  ASSUME NEW T, heap \in Seq(T), NEW S \in SUBSET Cells, DOMAIN memory = Cells, MoveToHeap(S)
  PROVE  /\ heap' \in Seq(T \cup {memory[a] : a \in Moving(S)})
         /\ Len(heap') \in Nat /\ Len(heap) <= Len(heap')
         /\ DOMAIN memory' = Cells
         /\ \A a \in Cells \ Moving(S) : memory'[a] = memory[a]
         /\ \A h \in 1 .. Len(heap) : heap'[h] = heap[h]
         /\ \E place \in [Moving(S) -> Len(heap) + 1 .. Len(heap')] :
              /\ \A a \in Moving(S) : /\ memory'[a] = HeapVar(place[a])
                                      /\ heap'[place[a]] = memory[a]
              /\ \A a, b \in Moving(S) : place[a] = place[b] => a = b
<1> DEFINE E == Moving(S)
           moving == InTurn(E)
           at(a) == CHOOSE d \in DOMAIN moving : moving[d] = a
           moved == [d \in DOMAIN moving |-> memory[moving[d]]]
<1>1. IsFiniteSet(E)
  <2>1. E \in SUBSET Cells
    BY DEF Moving
  <2>2. IsFiniteSet(Cells)
    BY FS_Interval, CellsNat DEF Cells
  <2> QED
    BY <2>1, <2>2, FS_Subset
<1>2. /\ Cardinality(E) \in Nat
      /\ moving \in [1 .. Cardinality(E) -> E]
      /\ \A a \in E : \E d \in 1 .. Cardinality(E) : moving[d] = a
  BY <1>1, InTurnIs
<1>3. /\ memory' = [a \in DOMAIN memory |->
                      IF \E d \in DOMAIN moving : moving[d] = a
                      THEN HeapVar(Len(heap) + at(a)) ELSE memory[a]]
      /\ heap' = heap \o moved
  BY DEF MoveToHeap, Moving
<1> HIDE DEF E, moving
<1>4. \A a \in E : at(a) \in 1 .. Cardinality(E) /\ moving[at(a)] = a
  BY <1>2
<1>5. Len(heap) \in Nat /\ DOMAIN heap = 1 .. Len(heap)
  OBVIOUS
<1>6. DOMAIN moved = 1 .. Cardinality(E) /\ \A d \in 1 .. Cardinality(E) : moved[d] = memory[moving[d]]
  BY <1>2
<1>7. moved \in Seq({memory[a] : a \in E}) /\ Len(moved) = Cardinality(E)
  BY <1>2, <1>6
<1> HIDE DEF moved
<1>8. /\ Len(heap') = Len(heap) + Cardinality(E)
      /\ DOMAIN heap' = 1 .. Len(heap')
      /\ \A h \in 1 .. Len(heap) : heap'[h] = heap[h]
      /\ \A d \in 1 .. Cardinality(E) : heap'[Len(heap) + d] = moved[d]
  BY <1>2, <1>3, <1>5, <1>6, <1>7
<1>9. \A a \in Cells : (\E d \in DOMAIN moving : moving[d] = a) <=> a \in E
  BY <1>2
<1>10. \A a \in Cells : memory'[a] = IF a \in E THEN HeapVar(Len(heap) + at(a)) ELSE memory[a]
  <2> SUFFICES ASSUME NEW a \in Cells
               PROVE  memory'[a] = IF a \in E THEN HeapVar(Len(heap) + at(a)) ELSE memory[a]
    OBVIOUS
  <2> HIDE DEF at
  <2> QED
    BY <1>3, <1>9, Zenon
<1>11. E \subseteq Cells
  BY DEF E, Moving
<1>12. heap' \in Seq(T \cup {memory[a] : a \in E})
  <2>1. moved \in Seq(T \cup {memory[a] : a \in E}) /\ heap \in Seq(T \cup {memory[a] : a \in E})
    BY <1>7
  <2> QED
    BY <1>3, <2>1
<1>13. \E place \in [E -> Len(heap) + 1 .. Len(heap')] :
              /\ \A a \in E : memory'[a] = HeapVar(place[a]) /\ heap'[place[a]] = memory[a]
              /\ \A a, b \in E : place[a] = place[b] => a = b
  <2>1. PICK place : place = [a \in E |-> Len(heap) + at(a)]
    OBVIOUS
  <2> HIDE DEF at
  <2>2. \A a \in E : place[a] = Len(heap) + at(a)
    BY <2>1
  <2>3. place \in [E -> Len(heap) + 1 .. Len(heap')]
    BY <1>2, <1>4, <1>5, <1>8, <2>1
  <2>4. \A a \in E : memory'[a] = HeapVar(place[a]) /\ heap'[place[a]] = memory[a]
    BY <1>4, <1>6, <1>8, <1>10, <1>11, <2>2
  <2>5. \A a, b \in E : place[a] = place[b] => at(a) = at(b)
    BY <1>4, <1>5, <2>2
  <2>6. \A a, b \in E : place[a] = place[b] => a = b
    BY <1>4, <2>5
  <2> QED
    BY <2>3, <2>4, <2>6
<1> QED
  <2>1. Len(heap') \in Nat /\ Len(heap) <= Len(heap') /\ DOMAIN memory' = Cells
    BY <1>2, <1>3, <1>5, <1>8
  <2>2. \A a \in Cells \ E : memory'[a] = memory[a]
    BY <1>10
  <2> QED
    BY <2>1, <2>2, <1>8, <1>12, <1>13 DEF E

-------------------------------------------------------------------------------
(* What a step leaves alone. *)
LEMMA LensNat ==
  ASSUME FrameInv
  PROVE  /\ Len(heap) \in Nat /\ Len(content) \in Nat /\ Len(closures) \in Nat
         /\ Len(operands) \in Nat /\ Len(frames) \in Nat
         /\ DOMAIN heap = 1 .. Len(heap) /\ DOMAIN closures = 1 .. Len(closures)
         /\ DOMAIN content = 1 .. Len(content) /\ DOMAIN operands = 1 .. Len(operands)
         /\ DOMAIN frames = 1 .. Len(frames) /\ DOMAIN memory = Cells /\ DOMAIN box = Cells
         /\ DOMAIN captured = 1 .. Len(closures)
<1>1. heap \in Seq(Now) /\ content \in Seq(Now) /\ operands \in Seq(Now)
  BY DEF FrameInv, CellInv, ValueInv
<1>2. \E S : closures \in Seq(S)
  BY DEF FrameInv, ClosureInv
<1>3. \E S : frames \in Seq(S)
  BY DEF FrameInv, StackInv
<1>4. DOMAIN memory = Cells /\ DOMAIN box = Cells
  BY DEF FrameInv, CellInv, BoxInv
<1>5. \E S : captured \in Seq(S)
  BY DEF FrameInv, ClosureInv
<1>6. Len(captured) = Len(closures)
  BY DEF FrameInv, ClosureInv
<1> QED
  BY <1>1, <1>2, <1>3, <1>4, <1>5, <1>6

LEMMA NowGrows ==
  ASSUME FrameInv, Len(content') \in Nat, Len(content) <= Len(content'),
         UNCHANGED <<closures, captured>>
  PROVE  Now \subseteq Now'
<1>1. Usable(closures, captured, Len(content)) \subseteq Usable(closures', captured', Len(content'))
  BY LensNat, UsableGrows
<1> QED
  BY <1>1 DEF Now

LEMMA NowStays ==
  ASSUME UNCHANGED <<closures, captured>>, Len(content') = Len(content)
  PROVE  Now' = Now
BY DEF Now

LEMMA ClosuresStay ==
  ASSUME FrameInv, UNCHANGED <<closures, captured>>,
         Len(heap') \in Nat, Len(heap) <= Len(heap'),
         Len(content') \in Nat, Len(content) <= Len(content')
  PROVE  ClosureInv'
<1>1. Seq(Pointers(Len(heap))) \subseteq Seq(Pointers(Len(heap')))
  BY LensNat, PointersGrow
<1>2. closures \in Seq(Seq(Pointers(Len(heap')))) 
  <2>1. closures \in Seq(Seq(Pointers(Len(heap))))
    BY DEF FrameInv, ClosureInv
  <2> QED
    BY <1>1, <2>1
<1>3. captured \in Seq(Seq(1 .. Len(content')))
  <2>1. captured \in Seq(Seq(1 .. Len(content)))
    BY DEF FrameInv, ClosureInv
  <2>2. 1 .. Len(content) \subseteq 1 .. Len(content')
    BY LensNat
  <2>3. Seq(1 .. Len(content)) \subseteq Seq(1 .. Len(content'))
    BY <2>2
  <2> QED
    BY <2>1, <2>3
<1> QED
  BY <1>2, <1>3 DEF FrameInv, ClosureInv

(* No header is written, and no cell with a variable becomes one. *)
LEMMA FramesStay ==
  ASSUME FrameInv, UNCHANGED <<frames, closures>>,
         \A a \in Cells : memory[a] = Header <=> memory'[a] = Header
  PROVE  StackInv' /\ HeaderInv'
<1>1. StackInv'
  BY DEF FrameInv, StackInv
<1>2. HeaderInv'
  BY FramesAre DEF FrameInv, HeaderInv
<1> QED
  BY <1>1, <1>2

LEMMA BoxesStay ==
  ASSUME FrameInv, UNCHANGED <<frames, box>>,
         Len(content') \in Nat, Len(content) <= Len(content'),
         \A a \in Cells : memory'[a] = Header => memory[a] = Header
  PROVE  BoxInv'
<1>1. box' \in [Cells -> 0 .. Len(content')]
  BY LensNat DEF FrameInv, BoxInv
<1>2. \A a \in Cells : box'[a] # 0 =>
         memory'[a] # Header /\ \E f \in 1 .. Len(frames') : Within(a, f)'
  BY DEF FrameInv, BoxInv, Within
<1> QED
  BY <1>1, <1>2 DEF BoxInv

(* A step that changes the operands only. *)
LEMMA OperandsOnly ==
  ASSUME FrameInv, UNCHANGED <<memory, frames, heap, closures, script>>, operands' \in Seq(Now)
  PROVE  FrameInv'
<1>1. UNCHANGED <<memory, frames, heap, closures, box, captured, content>>
  BY DEF script
<1>2. Now' = Now
  BY <1>1, NowStays
<1>3. CellInv' /\ ValueInv'
  BY <1>1, <1>2 DEF FrameInv, CellInv, ValueInv
<1>4. ClosureInv' /\ StackInv' /\ HeaderInv' /\ BoxInv'
  BY <1>1, LensNat, ClosuresStay, FramesStay, BoxesStay
<1> QED
  BY <1>3, <1>4 DEF FrameInv

(* sbVar_set_value: a slot is written, or the variable it points to. *)
LEMMA Written ==
  ASSUME FrameInv, NEW a \in Cells, NEW v, v \in Now', Now \subseteq Now', SetCell(a, v)
  PROVE  /\ CellInv' /\ Len(heap') = Len(heap)
         /\ \A d \in Cells : d # a => memory'[d] = memory[d]
         /\ memory'[a] # Header
<1>1. /\ memory \in [Cells -> Now \cup {Header} \cup Pointers(Len(heap))]
      /\ heap \in Seq(Now) /\ heap \in Seq(Now')
  BY DEF FrameInv, CellInv
<1>2. v # Header
  BY UsableTags DEF Now
<1>3. CASE memory[a][1] = "heap"
  <2>1. memory[a] \in Pointers(Len(heap))
    BY <1>1, <1>3, UsableTags DEF Now, Header
  <2>2. memory[a][2] \in 1 .. Len(heap) /\ memory[a] # Header
    BY <2>1, PointerTags
  <2>3. memory' = memory /\ heap' = [heap EXCEPT ![memory[a][2]] = v]
    BY <1>3 DEF SetCell
  <2>4. heap' \in Seq(Now') /\ Len(heap') = Len(heap)
    BY <1>1, <2>2, <2>3
  <2> QED
    BY <1>1, <2>2, <2>3, <2>4 DEF CellInv
<1>4. CASE memory[a][1] # "heap"
  <2>1. memory' = [memory EXCEPT ![a] = v] /\ heap' = heap
    BY <1>4 DEF SetCell
  <2>2. memory' \in [Cells -> Now' \cup {Header} \cup Pointers(Len(heap'))]
    BY <1>1, <2>1
  <2> QED
    BY <1>1, <1>2, <2>1, <2>2 DEF CellInv
<1> QED
  BY <1>3, <1>4

(* The slots of the running frame are no headers of any frame. *)
LEMMA SlotsNoBase ==
  ASSUME FrameInv, NEW j \in 1 .. Locals, j <= Frame.locals
  PROVE  /\ Slot(j) \in Cells /\ Within(Slot(j), Len(frames))
         /\ \A f \in 1 .. Len(frames) : frames[f].base # Slot(j)
<1>1. Frame.base \in Nat /\ Frame = frames[Len(frames)] /\ Len(frames) \in 1 .. Len(frames)
  BY SlotsAre, FramesAre DEF FrameInv, Frame
<1>2. j \in Nat /\ j >= 1
  BY VariablesAssumption
<1>3. Slot(j) = Frame.base + j /\ Slot(j) \in Cells
  BY <1>2, SlotsAre DEF FrameInv, Slot
<1>4. ASSUME NEW f \in 1 .. Len(frames) PROVE frames[f].base <= Frame.base
  <2>1. frames[f].base \in Nat /\ frames[f].locals \in Nat
    BY FramesAre DEF FrameInv
  <2>2. CASE f < Len(frames)
    <3>1. frames[f].base + frames[f].locals < Frame.base
      BY <1>1, <2>2 DEF FrameInv, StackInv
    <3> QED
      BY <1>1, <2>1, <3>1
  <2>3. CASE f = Len(frames)
    BY <1>1, <2>3
  <2> QED
    BY <1>1, <2>2, <2>3
<1>5. \A f \in 1 .. Len(frames) : frames[f].base # Slot(j)
  <2> SUFFICES ASSUME NEW f \in 1 .. Len(frames) PROVE frames[f].base # Slot(j)
    OBVIOUS
  <2>1. frames[f].base <= Frame.base /\ frames[f].base \in Nat
    BY <1>4, FramesAre DEF FrameInv
  <2> QED
    BY <1>1, <1>2, <1>3, <2>1
<1>6. Within(Slot(j), Len(frames))
  BY <1>1, <1>2, <1>3, SlotsAre DEF FrameInv, Within
<1> QED
  BY <1>3, <1>5, <1>6

-------------------------------------------------------------------------------
LEMMA PushNewFrame == FrameInv /\ PushNew => FrameInv'
<1> SUFFICES ASSUME FrameInv, PushNew PROVE FrameInv'
  OBVIOUS
<1>1. PICK v \in {Integer(n) : n \in Number} \cup {Function(0)} : operands' = Append(operands, v)
  BY DEF PushNew, Push
<1>2. v \in Now
  BY <1>1, LensNat DEF Now, Usable
<1>3. operands' \in Seq(Now)
  BY <1>1, <1>2 DEF FrameInv, ValueInv
<1> QED
  BY <1>3, OperandsOnly DEF PushNew

LEMMA RestIs ==
  ASSUME FrameInv, operands # <<>>
  PROVE  Rest(operands) \in Seq(Now) /\ Last(operands) \in Now /\ Len(operands) >= 1
<1>1. operands \in Seq(Now)
  BY DEF FrameInv, ValueInv
<1> QED
  BY <1>1 DEF Rest, Last

LEMMA DropFrame == FrameInv /\ Drop => FrameInv'
<1> SUFFICES ASSUME FrameInv, Drop PROVE FrameInv'
  OBVIOUS
<1>1. operands' \in Seq(Now)
  BY RestIs DEF Drop
<1> QED
  BY <1>1, OperandsOnly DEF Drop

(* What is read is a value. *)
LEMMA ReadCell ==
  ASSUME FrameInv, NEW a \in Cells, box[a] # 0
  PROVE  Value(memory[a]) \in Now
<1>1. memory[a] \in Now \cup Pointers(Len(heap))
  BY DEF FrameInv, CellInv, BoxInv
<1>2. heap \in Seq(Now)
  BY DEF FrameInv, CellInv
<1>3. CASE memory[a] \in Now
  BY <1>3, UsableTags DEF Now, Value
<1>4. CASE memory[a] \in Pointers(Len(heap))
  <2>1. Value(memory[a]) = heap[memory[a][2]] /\ memory[a][2] \in 1 .. Len(heap)
    BY <1>4, PointerTags DEF Value
  <2> QED
    BY <1>2, <2>1
<1> QED
  BY <1>1, <1>3, <1>4

LEMMA UpvarIs ==
  ASSUME FrameInv, NEW c \in 1 .. Len(closures), NEW j \in DOMAIN closures[c]
  PROVE  /\ closures[c][j] \in Pointers(Len(heap))
         /\ closures[c][j][2] \in 1 .. Len(heap)
         /\ Value(closures[c][j]) \in Now
         /\ j \in 1 .. Len(closures[c]) /\ j \in 1 .. MaxCaptured
         /\ captured[c][j] \in 1 .. Len(content)
<1>1. closures \in Seq(Seq(Pointers(Len(heap))))
  BY DEF FrameInv, ClosureInv
<1>2. closures[c] \in Seq(Pointers(Len(heap))) /\ Len(closures[c]) \in Nat
  BY <1>1
<1>3. j \in 1 .. Len(closures[c]) /\ closures[c][j] \in Pointers(Len(heap))
  BY <1>2
<1>4. Len(closures[c]) <= MaxCaptured /\ Len(captured[c]) = Len(closures[c])
  BY DEF FrameInv, ClosureInv
<1>5. captured \in Seq(Seq(1 .. Len(content))) /\ Len(captured) = Len(closures)
  BY DEF FrameInv, ClosureInv
<1>6. captured[c] \in Seq(1 .. Len(content))
  BY <1>5
<1>7. captured[c][j] \in 1 .. Len(content)
  BY <1>3, <1>4, <1>6
<1>8. closures[c][j][1] = "heap" /\ closures[c][j][2] \in 1 .. Len(heap)
  BY <1>3, PointerTags
<1>9. heap \in Seq(Now)
  BY DEF FrameInv, CellInv
<1>10. Value(closures[c][j]) \in Now
  BY <1>8, <1>9 DEF Value
<1> QED
  BY <1>2, <1>3, <1>4, <1>7, <1>8, <1>10, VariablesAssumption

(* The upvariables of the running closure. *)
LEMMA UpvarsAre ==
  ASSUME FrameInv, NEW j \in Upvars
  PROVE  Frame.closure \in 1 .. Len(closures) /\ j \in DOMAIN closures[Frame.closure]
BY SlotsAre, LensNat DEF FrameInv, Upvars

LEMMA LoadVarFrame == ASSUME FrameInv, NEW j \in 1 .. Locals, LoadVar(j) PROVE FrameInv'
<1>1. j <= Frame.locals /\ box[Slot(j)] # 0
  BY DEF LoadVar, Declared
<1>2. Slot(j) \in Cells
  BY <1>1, SlotsNoBase
<1>3. operands' = Append(operands, Value(memory[Slot(j)])) /\ Value(memory[Slot(j)]) \in Now
  BY <1>1, <1>2, ReadCell DEF LoadVar, Push
<1>4. operands' \in Seq(Now)
  BY <1>3 DEF FrameInv, ValueInv
<1> QED
  BY <1>4, OperandsOnly DEF LoadVar

LEMMA LoadUpvarFrame == ASSUME FrameInv, NEW j, LoadUpvar(j) PROVE FrameInv'
<1>1. Frame.closure \in 1 .. Len(closures) /\ j \in DOMAIN closures[Frame.closure]
  BY UpvarsAre DEF LoadUpvar
<1>2. Value(closures[Frame.closure][j]) \in Now
  BY <1>1, UpvarIs
<1>3. operands' \in Seq(Now)
  BY <1>2 DEF FrameInv, ValueInv, LoadUpvar, Push
<1> QED
  BY <1>3, OperandsOnly DEF LoadUpvar

LEMMA RefUpvarFrame == ASSUME FrameInv, NEW j, RefUpvar(j) PROVE FrameInv'
<1> DEFINE c == Frame.closure
<1>1. c \in 1 .. Len(closures) /\ j \in DOMAIN closures[c]
  BY UpvarsAre DEF RefUpvar
<1> DEFINE v == UpvarRef(c, j, captured[c][j])
<1>2. v \in Now
  <2>1. j \in 1 .. Len(closures[c]) /\ j \in 1 .. MaxCaptured /\ captured[c][j] \in 1 .. Len(content)
    BY <1>1, UpvarIs
  <2>2. v[2] = c /\ v[3] = j /\ v[4] = captured[c][j]
    BY DEF UpvarRef
  <2> QED
    <3>1. v \in {UpvarRef(d, i, b) : d \in 1 .. Len(closures), i \in 1 .. MaxCaptured, b \in 1 .. Len(content)}
      BY <1>1, <2>1
    <3>2. v[3] \in 1 .. Len(closures[v[2]]) /\ v[4] = captured[v[2]][v[3]]
      BY <2>1, <2>2
    <3> QED
      BY <3>1, <3>2, SMTT(20) DEF Now, Usable
<1>3. operands' \in Seq(Now)
  BY <1>2 DEF FrameInv, ValueInv, RefUpvar, Push
<1> QED
  BY <1>3, OperandsOnly DEF RefUpvar

(* What a reference names: a slot that holds its variable, or a variable   *)
(* of a closure.                                                           *)
LEMMA RefIs ==
  ASSUME FrameInv, NEW ref \in Now, IsRef(ref), Alive(ref)
  PROVE  /\ ref[4] \in 1 .. Len(content)
         /\ ref[1] = "local" => ref[2] \in Cells /\ box[ref[2]] = ref[4] /\ box[ref[2]] # 0
         /\ ref[1] # "local" => /\ ref[1] = "upvar"
                                /\ ref[2] \in 1 .. Len(closures)
                                /\ ref[3] \in DOMAIN closures[ref[2]]
                                /\ ref[4] = captured[ref[2]][ref[3]]
<1>1. ref[1] \in {"local", "upvar"}
  BY DEF IsRef
<1>2. ref[1] = "local" => ref[2] \in Cells /\ ref[4] \in 1 .. Len(content)
  BY UsableTags DEF Now
<1>3. CASE ref[1] = "local"
  <2>1. box[ref[2]] = ref[4]
    BY <1>3 DEF Alive
  <2> QED
    BY <1>2, <1>3, <2>1
<1>4. CASE ref[1] = "upvar"
  <2>1. /\ ref[2] \in 1 .. Len(closures) /\ ref[3] \in 1 .. Len(closures[ref[2]])
        /\ ref[4] \in 1 .. Len(content) /\ ref[4] = captured[ref[2]][ref[3]]
    BY <1>4, UsableTags DEF Now
  <2>2. closures[ref[2]] \in Seq(Pointers(Len(heap)))
    BY <2>1 DEF FrameInv, ClosureInv
  <2> QED
    BY <1>4, <2>1, <2>2
<1> QED
  BY <1>1, <1>3, <1>4

LEMMA DerefFrame == ASSUME ~Dangling, FrameInv, Deref PROVE FrameInv'
<1>1. operands # <<>> /\ IsRef(Last(operands)) /\ Alive(Last(operands))
  BY DEF Deref
<1>2. PICK ref : ref = Last(operands)
  OBVIOUS
<1>3. ref \in Now /\ Rest(operands) \in Seq(Now)
  BY <1>1, <1>2, RestIs
<1>4. Value(Cell(ref)) \in Now
  <2>1. CASE ref[1] = "local"
    BY <1>1, <1>2, <1>3, <2>1, RefIs, ReadCell DEF Cell
  <2>2. CASE ref[1] # "local"
    BY <1>1, <1>2, <1>3, <2>2, RefIs, UpvarIs DEF Cell
  <2> QED
    BY <2>1, <2>2
<1>5. operands' \in Seq(Now)
  BY <1>2, <1>3, <1>4 DEF Deref
<1> QED
  BY <1>5, OperandsOnly DEF Deref

-------------------------------------------------------------------------------
(* The actions that write a variable. *)

(* The heap entry of a closure's variable is written. *)
LEMMA WrittenUpvar ==
  ASSUME FrameInv, NEW c \in 1 .. Len(closures), NEW j \in DOMAIN closures[c],
         NEW b \in 1 .. Len(content), NEW v \in Now, SetUpvar(c, j, v),
         content' = [content EXCEPT ![b] = v], operands' \in Seq(Now),
         UNCHANGED <<frames, closures, box, captured>>
  PROVE  FrameInv'
<1>1. content' \in Seq(Now) /\ Len(content') = Len(content)
  BY DEF FrameInv, ValueInv
<1>2. Now' = Now
  BY <1>1, NowStays
<1>3. memory' = memory /\ heap' = [heap EXCEPT ![closures[c][j][2]] = v]
  BY DEF SetUpvar
<1>4. heap' \in Seq(Now) /\ Len(heap') = Len(heap)
  <2>1. PICK h \in 1 .. Len(heap) : h = closures[c][j][2]
    BY UpvarIs
  <2>2. heap' = [heap EXCEPT ![h] = v] /\ heap \in Seq(Now)
    BY <1>3, <2>1 DEF FrameInv, CellInv
  <2> QED
    BY <2>2
<1>5. CellInv'
  BY <1>2, <1>3, <1>4 DEF FrameInv, CellInv
<1>6. ValueInv'
  BY <1>1, <1>2 DEF FrameInv, ValueInv
<1>7. ClosureInv'
  BY <1>1, <1>4, LensNat, ClosuresStay
<1>8. StackInv' /\ HeaderInv' /\ BoxInv'
  BY <1>1, <1>3, LensNat, FramesStay, BoxesStay
<1> QED
  BY <1>5, <1>6, <1>7, <1>8 DEF FrameInv

LEMMA AssignUpvarFrame == ASSUME FrameInv, NEW j, AssignUpvar(j) PROVE FrameInv'
<1>1. operands # <<>> /\ j \in Upvars
  BY DEF AssignUpvar
<1>2. PICK c : c = Frame.closure
  OBVIOUS
<1>3. PICK v : v = Last(operands)
  OBVIOUS
<1>4. c \in 1 .. Len(closures) /\ j \in DOMAIN closures[c]
  BY <1>1, <1>2, UpvarsAre
<1>5. captured[c][j] \in 1 .. Len(content)
  BY <1>4, UpvarIs
<1>6. v \in Now /\ Rest(operands) \in Seq(Now)
  BY <1>1, <1>3, RestIs
<1>7. PICK b : b = captured[c][j]
  OBVIOUS
<1>8. /\ SetUpvar(c, j, v) /\ operands' = Rest(operands)
      /\ content' = [content EXCEPT ![b] = v]
      /\ UNCHANGED <<frames, closures, box, captured>>
  BY <1>2, <1>3, <1>7 DEF AssignUpvar
<1> QED
  BY <1>4, <1>5, <1>6, <1>7, <1>8, WrittenUpvar

(* A cell with a variable in it is written, through a name or a reference. *)
LEMMA WrittenCell ==
  ASSUME FrameInv, NEW a \in Cells, box[a] # 0, NEW v \in Now, SetCell(a, v),
         NEW b \in 1 .. Len(content),
         content' = [content EXCEPT ![b] = v], operands' \in Seq(Now),
         UNCHANGED <<frames, closures, box, captured>>
  PROVE  FrameInv'
<1>1. content' \in Seq(Now) /\ Len(content') = Len(content)
  BY DEF FrameInv, ValueInv
<1>2. Now' = Now
  BY <1>1, NowStays
<1>3. /\ CellInv' /\ Len(heap') = Len(heap)
      /\ \A d \in Cells : d # a => memory'[d] = memory[d]
      /\ memory'[a] # Header
  BY <1>2, Written
<1>4. ValueInv'
  BY <1>1, <1>2 DEF FrameInv, ValueInv
<1>5. ClosureInv'
  BY <1>1, <1>3, LensNat, ClosuresStay
<1>6. \A d \in Cells : memory[d] = Header <=> memory'[d] = Header
  BY <1>3 DEF FrameInv, BoxInv
<1>7. StackInv' /\ HeaderInv' /\ BoxInv'
  BY <1>1, <1>6, LensNat, FramesStay, BoxesStay
<1> QED
  BY <1>3, <1>4, <1>5, <1>7 DEF FrameInv

LEMMA AssignFrame == ASSUME NEW j \in 1 .. Locals, FrameInv, Assign(j) PROVE FrameInv'
<1>1. operands # <<>> /\ j <= Frame.locals /\ box[Slot(j)] # 0
  BY DEF Assign, Declared
<1>2. PICK a : a = Slot(j)
  OBVIOUS
<1>3. PICK v : v = Last(operands)
  OBVIOUS
<1>4. a \in Cells /\ box[a] # 0
  BY <1>1, <1>2, SlotsNoBase
<1>5. PICK b : b = box[a]
  OBVIOUS
<1>6. b \in 1 .. Len(content)
  BY <1>4, <1>5, LensNat DEF FrameInv, BoxInv
<1>7. v \in Now /\ Rest(operands) \in Seq(Now)
  BY <1>1, <1>3, RestIs
<1>8. /\ SetCell(a, v) /\ operands' = Rest(operands)
      /\ content' = [content EXCEPT ![b] = v]
      /\ UNCHANGED <<frames, closures, box, captured>>
  BY <1>2, <1>3, <1>5 DEF Assign
<1> QED
  BY <1>4, <1>6, <1>7, <1>8, WrittenCell

LEMMA RefPutFrame == ASSUME ~Dangling, FrameInv, RefPut PROVE FrameInv'
<1>1. PICK ref : ref = Last(operands)
  OBVIOUS
<1>2. PICK v : v = operands[Len(operands) - 1]
  OBVIOUS
<1>3. /\ Len(operands) >= 2 /\ IsRef(ref) /\ Alive(ref)
      /\ IF ref[1] = "local" THEN SetCell(ref[2], v) ELSE SetUpvar(ref[2], ref[3], v)
      /\ operands' = SubSeq(operands, 1, Len(operands) - 2)
      /\ content' = [content EXCEPT ![ref[4]] = v]
      /\ UNCHANGED <<frames, closures, box, captured>>
  BY <1>1, <1>2 DEF RefPut, Alive
<1>4. ref \in Now /\ v \in Now /\ operands' \in Seq(Now)
  <2>1. operands \in Seq(Now) /\ Len(operands) \in Nat
    BY DEF FrameInv, ValueInv
  <2> QED
    BY <1>1, <1>2, <1>3, <2>1 DEF Last
<1>5. CASE ref[1] = "local"
  <2>1. ref[2] \in Cells /\ box[ref[2]] # 0 /\ ref[4] \in 1 .. Len(content) /\ SetCell(ref[2], v)
    BY <1>3, <1>4, <1>5, RefIs
  <2> QED
    BY <1>3, <1>4, <2>1, WrittenCell
<1>6. CASE ref[1] # "local"
  <2>1. /\ ref[2] \in 1 .. Len(closures) /\ ref[3] \in DOMAIN closures[ref[2]]
        /\ ref[4] \in 1 .. Len(content) /\ SetUpvar(ref[2], ref[3], v)
    BY <1>3, <1>4, <1>6, RefIs
  <2> QED
    BY <1>3, <1>4, <2>1, WrittenUpvar
<1> QED
  BY <1>5, <1>6

LEMMA LetFrame == ASSUME NEW j \in 1 .. Locals, FrameInv, Let(j) PROVE FrameInv'
<1>1. operands # <<>> /\ j <= Frame.locals /\ Len(content) < MaxVariables
  BY DEF Let
<1>2. PICK a : a = Slot(j)
  OBVIOUS
<1>3. PICK v : v = Last(operands)
  OBVIOUS
<1>4. a \in Cells /\ Within(a, Len(frames)) /\ \A f \in 1 .. Len(frames) : frames[f].base # a
  BY <1>1, <1>2, SlotsNoBase
<1>5. v \in Now /\ Rest(operands) \in Seq(Now)
  BY <1>1, <1>3, RestIs
<1>6. /\ SetCell(a, v) /\ operands' = Rest(operands)
      /\ box' = [box EXCEPT ![a] = Len(content) + 1]
      /\ content' = Append(content, v)
      /\ UNCHANGED <<frames, closures, captured>>
  BY <1>2, <1>3 DEF Let
<1>7. content' \in Seq(Now) /\ Len(content') = Len(content) + 1 /\ Len(content') \in Nat
  BY <1>5, <1>6, LensNat DEF FrameInv, ValueInv
<1>8. Now \subseteq Now' /\ v \in Now'
  BY <1>5, <1>6, <1>7, LensNat, NowGrows
<1>9. /\ CellInv' /\ Len(heap') = Len(heap)
      /\ \A d \in Cells : d # a => memory'[d] = memory[d]
      /\ memory'[a] # Header
  BY <1>4, <1>6, <1>8, Written
<1>10. ValueInv'
  <2>1. operands' \in Seq(Now') /\ content' \in Seq(Now')
    BY <1>5, <1>6, <1>7, <1>8
  <2>2. Len(content') <= MaxVariables
    BY <1>1, <1>7, LensNat, VariablesAssumption
  <2> QED
    BY <2>1, <2>2 DEF ValueInv
<1>11. ClosureInv'
  BY <1>6, <1>7, <1>9, LensNat, ClosuresStay
<1>12. StackInv'
  BY <1>6 DEF FrameInv, StackInv
<1>13. HeaderInv'
  BY <1>4, <1>6, <1>9, FramesAre DEF FrameInv, HeaderInv
<1>14. BoxInv'
  <2>1. box' \in [Cells -> 0 .. Len(content')]
    BY <1>4, <1>6, <1>7, LensNat DEF FrameInv, BoxInv
  <2>2. Len(frames) \in 1 .. Len(frames)
    BY FramesAre DEF FrameInv
  <2>3. ASSUME NEW d \in Cells, box'[d] # 0
        PROVE  memory'[d] # Header /\ \E f \in 1 .. Len(frames') : Within(d, f)'
    <3>1. CASE d = a
      BY <1>4, <1>6, <1>9, <2>2, <3>1 DEF Within
    <3>2. CASE d # a
      <4>1. box[d] # 0 /\ memory'[d] = memory[d]
        BY <1>4, <1>6, <1>9, <2>3, <3>2 DEF FrameInv, BoxInv
      <4> QED
        BY <1>6, <4>1 DEF FrameInv, BoxInv, Within
    <3> QED
      BY <3>1, <3>2
  <2> QED
    BY <2>1, <2>3 DEF BoxInv
<1> QED
  BY <1>9, <1>10, <1>11, <1>12, <1>13, <1>14 DEF FrameInv

-------------------------------------------------------------------------------
(* The actions that move variables to the heap. *)
LEMMA MovedFrame ==
  ASSUME FrameInv, NEW S \in SUBSET Cells, \A a \in S : box[a] # 0, MoveToHeap(S),
         Now \subseteq Now'
  PROVE  /\ CellInv' /\ Len(heap') \in Nat /\ Len(heap) <= Len(heap')
         /\ \A a \in Cells : memory[a] = Header <=> memory'[a] = Header
         /\ \A a \in S : memory'[a] \in Pointers(Len(heap'))
<1>1. /\ memory \in [Cells -> Now \cup {Header} \cup Pointers(Len(heap))]
      /\ heap \in Seq(Now) /\ DOMAIN memory = Cells
  BY DEF FrameInv, CellInv
<1>2. /\ heap' \in Seq(Now \cup {memory[a] : a \in Moving(S)})
      /\ Len(heap') \in Nat /\ Len(heap) <= Len(heap')
      /\ DOMAIN memory' = Cells
      /\ \A a \in Cells \ Moving(S) : memory'[a] = memory[a]
      /\ \E place \in [Moving(S) -> Len(heap) + 1 .. Len(heap')] :
           /\ \A a \in Moving(S) : memory'[a] = HeapVar(place[a]) /\ heap'[place[a]] = memory[a]
           /\ \A a, b \in Moving(S) : place[a] = place[b] => a = b
  BY <1>1, MoveToHeapDoes
<1>3. Len(heap) \in Nat
  BY LensNat
<1>4. \A a \in Moving(S) : a \in Cells /\ a \in S /\ memory[a] # Header /\ memory[a] \in Now
  <2> SUFFICES ASSUME NEW a \in Moving(S)
               PROVE  a \in Cells /\ a \in S /\ memory[a] # Header /\ memory[a] \in Now
    OBVIOUS
  <2>1. a \in Cells /\ a \in S /\ memory[a][1] # "heap"
    BY DEF Moving
  <2>2. memory[a] # Header
    BY <2>1 DEF FrameInv, BoxInv
  <2> QED
    BY <1>1, <2>1, <2>2, PointerTags
<1>5. heap' \in Seq(Now)
  <2>1. Now \cup {memory[a] : a \in Moving(S)} = Now
    BY <1>4
  <2> QED
    BY <1>2, <2>1
<1>6. \A a \in Moving(S) : memory'[a] \in Pointers(Len(heap'))
  <2> SUFFICES ASSUME NEW a \in Moving(S) PROVE memory'[a] \in Pointers(Len(heap'))
    OBVIOUS
  <2>1. PICK h \in Len(heap) + 1 .. Len(heap') : memory'[a] = HeapVar(h)
    BY <1>2
  <2>2. h \in 1 .. Len(heap')
    BY <1>2, <1>3
  <2> QED
    BY <2>1, <2>2 DEF Pointers
<1>7. Pointers(Len(heap)) \subseteq Pointers(Len(heap'))
  BY <1>2, <1>3, PointersGrow
<1>8. \A a \in Cells : memory'[a] \in Now \cup {Header} \cup Pointers(Len(heap'))
  BY <1>1, <1>2, <1>6, <1>7
<1>9. CellInv'
  <2>1. memory' = [a \in Cells |-> memory'[a]]
    BY <1>1, <1>2 DEF MoveToHeap
  <2>2. memory' \in [Cells -> Now' \cup {Header} \cup Pointers(Len(heap'))]
    BY <1>8, <2>1
  <2> QED
    BY <1>5, <2>2 DEF CellInv
<1>10. \A a \in Cells : memory[a] = Header <=> memory'[a] = Header
  BY <1>2, <1>4, <1>6, PointerTags
<1>11. \A a \in S : memory'[a] \in Pointers(Len(heap'))
  <2> SUFFICES ASSUME NEW a \in S PROVE memory'[a] \in Pointers(Len(heap'))
    OBVIOUS
  <2>1. CASE a \in Moving(S)
    BY <1>6, <2>1
  <2>2. CASE a \notin Moving(S)
    <3>1. memory[a][1] = "heap" /\ memory'[a] = memory[a]
      BY <1>2, <2>2 DEF Moving
    <3>2. memory[a] \in Pointers(Len(heap))
      BY <1>1, <3>1, UsableTags DEF Now, Header
    <3> QED
      BY <1>7, <3>1, <3>2
  <2> QED
    BY <2>1, <2>2
<1> QED
  BY <1>2, <1>9, <1>10, <1>11

LEMMA RefVarFrame == ASSUME NEW j \in 1 .. Locals, FrameInv, RefVar(j) PROVE FrameInv'
<1>1. j <= Frame.locals /\ box[Slot(j)] # 0
  BY DEF RefVar, Declared
<1>2. PICK a : a = Slot(j)
  OBVIOUS
<1>3. PICK v : v = LocalRef(a, box[a])
  OBVIOUS
<1>4. a \in Cells /\ box[a] \in 1 .. Len(content)
  <2>1. a \in Cells /\ box[a] # 0
    BY <1>1, <1>2, SlotsNoBase
  <2> QED
    BY <2>1, LensNat DEF FrameInv, BoxInv
<1>5. /\ MoveToHeap({a}) /\ operands' = Append(operands, v)
      /\ UNCHANGED <<frames, closures, box, captured, content>>
  BY <1>2, <1>3 DEF RefVar, Push, script
<1>6. Now' = Now /\ v \in Now
  BY <1>3, <1>4, <1>5, NowStays DEF Now, Usable
<1>7. /\ CellInv' /\ Len(heap') \in Nat /\ Len(heap) <= Len(heap')
      /\ \A d \in Cells : memory[d] = Header <=> memory'[d] = Header
  <2>1. {a} \in SUBSET Cells /\ \A d \in {a} : box[d] # 0
    BY <1>1, <1>2, <1>4
  <2>2. Now \subseteq Now'
    BY <1>6
  <2> QED
    BY <1>5, <2>1, <2>2, MovedFrame
<1>8. ValueInv'
  BY <1>5, <1>6 DEF FrameInv, ValueInv
<1>9. ClosureInv'
  BY <1>5, <1>7, LensNat, ClosuresStay
<1>10. StackInv' /\ HeaderInv' /\ BoxInv'
  BY <1>5, <1>7, LensNat, FramesStay, BoxesStay
<1> QED
  BY <1>7, <1>8, <1>9, <1>10 DEF FrameInv

(* What the closure made now gets for each of its variables. *)
Bound(n) == [1 .. n -> Sources]
NewCells(bound) ==
  [d \in DOMAIN bound |-> IF bound[d][2] THEN memory'[Slot(bound[d][1])]
                          ELSE closures[Frame.closure][bound[d][1]]]
NewCaptured(bound) ==
  [d \in DOMAIN bound |-> IF bound[d][2] THEN box[Slot(bound[d][1])]
                          ELSE captured[Frame.closure][bound[d][1]]]
BoundCells(bound) == {Slot(bound[d][1]) : d \in {e \in DOMAIN bound : bound[e][2]}}

(* What is captured is a declared local or a variable of the running       *)
(* closure.                                                                *)
LEMMA SourceIs ==
  ASSUME FrameInv, NEW n \in Nat, NEW bound \in Bound(n), NEW d \in 1 .. n
  PROVE  \/ /\ bound[d][2] = TRUE /\ bound[d][1] \in Declared
            /\ Slot(bound[d][1]) \in Cells /\ Slot(bound[d][1]) \in BoundCells(bound)
            /\ box[Slot(bound[d][1])] \in 1 .. Len(content)
         \/ /\ bound[d][2] = FALSE /\ bound[d][1] \in Upvars
            /\ Frame.closure \in 1 .. Len(closures)
            /\ bound[d][1] \in DOMAIN closures[Frame.closure]
<1>1. bound[d] \in Sources /\ DOMAIN bound = 1 .. n
  BY DEF Bound
<1>2. CASE \E j \in Declared : bound[d] = <<j, TRUE>>
  <2>1. bound[d][2] = TRUE /\ bound[d][1] \in Declared
    BY <1>2
  <2>2. PICK j : j = bound[d][1]
    OBVIOUS
  <2>3. j \in 1 .. Locals /\ j <= Frame.locals /\ box[Slot(j)] # 0
    <3>1. j \in 1 .. Frame.locals /\ box[Slot(j)] # 0
      BY <2>1, <2>2 DEF Declared
    <3>2. Frame.locals \in 0 .. Locals
      BY SlotsAre DEF FrameInv
    <3> QED
      BY <3>1, <3>2, VariablesAssumption
  <2>4. Slot(j) \in Cells
    BY <2>3, SlotsNoBase
  <2>5. box[Slot(j)] \in 1 .. Len(content)
    BY <2>3, <2>4, LensNat DEF FrameInv, BoxInv
  <2>6. Slot(j) \in BoundCells(bound)
    BY <1>1, <2>1, <2>2 DEF BoundCells
  <2> QED
    BY <2>1, <2>2, <2>4, <2>5, <2>6
<1>3. CASE \E j \in Upvars : bound[d] = <<j, FALSE>>
  <2>1. bound[d][2] = FALSE /\ bound[d][1] \in Upvars
    BY <1>3
  <2> QED
    BY <2>1, UpvarsAre
<1> QED
  BY <1>1, <1>2, <1>3 DEF Sources

LEMMA BoundCellsBoxed ==
  ASSUME FrameInv, NEW n \in Nat, NEW bound \in Bound(n)
  PROVE  BoundCells(bound) \in SUBSET Cells /\ \A a \in BoundCells(bound) : box[a] # 0
<1> SUFFICES ASSUME NEW a \in BoundCells(bound) PROVE a \in Cells /\ box[a] # 0
  OBVIOUS
<1>1. PICK d \in 1 .. n : a = Slot(bound[d][1]) /\ bound[d][2]
  BY DEF BoundCells, Bound
<1>2. Slot(bound[d][1]) \in Cells /\ box[Slot(bound[d][1])] \in 1 .. Len(content)
  BY <1>1, SourceIs
<1> QED
  BY <1>1, <1>2

LEMMA MakeClosureFrame ==
  ASSUME NEW n \in 1 .. MaxCaptured, NEW bound \in Bound(n), FrameInv, MakeClosure(bound)
  PROVE  FrameInv'
<1>1. n \in Nat /\ n <= MaxCaptured /\ DOMAIN bound = 1 .. n
  BY VariablesAssumption DEF Bound
<1>2. PICK S : S = BoundCells(bound)
  OBVIOUS
<1>3. S \in SUBSET Cells /\ \A a \in S : box[a] # 0
  BY <1>1, <1>2, BoundCellsBoxed
<1>4. PICK cl : cl = NewCells(bound)
  OBVIOUS
<1>5. PICK cap : cap = NewCaptured(bound)
  OBVIOUS
<1>6. /\ MoveToHeap(S) /\ closures' = Append(closures, cl) /\ captured' = Append(captured, cap)
      /\ operands' = Append(operands, Function(Len(closures) + 1))
      /\ UNCHANGED <<frames, box, content>> /\ Len(closures) < MaxClosures
  BY <1>2, <1>4, <1>5 DEF MakeClosure, Push, BoundCells, NewCells, NewCaptured
<1>7. /\ Len(closures') = Len(closures) + 1 /\ Len(closures') \in Nat
      /\ closures'[Len(closures')] = cl /\ captured'[Len(closures')] = cap
      /\ Len(captured') = Len(closures')
      /\ \A c \in 1 .. Len(closures) : closures'[c] = closures[c] /\ captured'[c] = captured[c]
  <2>1. \E S1 : closures \in Seq(S1)
    BY DEF FrameInv, ClosureInv
  <2>2. \E S2 : captured \in Seq(S2)
    BY DEF FrameInv, ClosureInv
  <2>3. Len(captured) = Len(closures)
    BY DEF FrameInv, ClosureInv
  <2> QED
    BY <1>6, <2>1, <2>2, <2>3, Appended
<1>8. Now \subseteq Now'
  <2>1. Usable(closures, captured, Len(content)) \subseteq Usable(closures', captured', Len(content'))
    <3>1. /\ Len(closures) \in Nat /\ Len(content) \in Nat /\ content' = content
          /\ Len(closures) <= Len(closures') /\ Len(content) <= Len(content')
          /\ Len(content') \in Nat
      BY <1>6, <1>7, LensNat
    <3> QED
      BY <1>7, <3>1, UsableGrows
  <2> QED
    BY <2>1 DEF Now
<1>9. /\ CellInv' /\ Len(heap') \in Nat /\ Len(heap) <= Len(heap')
      /\ \A a \in Cells : memory[a] = Header <=> memory'[a] = Header
      /\ \A a \in S : memory'[a] \in Pointers(Len(heap'))
  BY <1>3, <1>6, <1>8, MovedFrame
<1>10. Pointers(Len(heap)) \subseteq Pointers(Len(heap'))
  BY <1>9, LensNat, PointersGrow
<1>11. ASSUME NEW d \in 1 .. n
       PROVE  cl[d] \in Pointers(Len(heap')) /\ cap[d] \in 1 .. Len(content)
  <2>1. /\ cl[d] = IF bound[d][2] THEN memory'[Slot(bound[d][1])]
                    ELSE closures[Frame.closure][bound[d][1]]
        /\ cap[d] = IF bound[d][2] THEN box[Slot(bound[d][1])]
                     ELSE captured[Frame.closure][bound[d][1]]
    BY <1>1, <1>4, <1>5 DEF NewCells, NewCaptured
  <2>2. CASE bound[d][2] = TRUE
    <3>1. Slot(bound[d][1]) \in S /\ box[Slot(bound[d][1])] \in 1 .. Len(content)
      BY <1>1, <1>2, <2>2, SourceIs
    <3> QED
      BY <1>9, <2>1, <2>2, <3>1
  <2>3. CASE bound[d][2] = FALSE
    <3>1. /\ Frame.closure \in 1 .. Len(closures)
          /\ bound[d][1] \in DOMAIN closures[Frame.closure]
      BY <1>1, <2>3, SourceIs
    <3>2. /\ closures[Frame.closure][bound[d][1]] \in Pointers(Len(heap))
          /\ captured[Frame.closure][bound[d][1]] \in 1 .. Len(content)
      BY <3>1, UpvarIs
    <3> QED
      BY <1>10, <2>1, <2>3, <3>2
  <2> QED
    BY <1>1, <2>2, <2>3, SourceIs
<1>12. cl \in Seq(Pointers(Len(heap'))) /\ cap \in Seq(1 .. Len(content)) /\ Len(cl) = n /\ Len(cap) = n
  <2>1. cl \in [1 .. n -> Pointers(Len(heap'))] /\ cap \in [1 .. n -> 1 .. Len(content)]
    <3>1. cl = [d \in 1 .. n |-> cl[d]] /\ cap = [d \in 1 .. n |-> cap[d]]
      BY <1>1, <1>4, <1>5 DEF NewCells, NewCaptured
    <3> QED
      BY <1>11, <3>1
  <2> QED
    BY <1>1, <2>1
<1>13. ClosureInv'
  <2>1. closures \in Seq(Seq(Pointers(Len(heap')))) /\ captured \in Seq(Seq(1 .. Len(content)))
    <3>1. Seq(Pointers(Len(heap))) \subseteq Seq(Pointers(Len(heap')))
      BY <1>10
    <3> QED
      BY <3>1 DEF FrameInv, ClosureInv
  <2>2. closures' \in Seq(Seq(Pointers(Len(heap')))) /\ captured' \in Seq(Seq(1 .. Len(content')))
    BY <1>6, <1>12, <2>1
  <2>3. ASSUME NEW c \in 1 .. Len(closures')
        PROVE  Len(captured'[c]) = Len(closures'[c]) /\ Len(closures'[c]) <= MaxCaptured
    <3>1. CASE c = Len(closures')
      BY <1>1, <1>7, <1>12, <3>1
    <3>2. CASE c \in 1 .. Len(closures)
      BY <1>7, <3>2 DEF FrameInv, ClosureInv
    <3> QED
      BY <1>7, <3>1, <3>2, LensNat
  <2>4. Len(closures') <= MaxClosures
    BY <1>6, <1>7, LensNat, VariablesAssumption
  <2> QED
    BY <1>7, <2>2, <2>3, <2>4 DEF ClosureInv
<1>14. ValueInv'
  <2>1. Function(Len(closures) + 1) \in Now'
    BY <1>7 DEF Now, Usable
  <2> QED
    BY <1>6, <1>8, <2>1 DEF FrameInv, ValueInv
<1>15. StackInv'
  <2>1. frames' \in Seq([base : Cells, locals : 0 .. Locals, closure : 0 .. Len(closures')])
    <3>1. [base : Cells, locals : 0 .. Locals, closure : 0 .. Len(closures)]
            \subseteq [base : Cells, locals : 0 .. Locals, closure : 0 .. Len(closures')]
      BY <1>7, LensNat
    <3>2. frames \in Seq([base : Cells, locals : 0 .. Locals, closure : 0 .. Len(closures)])
      BY DEF FrameInv, StackInv
    <3>3. frames \in Seq([base : Cells, locals : 0 .. Locals, closure : 0 .. Len(closures')])
      BY <3>1, <3>2, SeqWider, Zenon
    <3> QED
      BY <1>6, <3>3, Zenon
  <2> QED
    BY <1>6, <2>1 DEF FrameInv, StackInv
<1>16. HeaderInv'
  BY <1>6, <1>9, FramesAre DEF FrameInv, HeaderInv
<1>17. BoxInv'
  BY <1>6, <1>9, LensNat, BoxesStay
<1> QED
  BY <1>9, <1>13, <1>14, <1>15, <1>16, <1>17 DEF FrameInv

-------------------------------------------------------------------------------
(* Frames come and go. *)
LEMMA CallFrame == ASSUME NEW n \in 0 .. Locals, FrameInv, Call(n) PROVE FrameInv'
<1>1. operands # <<>> /\ Last(operands)[1] = "func" /\ Len(frames) < MaxFrames
  BY DEF Call
<1>2. PICK base : base = NextBase
  OBVIOUS
<1>3. PICK v : v = Last(operands)
  OBVIOUS
<1>4. PICK r : r = [base |-> base, locals |-> n, closure |-> v[2]]
  OBVIOUS
<1>5. v \in Now /\ v[2] \in 0 .. Len(closures) /\ Rest(operands) \in Seq(Now)
  BY <1>1, <1>3, RestIs, UsableTags DEF Now
<1>6. /\ frames' = Append(frames, r)
      /\ memory' = [a \in DOMAIN memory |->
                      IF a = base THEN Header
                      ELSE IF a \in base + 1 .. base + n THEN Nothing
                      ELSE memory[a]]
      /\ operands' = Rest(operands)
      /\ UNCHANGED <<heap, closures, box, captured, content>>
  BY <1>2, <1>3, <1>4 DEF Call, script
<1>7. Len(frames) \in Nat /\ Len(frames) >= 1 /\ n \in Nat
  BY FramesAre, VariablesAssumption DEF FrameInv
<1>8. /\ base \in Nat /\ \A f \in 1 .. Len(frames) : frames[f].base + frames[f].locals < base
  BY <1>2, SlotsAre DEF FrameInv
<1>9. base <= Len(frames) * (Locals + 1) + 1
  <2>1. /\ Frame = frames[Len(frames)] /\ Frame.locals \in 0 .. Locals /\ Frame.base \in Nat
        /\ Frame.base <= (Len(frames) - 1) * (Locals + 1) + 1
    BY <1>7, SlotsAre DEF FrameInv, StackInv, Frame
  <2>2. PICK k : k = Len(frames) - 1
    OBVIOUS
  <2>3. k \in Nat /\ k < MaxFrames /\ Len(frames) = k + 1
    BY <1>1, <1>7, <2>2, VariablesAssumption
  <2>4. Frame.base + Frame.locals + 1 <= (k + 1) * (Locals + 1) + 1
    BY <2>1, <2>2, <2>3, CellsOfFrames
  <2> QED
    BY <1>2, <2>3, <2>4 DEF NextBase
<1>10. base + n <= MaxFrames * (Locals + 1) /\ base >= 1 /\ base \in Cells
  <2>1. base + n <= MaxFrames * (Locals + 1)
    BY <1>1, <1>7, <1>8, <1>9, CellsOfFrames
  <2>2. base >= 1
    <3>1. 1 \in 1 .. Len(frames) /\ frames[1].base \in Nat /\ frames[1].locals \in Nat
      BY <1>7, FramesAre DEF FrameInv
    <3> QED
      BY <1>8, <3>1
  <2> QED
    BY <1>7, <1>8, <2>1, <2>2, CellsNat DEF Cells
<1>11. r \in [base : Cells, locals : 0 .. Locals, closure : 0 .. Len(closures)]
  BY <1>4, <1>5, <1>10
<1>12. /\ Len(frames') = Len(frames) + 1
       /\ frames'[Len(frames) + 1] = r
       /\ \A f \in 1 .. Len(frames) : frames'[f] = frames[f]
       /\ frames' \in Seq([base : Cells, locals : 0 .. Locals, closure : 0 .. Len(closures)])
  <2>1. frames \in Seq([base : Cells, locals : 0 .. Locals, closure : 0 .. Len(closures)])
    BY DEF FrameInv, StackInv
  <2> QED
    BY <1>6, <1>11, <2>1
<1>13. Now' = Now
  BY <1>6, NowStays
<1>14. DOMAIN memory = Cells
  BY LensNat
<1>15. \A a \in Cells : a < base => memory'[a] = memory[a]
  BY <1>6, <1>7, <1>8, <1>14, CellsNat DEF Cells
<1>16. memory'[base] = Header
  BY <1>6, <1>10, <1>14
<1>17. CellInv'
  <2>1. Nothing \in Now
    BY DEF Now, Usable
  <2>2. memory \in [Cells -> Now \cup {Header} \cup Pointers(Len(heap))]
    BY DEF FrameInv, CellInv
  <2>3. \A a \in Cells : memory'[a] \in Now \cup {Header} \cup Pointers(Len(heap))
    BY <1>6, <1>14, <2>1, <2>2
  <2>4. memory' \in [Cells -> Now \cup {Header} \cup Pointers(Len(heap))]
    BY <1>6, <1>14, <2>3
  <2> QED
    BY <1>6, <1>13, <2>4 DEF FrameInv, CellInv
<1>18. ClosureInv'
  BY <1>6, LensNat, ClosuresStay
<1>19. ValueInv'
  BY <1>5, <1>6, <1>13 DEF FrameInv, ValueInv
<1>20. StackInv'
  <2>1. Len(frames') \in 1 .. MaxFrames
    BY <1>1, <1>7, <1>12, VariablesAssumption
  <2>2. ASSUME NEW f \in 1 .. Len(frames') PROVE frames'[f].base <= (f - 1) * (Locals + 1) + 1
    <3>1. CASE f \in 1 .. Len(frames)
      BY <1>12, <3>1 DEF FrameInv, StackInv
    <3>2. CASE f = Len(frames) + 1
      <4>1. f - 1 = Len(frames) /\ frames'[f].base = base
        BY <1>4, <1>7, <1>12, <3>2
      <4> QED
        BY <1>9, <4>1
    <3> QED
      BY <1>7, <1>12, <3>1, <3>2
  <2>3. ASSUME NEW f \in 1 .. Len(frames'), NEW g \in 1 .. Len(frames'), f < g
        PROVE  frames'[f].base + frames'[f].locals < frames'[g].base
    <3>1. f \in 1 .. Len(frames)
      BY <1>7, <1>12, <2>3
    <3>2. CASE g \in 1 .. Len(frames)
      <4>1. frames'[f] = frames[f] /\ frames'[g] = frames[g]
        BY <1>12, <3>1, <3>2
      <4>2. frames[f].base + frames[f].locals < frames[g].base
        BY <2>3, <3>1, <3>2 DEF FrameInv, StackInv
      <4> QED
        BY <4>1, <4>2
    <3>3. CASE g = Len(frames) + 1
      <4>1. frames'[g] = r /\ r.base = base
        BY <1>4, <1>12, <3>3
      <4>2. frames'[f] = frames[f]
        BY <1>12, <3>1
      <4>3. frames[f].base + frames[f].locals < base
        BY <1>8, <3>1
      <4> QED
        BY <4>1, <4>2, <4>3
    <3> QED
      BY <1>7, <1>12, <3>2, <3>3
  <2> QED
    BY <1>6, <1>12, <2>1, <2>2, <2>3 DEF StackInv
<1>21. HeaderInv'
  <2> SUFFICES ASSUME NEW f \in 1 .. Len(frames') PROVE memory'[frames'[f].base] = Header
    BY DEF HeaderInv
  <2>1. CASE f \in 1 .. Len(frames)
    <3>1. /\ frames[f].base \in Cells /\ frames[f].base \in Nat /\ frames[f].locals \in Nat
          /\ frames[f].base + frames[f].locals < base
      BY <1>8, <2>1, FramesAre DEF FrameInv
    <3>2. frames[f].base < base
      BY <1>8, <3>1
    <3> QED
      BY <1>12, <1>15, <2>1, <3>1, <3>2 DEF FrameInv, HeaderInv
  <2>2. CASE f = Len(frames) + 1
    BY <1>4, <1>12, <1>16, <2>2
  <2> QED
    BY <1>7, <1>12, <2>1, <2>2
<1>22. BoxInv'
  <2> SUFFICES ASSUME NEW a \in Cells, box[a] # 0
               PROVE  memory'[a] # Header /\ \E f \in 1 .. Len(frames') : Within(a, f)'
    BY <1>6 DEF BoxInv, FrameInv
  <2>1. PICK f \in 1 .. Len(frames) : Within(a, f)
    BY DEF FrameInv, BoxInv
  <2>2. a < base
    <3>1. a \in Nat /\ frames[f].base \in Nat /\ frames[f].locals \in Nat
      BY FramesAre, CellsNat DEF FrameInv, Cells
    <3> QED
      BY <1>8, <2>1, <3>1 DEF Within
  <2>3. memory'[a] # Header
    BY <1>15, <2>2 DEF FrameInv, BoxInv
  <2>4. f \in 1 .. Len(frames') /\ Within(a, f)'
    BY <1>7, <1>12, <2>1 DEF Within
  <2> QED
    BY <2>3, <2>4
<1> QED
  BY <1>17, <1>18, <1>19, <1>20, <1>21, <1>22 DEF FrameInv

LEMMA ReturnFrame == FrameInv /\ Return => FrameInv'
<1> SUFFICES ASSUME FrameInv, Return PROVE FrameInv'
  OBVIOUS
<1>1. /\ Len(frames) > 1 /\ frames' = Rest(frames)
      /\ box' = [a \in DOMAIN box |-> IF a > Frame.base THEN 0 ELSE box[a]]
      /\ UNCHANGED <<memory, heap, closures, operands, captured, content>>
  BY DEF Return
<1>2. /\ Len(frames') = Len(frames) - 1 /\ Len(frames) \in Nat /\ Len(frames') \in Nat
      /\ \A f \in 1 .. Len(frames') : frames'[f] = frames[f] /\ f \in 1 .. Len(frames)
      /\ frames' \in Seq([base : Cells, locals : 0 .. Locals, closure : 0 .. Len(closures)])
  <2>1. PICK R : R = [base : Cells, locals : 0 .. Locals, closure : 0 .. Len(closures)]
    OBVIOUS
  <2>2. frames \in Seq(R)
    BY <2>1 DEF FrameInv, StackInv
  <2>3. /\ Rest(frames) \in Seq(R) /\ Len(frames) \in Nat /\ Len(Rest(frames)) = Len(frames) - 1
        /\ \A i \in 1 .. Len(frames) - 1 : Rest(frames)[i] = frames[i]
    BY <1>1, <2>2, Shortened
  <2> QED
    BY <1>1, <2>1, <2>3
<1>3. Now' = Now
  BY <1>1, NowStays
<1>4. CellInv' /\ ValueInv'
  BY <1>1, <1>3 DEF FrameInv, CellInv, ValueInv
<1>5. ClosureInv'
  BY <1>1, LensNat, ClosuresStay
<1>6. StackInv'
  <2>1. Len(frames') \in 1 .. MaxFrames
    <3>1. Len(frames) \in 1 .. MaxFrames /\ Len(frames) > 1
      BY <1>1 DEF FrameInv, StackInv
    <3> QED
      BY <1>2, <3>1, VariablesAssumption
  <2> QED
    BY <1>1, <1>2, <2>1 DEF FrameInv, StackInv
<1>7. HeaderInv'
  BY <1>1, <1>2 DEF FrameInv, HeaderInv
<1>8. BoxInv'
  <2>1. box' \in [Cells -> 0 .. Len(content')]
    BY <1>1, LensNat DEF FrameInv, BoxInv
  <2>2. ASSUME NEW a \in Cells, box'[a] # 0
        PROVE  memory'[a] # Header /\ \E f \in 1 .. Len(frames') : Within(a, f)'
    <3>1. ~ (a > Frame.base) /\ box[a] # 0
      BY <1>1, <2>2, LensNat
    <3>2. PICK f \in 1 .. Len(frames) : Within(a, f)
      BY <3>1 DEF FrameInv, BoxInv
    <3>3. f # Len(frames)
      BY <3>1, <3>2 DEF Within, Frame
    <3>4. f \in 1 .. Len(frames') /\ Within(a, f)'
      BY <1>2, <3>2, <3>3 DEF Within
    <3> QED
      BY <1>1, <3>1, <3>4 DEF FrameInv, BoxInv
  <2> QED
    BY <2>1, <2>2 DEF BoxInv
<1> QED
  BY <1>4, <1>5, <1>6, <1>7, <1>8 DEF FrameInv

-------------------------------------------------------------------------------
LEMMA FrameInit == Init => FrameInv
<1> SUFFICES ASSUME Init PROVE FrameInv
  OBVIOUS
<1>1. PICK n \in 0 .. Locals : frames = <<[base |-> 1, locals |-> n, closure |-> 0]>>
  BY DEF Init
<1>2. /\ memory = [a \in Cells |-> IF a = 1 THEN Header ELSE Nothing]
      /\ heap = <<>> /\ closures = <<>> /\ operands = <<>> /\ captured = <<>> /\ content = <<>>
      /\ box = [a \in Cells |-> 0]
  BY DEF Init, Cells
<1>3. Nothing \in Now
  BY DEF Now, Usable
<1>4. CellInv
  BY <1>2, <1>3 DEF CellInv
<1>5. ClosureInv /\ ValueInv
  BY <1>2, VariablesAssumption DEF ClosureInv, ValueInv
<1>6. StackInv
  <2>1. Len(frames) = 1 /\ frames[1].base = 1 /\ 1 \in Cells
    BY <1>1, CellsNat
  <2>2. frames \in Seq([base : Cells, locals : 0 .. Locals, closure : 0 .. Len(closures)])
    <3>1. [base |-> 1, locals |-> n, closure |-> 0]
            \in [base : Cells, locals : 0 .. Locals, closure : 0 .. Len(closures)]
      BY <1>2, <2>1
    <3> QED
      BY <1>1, <3>1
  <2>3. Len(frames) \in 1 .. MaxFrames
    BY <2>1, VariablesAssumption
  <2>4. frames[1].base <= (1 - 1) * (Locals + 1) + 1
    BY <2>1, VariablesAssumption
  <2> QED
    BY <2>1, <2>2, <2>3, <2>4 DEF StackInv
<1>7. HeaderInv
  BY <1>1, <1>2, CellsNat DEF HeaderInv
<1>8. BoxInv
  BY <1>2 DEF BoxInv
<1> QED
  BY <1>4, <1>5, <1>6, <1>7, <1>8 DEF FrameInv

LEMMA FrameNext == ASSUME ~Dangling, FrameInv, [Next]_vars PROVE FrameInv'
<1>1. ASSUME UNCHANGED vars PROVE FrameInv'
  <2>1. UNCHANGED <<memory, frames, heap, closures, script>> /\ operands' = operands
    BY <1>1 DEF vars, machine
  <2> QED
    BY <2>1, OperandsOnly DEF FrameInv, ValueInv
<1>2. ASSUME NEW n \in 0 .. Locals, Call(n) PROVE FrameInv'
  BY <1>2, CallFrame
<1>3. ASSUME NEW j \in 1 .. Locals, LoadVar(j) \/ Let(j) \/ Assign(j) \/ RefVar(j) PROVE FrameInv'
  BY <1>3, LoadVarFrame, LetFrame, AssignFrame, RefVarFrame
<1>4. ASSUME NEW j \in 1 .. MaxCaptured, LoadUpvar(j) \/ AssignUpvar(j) \/ RefUpvar(j)
      PROVE  FrameInv'
  BY <1>4, LoadUpvarFrame, AssignUpvarFrame, RefUpvarFrame
<1>5. ASSUME NEW n \in 1 .. MaxCaptured, NEW bound \in [1 .. n -> Sources], MakeClosure(bound)
      PROVE  FrameInv'
  BY <1>5, MakeClosureFrame DEF Bound
<1> QED
  BY <1>1, <1>2, <1>3, <1>4, <1>5, PushNewFrame, DropFrame, DerefFrame, RefPutFrame, ReturnFrame
  DEF Next

(* While no script uses a reference to a local of a function that has      *)
(* returned, frames, cells, closures and the operand stack are what        *)
(* FrameInv says they are.                                                 *)
THEOREM FramesKept == ASSUME ~Dangling PROVE Spec => []FrameInv
<1>1. Init => FrameInv
  BY FrameInit
<1>2. FrameInv /\ [Next]_vars => FrameInv'
  BY FrameNext
<1> QED
  BY <1>1, <1>2, PTL DEF Spec

LEMMA NowIsValues == FrameInv => Now \subseteq Values
<1> SUFFICES ASSUME FrameInv, NEW v \in Now PROVE v \in Values
  OBVIOUS
<1>1. /\ Len(closures) \in Nat /\ Len(closures) <= MaxClosures
      /\ Len(content) \in Nat /\ Len(content) <= MaxVariables /\ DOMAIN memory = Cells
  BY LensNat DEF FrameInv, ClosureInv, ValueInv
<1>2. 1 .. Len(content) \subseteq 1 .. MaxVariables /\ 0 .. Len(closures) \subseteq 0 .. MaxClosures
      /\ 1 .. Len(closures) \subseteq 1 .. MaxClosures
  BY <1>1, VariablesAssumption
<1>3. CASE v = Nothing \/ \E k \in Number : v = Integer(k)
  BY <1>3 DEF Values
<1>4. CASE \E c \in 0 .. Len(closures) : v = Function(c)
  BY <1>2, <1>4 DEF Values
<1>5. CASE \E a \in Cells, b \in 1 .. Len(content) : v = LocalRef(a, b)
  BY <1>1, <1>2, <1>5 DEF Values
<1>6. CASE \E c \in 1 .. Len(closures), j \in 1 .. MaxCaptured, b \in 1 .. Len(content) :
             v = UpvarRef(c, j, b)
  BY <1>2, <1>6 DEF Values
<1> QED
  BY <1>3, <1>4, <1>5, <1>6 DEF Now, Usable

LEMMA FrameInvTypes == FrameInv => TypeOK
<1> SUFFICES ASSUME FrameInv PROVE TypeOK
  OBVIOUS
<1>1. Now \subseteq Values
  BY NowIsValues
<1>2. /\ DOMAIN memory = Cells /\ DOMAIN heap = 1 .. Len(heap) /\ DOMAIN closures = 1 .. Len(closures)
      /\ DOMAIN operands = 1 .. Len(operands) /\ DOMAIN captured = DOMAIN closures
  BY LensNat
<1>3. Pointers(Len(heap)) = {HeapVar(h) : h \in DOMAIN heap}
  BY <1>2 DEF Pointers
<1>4. \A a \in DOMAIN memory :
        memory[a] \in Values \cup {Header} \cup {HeapVar(h) : h \in DOMAIN heap}
  BY <1>1, <1>2, <1>3 DEF FrameInv, CellInv
<1>5. Len(frames) \in 1 .. MaxFrames
  BY DEF FrameInv, StackInv
<1>6. \A h \in DOMAIN heap : heap[h] \in Values
  BY <1>1, <1>2 DEF FrameInv, CellInv
<1>7. \A c \in DOMAIN closures : \A j \in DOMAIN closures[c] :
        closures[c][j] \in {HeapVar(h) : h \in DOMAIN heap}
  BY <1>2, <1>3, UpvarIs
<1>8. \A p \in DOMAIN operands : operands[p] \in Values
  BY <1>1, <1>2 DEF FrameInv, ValueInv
<1>9. box \in [DOMAIN memory -> 0 .. Len(content)]
  BY <1>2 DEF FrameInv, BoxInv
<1> QED
  BY <1>2, <1>4, <1>5, <1>6, <1>7, <1>8, <1>9 DEF TypeOK

(* Cells hold values, headers or pointers to heap variables, closures such *)
(* pointers only, and every variable in a slot is one that was made.       *)
THEOREM VariablesTypeOK == ASSUME ~Dangling PROVE Spec => []TypeOK
<1>1. FrameInv => TypeOK
  BY FrameInvTypes
<1> QED
  BY <1>1, FramesKept, PTL

(* No sequence of assignments, through names, closures and references to   *)
(* live locals, writes the header of a live frame (return_from_block).     *)
THEOREM HeadersAreKept == ASSUME ~Dangling PROVE Spec => []HeadersKept
<1>1. FrameInv => HeadersKept
  BY LensNat DEF HeadersKept, FrameInv, HeaderInv
<1> QED
  BY <1>1, FramesKept, PTL

-------------------------------------------------------------------------------
(***************************************************************************)
(* Where each variable of the script has its value: H says which entry of  *)
(* the heap, or 0 while it is in its slot.                                 *)
(***************************************************************************)
Home(H) ==
  /\ H \in [1 .. Len(content) -> 0 .. Len(heap)]
  /\ \A b \in 1 .. Len(content) : H[b] # 0 => heap[H[b]] = content[b]
  /\ \A b, d \in 1 .. Len(content) : H[b] = H[d] /\ H[b] # 0 => b = d
Placed(H) ==
  \A a \in Cells : box[a] # 0 =>
    memory[a] = IF H[box[a]] = 0 THEN content[box[a]] ELSE HeapVar(H[box[a]])
Shared(H) ==
  \A c \in 1 .. Len(closures) : \A j \in DOMAIN closures[c] :
    H[captured[c][j]] # 0 /\ closures[c][j] = HeapVar(H[captured[c][j]])
Homed(H) == Home(H) /\ Placed(H) /\ Shared(H)

OneSlot == \A a, d \in Cells : box[a] = box[d] /\ box[a] # 0 => a = d
VarInv == OneSlot /\ \E H : Homed(H)

-------------------------------------------------------------------------------
LEMMA BoxIs ==
  ASSUME FrameInv, NEW a \in Cells, box[a] # 0
  PROVE  /\ box[a] \in 1 .. Len(content) /\ content[box[a]] \in Now
         /\ content[box[a]][1] # "heap"
<1>1. box[a] \in 1 .. Len(content)
  BY LensNat DEF FrameInv, BoxInv
<1>2. content[box[a]] \in Now
  BY <1>1 DEF FrameInv, ValueInv
<1> QED
  BY <1>1, <1>2, UsableTags DEF Now

LEMMA HeapVarTags == \A h : HeapVar(h)[1] = "heap" /\ HeapVar(h)[2] = h
BY DEF HeapVar

(* A slot that points to the heap is one whose variable has moved there.   *)
LEMMA PlacedIs ==
  ASSUME FrameInv, NEW H, Home(H), Placed(H), NEW a \in Cells, box[a] # 0
  PROVE  /\ box[a] \in 1 .. Len(content) /\ H[box[a]] \in 0 .. Len(heap)
         /\ memory[a][1] = "heap" => /\ H[box[a]] # 0 /\ memory[a] = HeapVar(H[box[a]])
                                     /\ memory[a][2] = H[box[a]]
         /\ memory[a][1] # "heap" => H[box[a]] = 0 /\ memory[a] = content[box[a]]
<1>1. box[a] \in 1 .. Len(content) /\ content[box[a]][1] # "heap"
  BY BoxIs
<1>2. H[box[a]] \in 0 .. Len(heap)
  BY <1>1 DEF Home
<1>3. memory[a] = IF H[box[a]] = 0 THEN content[box[a]] ELSE HeapVar(H[box[a]])
  BY DEF Placed
<1> QED
  BY <1>1, <1>2, <1>3, HeapVarTags

LEMMA VarInvReads ==
  ASSUME FrameInv, VarInv
  PROVE  LocalsHoldTheirVariable /\ ClosuresHoldTheirVariables
<1>1. PICK H : Homed(H)
  BY DEF VarInv
<1>2. ASSUME NEW a \in Cells, box[a] # 0 PROVE Value(memory[a]) = content[box[a]]
  <2>1. CASE memory[a][1] = "heap"
    BY <1>1, <1>2, <2>1, PlacedIs DEF Homed, Home, Value
  <2>2. CASE memory[a][1] # "heap"
    BY <1>1, <1>2, <2>2, PlacedIs DEF Homed, Value
  <2> QED
    BY <2>1, <2>2
<1>3. ASSUME NEW c \in 1 .. Len(closures), NEW j \in DOMAIN closures[c]
      PROVE  Value(closures[c][j]) = content[captured[c][j]]
  <2>1. H[captured[c][j]] # 0 /\ closures[c][j] = HeapVar(H[captured[c][j]])
    BY <1>1 DEF Homed, Shared
  <2>2. captured[c][j] \in 1 .. Len(content)
    BY UpvarIs
  <2> QED
    BY <1>1, <2>1, <2>2, HeapVarTags DEF Homed, Home, Value
<1> QED
  BY <1>2, <1>3, LensNat DEF LocalsHoldTheirVariable, ClosuresHoldTheirVariables

LEMMA VarInvReferences ==
  ASSUME FrameInv, VarInv
  PROVE  ReferencesReachTheirVariable
<1> SUFFICES ASSUME NEW r \in References, IsRef(r), Alive(r)
             PROVE  Value(Cell(r)) = content[r[4]]
  BY DEF ReferencesReachTheirVariable
<1>1. r \in Now
  <2>1. CASE \E p \in DOMAIN operands : r = operands[p]
    BY <2>1, LensNat DEF FrameInv, ValueInv
  <2>2. CASE \E h \in DOMAIN heap : r = heap[h]
    BY <2>2, LensNat DEF FrameInv, CellInv
  <2>3. CASE \E a \in Cells : box[a] # 0 /\ r = memory[a]
    <3>1. PICK a \in Cells : box[a] # 0 /\ r = memory[a]
      BY <2>3
    <3>2. r \in Now \cup Pointers(Len(heap))
      BY <3>1 DEF FrameInv, CellInv, BoxInv
    <3>3. r[1] # "heap"
      BY DEF IsRef
    <3> QED
      BY <3>2, <3>3, PointerTags
  <2> QED
    BY <2>1, <2>2, <2>3, LensNat DEF References
<1>2. CASE r[1] = "local"
  <2>1. r[2] \in Cells /\ box[r[2]] = r[4] /\ box[r[2]] # 0
    BY <1>1, <1>2, RefIs
  <2>2. Value(memory[r[2]]) = content[box[r[2]]]
    BY <2>1, LensNat, VarInvReads DEF LocalsHoldTheirVariable
  <2> QED
    BY <1>2, <2>1, <2>2 DEF Cell
<1>3. CASE r[1] # "local"
  <2>1. /\ r[2] \in 1 .. Len(closures) /\ r[3] \in DOMAIN closures[r[2]]
        /\ r[4] = captured[r[2]][r[3]]
    BY <1>1, <1>3, RefIs
  <2>2. Value(closures[r[2]][r[3]]) = content[captured[r[2]][r[3]]]
    BY <2>1, LensNat, VarInvReads DEF ClosuresHoldTheirVariables
  <2> QED
    BY <1>3, <2>1, <2>2 DEF Cell
<1> QED
  BY <1>2, <1>3

-------------------------------------------------------------------------------
LEMMA HomesStay ==
  ASSUME VarInv, UNCHANGED <<memory, heap, closures, script>>
  PROVE  VarInv'
BY DEF VarInv, OneSlot, Homed, Home, Placed, Shared, script

(* A variable that has moved to the heap is assigned there. *)
LEMMA AssignedMoved ==
  ASSUME FrameInv, NEW H, Homed(H), NEW b \in 1 .. Len(content), H[b] # 0, NEW v,
         heap' = [heap EXCEPT ![H[b]] = v], memory' = memory,
         content' = [content EXCEPT ![b] = v], UNCHANGED <<closures, box, captured>>
  PROVE  Homed(H)'
<1>1. H \in [1 .. Len(content) -> 0 .. Len(heap)] /\ H[b] \in 1 .. Len(heap)
  BY LensNat DEF Homed, Home
<1>2. Len(heap') = Len(heap) /\ Len(content') = Len(content)
  BY <1>1, LensNat DEF FrameInv, CellInv, ValueInv
<1>3. Home(H)'
  <2>1. ASSUME NEW d \in 1 .. Len(content), H[d] # 0 PROVE heap'[H[d]] = content'[d]
    <3>1. H[d] \in 1 .. Len(heap)
      <4>1. H[d] \in 0 .. Len(heap) /\ Len(heap) \in Nat
        BY <1>1, LensNat
      <4> QED
        BY <2>1, <4>1
    <3>2. CASE d = b
      BY <1>1, <3>2, LensNat
    <3>3. CASE d # b
      <4>1. H[d] # H[b]
        BY <3>3 DEF Homed, Home
      <4> QED
        BY <2>1, <3>1, <3>3, <4>1, LensNat DEF Homed, Home
    <3> QED
      BY <3>2, <3>3
  <2> QED
    BY <1>2, <2>1 DEF Homed, Home
<1>4. Placed(H)'
  <2> SUFFICES ASSUME NEW a \in Cells, box[a] # 0
               PROVE  memory[a] = IF H[box[a]] = 0 THEN content'[box[a]] ELSE HeapVar(H[box[a]])
    BY DEF Placed
  <2>1. memory[a] = IF H[box[a]] = 0 THEN content[box[a]] ELSE HeapVar(H[box[a]])
    BY DEF Homed, Placed
  <2>2. CASE box[a] = b
    BY <2>1, <2>2
  <2>3. CASE box[a] # b
    <3>1. content'[box[a]] = content[box[a]]
      BY <2>3, LensNat, BoxIs
    <3> QED
      BY <2>1, <3>1
  <2> QED
    BY <2>2, <2>3
<1>5. Shared(H)'
  BY DEF Homed, Shared
<1> QED
  BY <1>3, <1>4, <1>5 DEF Homed

(* A variable that has not moved is assigned in its slot. *)
LEMMA AssignedInSlot ==
  ASSUME FrameInv, OneSlot, NEW H, Homed(H), NEW a \in Cells, NEW b \in 1 .. Len(content),
         box[a] = b, H[b] = 0, NEW v, memory' = [memory EXCEPT ![a] = v], heap' = heap,
         content' = [content EXCEPT ![b] = v], UNCHANGED <<closures, box, captured>>
  PROVE  Homed(H)'
<1>1. Len(content') = Len(content) /\ content'[b] = v
      /\ \A d \in 1 .. Len(content) : d # b => content'[d] = content[d]
  BY LensNat DEF FrameInv, ValueInv
<1>2. Home(H)'
  BY <1>1 DEF Homed, Home
<1>3. Placed(H)'
  <2> SUFFICES ASSUME NEW e \in Cells, box[e] # 0
               PROVE  memory'[e] = IF H[box[e]] = 0 THEN content'[box[e]] ELSE HeapVar(H[box[e]])
    BY DEF Placed
  <2>1. CASE e = a
    BY <1>1, <2>1, LensNat
  <2>2. CASE e # a
    <3>1. box[e] # b /\ box[e] \in 1 .. Len(content)
      BY <2>2, BoxIs DEF OneSlot
    <3>2. memory'[e] = memory[e] /\ content'[box[e]] = content[box[e]]
      BY <1>1, <2>2, <3>1, LensNat
    <3> QED
      BY <3>2 DEF Homed, Placed
  <2> QED
    BY <2>1, <2>2
<1>4. Shared(H)'
  BY DEF Homed, Shared
<1> QED
  BY <1>2, <1>3, <1>4 DEF Homed

LEMMA AssignedCell ==
  ASSUME FrameInv, VarInv, NEW a \in Cells, NEW b, b = box[a], b # 0, NEW v, SetCell(a, v),
         content' = [content EXCEPT ![b] = v], UNCHANGED <<closures, box, captured>>
  PROVE  VarInv'
<1>1. PICK H : Homed(H)
  BY DEF VarInv
<1>2. b \in 1 .. Len(content)
  BY BoxIs
<1>3. OneSlot /\ OneSlot'
  BY DEF VarInv, OneSlot
<1>4. CASE memory[a][1] = "heap"
  <2>1. H[b] # 0 /\ memory[a][2] = H[b]
    BY <1>1, <1>4, PlacedIs DEF Homed
  <2>2. heap' = [heap EXCEPT ![H[b]] = v] /\ memory' = memory
    BY <1>4, <2>1 DEF SetCell
  <2>3. Homed(H)'
    BY <1>1, <1>2, <2>1, <2>2, AssignedMoved
  <2> QED
    BY <1>3, <2>3 DEF VarInv
<1>5. CASE memory[a][1] # "heap"
  <2>1. H[b] = 0
    BY <1>1, <1>5, PlacedIs DEF Homed
  <2>2. memory' = [memory EXCEPT ![a] = v] /\ heap' = heap
    BY <1>5 DEF SetCell
  <2>3. Homed(H)'
    BY <1>1, <1>2, <1>3, <2>1, <2>2, AssignedInSlot
  <2> QED
    BY <1>3, <2>3 DEF VarInv
<1> QED
  BY <1>4, <1>5

LEMMA AssignedUpvar ==
  ASSUME FrameInv, VarInv, NEW c \in 1 .. Len(closures), NEW j \in DOMAIN closures[c],
         NEW b, b = captured[c][j], NEW v, SetUpvar(c, j, v),
         content' = [content EXCEPT ![b] = v], UNCHANGED <<closures, box, captured>>
  PROVE  VarInv'
<1>1. PICK H : Homed(H)
  BY DEF VarInv
<1>2. b \in 1 .. Len(content)
  BY UpvarIs
<1>3. H[b] # 0 /\ closures[c][j][2] = H[b]
  BY <1>1, HeapVarTags DEF Homed, Shared
<1>4. heap' = [heap EXCEPT ![H[b]] = v] /\ memory' = memory
  BY <1>3 DEF SetUpvar
<1>5. Homed(H)'
  BY <1>1, <1>2, <1>3, <1>4, AssignedMoved
<1>6. OneSlot'
  BY DEF VarInv, OneSlot
<1> QED
  BY <1>5, <1>6 DEF VarInv

-------------------------------------------------------------------------------
LEMMA AssignVars == ASSUME NEW j \in 1 .. Locals, FrameInv, VarInv, Assign(j) PROVE VarInv'
<1>1. j <= Frame.locals /\ box[Slot(j)] # 0
  BY DEF Assign, Declared
<1>2. PICK a : a = Slot(j)
  OBVIOUS
<1>3. PICK v : v = Last(operands)
  OBVIOUS
<1>4. PICK b : b = box[a]
  OBVIOUS
<1>5. a \in Cells /\ b # 0
  BY <1>1, <1>2, <1>4, SlotsNoBase
<1>6. /\ SetCell(a, v) /\ content' = [content EXCEPT ![b] = v]
      /\ UNCHANGED <<closures, box, captured>>
  BY <1>2, <1>3, <1>4 DEF Assign
<1> QED
  BY <1>4, <1>5, <1>6, AssignedCell

LEMMA AssignUpvarVars == ASSUME FrameInv, VarInv, NEW j, AssignUpvar(j) PROVE VarInv'
<1>1. PICK c : c = Frame.closure
  OBVIOUS
<1>2. PICK v : v = Last(operands)
  OBVIOUS
<1>3. PICK b : b = captured[c][j]
  OBVIOUS
<1>4. c \in 1 .. Len(closures) /\ j \in DOMAIN closures[c]
  BY <1>1, UpvarsAre DEF AssignUpvar
<1>5. /\ SetUpvar(c, j, v) /\ content' = [content EXCEPT ![b] = v]
      /\ UNCHANGED <<closures, box, captured>>
  BY <1>1, <1>2, <1>3 DEF AssignUpvar
<1> QED
  BY <1>3, <1>4, <1>5, AssignedUpvar

LEMMA RefPutVars == ASSUME ~Dangling, FrameInv, VarInv, RefPut PROVE VarInv'
<1>1. PICK ref : ref = Last(operands)
  OBVIOUS
<1>2. PICK v : v = operands[Len(operands) - 1]
  OBVIOUS
<1>3. /\ Len(operands) >= 2 /\ IsRef(ref) /\ Alive(ref)
      /\ IF ref[1] = "local" THEN SetCell(ref[2], v) ELSE SetUpvar(ref[2], ref[3], v)
      /\ content' = [content EXCEPT ![ref[4]] = v]
      /\ UNCHANGED <<closures, box, captured>>
  BY <1>1, <1>2 DEF RefPut, Alive
<1>4. ref \in Now
  <2>1. operands \in Seq(Now) /\ Len(operands) \in Nat
    BY DEF FrameInv, ValueInv
  <2> QED
    BY <1>1, <1>3, <2>1 DEF Last
<1>5. PICK b : b = ref[4]
  OBVIOUS
<1>6. CASE ref[1] = "local"
  <2>1. ref[2] \in Cells /\ b = box[ref[2]] /\ b # 0 /\ SetCell(ref[2], v)
    BY <1>3, <1>4, <1>5, <1>6, RefIs
  <2> QED
    BY <1>3, <1>5, <2>1, AssignedCell
<1>7. CASE ref[1] # "local"
  <2>1. /\ ref[2] \in 1 .. Len(closures) /\ ref[3] \in DOMAIN closures[ref[2]]
        /\ b = captured[ref[2]][ref[3]] /\ SetUpvar(ref[2], ref[3], v)
    BY <1>3, <1>4, <1>5, <1>7, RefIs
  <2> QED
    BY <1>3, <1>5, <2>1, AssignedUpvar
<1> QED
  BY <1>6, <1>7

(* A "let" makes a variable that is in its slot, as long as the slot does  *)
(* not point to the heap.                                                  *)
LEMMA LetVars ==
  ASSUME ~Rebinding, NEW j \in 1 .. Locals, FrameInv, VarInv, Let(j)
  PROVE  VarInv'
<1>1. j <= Frame.locals
  BY DEF Let
<1>2. PICK a : a = Slot(j)
  OBVIOUS
<1>3. PICK v : v = Last(operands)
  OBVIOUS
<1>4. a \in Cells
  BY <1>1, <1>2, SlotsNoBase
<1>5. /\ SetCell(a, v) /\ memory[a][1] # "heap"
      /\ box' = [box EXCEPT ![a] = Len(content) + 1]
      /\ content' = Append(content, v)
      /\ UNCHANGED <<closures, captured>>
  BY <1>2, <1>3 DEF Let
<1>6. memory' = [memory EXCEPT ![a] = v] /\ heap' = heap
  BY <1>5 DEF SetCell
<1>7. /\ Len(content) \in Nat /\ Len(content') = Len(content) + 1
      /\ content'[Len(content) + 1] = v
      /\ \A b \in 1 .. Len(content) : content'[b] = content[b]
  BY <1>5, Appended DEF FrameInv, ValueInv
<1>8. PICK H : Homed(H)
  BY DEF VarInv
<1>9. PICK G : G = [b \in 1 .. Len(content) + 1 |-> IF b \in 1 .. Len(content) THEN H[b] ELSE 0]
  OBVIOUS
<1>10. /\ \A b \in 1 .. Len(content) : G[b] = H[b] /\ H[b] \in 0 .. Len(heap)
       /\ G[Len(content) + 1] = 0
       /\ G \in [1 .. Len(content') -> 0 .. Len(heap')]
  <2>1. \A b \in 1 .. Len(content) : H[b] \in 0 .. Len(heap)
    BY <1>8 DEF Homed, Home
  <2>2. DOMAIN G = 1 .. Len(content) + 1 /\ Len(content) + 1 \notin 1 .. Len(content)
    BY <1>7, <1>9
  <2>3. \A b \in 1 .. Len(content) : G[b] = H[b]
    BY <1>7, <1>9
  <2>4. G[Len(content) + 1] = 0
    BY <1>7, <1>9, <2>2
  <2>5. \A b \in 1 .. Len(content) + 1 : G[b] \in 0 .. Len(heap')
    BY <1>6, <1>7, <2>1, <2>3, <2>4, LensNat
  <2>6. G = [b \in 1 .. Len(content) + 1 |-> G[b]]
    BY <1>9
  <2> QED
    BY <1>7, <2>1, <2>3, <2>4, <2>5, <2>6
<1>11. \A d \in Cells : box[d] # 0 => box[d] \in 1 .. Len(content)
  BY BoxIs
<1>12. box'[a] = Len(content) + 1 /\ \A d \in Cells : d # a => box'[d] = box[d]
  BY <1>4, <1>5, LensNat
<1>13. OneSlot'
  <2> SUFFICES ASSUME NEW d \in Cells, NEW e \in Cells, box'[d] = box'[e], box'[d] # 0
               PROVE  d = e
    BY DEF OneSlot
  <2>1. CASE d # a /\ e # a
    BY <1>12, <2>1 DEF VarInv, OneSlot
  <2>2. CASE d = a /\ e # a
    BY <1>7, <1>11, <1>12, <2>2
  <2>3. CASE d # a /\ e = a
    BY <1>7, <1>11, <1>12, <2>3
  <2> QED
    BY <2>1, <2>2, <2>3
<1>14. Home(G)'
  <2>1. ASSUME NEW b \in 1 .. Len(content'), G[b] # 0
        PROVE  b \in 1 .. Len(content) /\ heap'[G[b]] = content'[b]
    <3>1. b \in 1 .. Len(content)
      BY <1>7, <1>10, <2>1
    <3> QED
      BY <1>6, <1>7, <1>8, <1>10, <2>1, <3>1 DEF Homed, Home
  <2>2. ASSUME NEW b \in 1 .. Len(content'), NEW d \in 1 .. Len(content'), G[b] = G[d], G[b] # 0
        PROVE  b = d
    BY <1>8, <1>10, <2>1, <2>2 DEF Homed, Home
  <2> QED
    BY <1>10, <2>1, <2>2 DEF Home
<1>15. Placed(G)'
  <2> SUFFICES ASSUME NEW d \in Cells, box'[d] # 0
               PROVE  memory'[d] = IF G[box'[d]] = 0 THEN content'[box'[d]] ELSE HeapVar(G[box'[d]])
    BY DEF Placed
  <2>1. CASE d = a
    BY <1>4, <1>6, <1>7, <1>10, <1>12, <2>1, LensNat
  <2>2. CASE d # a
    <3>1. /\ memory'[d] = memory[d] /\ box'[d] = box[d] /\ box[d] \in 1 .. Len(content)
          /\ content'[box[d]] = content[box[d]] /\ G[box[d]] = H[box[d]]
      BY <1>6, <1>7, <1>10, <1>11, <1>12, <2>2, LensNat
    <3>2. memory[d] = IF H[box[d]] = 0 THEN content[box[d]] ELSE HeapVar(H[box[d]])
      BY <1>8, <3>1 DEF Homed, Placed
    <3> QED
      BY <3>1, <3>2
  <2> QED
    BY <2>1, <2>2
<1>16. Shared(G)'
  <2> SUFFICES ASSUME NEW c \in 1 .. Len(closures), NEW i \in DOMAIN closures[c]
               PROVE  G[captured[c][i]] # 0 /\ closures[c][i] = HeapVar(G[captured[c][i]])
    BY <1>5 DEF Shared
  <2>1. captured[c][i] \in 1 .. Len(content)
    BY UpvarIs
  <2>2. H[captured[c][i]] # 0 /\ closures[c][i] = HeapVar(H[captured[c][i]])
    BY <1>8 DEF Homed, Shared
  <2>3. G[captured[c][i]] = H[captured[c][i]]
    BY <1>10, <2>1
  <2> QED
    BY <2>2, <2>3
<1> QED
  BY <1>13, <1>14, <1>15, <1>16 DEF VarInv, Homed

-------------------------------------------------------------------------------
(* The variables in the cells of S move: their homes are the new entries.  *)
LEMMA MovedHome ==
  ASSUME FrameInv, VarInv, NEW S \in SUBSET Cells, \A a \in S : box[a] # 0, MoveToHeap(S),
         UNCHANGED <<box, content>>
  PROVE  \E G : /\ Home(G)' /\ Placed(G)'
                /\ \A c \in 1 .. Len(closures) : \A j \in DOMAIN closures[c] :
                     /\ G[captured[c][j]] # 0
                     /\ closures[c][j] = HeapVar(G[captured[c][j]])
<1>1. /\ heap \in Seq(Now) /\ Len(heap) \in Nat /\ DOMAIN memory = Cells
      /\ OneSlot /\ Len(content') = Len(content)
  BY LensNat DEF FrameInv, CellInv, VarInv
<1>2. /\ Len(heap') \in Nat /\ Len(heap) <= Len(heap')
      /\ \A a \in Cells \ Moving(S) : memory'[a] = memory[a]
      /\ \A h \in 1 .. Len(heap) : heap'[h] = heap[h]
      /\ \E place \in [Moving(S) -> Len(heap) + 1 .. Len(heap')] :
           /\ \A a \in Moving(S) : memory'[a] = HeapVar(place[a]) /\ heap'[place[a]] = memory[a]
           /\ \A a, b \in Moving(S) : place[a] = place[b] => a = b
  BY <1>1, MoveToHeapDoes
<1>3. PICK place \in [Moving(S) -> Len(heap) + 1 .. Len(heap')] :
           /\ \A a \in Moving(S) : memory'[a] = HeapVar(place[a]) /\ heap'[place[a]] = memory[a]
           /\ \A a, b \in Moving(S) : place[a] = place[b] => a = b
  BY <1>2
<1>4. PICK H : Homed(H)
  BY DEF VarInv
<1>5. \A b \in 1 .. Len(content) : H[b] \in 0 .. Len(heap)
  BY <1>4 DEF Homed, Home
<1>6. PICK M : M = {box[a] : a \in Moving(S)}
  OBVIOUS
<1>7. PICK cell : cell = [b \in M |-> CHOOSE a \in Moving(S) : box[a] = b]
  OBVIOUS
<1>8. \A b \in M : cell[b] \in Moving(S) /\ box[cell[b]] = b
  BY <1>6, <1>7
<1>9. \A a \in Moving(S) :
        /\ a \in Cells /\ box[a] \in M /\ box[a] \in 1 .. Len(content) /\ H[box[a]] = 0
        /\ memory[a] = content[box[a]] /\ cell[box[a]] = a
  <2> SUFFICES ASSUME NEW a \in Moving(S)
               PROVE  /\ a \in Cells /\ box[a] \in M /\ box[a] \in 1 .. Len(content)
                      /\ H[box[a]] = 0 /\ memory[a] = content[box[a]] /\ cell[box[a]] = a
    OBVIOUS
  <2>1. a \in Cells /\ box[a] # 0 /\ memory[a][1] # "heap"
    BY DEF Moving
  <2>2. box[a] \in 1 .. Len(content) /\ H[box[a]] = 0 /\ memory[a] = content[box[a]]
    BY <1>4, <2>1, PlacedIs DEF Homed
  <2>3. box[a] \in M
    BY <1>6
  <2>4. cell[box[a]] = a
    <3>1. cell[box[a]] \in Moving(S) /\ box[cell[box[a]]] = box[a]
      BY <1>8, <2>3
    <3>2. cell[box[a]] \in Cells
      BY <3>1 DEF Moving
    <3> QED
      BY <1>1, <2>1, <3>1, <3>2 DEF OneSlot
  <2> QED
    BY <2>1, <2>2, <2>3, <2>4
<1>10. PICK G : G = [b \in 1 .. Len(content) |-> IF b \in M THEN place[cell[b]] ELSE H[b]]
  OBVIOUS
<1>11. \A b \in M : /\ b \in 1 .. Len(content) /\ G[b] = place[cell[b]]
                    /\ G[b] \in Len(heap) + 1 .. Len(heap')
                    /\ H[b] = 0 /\ heap'[G[b]] = content[b]
  <2> SUFFICES ASSUME NEW b \in M
               PROVE  /\ b \in 1 .. Len(content) /\ G[b] = place[cell[b]]
                      /\ G[b] \in Len(heap) + 1 .. Len(heap')
                      /\ H[b] = 0 /\ heap'[G[b]] = content[b]
    OBVIOUS
  <2>1. cell[b] \in Moving(S) /\ box[cell[b]] = b
    BY <1>8
  <2>2. b \in 1 .. Len(content) /\ H[b] = 0 /\ memory[cell[b]] = content[b]
    BY <1>9, <2>1
  <2>3. G[b] = place[cell[b]]
    BY <1>10, <2>2
  <2>4. place[cell[b]] \in Len(heap) + 1 .. Len(heap') /\ heap'[place[cell[b]]] = memory[cell[b]]
    BY <1>3, <2>1
  <2> QED
    BY <2>2, <2>3, <2>4
<1>12. \A b \in 1 .. Len(content) : b \notin M => G[b] = H[b]
  BY <1>10
<1>13. Home(G)'
  <2>1. G \in [1 .. Len(content') -> 0 .. Len(heap')]
    <3>1. \A b \in 1 .. Len(content) : G[b] \in 0 .. Len(heap')
      <4> SUFFICES ASSUME NEW b \in 1 .. Len(content) PROVE G[b] \in 0 .. Len(heap')
        OBVIOUS
      <4>1. CASE b \in M
        BY <1>1, <1>2, <1>11, <4>1
      <4>2. CASE b \notin M
        BY <1>1, <1>2, <1>5, <1>12, <4>2
      <4> QED
        BY <4>1, <4>2
    <3>2. DOMAIN G = 1 .. Len(content) /\ G = [b \in 1 .. Len(content) |-> G[b]]
      BY <1>10
    <3> QED
      BY <1>1, <3>1, <3>2
  <2>2. ASSUME NEW b \in 1 .. Len(content), G[b] # 0 PROVE heap'[G[b]] = content[b]
    <3>1. CASE b \in M
      BY <1>11, <3>1
    <3>2. CASE b \notin M
      <4>1. G[b] = H[b] /\ H[b] # 0 /\ H[b] \in 1 .. Len(heap)
        BY <1>1, <1>5, <1>12, <2>2, <3>2
      <4> QED
        BY <1>2, <1>4, <4>1 DEF Homed, Home
    <3> QED
      BY <3>1, <3>2
  <2>3. ASSUME NEW b \in 1 .. Len(content), NEW d \in 1 .. Len(content), G[b] = G[d], G[b] # 0
        PROVE  b = d
    <3>1. CASE b \in M /\ d \in M
      <4>1. place[cell[b]] = place[cell[d]] /\ cell[b] \in Moving(S) /\ cell[d] \in Moving(S)
        BY <1>8, <1>11, <2>3, <3>1
      <4>2. cell[b] = cell[d]
        BY <1>3, <4>1
      <4> QED
        BY <1>8, <3>1, <4>2
    <3>2. CASE b \in M /\ d \notin M
      BY <1>1, <1>2, <1>5, <1>11, <1>12, <2>3, <3>2
    <3>3. CASE b \notin M /\ d \in M
      BY <1>1, <1>2, <1>5, <1>11, <1>12, <2>3, <3>3
    <3>4. CASE b \notin M /\ d \notin M
      BY <1>4, <1>12, <2>3, <3>4 DEF Homed, Home
    <3> QED
      BY <3>1, <3>2, <3>3, <3>4
  <2> QED
    BY <1>1, <2>1, <2>2, <2>3 DEF Home
<1>14. Placed(G)'
  <2> SUFFICES ASSUME NEW a \in Cells, box[a] # 0
               PROVE  memory'[a] = IF G[box[a]] = 0 THEN content[box[a]] ELSE HeapVar(G[box[a]])
    BY DEF Placed
  <2>1. CASE a \in Moving(S)
    <3>1. G[box[a]] = place[a] /\ G[box[a]] # 0
      BY <1>1, <1>9, <1>11, <2>1
    <3> QED
      BY <1>3, <2>1, <3>1
  <2>2. CASE a \notin Moving(S)
    <3>1. memory'[a] = memory[a]
      BY <1>2, <2>2
    <3>2. box[a] \notin M
      <4>1. ASSUME NEW d \in Moving(S) PROVE box[d] # box[a]
        BY <1>1, <1>9, <2>2 DEF OneSlot
      <4> QED
        BY <1>6, <4>1
    <3>3. G[box[a]] = H[box[a]]
      BY <1>12, <3>2, BoxIs
    <3> QED
      BY <1>4, <3>1, <3>3 DEF Homed, Placed
  <2> QED
    BY <2>1, <2>2
<1>15. ASSUME NEW c \in 1 .. Len(closures), NEW j \in DOMAIN closures[c]
       PROVE  G[captured[c][j]] # 0 /\ closures[c][j] = HeapVar(G[captured[c][j]])
  <2>1. H[captured[c][j]] # 0 /\ closures[c][j] = HeapVar(H[captured[c][j]])
    BY <1>4 DEF Homed, Shared
  <2>2. captured[c][j] \in 1 .. Len(content) /\ captured[c][j] \notin M
    BY <1>11, <2>1, UpvarIs
  <2> QED
    BY <1>12, <2>1, <2>2
<1> QED
  BY <1>13, <1>14, <1>15

LEMMA RefVarVars == ASSUME NEW j \in 1 .. Locals, FrameInv, VarInv, RefVar(j) PROVE VarInv'
<1>1. j <= Frame.locals /\ box[Slot(j)] # 0
  BY DEF RefVar, Declared
<1>2. PICK S : S = {Slot(j)}
  OBVIOUS
<1>3. S \in SUBSET Cells /\ (\A a \in S : box[a] # 0)
  BY <1>1, <1>2, SlotsNoBase
<1>4. MoveToHeap(S) /\ UNCHANGED <<closures, box, captured, content>>
  BY <1>2 DEF RefVar, script
<1>5. PICK G : /\ Home(G)' /\ Placed(G)'
               /\ \A c \in 1 .. Len(closures) : \A d \in DOMAIN closures[c] :
                    G[captured[c][d]] # 0 /\ closures[c][d] = HeapVar(G[captured[c][d]])
  BY <1>3, <1>4, MovedHome
<1>6. Shared(G)' /\ OneSlot'
  BY <1>4, <1>5 DEF Shared, VarInv, OneSlot
<1> QED
  BY <1>5, <1>6 DEF VarInv, Homed

LEMMA MakeClosureVars ==
  ASSUME NEW n \in 1 .. MaxCaptured, NEW bound \in Bound(n), FrameInv, VarInv, MakeClosure(bound)
  PROVE  VarInv'
<1>1. n \in Nat /\ DOMAIN bound = 1 .. n
  BY VariablesAssumption DEF Bound
<1>2. PICK S : S = BoundCells(bound)
  OBVIOUS
<1>3. S \in SUBSET Cells /\ \A a \in S : box[a] # 0
  BY <1>1, <1>2, BoundCellsBoxed
<1>4. PICK cl : cl = NewCells(bound)
  OBVIOUS
<1>5. PICK cap : cap = NewCaptured(bound)
  OBVIOUS
<1>6. /\ MoveToHeap(S) /\ closures' = Append(closures, cl) /\ captured' = Append(captured, cap)
      /\ UNCHANGED <<box, content>>
  BY <1>2, <1>4, <1>5 DEF MakeClosure, BoundCells, NewCells, NewCaptured
<1>7. /\ Len(closures') = Len(closures) + 1 /\ Len(closures) \in Nat
      /\ closures'[Len(closures) + 1] = cl /\ captured'[Len(closures) + 1] = cap
      /\ \A c \in 1 .. Len(closures) : closures'[c] = closures[c] /\ captured'[c] = captured[c]
  <2>1. \E S1 : closures \in Seq(S1)
    BY DEF FrameInv, ClosureInv
  <2>2. \E S2 : captured \in Seq(S2)
    BY DEF FrameInv, ClosureInv
  <2>3. Len(captured) = Len(closures)
    BY DEF FrameInv, ClosureInv
  <2> QED
    BY <1>6, <2>1, <2>2, <2>3, Appended
<1>8. Now \subseteq Now'
  <2>1. Usable(closures, captured, Len(content)) \subseteq Usable(closures', captured', Len(content'))
    <3>1. /\ Len(closures) \in Nat /\ Len(content) \in Nat /\ content' = content
          /\ Len(closures) <= Len(closures') /\ Len(closures') \in Nat
          /\ Len(content) <= Len(content') /\ Len(content') \in Nat
      BY <1>6, <1>7, LensNat
    <3> QED
      BY <1>7, <3>1, UsableGrows
  <2> QED
    BY <2>1 DEF Now
<1>9. \A a \in S : memory'[a] \in Pointers(Len(heap'))
  BY <1>3, <1>6, <1>8, MovedFrame
<1>10. PICK G : /\ Home(G)' /\ Placed(G)'
                /\ \A c \in 1 .. Len(closures) : \A j \in DOMAIN closures[c] :
                     G[captured[c][j]] # 0 /\ closures[c][j] = HeapVar(G[captured[c][j]])
  BY <1>3, <1>6, MovedHome
<1>11. ASSUME NEW d \in 1 .. n PROVE G[cap[d]] # 0 /\ cl[d] = HeapVar(G[cap[d]])
  <2>1. /\ cl[d] = IF bound[d][2] THEN memory'[Slot(bound[d][1])]
                   ELSE closures[Frame.closure][bound[d][1]]
        /\ cap[d] = IF bound[d][2] THEN box[Slot(bound[d][1])]
                    ELSE captured[Frame.closure][bound[d][1]]
    BY <1>1, <1>4, <1>5 DEF NewCells, NewCaptured
  <2>2. CASE bound[d][2] = TRUE
    <3>1. PICK a : a = Slot(bound[d][1])
      OBVIOUS
    <3>2. a \in S /\ a \in Cells /\ box[a] \in 1 .. Len(content)
      BY <1>1, <1>2, <2>2, <3>1, SourceIs
    <3>3. memory'[a][1] = "heap" /\ box[a] # 0
      BY <1>3, <1>9, <3>2, PointerTags
    <3>4. content[box[a]][1] # "heap"
      BY <3>2, <3>3, BoxIs
    <3>5. memory'[a] = IF G[box[a]] = 0 THEN content[box[a]] ELSE HeapVar(G[box[a]])
      BY <1>6, <1>10, <3>2, <3>3 DEF Placed
    <3> QED
      BY <2>1, <2>2, <3>1, <3>3, <3>4, <3>5
  <2>3. CASE bound[d][2] = FALSE
    <3>1. /\ Frame.closure \in 1 .. Len(closures)
          /\ bound[d][1] \in DOMAIN closures[Frame.closure]
      BY <1>1, <2>3, SourceIs
    <3> QED
      BY <1>10, <2>1, <2>3, <3>1
  <2> QED
    BY <1>1, <2>2, <2>3, SourceIs
<1>12. DOMAIN cl = 1 .. n
  BY <1>1, <1>4 DEF NewCells
<1>13. Shared(G)'
  <2> SUFFICES ASSUME NEW c \in 1 .. Len(closures'), NEW j \in DOMAIN closures'[c]
               PROVE  G[captured'[c][j]] # 0 /\ closures'[c][j] = HeapVar(G[captured'[c][j]])
    BY DEF Shared
  <2>1. CASE c \in 1 .. Len(closures)
    BY <1>7, <1>10, <2>1
  <2>2. CASE c = Len(closures) + 1
    BY <1>7, <1>11, <1>12, <2>2
  <2> QED
    BY <1>7, <2>1, <2>2
<1>14. OneSlot'
  BY <1>6 DEF VarInv, OneSlot
<1> QED
  BY <1>10, <1>13, <1>14 DEF VarInv, Homed

-------------------------------------------------------------------------------
LEMMA CallVars == ASSUME NEW n \in 0 .. Locals, FrameInv, VarInv, Call(n) PROVE VarInv'
<1>1. PICK base : base = NextBase
  OBVIOUS
<1>2. /\ memory' = [a \in DOMAIN memory |->
                      IF a = base THEN Header
                      ELSE IF a \in base + 1 .. base + n THEN Nothing
                      ELSE memory[a]]
      /\ UNCHANGED <<heap, closures, box, captured, content>>
  BY <1>1 DEF Call, script
<1>3. ASSUME NEW a \in Cells, box[a] # 0 PROVE memory'[a] = memory[a]
  <2>1. PICK f \in 1 .. Len(frames) : Within(a, f)
    BY <1>3 DEF FrameInv, BoxInv
  <2>2. /\ a \in Nat /\ frames[f].base \in Nat /\ frames[f].locals \in Nat /\ base \in Nat
        /\ frames[f].base + frames[f].locals < base /\ n \in Nat
    <3>1. frames[f].base \in Nat /\ frames[f].locals \in Nat
      BY FramesAre DEF FrameInv
    <3>2. base \in Nat /\ frames[f].base + frames[f].locals < base
      BY <1>1, SlotsAre DEF FrameInv
    <3>3. a \in Nat /\ n \in Nat
      BY CellsNat, VariablesAssumption DEF Cells
    <3> QED
      BY <3>1, <3>2, <3>3
  <2>3. a < base
    BY <2>1, <2>2 DEF Within
  <2> QED
    BY <1>2, <2>2, <2>3, LensNat
<1>4. PICK H : Homed(H)
  BY DEF VarInv
<1>5. Home(H)' /\ Shared(H)' /\ OneSlot'
  BY <1>2, <1>4 DEF Homed, Home, Shared, VarInv, OneSlot
<1>6. Placed(H)'
  BY <1>2, <1>3, <1>4 DEF Homed, Placed
<1> QED
  BY <1>5, <1>6 DEF VarInv, Homed

LEMMA ReturnVars == ASSUME FrameInv, VarInv, Return PROVE VarInv'
<1>1. /\ box' = [a \in DOMAIN box |-> IF a > Frame.base THEN 0 ELSE box[a]]
      /\ UNCHANGED <<memory, heap, closures, captured, content>>
  BY DEF Return
<1>2. \A a \in Cells : box'[a] # 0 => box'[a] = box[a]
  BY <1>1, LensNat
<1>3. PICK H : Homed(H)
  BY DEF VarInv
<1>4. Home(H)' /\ Shared(H)'
  BY <1>1, <1>3 DEF Homed, Home, Shared
<1>5. Placed(H)'
  BY <1>1, <1>2, <1>3 DEF Homed, Placed
<1>6. OneSlot'
  BY <1>2 DEF VarInv, OneSlot
<1> QED
  BY <1>4, <1>5, <1>6 DEF VarInv, Homed

-------------------------------------------------------------------------------
LEMMA VarInit == Init => VarInv
<1> SUFFICES ASSUME Init PROVE VarInv
  OBVIOUS
<1>1. /\ heap = <<>> /\ closures = <<>> /\ content = <<>> /\ box = [a \in Cells |-> 0]
  BY DEF Init, Cells
<1>2. OneSlot
  BY <1>1 DEF OneSlot
<1>3. Homed(<<>>)
  BY <1>1 DEF Homed, Home, Placed, Shared
<1> QED
  BY <1>2, <1>3 DEF VarInv

LEMMA VarNext ==
  ASSUME ~Dangling, ~Rebinding, FrameInv, VarInv, [Next]_vars
  PROVE  VarInv'
<1>1. ASSUME UNCHANGED <<memory, heap, closures, script>> PROVE VarInv'
  BY <1>1, HomesStay
<1>2. ASSUME NEW n \in 0 .. Locals, Call(n) PROVE VarInv'
  BY <1>2, CallVars
<1>3. ASSUME NEW j \in 1 .. Locals, LoadVar(j) \/ Let(j) \/ Assign(j) \/ RefVar(j) PROVE VarInv'
  BY <1>1, <1>3, LetVars, AssignVars, RefVarVars DEF LoadVar
<1>4. ASSUME NEW j \in 1 .. MaxCaptured, LoadUpvar(j) \/ AssignUpvar(j) \/ RefUpvar(j)
      PROVE  VarInv'
  BY <1>1, <1>4, AssignUpvarVars DEF LoadUpvar, RefUpvar
<1>5. ASSUME NEW n \in 1 .. MaxCaptured, NEW bound \in [1 .. n -> Sources], MakeClosure(bound)
      PROVE  VarInv'
  BY <1>5, MakeClosureVars DEF Bound
<1>6. ASSUME UNCHANGED vars \/ PushNew \/ Drop \/ Deref PROVE VarInv'
  BY <1>1, <1>6 DEF vars, machine, PushNew, Drop, Deref
<1> QED
  BY <1>2, <1>3, <1>4, <1>5, <1>6, RefPutVars, ReturnVars DEF Next

(* While moreover no "let" is executed in a slot that has moved to the     *)
(* heap, every variable has one home: its slot, or one heap entry that its *)
(* slot and the closures that captured it point to.                        *)
THEOREM OneHome == ASSUME ~Dangling, ~Rebinding PROVE Spec => [](FrameInv /\ VarInv)
<1>1. Init => FrameInv /\ VarInv
  BY FrameInit, VarInit
<1>2. FrameInv /\ VarInv /\ [Next]_vars => FrameInv' /\ VarInv'
  BY FrameNext, VarNext
<1> QED
  BY <1>1, <1>2, PTL DEF Spec

(* A local reads as the script's variable in its slot, however that was    *)
(* assigned.                                                               *)
THEOREM LocalsHold == ASSUME ~Dangling, ~Rebinding PROVE Spec => []LocalsHoldTheirVariable
<1>1. FrameInv /\ VarInv => LocalsHoldTheirVariable
  BY VarInvReads
<1> QED
  BY <1>1, OneHome, PTL

(* A closure reads the variables it captured, and no others. *)
THEOREM ClosuresHold == ASSUME ~Dangling, ~Rebinding PROVE Spec => []ClosuresHoldTheirVariables
<1>1. FrameInv /\ VarInv => ClosuresHoldTheirVariables
  BY VarInvReads
<1> QED
  BY <1>1, OneHome, PTL

(* A reference reads the variable it was made to while its frame lives. *)
THEOREM ReferencesReach ==
  ASSUME ~Dangling, ~Rebinding PROVE Spec => []ReferencesReachTheirVariable
<1>1. FrameInv /\ VarInv => ReferencesReachTheirVariable
  BY VarInvReferences
<1> QED
  BY <1>1, OneHome, PTL
===============================================================================
