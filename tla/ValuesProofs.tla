---------------------------- MODULE ValuesProofs ----------------------------
(***************************************************************************)
(* Proofs about Values.tla for every number of frames, slots, variables,   *)
(* items and constants, every base and every word length.  CountsSuffice   *)
(* is inductive as it stands; that operands keep their numbers needs what   *)
(* can lead to them besides (Orderly).  For both, arithmetic only gives new *)
(* bigints no count and writes to none that has one (Grown, Written).  What *)
(* it comes to is the last part: numbers are made of pieces (Tails), and    *)
(* those of a result are compared with those of the operands (Carried).     *)
(***************************************************************************)
EXTENDS Values, FiniteSetTheorems, SequenceTheorems, WellFoundedInduction, TLAPS

(* q is p after an operation on numbers: bigints are added that nobody      *)
(* counts, and one that somebody counts stays what it is.                   *)
Grown(p, q) ==
  /\ PoolOK(q)
  /\ DOMAIN p \subseteq DOMAIN q
  /\ \A k \in DOMAIN p : q[k].refcount = p[k].refcount
  /\ \A k \in DOMAIN p : p[k].refcount # 0 =>
        q[k].pieces = p[k].pieces /\ q[k].sign_bit = p[k].sign_bit
  /\ \A k \in DOMAIN q \ DOMAIN p : q[k].refcount = 0

-------------------------------------------------------------------------------
(* Pools.                                                                   *)

LEMMA PoolShape ==
  ASSUME NEW p, PoolOK(p)
  PROVE  /\ Len(p) \in Nat
         /\ DOMAIN p = 1 .. Len(p)
         /\ p = [k \in 1 .. Len(p) |-> p[k]]
         /\ \A k \in DOMAIN p : p[k].refcount \in Nat
BY DEF PoolOK

LEMMA PoolMade ==
  ASSUME NEW n \in Nat, NEW p, p = [k \in 1 .. n |-> p[k]],
         \A k \in 1 .. n : p[k] \in [refcount : Nat, sign_bit : BOOLEAN, pieces : {p[k].pieces}]
  PROVE  PoolOK(p) /\ DOMAIN p = 1 .. n /\ Len(p) = n
<1>1. DOMAIN p = 1 .. n
  OBVIOUS
<1> DEFINE S == {p[k] : k \in DOMAIN p}
<1>2. p \in [1 .. n -> S]
  BY <1>1
<1>3. p \in Seq(S) /\ Len(p) = n
  <2> HIDE DEF S
  <2> QED
    BY <1>2
<1> QED
  BY <1>1, <1>3 DEF PoolOK

LEMMA Shortened ==
  ASSUME NEW S, NEW s \in Seq(S), NEW n \in Nat, n <= Len(s)
  PROVE  SubSeq(s, 1, n) \in Seq(S) /\ Len(SubSeq(s, 1, n)) = n
<1>1. Len(SubSeq(s, 1, n)) = n
  OBVIOUS
<1>2. SubSeq(s, 1, n) \in Seq(S)
  OBVIOUS
<1> QED
  BY <1>1, <1>2

LEMMA GrownReflexive == ASSUME NEW p, PoolOK(p) PROVE Grown(p, p)
BY DEF Grown

LEMMA GrownTransitive ==
  ASSUME NEW p, NEW q, NEW r, Grown(p, q), Grown(q, r)
  PROVE  Grown(p, r)
BY DEF Grown

LEMMA HandleGrown ==
  ASSUME NEW p, NEW q, DOMAIN p \subseteq DOMAIN q
  PROVE  Handle(p) \subseteq Handle(q) /\ Content(p) \subseteq Content(q)
BY DEF Handle, Content

LEMMA NewBigint ==
  ASSUME NEW p, PoolOK(p), NEW ps, NEW s \in BOOLEAN
  PROVE  LET r == new_bigint(p, ps, s) IN Grown(p, r.bigs) /\ r.n \in Handle(r.bigs)
<1> DEFINE e == [refcount |-> 0, sign_bit |-> s, pieces |-> ps]
           q == Append(p, e)
           n == Len(p) + 1
<1>1. Len(p) \in Nat /\ DOMAIN p = 1 .. Len(p)
  BY PoolShape
<1>2. p \in Seq({p[k] : k \in DOMAIN p})
  BY DEF PoolOK
<1>3. q = [k \in 1 .. n |-> q[k]] /\ q[n] = e /\ \A k \in DOMAIN p : q[k] = p[k]
  BY <1>1, <1>2
<1>4. \A k \in 1 .. n : q[k] \in [refcount : Nat, sign_bit : BOOLEAN, pieces : {q[k].pieces}]
  <2> TAKE k \in 1 .. n
  <2>1. CASE k = n
    BY <1>3, <2>1
  <2>2. CASE k # n
    BY <1>1, <1>3, <2>2 DEF PoolOK
  <2> QED
    BY <2>1, <2>2
<1> HIDE DEF q
<1>5. PoolOK(q) /\ DOMAIN q = 1 .. n
  BY <1>1, <1>3, <1>4, PoolMade
<1>6. Grown(p, q)
  <2>1. DOMAIN p \subseteq DOMAIN q /\ DOMAIN q \ DOMAIN p = {n}
    BY <1>1, <1>5
  <2>2. q[n].refcount = 0
    BY <1>3
  <2> QED
    BY <1>3, <1>5, <2>1, <2>2 DEF Grown
<1>7. Big(n) \in Handle(q)
  BY <1>1, <1>5 DEF Handle, Big
<1> QED
  BY <1>6, <1>7 DEF new_bigint, Returned, q

LEMMA NewInteger ==
  ASSUME NEW p, PoolOK(p), NEW value \in Int
  PROVE  LET r == sbInteger_new(p, value) IN Grown(p, r.bigs) /\ r.n \in Handle(r.bigs)
<1>1. (value < 0) \in BOOLEAN
  OBVIOUS
<1>2. Small(value) \in Handle(p)
  BY DEF Small, Handle
<1>3. CASE sbInteger_new(p, value) = Returned(p, Small(value))
  BY <1>2, <1>3, GrownReflexive DEF Returned
<1>4. CASE \E ps : sbInteger_new(p, value) = new_bigint(p, ps, value < 0)
  BY <1>1, <1>4, NewBigint
<1> QED
  BY <1>3, <1>4 DEF sbInteger_new

LEMMA FinalizeBigint ==
  ASSUME NEW p, PoolOK(p), NEW a \in Handle(p), NEW b \in Handle(p), NEW ps
  PROVE  LET r == finalize_bigint(p, a, b, ps) IN Grown(p, r.bigs) /\ r.n \in Handle(r.bigs)
<1>1. \A h \in Handle(p) : Reusable(p, h) =>
        LET q == [p EXCEPT ![h.at].pieces = ps] IN Grown(p, q) /\ h \in Handle(q)
  <2> SUFFICES ASSUME NEW h \in Handle(p), Reusable(p, h)
               PROVE  LET q == [p EXCEPT ![h.at].pieces = ps] IN Grown(p, q) /\ h \in Handle(q)
    OBVIOUS
  <2> DEFINE q == [p EXCEPT ![h.at].pieces = ps]
             n == Len(p)
  <2>1. h.at \in DOMAIN p /\ p[h.at].refcount = 0
    BY DEF Reusable, is_bigint, Handle
  <2>2. n \in Nat /\ DOMAIN p = 1 .. n /\ p = [k \in 1 .. n |-> p[k]]
    BY PoolShape
  <2>3. q = [k \in 1 .. n |-> q[k]]
    BY <2>2
  <2>4. \A k \in 1 .. n : k # h.at => q[k] = p[k]
    BY <2>2
  <2>5. q[h.at] = [p[h.at] EXCEPT !.pieces = ps]
    BY <2>1, <2>2
  <2>6. \A k \in 1 .. n : p[k] \in [refcount : Nat, sign_bit : BOOLEAN, pieces : {p[k].pieces}]
    BY <2>2 DEF PoolOK
  <2>7. q[h.at] = [refcount |-> 0, sign_bit |-> p[h.at].sign_bit, pieces |-> ps]
    BY <2>1, <2>2, <2>5, <2>6
  <2> HIDE DEF q
  <2>8. \A k \in 1 .. n : q[k] \in [refcount : Nat, sign_bit : BOOLEAN, pieces : {q[k].pieces}]
    <3> TAKE k \in 1 .. n
    <3>1. CASE k = h.at
      BY <2>1, <2>2, <2>6, <2>7, <3>1
    <3>2. CASE k # h.at
      BY <2>4, <2>6, <3>2
    <3> QED
      BY <3>1, <3>2
  <2>9. PoolOK(q) /\ DOMAIN q = DOMAIN p
    BY <2>2, <2>3, <2>8, PoolMade
  <2>10. \A k \in DOMAIN p : q[k].refcount = p[k].refcount
    BY <2>1, <2>2, <2>4, <2>7
  <2>11. \A k \in DOMAIN p : p[k].refcount # 0 => q[k] = p[k]
    BY <2>1, <2>2, <2>4
  <2>12. Grown(p, q)
    BY <2>9, <2>10, <2>11 DEF Grown
  <2> QED
    BY <2>9, <2>12 DEF Handle, q
<1>2. FALSE \in BOOLEAN
  OBVIOUS
<1>3. CASE Reusable(p, a)
  BY <1>1, <1>3 DEF finalize_bigint, Returned
<1>4. CASE ~Reusable(p, a) /\ Reusable(p, b)
  BY <1>1, <1>4 DEF finalize_bigint, Returned
<1>5. CASE ~Reusable(p, a) /\ ~Reusable(p, b)
  BY <1>2, <1>5, NewBigint DEF finalize_bigint
<1> QED
  BY <1>3, <1>4, <1>5

LEMMA Operation ==
  ASSUME NEW p, PoolOK(p), NEW a \in Handle(p), NEW b \in Handle(p)
  PROVE  /\ LET r == sbInteger_sum(p, a, b) IN Grown(p, r.bigs) /\ r.n \in Handle(r.bigs)
         /\ CanDiff(a, b) =>
              LET r == sbInteger_diff(p, a, b) IN Grown(p, r.bigs) /\ r.n \in Handle(r.bigs)
         /\ LET r == sbInteger_mul(p, a, b) IN Grown(p, r.bigs) /\ r.n \in Handle(r.bigs)
<1>1. \A h \in Handle(p) : ~is_bigint(h) => h.i \in Int
  BY DEF Handle, is_bigint
<1>2. LET r == sbInteger_sum(p, a, b) IN Grown(p, r.bigs) /\ r.n \in Handle(r.bigs)
  <2>1. CASE is_bigint(a) \/ is_bigint(b)
    BY <2>1, FinalizeBigint DEF sbInteger_sum
  <2>2. CASE ~(is_bigint(a) \/ is_bigint(b))
    <3>1. a.i + b.i \in Int
      BY <1>1, <2>2
    <3> QED
      BY <2>2, <3>1, NewInteger DEF sbInteger_sum
  <2> QED
    BY <2>1, <2>2
<1>3. CanDiff(a, b) =>
        LET r == sbInteger_diff(p, a, b) IN Grown(p, r.bigs) /\ r.n \in Handle(r.bigs)
  <2> HAVE CanDiff(a, b)
  <2>1. a.i - b.i \in Int
    BY <1>1 DEF CanDiff
  <2> QED
    BY <2>1, NewInteger DEF sbInteger_diff
<1>4. LET r == sbInteger_mul(p, a, b) IN Grown(p, r.bigs) /\ r.n \in Handle(r.bigs)
  <2>1. CASE IsSmallProduct(a, b)
    <3>1. a.i * b.i \in Int
      BY <1>1, <2>1 DEF IsSmallProduct
    <3> QED
      BY <2>1, <3>1, NewInteger DEF sbInteger_mul
  <2>2. CASE ~IsSmallProduct(a, b)
    BY <2>2, FinalizeBigint DEF sbInteger_mul
  <2> QED
    BY <2>1, <2>2
<1> QED
  BY <1>2, <1>3, <1>4

-------------------------------------------------------------------------------
(* Counts.                                                                   *)

HeapVars == {HeapVar(b) : b \in Boxes}
Helds(p) == [Holders -> Content(p) \cup HeapVars]
Holding(hd, k) == {h \in Holders : hd[h] = Big(k)}
CountedIn(p, hd) == \A k \in DOMAIN p : Cardinality(Holding(hd, k)) <= p[k].refcount

\* The same numbers, whatever their counts.
SameNumbers(p, q) ==
  /\ PoolOK(q)
  /\ DOMAIN q = DOMAIN p
  /\ \A k \in DOMAIN p : q[k].pieces = p[k].pieces /\ q[k].sign_bit = p[k].sign_bit

LEMMA HoldersFinite == IsFiniteSet(Holders)
<1>1. IsFiniteSet(1 .. MaxDepth)
  BY BoundsAssumption, FS_Interval
<1>2. IsFiniteSet(Locals)
  BY <1>1, FiniteAssumption, FS_Product DEF Locals
<1> QED
  BY <1>2, FiniteAssumption, FS_Union DEF Holders

LEMMA HoldingFinite ==
  ASSUME NEW hd, NEW k
  PROVE  IsFiniteSet(Holding(hd, k)) /\ Cardinality(Holding(hd, k)) \in Nat
BY HoldersFinite, FS_Subset, FS_CardinalityType DEF Holding

LEMMA BigHandle ==
  ASSUME NEW p, NEW v \in Content(p) \cup HeapVars
  PROVE  /\ is_bigint(v) => v.at \in DOMAIN p /\ v = Big(v.at) /\ v \in Handle(p)
         /\ \A k : v = Big(k) => is_bigint(v) /\ v.at = k
BY DEF Content, Handle, HeapVars, HeapVar, NOTHING, is_bigint, Big

LEMMA HeldIsCounted ==
  ASSUME NEW p, PoolOK(p), NEW hd \in Helds(p), CountedIn(p, hd), NEW h \in Holders, is_bigint(hd[h])
  PROVE  p[hd[h].at].refcount > 0
<1> DEFINE k == hd[h].at
           S == Holding(hd, k)
<1>1. k \in DOMAIN p /\ hd[h] = Big(k)
  BY BigHandle DEF Helds
<1>2. h \in S
  BY <1>1 DEF Holding
<1>3. Cardinality(S) # 0
  BY <1>2, HoldingFinite, FS_EmptySet
<1>4. Cardinality(S) \in Nat /\ p[k].refcount \in Nat /\ Cardinality(S) <= p[k].refcount
  BY <1>1, HoldingFinite, PoolShape DEF CountedIn
<1> QED
  BY <1>3, <1>4

LEMMA CountingEffect ==
  ASSUME NEW p, PoolOK(p), NEW n \in Content(p) \cup HeapVars, NEW by \in Int,
         is_bigint(n) => p[n.at].refcount + by >= 0
  PROVE  LET q == Counting(p, n, by) IN
         /\ SameNumbers(p, q)
         /\ \A k \in DOMAIN p : q[k].refcount = p[k].refcount + IF n = Big(k) THEN by ELSE 0
<1> DEFINE q == Counting(p, n, by)
           l == Len(p)
<1>1. l \in Nat /\ DOMAIN p = 1 .. l /\ p = [k \in 1 .. l |-> p[k]]
  BY PoolShape
<1>2. \A k \in 1 .. l : p[k] \in [refcount : Nat, sign_bit : BOOLEAN, pieces : {p[k].pieces}]
  BY <1>1 DEF PoolOK
<1>3. CASE ~is_bigint(n)
  <2>1. q = p
    BY <1>3 DEF Counting
  <2>2. \A k : n # Big(k)
    BY <1>3, BigHandle
  <2>3. \A k \in DOMAIN p : p[k].refcount + 0 = p[k].refcount
    BY PoolShape
  <2> QED
    BY <2>1, <2>2, <2>3 DEF SameNumbers
<1>4. CASE is_bigint(n)
  <2> DEFINE at == n.at
             e == [p[at] EXCEPT !.refcount = p[at].refcount + by]
  <2>1. at \in DOMAIN p /\ n = Big(at)
    BY <1>4, BigHandle
  <2>2. q = [p EXCEPT ![at] = e]
    BY <1>4 DEF Counting
  <2>3. q = [k \in 1 .. l |-> q[k]] /\ q[at] = e /\ \A k \in 1 .. l : k # at => q[k] = p[k]
    BY <1>1, <2>1, <2>2
  <2>4. p[at].refcount + by \in Nat
    BY <1>1, <1>2, <1>4, <2>1
  <2>5. e = [refcount |-> p[at].refcount + by, sign_bit |-> p[at].sign_bit, pieces |-> p[at].pieces]
    BY <1>1, <1>2, <2>1
  <2> HIDE DEF e, q
  <2>6. \A k \in 1 .. l : q[k] \in [refcount : Nat, sign_bit : BOOLEAN, pieces : {q[k].pieces}]
    <3> TAKE k \in 1 .. l
    <3>1. CASE k = at
      BY <1>2, <2>3, <2>4, <2>5, <3>1
    <3>2. CASE k # at
      BY <1>2, <2>3, <3>2
    <3> QED
      BY <3>1, <3>2
  <2>7. PoolOK(q) /\ DOMAIN q = DOMAIN p
    BY <1>1, <2>3, <2>6, PoolMade
  <2>8. \A k \in DOMAIN p : q[k].pieces = p[k].pieces /\ q[k].sign_bit = p[k].sign_bit
    BY <1>1, <2>3, <2>5
  <2>9. \A k \in DOMAIN p : n = Big(k) <=> k = at
    BY <2>1 DEF Big
  <2>10. \A k \in DOMAIN p : q[k].refcount = p[k].refcount + IF n = Big(k) THEN by ELSE 0
    BY <1>1, <1>2, <2>3, <2>5, <2>9
  <2> QED
    BY <2>7, <2>8, <2>10 DEF SameNumbers, q
<1> QED
  BY <1>3, <1>4

\* Bigints that are new are held by nothing.
LEMMA GrownCounted ==
  ASSUME NEW p, NEW q, Grown(p, q), NEW hd \in Helds(p), CountedIn(p, hd)
  PROVE  hd \in Helds(q) /\ CountedIn(q, hd)
<1>1. hd \in Helds(q)
  BY HandleGrown DEF Grown, Helds
<1>2. \A k \in DOMAIN q \ DOMAIN p : Holding(hd, k) = {}
  BY BigHandle DEF Holding, Helds
<1>3. CountedIn(q, hd)
  <2> SUFFICES ASSUME NEW k \in DOMAIN q PROVE Cardinality(Holding(hd, k)) <= q[k].refcount
    BY DEF CountedIn
  <2>1. CASE k \in DOMAIN p
    BY <2>1 DEF CountedIn, Grown
  <2>2. CASE k \notin DOMAIN p
    <3>1. Cardinality(Holding(hd, k)) = 0
      BY <1>2, <2>2, FS_EmptySet
    <3> QED
      BY <2>2, <3>1 DEF Grown
  <2> QED
    BY <2>1, <2>2
<1> QED
  BY <1>1, <1>3

\* What is put somewhere needs a count more, and what was there one less.
LEMMA PutCounted ==
  ASSUME NEW p, PoolOK(p), NEW hd \in Helds(p), CountedIn(p, hd),
         NEW place \in Holders, NEW v \in Handle(p),
         NEW q, SameNumbers(p, q),
         \A k \in DOMAIN p : q[k].refcount >= p[k].refcount - (IF hd[place] = Big(k) THEN 1 ELSE 0)
                                                          + (IF v = Big(k) THEN 1 ELSE 0)
  PROVE  CountedIn(q, [hd EXCEPT ![place] = v])
<1> DEFINE new == [hd EXCEPT ![place] = v]
<1> SUFFICES ASSUME NEW k \in DOMAIN p PROVE Cardinality(Holding(new, k)) <= q[k].refcount
  BY DEF CountedIn, SameNumbers
<1> DEFINE S == Holding(hd, k)
           R == S \ {place}
<1>1. /\ Cardinality(S) \in Nat /\ p[k].refcount \in Nat /\ q[k].refcount \in Nat
      /\ Cardinality(S) <= p[k].refcount
  BY HoldingFinite, PoolShape DEF CountedIn, SameNumbers
<1>2. /\ IsFiniteSet(R)
      /\ Cardinality(R) = Cardinality(S) - (IF hd[place] = Big(k) THEN 1 ELSE 0)
  <2>1. place \in S <=> hd[place] = Big(k)
    BY DEF Holding
  <2> HIDE DEF S
  <2>2. IsFiniteSet(S)
    BY HoldingFinite DEF S
  <2>3. /\ IsFiniteSet(S \ {place})
        /\ Cardinality(S \ {place}) = IF place \in S THEN Cardinality(S) - 1 ELSE Cardinality(S)
    BY <2>2, FS_RemoveElement
  <2>4. CASE hd[place] = Big(k)
    BY <1>1, <2>1, <2>3, <2>4
  <2>5. CASE hd[place] # Big(k)
    BY <1>1, <2>1, <2>3, <2>5
  <2> QED
    BY <2>4, <2>5
<1>3. \A h \in Holders : new[h] = IF h = place THEN v ELSE hd[h]
  BY DEF Helds
<1>4. place \notin R
  OBVIOUS
<1>5. CASE v = Big(k)
  <2>1. Holding(new, k) = R \cup {place}
    BY <1>3, <1>5 DEF Holding
  <2>2. Cardinality(R \cup {place}) = Cardinality(R) + 1
    <3> HIDE DEF R
    <3> QED
      BY <1>2, <1>4, FS_AddElement
  <2> HIDE DEF R, S, new
  <2> QED
    BY <1>1, <1>2, <1>5, <2>1, <2>2
<1>6. CASE v # Big(k)
  <2>1. Holding(new, k) = R
    BY <1>3, <1>6 DEF Holding
  <2> HIDE DEF R, S, new
  <2> QED
    BY <1>1, <1>2, <1>6, <2>1
<1> QED
  BY <1>5, <1>6

\* What was there is released, unless the code looks at a pointer instead.
LEMMA SetEffect ==
  ASSUME NEW p, PoolOK(p), NEW hd \in Helds(p), CountedIn(p, hd),
         NEW place \in Holders, NEW v \in Handle(p), NEW old \in Content(p) \cup HeapVars,
         old = hd[place] \/ ~is_bigint(old)
  PROVE  LET q == sbInteger_retain(sbInteger_release(p, old), v) IN
         /\ SameNumbers(p, q)
         /\ \A k \in DOMAIN p : q[k].refcount = p[k].refcount - (IF old = Big(k) THEN 1 ELSE 0)
                                                             + (IF v = Big(k) THEN 1 ELSE 0)
<1> DEFINE r == sbInteger_release(p, old)
           q == sbInteger_retain(r, v)
<1>1. is_bigint(old) => p[old.at].refcount - 1 >= 0
  <2> HAVE is_bigint(old)
  <2>1. old = hd[place] /\ old.at \in DOMAIN p
    BY BigHandle
  <2>2. p[old.at].refcount > 0 /\ p[old.at].refcount \in Nat
    BY <2>1, HeldIsCounted, PoolShape
  <2> QED
    BY <2>2
<1>2. /\ SameNumbers(p, r)
      /\ \A k \in DOMAIN p : r[k].refcount = p[k].refcount - IF old = Big(k) THEN 1 ELSE 0
  <2>1. is_bigint(old) => p[old.at].refcount + (-1) >= 0
    <3>1. is_bigint(old) => p[old.at].refcount \in Nat
      BY BigHandle, PoolShape
    <3> QED
      BY <1>1, <3>1
  <2>2. /\ SameNumbers(p, r)
        /\ \A k \in DOMAIN p : r[k].refcount = p[k].refcount + IF old = Big(k) THEN -1 ELSE 0
    BY <2>1, CountingEffect DEF sbInteger_release
  <2>3. \A k \in DOMAIN p : p[k].refcount \in Nat
    BY PoolShape
  <2> HIDE DEF r
  <2> QED
    BY <2>2, <2>3
<1> HIDE DEF r
<1>3. PoolOK(r) /\ DOMAIN r = DOMAIN p
  BY <1>2 DEF SameNumbers
<1>4. v \in Handle(r)
  BY <1>3 DEF Handle
<1>5. is_bigint(v) => r[v.at].refcount + 1 >= 0
  <2>1. is_bigint(v) => r[v.at].refcount \in Nat
    BY <1>3, <1>4, BigHandle, PoolShape DEF Content
  <2> QED
    BY <2>1
<1>6. /\ SameNumbers(r, q)
      /\ \A k \in DOMAIN r : q[k].refcount = r[k].refcount + IF v = Big(k) THEN 1 ELSE 0
  BY <1>3, <1>4, <1>5, CountingEffect DEF sbInteger_retain, Content
<1> HIDE DEF q
<1>7. SameNumbers(p, q)
  BY <1>2, <1>6 DEF SameNumbers
<1>8. \A k \in DOMAIN p : q[k].refcount = p[k].refcount - (IF old = Big(k) THEN 1 ELSE 0)
                                                       + (IF v = Big(k) THEN 1 ELSE 0)
  <2> TAKE k \in DOMAIN p
  <2>1. p[k].refcount \in Nat /\ r[k].refcount \in Nat
    BY <1>3, PoolShape
  <2> QED
    BY <1>2, <1>3, <1>6, <2>1
<1> QED
  BY <1>7, <1>8 DEF q, r

LEMMA SetCounted ==
  ASSUME NEW p, PoolOK(p), NEW hd \in Helds(p), CountedIn(p, hd),
         NEW place \in Holders, NEW v \in Handle(p), NEW old \in Content(p) \cup HeapVars,
         old = hd[place] \/ ~is_bigint(old)
  PROVE  LET q == sbInteger_retain(sbInteger_release(p, old), v) IN
         SameNumbers(p, q) /\ CountedIn(q, [hd EXCEPT ![place] = v])
<1> DEFINE q == sbInteger_retain(sbInteger_release(p, old), v)
<1>1. /\ SameNumbers(p, q)
      /\ \A k \in DOMAIN p : q[k].refcount = p[k].refcount - (IF old = Big(k) THEN 1 ELSE 0)
                                                          + (IF v = Big(k) THEN 1 ELSE 0)
  BY SetEffect
<1> HIDE DEF q
<1>2. \A k \in DOMAIN p : old = Big(k) => hd[place] = Big(k)
  BY BigHandle
<1>3. \A k \in DOMAIN p : q[k].refcount >= p[k].refcount - (IF hd[place] = Big(k) THEN 1 ELSE 0)
                                                        + (IF v = Big(k) THEN 1 ELSE 0)
  <2> TAKE k \in DOMAIN p
  <2>1. p[k].refcount \in Nat /\ q[k].refcount \in Nat
    BY <1>1, PoolShape DEF SameNumbers
  <2> QED
    BY <1>1, <1>2, <2>1
<1>4. CountedIn(q, [hd EXCEPT ![place] = v])
  BY <1>1, <1>3, PutCounted
<1> QED
  BY <1>1, <1>4 DEF q

\* Where nothing was, nothing is released.
LEMMA FilledCounted ==
  ASSUME NEW p, PoolOK(p), NEW hd \in Helds(p), CountedIn(p, hd),
         NEW place \in Holders, NEW v \in Handle(p), hd[place] = NOTHING
  PROVE  LET q == sbInteger_retain(p, v) IN
         SameNumbers(p, q) /\ CountedIn(q, [hd EXCEPT ![place] = v])
<1>1. ~is_bigint(NOTHING) /\ NOTHING \in Content(p)
  BY DEF is_bigint, NOTHING, Content
<1>2. sbInteger_release(p, NOTHING) = p
  BY <1>1 DEF sbInteger_release, Counting
<1> QED
  BY <1>1, <1>2, SetCounted

\* The end of a frame: its locals are released and hold nothing any more.
Gone(hd, F, k) == {h \in F : hd[h] = Big(k)}
Uncounted(p, q, hd, F) ==
  /\ q = [k \in 1 .. Len(p) |-> q[k]]
  /\ \A k \in DOMAIN p : q[k] = [p[k] EXCEPT !.refcount = @ - Cardinality(Gone(hd, F, k))]
Emptied(hd, new, F) == \A h \in Holders : new[h] = IF h \in F THEN NOTHING ELSE hd[h]
LEMMA ReleasedCounted ==
  ASSUME NEW p, PoolOK(p), NEW hd \in Helds(p), CountedIn(p, hd), NEW F \in SUBSET Holders,
         NEW q, Uncounted(p, q, hd, F), NEW new, Emptied(hd, new, F)
  PROVE  SameNumbers(p, q) /\ CountedIn(q, new)
<1> DEFINE n == Len(p)
<1>1. n \in Nat /\ DOMAIN p = 1 .. n
  BY PoolShape
<1>2. \A k \in 1 .. n : p[k] \in [refcount : Nat, sign_bit : BOOLEAN, pieces : {p[k].pieces}]
  BY <1>1 DEF PoolOK
<1>3. \A k \in DOMAIN p :
        /\ p[k].refcount - Cardinality(Gone(hd, F, k)) \in Nat
        /\ Cardinality(Holding(new, k)) <= p[k].refcount - Cardinality(Gone(hd, F, k))
  <2> TAKE k \in DOMAIN p
  <2> DEFINE S == Holding(hd, k)
             T == Gone(hd, F, k)
  <2>1. T \subseteq S /\ Holding(new, k) = S \ T
    <3>1. Big(k) # NOTHING
      BY DEF Big, NOTHING
    <3> QED
      BY <3>1 DEF Holding, Gone, Emptied
  <2>2. IsFiniteSet(S) /\ Cardinality(S) \in Nat /\ p[k].refcount \in Nat /\ Cardinality(S) <= p[k].refcount
    BY HoldingFinite, PoolShape DEF CountedIn
  <2> HIDE DEF S, T
  <2>3. Cardinality(S \ T) = Cardinality(S) - Cardinality(S \cap T) /\ S \cap T = T
    BY <2>1, <2>2, FS_Difference
  <2>4. IsFiniteSet(T) /\ Cardinality(T) \in Nat /\ Cardinality(T) <= Cardinality(S)
    BY <2>1, <2>2, FS_Subset, FS_CardinalityType
  <2>5. /\ p[k].refcount - Cardinality(T) \in Nat
        /\ Cardinality(S) - Cardinality(T) <= p[k].refcount - Cardinality(T)
    BY <2>2, <2>4
  <2>6. Cardinality(Holding(new, k)) = Cardinality(S) - Cardinality(T)
    BY <2>1, <2>3
  <2> QED
    BY <2>5, <2>6 DEF T
<1>4. \A k \in 1 .. n :
        /\ q[k] = [refcount |-> p[k].refcount - Cardinality(Gone(hd, F, k)), sign_bit |-> p[k].sign_bit, pieces |-> p[k].pieces]
        /\ p[k].sign_bit \in BOOLEAN
  BY <1>1, <1>2 DEF Uncounted
<1>5. \A k \in 1 .. n : q[k] \in [refcount : Nat, sign_bit : BOOLEAN, pieces : {q[k].pieces}]
  <2> TAKE k \in 1 .. n
  <2> DEFINE c == p[k].refcount - Cardinality(Gone(hd, F, k))
  <2>1. c \in Nat
    BY <1>1, <1>3
  <2>2. q[k] = [refcount |-> c, sign_bit |-> p[k].sign_bit, pieces |-> p[k].pieces] /\ p[k].sign_bit \in BOOLEAN
    BY <1>4
  <2> HIDE DEF c
  <2> QED
    BY <2>1, <2>2
<1>6. PoolOK(q) /\ DOMAIN q = DOMAIN p
  <2>1. q = [k \in 1 .. n |-> q[k]]
    BY DEF Uncounted
  <2> QED
    BY <1>1, <1>5, <2>1, PoolMade
<1>7. SameNumbers(p, q)
  BY <1>1, <1>4, <1>6 DEF SameNumbers
<1>8. CountedIn(q, new)
  BY <1>1, <1>3, <1>4, <1>6 DEF CountedIn
<1> QED
  BY <1>7, <1>8

-------------------------------------------------------------------------------
(* Steps.  An action keeps the invariant, and either it computes and numbers *)
(* grow with it, or it only counts.                                          *)

Computes == Sum \/ Diff \/ Mul \/ ReadDigit
Moderate == SameNumbers(bigs, bigs') \/ (Computes /\ Grown(bigs, bigs'))
Kept     == CountsSuffice' /\ Moderate

\* What the actions leave alone most of the time.
Rest ==
  /\ bases \in Seq(Nat) /\ Len(bases) <= MaxDepth
  /\ reading \in [left : Seq(0 .. BASE - 1), n : Handle(bigs), said : Nat]
  /\ status \in {"compiling", "running", "stopped", "panic"} /\ disturbed \in BOOLEAN
Holds == held \in Helds(bigs) /\ \A b \in Boxes : held[b] \in Content(bigs)

LEMMA InvParts ==
  CountsSuffice <=> PoolOK(bigs) /\ Holds /\ stack \in Seq(Handle(bigs)) /\ Rest /\ CountedIn(bigs, held)
<1>1. Counted <=> CountedIn(bigs, held)
  BY DEF Counted, CountedIn, HoldersOf, Holding
<1>2. TypeOK <=> PoolOK(bigs) /\ Holds /\ stack \in Seq(Handle(bigs)) /\ Rest
  BY DEF TypeOK, Holds, Rest, Helds, HeapVars
<1> QED
  BY <1>1, <1>2 DEF CountsSuffice

LEMMA InvPartsNext ==
  CountsSuffice' <=> (PoolOK(bigs) /\ Holds /\ stack \in Seq(Handle(bigs)) /\ Rest /\ CountedIn(bigs, held))'
BY InvParts, PTL

LEMMA BottomType == ASSUME Rest PROVE Bottom \in Nat /\ Depth \in Nat
BY DEF Rest, Bottom, Depth

\* With n operands the top ones are handles, and so are those below.
LEMMA OnTop ==
  ASSUME CountsSuffice, NEW n \in {1, 2}, Operands(n)
  PROVE  /\ Len(stack) \in Nat /\ Len(stack) >= n
         /\ \A k \in 0 .. n - 1 : Peek(k) \in Handle(bigs)
         /\ Popped(n) \in Seq(Handle(bigs))
<1>1. stack \in Seq(Handle(bigs)) /\ Bottom \in Nat
  BY InvParts, BottomType
<1>2. Len(stack) \in Nat /\ Len(stack) >= n
  BY <1>1 DEF Operands
<1>3. \A k \in 1 .. Len(stack) : stack[k] \in Handle(bigs)
  BY <1>1
<1>4. \A k \in 0 .. n - 1 : Peek(k) \in Handle(bigs)
  BY <1>2, <1>3 DEF Peek
<1>5. Popped(n) \in Seq(Handle(bigs))
  BY <1>1, <1>2 DEF Popped
<1> QED
  BY <1>2, <1>4, <1>5

LEMMA SameHandles ==
  ASSUME NEW p, NEW q, SameNumbers(p, q)
  PROVE  Handle(q) = Handle(p) /\ Content(q) = Content(p) /\ Helds(q) = Helds(p)
BY DEF SameNumbers, Handle, Content, Helds

\* A step that leaves pool and holders alone.
LEMMA StillStep ==
  ASSUME CountsSuffice, UNCHANGED <<bigs, held>>,
         (stack \in Seq(Handle(bigs)))', Rest'
  PROVE  Kept
<1>1. PoolOK(bigs)' /\ Holds' /\ CountedIn(bigs, held)'
  BY InvParts DEF Holds
<1>2. CountsSuffice'
  BY <1>1, InvPartsNext
<1>3. SameNumbers(bigs, bigs')
  BY InvParts DEF SameNumbers
<1> QED
  BY <1>2, <1>3 DEF Kept, Moderate

LEMMA InitInv == Init => CountsSuffice
<1> SUFFICES ASSUME Init PROVE CountsSuffice
  OBVIOUS
<1>1. bigs = <<>> /\ DOMAIN bigs = {} /\ PoolOK(bigs)
  BY DEF Init, PoolOK
<1>2. Holds
  BY DEF Init, Holds, Helds, Content, NOTHING, Holders
<1>3. stack \in Seq(Handle(bigs))
  BY DEF Init
<1>4. Rest
  <2>1. Small(0) \in Handle(bigs)
    BY DEF Small, Handle
  <2>2. bases \in Seq(Nat) /\ Len(bases) <= MaxDepth
    BY BoundsAssumption DEF Init
  <2>3. <<>> \in Seq(0 .. BASE - 1) /\ 0 \in Nat
    OBVIOUS
  <2>4. reading \in [left : Seq(0 .. BASE - 1), n : Handle(bigs), said : Nat]
    BY <2>1, <2>3 DEF Init, Idle
  <2>5. status \in {"compiling", "running", "stopped", "panic"} /\ disturbed \in BOOLEAN
    BY DEF Init
  <2> QED
    BY <2>2, <2>4, <2>5 DEF Rest
<1>5. CountedIn(bigs, held)
  BY <1>1 DEF CountedIn
<1> QED
  BY <1>1, <1>2, <1>3, <1>4, <1>5, InvParts

-------------------------------------------------------------------------------
(* Actions that leave pool and holders alone.                                *)

LEMMA ReadStep == ASSUME CountsSuffice, NEW literal \in Literals, Read(literal) PROVE Kept
<1>1. PoolOK(bigs) /\ stack \in Seq(Handle(bigs)) /\ Rest
  BY InvParts
<1>2. UNCHANGED <<bigs, held, stack, bases, status, disturbed>> /\ reading' = [Idle EXCEPT !.left = literal]
  BY DEF Read
<1>3. reading' = [left |-> literal, n |-> Small(0), said |-> 0]
  BY <1>2 DEF Idle
<1>4. literal \in Seq(0 .. BASE - 1) /\ Small(0) \in Handle(bigs)
  BY LiteralAssumption DEF Small, Handle
<1>5. reading' \in [left : Seq(0 .. BASE - 1), n : Handle(bigs), said : Nat]
  BY <1>3, <1>4
<1>6. Rest' /\ (stack \in Seq(Handle(bigs)))'
  BY <1>1, <1>2, <1>5 DEF Rest
<1> QED
  BY <1>2, <1>6, StillStep

LEMMA StartStep == ASSUME CountsSuffice, Start PROVE Kept
<1>1. stack \in Seq(Handle(bigs)) /\ Rest
  BY InvParts
<1>2. UNCHANGED <<bigs, held, stack, reading, disturbed>> /\ bases' = <<0>> /\ status' = "running"
  BY DEF Start
<1>3. bases' \in Seq(Nat) /\ Len(bases') <= MaxDepth
  BY <1>2, BoundsAssumption
<1>4. Rest' /\ (stack \in Seq(Handle(bigs)))'
  BY <1>1, <1>2, <1>3 DEF Rest
<1> QED
  BY <1>2, <1>4, StillStep

LEMMA LoadStep == ASSUME CountsSuffice, NEW h \in Holders, Load(h) PROVE Kept
<1>1. stack \in Seq(Handle(bigs)) /\ Rest /\ Holds
  BY InvParts
<1>2. /\ UNCHANGED <<bigs, held, bases, reading, status, disturbed>>
      /\ stack' = Append(stack, sbVar_get_value(h)) /\ IsNumber(sbVar_get_value(h))
  BY DEF Load
<1>3. PlaceOf(h) \in Holders
  BY <1>1 DEF PlaceOf, Holds, Helds, Content, Handle, NOTHING, HeapVars, HeapVar, Holders
<1>4. sbVar_get_value(h) \in Content(bigs) \cup HeapVars
  BY <1>1, <1>3 DEF sbVar_get_value, Holds, Helds
<1>5. sbVar_get_value(h) \in Handle(bigs)
  BY <1>2, <1>4 DEF IsNumber, Content, NOTHING, HeapVars, HeapVar
<1>6. (stack \in Seq(Handle(bigs)))'
  BY <1>1, <1>2, <1>5
<1>7. Rest'
  BY <1>1, <1>2 DEF Rest
<1> QED
  BY <1>2, <1>6, <1>7, StillStep

LEMMA PopStep == ASSUME CountsSuffice, Pop PROVE Kept
<1>1. Rest /\ Popped(1) \in Seq(Handle(bigs))
  BY InvParts, OnTop DEF Pop
<1>2. UNCHANGED <<bigs, held, bases, reading, status>> /\ stack' = Popped(1) /\ Disturb(FALSE)
  BY DEF Pop
<1>3. disturbed' \in BOOLEAN
  BY <1>1, <1>2 DEF Disturb, Rest
<1>4. Rest' /\ (stack \in Seq(Handle(bigs)))'
  BY <1>1, <1>2, <1>3 DEF Rest
<1> QED
  BY <1>2, <1>4, StillStep

LEMMA FailStep == ASSUME CountsSuffice, Fail PROVE Kept
<1>1. stack \in Seq(Handle(bigs)) /\ Rest
  BY InvParts
<1>2. Rest' /\ (stack \in Seq(Handle(bigs)))'
  BY <1>1 DEF Fail, Rest
<1> QED
  BY <1>2, StillStep DEF Fail

LEMMA CallStep == ASSUME CountsSuffice, NEW n \in 0 .. 1, Call(n) PROVE Kept
<1>1. stack \in Seq(Handle(bigs)) /\ Rest /\ Bottom \in Nat
  BY InvParts, BottomType
<1>2. /\ UNCHANGED <<bigs, held, stack, reading, status, disturbed>>
      /\ bases' = Append(bases, Len(stack) - n) /\ Len(bases) < MaxDepth /\ Len(stack) >= Bottom + n
  BY DEF Call, Depth, Operands
<1>3. bases' \in Seq(Nat) /\ Len(bases') <= MaxDepth
  <2>1. Len(stack) - n \in Nat /\ Len(bases) \in Nat /\ bases \in Seq(Nat)
    BY <1>1, <1>2 DEF Rest
  <2>2. bases' \in Seq(Nat) /\ Len(bases') = Len(bases) + 1
    BY <1>2, <2>1
  <2> QED
    BY <1>2, <2>1, <2>2, BoundsAssumption
<1>4. Rest' /\ (stack \in Seq(Handle(bigs)))'
  BY <1>1, <1>2, <1>3 DEF Rest
<1> QED
  BY <1>2, <1>4, StillStep

-------------------------------------------------------------------------------
(* Actions that compute.                                                     *)

LEMMA GrowStep ==
  ASSUME CountsSuffice, Computes, Grown(bigs, bigs'), UNCHANGED held,
         (stack \in Seq(Handle(bigs)))', Rest'
  PROVE  Kept
<1>1. Holds /\ CountedIn(bigs, held)
  BY InvParts
<1>2. held \in Helds(bigs') /\ CountedIn(bigs', held)
  BY <1>1, GrownCounted DEF Holds
<1>3. \A b \in Boxes : held[b] \in Content(bigs')
  BY <1>1, HandleGrown DEF Holds, Grown
<1>4. Holds' /\ CountedIn(bigs, held)'
  BY <1>2, <1>3 DEF Holds
<1>5. PoolOK(bigs')
  BY DEF Grown
<1> QED
  BY <1>4, <1>5, InvPartsNext DEF Kept, Moderate

LEMMA SeqGrown ==
  ASSUME NEW p, NEW q, Grown(p, q), NEW s \in Seq(Handle(p))
  PROVE  s \in Seq(Handle(q))
BY HandleGrown DEF Grown

LEMMA OperateStep ==
  ASSUME CountsSuffice, Computes, Operands(2),
         NEW r, Grown(bigs, r.bigs), r.n \in Handle(r.bigs), Operate(r)
  PROVE  Kept
<1>1. Popped(2) \in Seq(Handle(bigs)) /\ Rest
  BY OnTop, InvParts
<1>2. /\ bigs' = r.bigs /\ stack' = Append(Popped(2), r.n)
      /\ UNCHANGED <<held, bases, reading, status, disturbed>>
  BY DEF Operate, Pushed
<1>3. (stack \in Seq(Handle(bigs)))'
  <2>1. Popped(2) \in Seq(Handle(r.bigs))
    BY <1>1, SeqGrown
  <2>2. stack' \in Seq(Handle(r.bigs))
    BY <1>2, <2>1
  <2> QED
    BY <1>2, <2>2
<1>4. Handle(bigs) \subseteq Handle(bigs')
  BY <1>2, HandleGrown DEF Grown
<1>5. Rest'
  BY <1>1, <1>2, <1>4 DEF Rest
<1> QED
  BY <1>2, <1>3, <1>5, GrowStep

LEMMA ArithmeticStep == ASSUME CountsSuffice, Sum \/ Diff \/ Mul PROVE Kept
<1>1. Operands(2) /\ Computes
  BY DEF Sum, Diff, Mul, Computing, Computes
<1>2. PoolOK(bigs) /\ Peek(0) \in Handle(bigs) /\ Peek(1) \in Handle(bigs)
  BY <1>1, InvParts, OnTop
<1>3. CASE Fail
  BY <1>3, FailStep
<1>4. CASE Operate(sbInteger_sum(bigs, Peek(1), Peek(0)))
  BY <1>1, <1>2, <1>4, Operation, OperateStep
<1>5. CASE CanDiff(Peek(1), Peek(0)) /\ Operate(sbInteger_diff(bigs, Peek(1), Peek(0)))
  BY <1>1, <1>2, <1>5, Operation, OperateStep
<1>6. CASE Operate(sbInteger_mul(bigs, Peek(1), Peek(0)))
  BY <1>1, <1>2, <1>6, Operation, OperateStep
<1> QED
  BY <1>3, <1>4, <1>5, <1>6 DEF Sum, Diff, Mul

LEMMA OneDigitMore == \A a, b, c \in Nat : a * b + c \in Nat
OBVIOUS

LEMMA ReadDigitStep == ASSUME CountsSuffice, ReadDigit PROVE Kept
<1> DEFINE digit == Head(reading.left)
           times == sbInteger_mul(bigs, reading.n, Small(BASE))
           plus  == sbInteger_sum(times.bigs, times.n, Small(digit))
<1>1. PoolOK(bigs) /\ stack \in Seq(Handle(bigs)) /\ Rest
  BY InvParts
<1>2. /\ reading.left \in Seq(0 .. BASE - 1) /\ reading.left # <<>>
      /\ reading.n \in Handle(bigs) /\ reading.said \in Nat
  BY <1>1 DEF Rest, ReadDigit, ReadingNow
<1>3. digit \in 0 .. BASE - 1 /\ Tail(reading.left) \in Seq(0 .. BASE - 1)
  BY <1>2, HeadTailProperties
<1>4. BASE \in Nat /\ digit \in Nat
  BY <1>3, LiteralAssumption
<1>5. \A p : Small(BASE) \in Handle(p) /\ Small(digit) \in Handle(p)
  BY <1>4 DEF Small, Handle
<1> HIDE DEF digit
<1>6. Grown(bigs, times.bigs) /\ times.n \in Handle(times.bigs)
  BY <1>1, <1>2, <1>5, Operation
<1> HIDE DEF times
<1>7. PoolOK(times.bigs)
  BY <1>6 DEF Grown
<1>8. Grown(times.bigs, plus.bigs) /\ plus.n \in Handle(plus.bigs)
  BY <1>5, <1>6, <1>7, Operation
<1> HIDE DEF plus
<1>9. Grown(bigs, plus.bigs)
  BY <1>6, <1>8, GrownTransitive
<1>10. /\ bigs' = plus.bigs
       /\ stack' \in {stack, Append(stack, plus.n)}
       /\ reading' \in {Idle, [left |-> Tail(reading.left), n |-> plus.n, said |-> reading.said * BASE + digit]}
       /\ UNCHANGED <<held, bases, status, disturbed>>
  BY DEF ReadDigit, digit, times, plus
<1>11. (stack \in Seq(Handle(bigs)))'
  <2>1. stack \in Seq(Handle(plus.bigs))
    BY <1>1, <1>9, SeqGrown
  <2>2. stack' \in Seq(Handle(plus.bigs))
    BY <1>8, <1>10, <2>1
  <2> QED
    BY <1>10, <2>2
<1>12. reading' \in [left : Seq(0 .. BASE - 1), n : Handle(bigs'), said : Nat]
  <2>1. <<>> \in Seq(0 .. BASE - 1) /\ Small(0) \in Handle(bigs')
    BY DEF Small, Handle
  <2>2. Idle \in [left : Seq(0 .. BASE - 1), n : Handle(bigs'), said : Nat]
    BY <2>1 DEF Idle
  <2>3. reading.said * BASE + digit \in Nat
    BY <1>2, <1>4, OneDigitMore
  <2>4. plus.n \in Handle(bigs')
    BY <1>8, <1>10
  <2> DEFINE said == reading.said * BASE + digit
             rest == Tail(reading.left)
  <2> HIDE DEF said, rest
  <2>5. [left |-> rest, n |-> plus.n, said |-> said] \in [left : Seq(0 .. BASE - 1), n : Handle(bigs'), said : Nat]
    BY <1>3, <2>3, <2>4 DEF said, rest
  <2> QED
    BY <1>10, <2>2, <2>5 DEF said, rest
<1>13. Rest'
  BY <1>1, <1>10, <1>12 DEF Rest
<1>14. Computes
  BY DEF Computes
<1> QED
  BY <1>9, <1>10, <1>11, <1>13, <1>14, GrowStep

-------------------------------------------------------------------------------
(* Actions that count.                                                       *)

LEMMA CountStep ==
  ASSUME CountsSuffice, SameNumbers(bigs, bigs'), Holds', CountedIn(bigs', held'),
         stack' \in Seq(Handle(bigs)), Rest'
  PROVE  Kept
<1>1. Handle(bigs') = Handle(bigs) /\ PoolOK(bigs')
  BY SameHandles DEF SameNumbers
<1>2. (stack \in Seq(Handle(bigs)))'
  BY <1>1
<1> QED
  BY <1>1, <1>2, InvPartsNext DEF Kept, Moderate

\* The top operand goes somewhere.
LEMMA PutStep ==
  ASSUME CountsSuffice, Operands(1), NEW place \in Holders,
         SameNumbers(bigs, bigs'), CountedIn(bigs', held'),
         held' = [held EXCEPT ![place] = Peek(0)], stack' = Popped(1),
         UNCHANGED <<bases, reading, status>>, disturbed' \in BOOLEAN
  PROVE  Kept
<1>1. Popped(1) \in Seq(Handle(bigs)) /\ Peek(0) \in Handle(bigs) /\ Holds /\ Rest
  BY InvParts, OnTop
<1>2. Handle(bigs') = Handle(bigs) /\ Content(bigs') = Content(bigs) /\ Helds(bigs') = Helds(bigs)
  BY SameHandles
<1>3. Peek(0) \in Content(bigs)
  BY <1>1 DEF Content
<1>4. held' \in Helds(bigs)
  BY <1>1, <1>3 DEF Holds, Helds
<1>5. \A b \in Boxes : held'[b] \in Content(bigs)
  BY <1>1, <1>3 DEF Holds, Helds, Holders
<1>6. Holds'
  BY <1>2, <1>4, <1>5 DEF Holds
<1>7. Rest'
  BY <1>1, <1>2 DEF Rest
<1> QED
  BY <1>1, <1>6, <1>7, CountStep

LEMMA FillStep ==
  ASSUME CountsSuffice, Operands(1), NEW place \in Holders, held[place] = NOTHING,
         bigs' = sbInteger_retain(bigs, Peek(0)), held' = [held EXCEPT ![place] = Peek(0)],
         stack' = Popped(1), UNCHANGED <<bases, reading, status>>, Disturb(FALSE)
  PROVE  Kept
<1>1. PoolOK(bigs) /\ Holds /\ Rest /\ CountedIn(bigs, held) /\ Peek(0) \in Handle(bigs)
  BY InvParts, OnTop
<1>2. SameNumbers(bigs, bigs') /\ CountedIn(bigs', held')
  BY <1>1, FilledCounted DEF Holds
<1>3. disturbed' \in BOOLEAN
  BY <1>1 DEF Disturb, Rest
<1> QED
  BY <1>2, <1>3, PutStep

LEMMA StoreStep ==
  ASSUME CountsSuffice, NEW place \in Holders, NEW old \in Content(bigs) \cup HeapVars,
         old = held[place] \/ ~is_bigint(old), Store(old, place), disturbed' \in BOOLEAN
  PROVE  Kept
<1>1. /\ Operands(1) /\ bigs' = sbInteger_retain(sbInteger_release(bigs, old), Peek(0))
      /\ held' = [held EXCEPT ![place] = Peek(0)] /\ stack' = Popped(1)
      /\ UNCHANGED <<bases, reading, status>>
  BY DEF Store, sbVar_set_value
<1>2. PoolOK(bigs) /\ Holds /\ CountedIn(bigs, held) /\ Peek(0) \in Handle(bigs)
  BY <1>1, InvParts, OnTop
<1>3. SameNumbers(bigs, bigs') /\ CountedIn(bigs', held')
  BY <1>1, <1>2, SetCounted DEF Holds
<1> QED
  BY <1>1, <1>3, PutStep

LEMMA LocalHolder == ASSUME Rest, Depth > 0, NEW s \in Slots PROVE Local(s) \in Locals /\ Local(s) \in Holders
<1>1. Depth \in 1 .. MaxDepth
  BY BoundsAssumption DEF Rest, Depth
<1> QED
  BY <1>1 DEF Local, Locals, Holders

LEMMA StoresStep == ASSUME CountsSuffice, Stores PROVE Kept
<1>1. Holds /\ Rest
  BY InvParts
<1>2. ASSUME NEW s \in Slots, StoreVar(s) PROVE Kept
  <2> DEFINE h == Local(s)
  <2>1. Depth > 0 /\ Store(held[h], PlaceOf(h)) /\ Disturb(FALSE)
    BY <1>2 DEF StoreVar
  <2>2. h \in Holders
    BY <1>1, <2>1, LocalHolder
  <2> HIDE DEF h
  <2>3. held[h] \in Content(bigs) \cup HeapVars
    BY <1>1, <2>2 DEF Holds, Helds
  <2>4. disturbed' \in BOOLEAN
    BY <1>1, <2>1 DEF Disturb, Rest
  <2>5. CASE held[h].type = "heapvar"
    <3>1. PlaceOf(h) \in Holders
      BY <2>3, <2>5 DEF PlaceOf, Content, Handle, NOTHING, HeapVars, HeapVar, Holders
    <3>2. ~is_bigint(held[h])
      BY <2>5 DEF is_bigint
    <3> QED
      BY <2>1, <2>3, <2>4, <3>1, <3>2, StoreStep
  <2>6. CASE held[h].type # "heapvar"
    <3>1. PlaceOf(h) = h
      BY <2>6 DEF PlaceOf
    <3> QED
      BY <2>1, <2>2, <2>3, <2>4, <3>1, StoreStep
  <2> QED
    BY <2>5, <2>6
<1>3. ASSUME NEW b \in Boxes, StoreUpval(b) PROVE Kept
  <2>1. Store(HeapVar(b), b) /\ Disturb(FALSE)
    BY <1>3 DEF StoreUpval
  <2>2. HeapVar(b) \in HeapVars /\ ~is_bigint(HeapVar(b)) /\ b \in Holders
    BY DEF HeapVars, HeapVar, is_bigint, Holders
  <2>3. disturbed' \in BOOLEAN
    BY <1>1, <2>1 DEF Disturb, Rest
  <2> QED
    BY <2>1, <2>2, <2>3, StoreStep
<1>4. ASSUME NEW i \in Items, StoreItem(i) PROVE Kept
  <2>1. Store(held[i], i) /\ Disturb(Bottom > 0)
    BY <1>4 DEF StoreItem
  <2>2. i \in Holders /\ held[i] \in Content(bigs) \cup HeapVars
    BY <1>1 DEF Holds, Helds, Holders
  <2>3. disturbed' \in BOOLEAN
    <3>1. disturbed \in BOOLEAN /\ disturbed' = IF stack' = <<>> THEN FALSE ELSE disturbed \/ Bottom > 0
      BY <1>1, <2>1 DEF Disturb, Rest
    <3> QED
      BY <3>1
  <2> QED
    BY <2>1, <2>2, <2>3, StoreStep
<1> QED
  BY <1>2, <1>3, <1>4 DEF Stores

LEMMA AppendStep == ASSUME CountsSuffice, NEW i \in Items, sbList_append(i) PROVE Kept
<1>1. i \in Holders
  BY DEF Holders
<1> QED
  BY <1>1, FillStep DEF sbList_append

LEMMA ConstantStep == ASSUME CountsSuffice, NEW c \in Consts, sbVmCompiler_add_constant(c) PROVE Kept
<1>1. c \in Holders
  BY DEF Holders
<1> QED
  BY <1>1, FillStep DEF sbVmCompiler_add_constant

\* What was in the local is in the box: as many hold it as before.
LEMMA MoveStep ==
  ASSUME CountsSuffice, NEW s \in Slots, NEW b \in Boxes, sbVar_move_to_heap(s, b)
  PROVE  Kept
<1> DEFINE h == Local(s)
<1>1. PoolOK(bigs) /\ Holds /\ Rest /\ CountedIn(bigs, held) /\ stack \in Seq(Handle(bigs))
  BY InvParts
<1>2. /\ Depth > 0 /\ IsNumber(held[h]) /\ held[b] = NOTHING
      /\ held' = [held EXCEPT ![b] = held[h], ![h] = HeapVar(b)]
      /\ UNCHANGED <<bigs, stack, bases, reading, status, disturbed>>
  BY DEF sbVar_move_to_heap
<1>3. h \in Holders /\ b \in Holders /\ h # b
  BY <1>1, <1>2, LocalHolder, DisjointAssumption DEF Holders
<1> HIDE DEF h
<1>4. \A g \in Holders : held'[g] = IF g = h THEN HeapVar(b) ELSE IF g = b THEN held[h] ELSE held[g]
  BY <1>1, <1>2, <1>3 DEF Holds, Helds
<1>5. held[h] \in Content(bigs)
  BY <1>1, <1>2, <1>3 DEF Holds, Helds, HeapVars, HeapVar, IsNumber
<1>6. Holds'
  <2>1. HeapVar(b) \in HeapVars
    BY DEF HeapVars
  <2>2. held' \in Helds(bigs)
    BY <1>1, <1>2, <1>5, <2>1 DEF Holds, Helds
  <2>3. \A c \in Boxes : c # h
    BY <1>1, <1>2, LocalHolder, DisjointAssumption DEF h
  <2>4. \A c \in Boxes : held'[c] \in Content(bigs)
    BY <1>1, <1>4, <1>5, <2>3 DEF Holds, Holders
  <2> QED
    BY <1>2, <2>2, <2>4 DEF Holds
<1>7. ASSUME NEW k \in DOMAIN bigs PROVE Cardinality(Holding(held', k)) = Cardinality(Holding(held, k))
  <2> DEFINE S == Holding(held, k)
  <2>1. b \notin S /\ \A c \in Boxes : HeapVar(c) # Big(k)
    BY <1>2 DEF Holding, NOTHING, Big, HeapVar
  <2>2. CASE held[h] = Big(k)
    <3> DEFINE R == S \ {h}
    <3>1. h \in S /\ Holding(held', k) = R \cup {b} /\ b \notin R
      BY <1>3, <1>4, <2>1, <2>2 DEF Holding
    <3>2. IsFiniteSet(S) /\ Cardinality(S) \in Nat
      BY HoldingFinite
    <3> HIDE DEF S
    <3>3. IsFiniteSet(R) /\ Cardinality(R) = Cardinality(S) - 1
      BY <3>1, <3>2, FS_RemoveElement
    <3> HIDE DEF R
    <3>4. Cardinality(R \cup {b}) = Cardinality(R) + 1
      BY <3>1, <3>3, FS_AddElement
    <3> QED
      BY <3>1, <3>2, <3>3, <3>4 DEF S
  <2>3. CASE held[h] # Big(k)
    <3>1. Holding(held', k) = S
      BY <1>2, <1>3, <1>4, <2>1, <2>3 DEF Holding
    <3> QED
      BY <3>1
  <2> QED
    BY <2>2, <2>3
<1>8. CountedIn(bigs', held')
  BY <1>1, <1>2, <1>7 DEF CountedIn
<1>9. Rest' /\ SameNumbers(bigs, bigs') /\ stack' \in Seq(Handle(bigs))
  BY <1>1, <1>2 DEF Rest, SameNumbers
<1> QED
  BY <1>6, <1>8, <1>9, CountStep

LEMMA ReturnStep == ASSUME CountsSuffice, Return PROVE Kept
<1>1. PoolOK(bigs) /\ Holds /\ Rest /\ CountedIn(bigs, held) /\ stack \in Seq(Handle(bigs))
  BY InvParts
<1>2. /\ Depth > 0
      /\ bigs' = [k \in DOMAIN bigs |-> [bigs[k] EXCEPT !.refcount = @ - Cardinality(Gone(held, Frame, k))]]
      /\ held' = [h \in Holders |-> IF h \in Frame THEN NOTHING ELSE held[h]]
      /\ bases' = SubSeq(bases, 1, Depth - 1)
      /\ status' \in {"stopped", status}
      /\ UNCHANGED <<stack, reading, disturbed>>
  BY DEF Return, Released, Gone
<1>3. Frame \in SUBSET Holders /\ Frame \subseteq Locals
  BY <1>1, <1>2, LocalHolder DEF Frame
<1> HIDE DEF Frame
<1>4. SameNumbers(bigs, bigs') /\ CountedIn(bigs', held')
  <2>1. DOMAIN bigs = 1 .. Len(bigs)
    BY <1>1, PoolShape
  <2>2. Uncounted(bigs, bigs', held, Frame)
    <3>1. bigs' = [k \in 1 .. Len(bigs) |-> bigs'[k]]
      BY <1>2, <2>1
    <3>2. \A k \in DOMAIN bigs : bigs'[k] = [bigs[k] EXCEPT !.refcount = @ - Cardinality(Gone(held, Frame, k))]
      BY <1>2
    <3> QED
      BY <3>1, <3>2 DEF Uncounted
  <2>3. Emptied(held, held', Frame)
    BY <1>2 DEF Emptied
  <2> QED
    BY <1>1, <1>3, <2>2, <2>3, ReleasedCounted DEF Holds
<1>5. Handle(bigs') = Handle(bigs) /\ Content(bigs') = Content(bigs) /\ Helds(bigs') = Helds(bigs)
  BY <1>4, SameHandles
<1>6. Holds'
  <2>1. NOTHING \in Content(bigs)
    BY DEF Content
  <2>2. held' \in Helds(bigs)
    BY <1>1, <1>2, <2>1 DEF Holds, Helds
  <2>3. \A b \in Boxes : held'[b] \in Content(bigs)
    BY <1>1, <1>2, <2>1 DEF Holds, Holders
  <2> QED
    BY <1>5, <2>2, <2>3 DEF Holds
<1>7. Rest'
  <2>1. bases \in Seq(Nat) /\ Len(bases) \in Nat /\ Len(bases) <= MaxDepth /\ Len(bases) > 0 /\ MaxDepth \in Nat
    BY <1>1, <1>2, BoundsAssumption DEF Rest, Depth
  <2>2. bases' \in Seq(Nat) /\ Len(bases') = Len(bases) - 1
    <3>1. PICK n \in Nat : n = Len(bases) - 1
      BY <2>1
    <3>2. bases' = SubSeq(bases, 1, n)
      BY <1>2, <3>1 DEF Depth
    <3>3. SubSeq(bases, 1, n) \in Seq(Nat) /\ Len(SubSeq(bases, 1, n)) = n
      BY <2>1, <3>1, Shortened
    <3> QED
      BY <3>1, <3>2, <3>3
  <2>3. Len(bases') <= MaxDepth
    BY <2>1, <2>2
  <2> QED
    BY <1>1, <1>2, <1>5, <2>2, <2>3 DEF Rest
<1> QED
  BY <1>1, <1>2, <1>4, <1>6, <1>7, CountStep

-------------------------------------------------------------------------------
(* The theorems.                                                             *)

LEMMA LoadsStep == ASSUME CountsSuffice, Loads PROVE Kept
<1>1. PICK h \in Boxes \cup Items \cup Consts \cup (IF Depth = 0 THEN {} ELSE Frame) : Load(h)
  BY DEF Loads
<1>2. h \in Holders
  <2>1. CASE h \in Boxes \cup Items \cup Consts
    BY <2>1 DEF Holders
  <2>2. CASE Depth # 0 /\ h \in Frame
    <3>1. Rest /\ Depth > 0
      BY <2>2, InvParts, BottomType
    <3> QED
      BY <2>2, <3>1, LocalHolder DEF Frame
  <2> QED
    BY <1>1, <2>1, <2>2
<1> QED
  BY <1>1, <1>2, LoadStep

LEMMA NextKept == CountsSuffice /\ [Next]_vars => Kept
<1> SUFFICES ASSUME CountsSuffice, [Next]_vars PROVE Kept
  OBVIOUS
<1>1. CASE \E literal \in Literals : Read(literal)
  BY <1>1, ReadStep
<1>2. CASE ReadDigit
  BY <1>2, ReadDigitStep
<1>3. CASE \E c \in Consts : sbVmCompiler_add_constant(c)
  BY <1>3, ConstantStep
<1>4. CASE Start \/ Loads \/ Stores \/ Pop
  BY <1>4, StartStep, LoadsStep, StoresStep, PopStep
<1>5. CASE \E i \in Items : sbList_append(i)
  BY <1>5, AppendStep
<1>6. CASE \E s \in Slots, b \in Boxes : sbVar_move_to_heap(s, b)
  BY <1>6, MoveStep
<1>7. CASE Sum \/ Diff \/ Mul
  BY <1>7, ArithmeticStep
<1>8. CASE \E n \in 0 .. 1 : Call(n)
  BY <1>8, CallStep
<1>9. CASE Return
  BY <1>9, ReturnStep
<1>10. CASE UNCHANGED vars
  <2>1. Rest' /\ (stack \in Seq(Handle(bigs)))'
    BY <1>10, InvParts DEF vars, Rest
  <2> QED
    BY <1>10, <2>1, StillStep DEF vars
<1> QED
  BY <1>1, <1>2, <1>3, <1>4, <1>5, <1>6, <1>7, <1>8, <1>9, <1>10 DEF Next

(* A bigint always has a count for every variable, item and constant that  *)
(* holds it, and no handle leads out of the pool (sbV_retain, sbV_release, *)
(* sbVar_set_value, return_from_block, finalize_bigint).                   *)
THEOREM Counts == Spec => []CountsSuffice
<1>1. CountsSuffice /\ [Next]_vars => CountsSuffice'
  BY NextKept DEF Kept
<1> QED
  BY <1>1, InitInv, PTL DEF Spec

(* So the number of a variable, an item or a constant changes only when    *)
(* something is stored there, however many hold the same bigint and        *)
(* whatever is computed with it (finalize_bigint).                         *)
THEOREM Numbers == Spec => NumbersKept
<1>1. CountsSuffice /\ [Next]_vars =>
        [\A h \in Holders : held'[h] = held[h] /\ held[h].type = "big" => SameNumber(held[h])]_vars
  <2> SUFFICES ASSUME CountsSuffice, [Next]_vars, NEW h \in Holders, held[h].type = "big"
               PROVE  SameNumber(held[h])
    OBVIOUS
  <2>1. PoolOK(bigs) /\ held \in Helds(bigs) /\ CountedIn(bigs, held) /\ is_bigint(held[h])
    BY InvParts DEF Holds, is_bigint
  <2>2. held[h].at \in DOMAIN bigs /\ bigs[held[h].at].refcount # 0
    <3>1. held[h] \in Content(bigs) \cup HeapVars
      BY <2>1 DEF Helds
    <3>2. held[h].at \in DOMAIN bigs
      BY <2>1, <3>1, BigHandle
    <3>3. bigs[held[h].at].refcount > 0 /\ bigs[held[h].at].refcount \in Nat
      BY <2>1, <3>2, HeldIsCounted, PoolShape
    <3> QED
      BY <3>2, <3>3
  <2>3. Moderate
    BY NextKept DEF Kept
  <2> QED
    BY <2>2, <2>3 DEF Moderate, SameNumbers, Grown, SameNumber
<1> QED
  BY <1>1, Counts, PTL DEF Spec, NumbersKept

-------------------------------------------------------------------------------
(* Operands that wait.  The stack counts nothing, so that a bigint an operand *)
(* waits with is safe only while nothing else on the stack or in a later      *)
(* frame leads to it, or while something counts it that outlives the operand. *)

\* The locals of the frames that were begun after operand i was pushed: what
\* they count is gone before it is used.
Above(i) == {h \in Locals : h[1] \in DOMAIN bases /\ i <= bases[h[1]]}

\* Operand i holds k, and so does what may be used before it.
Shared(i, k) ==
  /\ stack[i] = Big(k)
  /\ \/ \E j \in DOMAIN stack : i < j /\ stack[j] = Big(k)
     \/ \E h \in Above(i) : held[h] = Big(k)

OperandsBacked ==
  ~disturbed => \A i \in DOMAIN stack, k \in DOMAIN bigs :
     Shared(i, k) => Cardinality(Gone(held, Above(i), k)) < bigs[k].refcount

\* Frames lie on the stack in their order, and those to come are empty.
FramesStand ==
  /\ status = "compiling" => bases = <<>>
  /\ \A d \in DOMAIN bases : bases[d] <= Bottom
  /\ Bottom <= Len(stack)
  /\ \A d, e \in DOMAIN bases : d <= e => bases[d] <= bases[e]
  /\ \A h \in Locals : h[1] > Depth => held[h] = NOTHING

\* The number that is being read is no operand yet.
ReadingAlone ==
  ReadingNow /\ is_bigint(reading.n) => \A i \in DOMAIN stack : stack[i] # reading.n

Orderly == FramesStand /\ OperandsBacked /\ ReadingAlone

-------------------------------------------------------------------------------
(* What arithmetic writes to: an operand that nobody counts, if anything.     *)

Written(p, q, U) ==
  \A k \in DOMAIN p : (q[k].pieces # p[k].pieces \/ q[k].sign_bit # p[k].sign_bit)
                         => Big(k) \in U /\ p[k].refcount = 0
Made(p, n, U) == is_bigint(n) => n.at \notin DOMAIN p \/ (n \in U /\ p[n.at].refcount = 0)

LEMMA NewWrites ==
  ASSUME NEW p, PoolOK(p), NEW ps, NEW s, NEW U
  PROVE  LET r == new_bigint(p, ps, s) IN Written(p, r.bigs, U) /\ Made(p, r.n, U)
<1> DEFINE e == [refcount |-> 0, sign_bit |-> s, pieces |-> ps]
           q == Append(p, e)
<1>1. Len(p) \in Nat /\ DOMAIN p = 1 .. Len(p) /\ p \in Seq({p[k] : k \in DOMAIN p})
  BY PoolShape DEF PoolOK
<1>2. \A k \in DOMAIN p : q[k] = p[k]
  BY <1>1
<1>3. Len(p) + 1 \notin DOMAIN p
  BY <1>1
<1> HIDE DEF q
<1> QED
  BY <1>2, <1>3 DEF new_bigint, Returned, Written, Made, q, Big

LEMMA IntegerWrites ==
  ASSUME NEW p, PoolOK(p), NEW value, NEW U
  PROVE  LET r == sbInteger_new(p, value) IN Written(p, r.bigs, U) /\ Made(p, r.n, U)
<1>1. CASE sbInteger_new(p, value) = Returned(p, Small(value))
  BY <1>1 DEF Returned, Written, Made, Small, is_bigint
<1>2. CASE \E ps, s : sbInteger_new(p, value) = new_bigint(p, ps, s)
  BY <1>2, NewWrites
<1> QED
  BY <1>1, <1>2 DEF sbInteger_new

LEMMA FinalizeWrites ==
  ASSUME NEW p, PoolOK(p), NEW a \in Handle(p), NEW b \in Handle(p), NEW ps, NEW U, a \in U, b \in U
  PROVE  LET r == finalize_bigint(p, a, b, ps) IN Written(p, r.bigs, U) /\ Made(p, r.n, U)
<1>1. ASSUME NEW h \in Handle(p), h \in U, Reusable(p, h)
      PROVE  Written(p, [p EXCEPT ![h.at].pieces = ps], U) /\ Made(p, h, U)
  <2>1. h.at \in DOMAIN p /\ h = Big(h.at) /\ p[h.at].refcount = 0
    BY <1>1 DEF Reusable, is_bigint, Handle, Big
  <2>2. p[h.at] \in [refcount : Nat, sign_bit : BOOLEAN, pieces : {p[h.at].pieces}]
    BY <2>1 DEF PoolOK
  <2> DEFINE q == [p EXCEPT ![h.at].pieces = ps]
  <2>3. \A k \in DOMAIN p : k # h.at => q[k] = p[k]
    OBVIOUS
  <2>4. q[h.at].sign_bit = p[h.at].sign_bit
    BY <2>1, <2>2
  <2> HIDE DEF q
  <2>5. Written(p, q, U)
    BY <1>1, <2>1, <2>3, <2>4 DEF Written
  <2> QED
    BY <1>1, <2>1, <2>5 DEF Made, q
<1>2. CASE Reusable(p, a)
  BY <1>1, <1>2 DEF finalize_bigint, Returned
<1>3. CASE ~Reusable(p, a) /\ Reusable(p, b)
  BY <1>1, <1>3 DEF finalize_bigint, Returned
<1>4. CASE ~Reusable(p, a) /\ ~Reusable(p, b)
  BY <1>4, NewWrites DEF finalize_bigint
<1> QED
  BY <1>2, <1>3, <1>4

LEMMA OperationWrites ==
  ASSUME NEW p, PoolOK(p), NEW a \in Handle(p), NEW b \in Handle(p)
  PROVE  /\ LET r == sbInteger_sum(p, a, b) IN Written(p, r.bigs, {a, b}) /\ Made(p, r.n, {a, b})
         /\ LET r == sbInteger_diff(p, a, b) IN Written(p, r.bigs, {a, b}) /\ Made(p, r.n, {a, b})
         /\ LET r == sbInteger_mul(p, a, b) IN Written(p, r.bigs, {a, b}) /\ Made(p, r.n, {a, b})
<1> DEFINE U == {a, b}
<1>1. a \in U /\ b \in U
  OBVIOUS
<1> HIDE DEF U
<1>2. LET r == sbInteger_sum(p, a, b) IN Written(p, r.bigs, U) /\ Made(p, r.n, U)
  BY <1>1, IntegerWrites, FinalizeWrites DEF sbInteger_sum
<1>3. LET r == sbInteger_diff(p, a, b) IN Written(p, r.bigs, U) /\ Made(p, r.n, U)
  BY IntegerWrites DEF sbInteger_diff
<1>4. LET r == sbInteger_mul(p, a, b) IN Written(p, r.bigs, U) /\ Made(p, r.n, U)
  BY <1>1, IntegerWrites, FinalizeWrites DEF sbInteger_mul
<1> QED
  BY <1>2, <1>3, <1>4 DEF U

\* A sum of a product: what was written twice was the one operand.
LEMMA BothWrite ==
  ASSUME NEW p, NEW q, NEW r, Grown(p, q), NEW a, NEW b, NEW m, NEW c, NEW n,
         ~is_bigint(b), ~is_bigint(c),
         Written(p, q, {a, b}), Made(p, m, {a, b}), Written(q, r, {m, c}), Made(q, n, {m, c})
  PROVE  Written(p, r, {a}) /\ Made(p, n, {a})
<1>1. \A k : Big(k) # b /\ Big(k) # c
  BY DEF is_bigint, Big
<1>2. DOMAIN p \subseteq DOMAIN q /\ \A k \in DOMAIN p : q[k].refcount = p[k].refcount
  BY DEF Grown
<1>3. ASSUME NEW k \in DOMAIN p, Big(k) = m PROVE Big(k) = a /\ p[k].refcount = 0
  BY <1>1, <1>3 DEF Made, is_bigint, Big
<1>4. Written(p, r, {a})
  <2> SUFFICES ASSUME NEW k \in DOMAIN p, r[k].pieces # p[k].pieces \/ r[k].sign_bit # p[k].sign_bit
               PROVE  Big(k) = a /\ p[k].refcount = 0
    BY DEF Written
  <2>1. CASE q[k].pieces # p[k].pieces \/ q[k].sign_bit # p[k].sign_bit
    BY <1>1, <2>1 DEF Written
  <2>2. CASE r[k].pieces # q[k].pieces \/ r[k].sign_bit # q[k].sign_bit
    BY <1>1, <1>2, <1>3, <2>2 DEF Written
  <2> QED
    BY <2>1, <2>2
<1>5. Made(p, n, {a})
  <2> SUFFICES ASSUME is_bigint(n), n.at \in DOMAIN p PROVE n = a /\ p[n.at].refcount = 0
    BY DEF Made
  <2>1. n = m
    BY <1>2 DEF Made
  <2> QED
    BY <2>1 DEF Made
<1> QED
  BY <1>4, <1>5

-------------------------------------------------------------------------------
(* What the steps have in common.                                             *)

LEMMA PoppedBelow ==
  ASSUME CountsSuffice, NEW n \in {1, 2}, Operands(n)
  PROVE  /\ Len(Popped(n)) = Len(stack) - n /\ DOMAIN Popped(n) = 1 .. Len(stack) - n
         /\ \A i \in DOMAIN Popped(n) : i \in DOMAIN stack /\ Popped(n)[i] = stack[i]
         /\ DOMAIN stack = 1 .. Len(stack)
         /\ \A k \in 0 .. n - 1 : Len(stack) - k \in DOMAIN stack /\ Peek(k) = stack[Len(stack) - k]
<1>1. stack \in Seq(Handle(bigs)) /\ Len(stack) \in Nat /\ Len(stack) >= n
  BY InvParts, OnTop
<1>2. PICK m \in Nat : m = Len(stack) - n
  BY <1>1
<1>3. Popped(n) = SubSeq(stack, 1, m)
  BY <1>2 DEF Popped
<1>4. /\ Len(SubSeq(stack, 1, m)) = m
      /\ \A i \in 1 .. m : SubSeq(stack, 1, m)[i] = stack[i]
      /\ DOMAIN SubSeq(stack, 1, m) = 1 .. m
  BY <1>1, <1>2
<1>5. DOMAIN stack = 1 .. Len(stack)
  BY <1>1
<1>6. \A k \in 0 .. n - 1 : Len(stack) - k \in DOMAIN stack
  BY <1>1, <1>5
<1> QED
  BY <1>1, <1>2, <1>3, <1>4, <1>5, <1>6 DEF Peek

LEMMA BasesTypes ==
  ASSUME CountsSuffice
  PROVE  /\ Depth \in Nat /\ Bottom \in Nat /\ Len(stack) \in Nat /\ DOMAIN bases = 1 .. Depth
         /\ DOMAIN stack = 1 .. Len(stack)
         /\ \A d \in DOMAIN bases : bases[d] \in Nat
         /\ Depth > 0 => Bottom = bases[Depth] /\ Depth \in DOMAIN bases
<1>1. bases \in Seq(Nat) /\ stack \in Seq(Handle(bigs)) /\ Bottom \in Nat /\ Depth \in Nat
  BY InvParts, BottomType DEF Rest
<1>2. Depth > 0 => bases # <<>>
  BY DEF Depth
<1>3. DOMAIN bases = 1 .. Depth
  BY <1>1 DEF Depth
<1> QED
  BY <1>1, <1>2, <1>3 DEF Bottom

LEMMA AboveHolders == \A i : Above(i) \subseteq Locals /\ Above(i) \subseteq Holders
BY DEF Above, Holders

LEMMA GoneFinite ==
  ASSUME NEW hd, NEW F, F \subseteq Holders, NEW k
  PROVE  IsFiniteSet(Gone(hd, F, k)) /\ Cardinality(Gone(hd, F, k)) \in Nat
<1>1. IsFiniteSet(Holders) /\ Gone(hd, F, k) \in SUBSET Holders
  BY HoldersFinite DEF Gone
<1>2. IsFiniteSet(Gone(hd, F, k))
  BY <1>1, FS_Subset
<1> QED
  BY <1>2, FS_CardinalityType

\* Somebody else counts as well.
LEMMA Outnumbered ==
  ASSUME CountsSuffice, NEW F, F \subseteq Holders, NEW k \in DOMAIN bigs,
         NEW h \in Holders, held[h] = Big(k), h \notin F
  PROVE  Cardinality(Gone(held, F, k)) < bigs[k].refcount
<1> DEFINE S == Holding(held, k)
           T == Gone(held, F, k)
<1>1. T \in SUBSET S /\ h \in S /\ h \notin T
  BY DEF Holding, Gone
<1>2. IsFiniteSet(S) /\ Cardinality(S) \in Nat /\ Cardinality(T) \in Nat
  BY HoldingFinite, GoneFinite
<1>3. bigs[k].refcount \in Nat /\ Cardinality(S) <= bigs[k].refcount
  BY InvParts, PoolShape DEF CountedIn
<1> HIDE DEF S, T
<1>4. Cardinality(T) <= Cardinality(S) /\ Cardinality(T) # Cardinality(S)
  BY <1>1, <1>2, FS_Subset
<1> QED
  BY <1>2, <1>3, <1>4 DEF T

\* An operand that waits while another one like it is used is counted.
LEMMA SharedIsCounted ==
  ASSUME CountsSuffice, OperandsBacked, ~disturbed,
         NEW i \in DOMAIN stack, NEW j \in DOMAIN stack, i < j, NEW k \in DOMAIN bigs,
         stack[i] = Big(k), stack[j] = Big(k)
  PROVE  bigs[k].refcount # 0
<1>1. Shared(i, k)
  BY DEF Shared
<1>2. Cardinality(Gone(held, Above(i), k)) < bigs[k].refcount
  BY <1>1 DEF OperandsBacked
<1>3. Cardinality(Gone(held, Above(i), k)) \in Nat /\ bigs[k].refcount \in Nat
  BY GoneFinite, AboveHolders, InvParts, PoolShape
<1> QED
  BY <1>2, <1>3

\* With the same frames and what they hold, the stack may get lower.
LEMMA FramesStandStep ==
  ASSUME CountsSuffice, FramesStand, UNCHANGED bases, Bottom <= Len(stack'),
         status' = "compiling" => status = "compiling",
         \A h \in Locals : h[1] > Depth => held'[h] = held[h]
  PROVE  FramesStand'
<1>1. Bottom' = Bottom /\ Depth' = Depth
  BY DEF Bottom, Depth
<1> QED
  BY <1>1 DEF FramesStand

LEMMA AboveSame == ASSUME UNCHANGED bases PROVE \A i : Above(i)' = Above(i)
BY DEF Above

\* The steps that leave holders and counts alone and push nothing.
LEMMA StillBacked ==
  ASSUME CountsSuffice, OperandsBacked, UNCHANGED <<held, bases>>,
         stack' # <<>> /\ ~disturbed' => ~disturbed,
         DOMAIN stack' \subseteq DOMAIN stack,
         \A i \in DOMAIN stack' : stack'[i] = stack[i],
         DOMAIN bigs' = DOMAIN bigs, \A k \in DOMAIN bigs : bigs'[k].refcount = bigs[k].refcount
  PROVE  OperandsBacked'
<1> SUFFICES ASSUME ~disturbed', NEW i \in DOMAIN stack', NEW k \in DOMAIN bigs, Shared(i, k)'
             PROVE  Cardinality(Gone(held', Above(i)', k)) < bigs'[k].refcount
  BY DEF OperandsBacked
<1>1. Above(i)' = Above(i)
  BY AboveSame
<1>2. Shared(i, k)
  BY <1>1 DEF Shared
<1>3. ~disturbed
  <2>1. stack' # <<>>
    OBVIOUS
  <2> QED
    BY <2>1
<1> QED
  BY <1>1, <1>2, <1>3 DEF OperandsBacked

-------------------------------------------------------------------------------
(* Every step leaves the operands backed.                                     *)

LEMMA InitOrderly == Init => Orderly
<1> SUFFICES ASSUME Init PROVE Orderly
  OBVIOUS
<1>1. bases = <<>> /\ stack = <<>> /\ DOMAIN bases = {} /\ DOMAIN stack = {} /\ Bottom = 0
  BY DEF Init, Bottom
<1>2. FramesStand
  BY <1>1 DEF FramesStand, Init, Holders
<1> QED
  BY <1>1, <1>2 DEF Orderly, OperandsBacked, ReadingAlone

\* Nothing is being read unless a digit is.
LEMMA NotReading ==
  ASSUME ~ReadingNow, UNCHANGED reading PROVE ReadingAlone'
BY DEF ReadingNow, ReadingAlone

LEMMA StillOrderly ==
  ASSUME CountsSuffice, Orderly, UNCHANGED <<bigs, held, stack, bases, disturbed>>,
         status' = "compiling" => status = "compiling", ReadingAlone'
  PROVE  Orderly'
<1>1. bases \in Seq(Nat) /\ stack \in Seq(Handle(bigs)) /\ Bottom <= Len(stack)
  BY InvParts DEF Orderly, FramesStand, Rest
<1>2. FramesStand'
  BY <1>1, FramesStandStep DEF Orderly
<1>3. OperandsBacked'
  BY StillBacked DEF Orderly
<1> QED
  BY <1>2, <1>3 DEF Orderly

LEMMA ReadOrderly == ASSUME CountsSuffice, Orderly, NEW literal \in Literals, Read(literal) PROVE Orderly'
<1>1. UNCHANGED <<bigs, held, stack, bases, status, disturbed>> /\ reading' = [Idle EXCEPT !.left = literal]
  BY DEF Read
<1>2. reading'.n = Small(0) /\ ~is_bigint(Small(0))
  BY <1>1 DEF Idle, Small, is_bigint
<1>3. ReadingAlone'
  BY <1>2 DEF ReadingAlone
<1> QED
  BY <1>1, <1>3, StillOrderly

LEMMA FailOrderly == ASSUME CountsSuffice, Orderly, Waiting, Fail PROVE Orderly'
BY NotReading, StillOrderly DEF Fail, Waiting

LEMMA StartOrderly == ASSUME CountsSuffice, Orderly, Start PROVE Orderly'
<1>1. /\ stack = <<>> /\ DOMAIN stack = {} /\ bases' = <<0>> /\ ~ReadingNow
      /\ UNCHANGED <<bigs, held, stack, reading, disturbed>>
  BY DEF Start, Waiting
<1>2. Depth' = 1 /\ DOMAIN bases' = {1} /\ Bottom' = 0 /\ Len(stack') = 0
  BY <1>1 DEF Depth, Bottom
<1>3. FramesStand'
  <2>1. \A h \in Locals : h[1] > 1 => held[h] = NOTHING
    <3>1. bases = <<>> /\ Depth = 0
      BY DEF Start, Waiting, Depth, Orderly, FramesStand
    <3>2. \A h \in Locals : h[1] > 1 => h[1] > 0
      BY DEF Locals
    <3> QED
      BY <3>1, <3>2 DEF Orderly, FramesStand
  <2>2. status' # "compiling"
    BY DEF Start
  <2> QED
    BY <1>1, <1>2, <2>1, <2>2 DEF FramesStand
<1>4. OperandsBacked' /\ ReadingAlone'
  BY <1>1 DEF OperandsBacked, ReadingAlone
<1> QED
  BY <1>3, <1>4 DEF Orderly

LEMMA PopOrderly == ASSUME CountsSuffice, Orderly, Pop PROVE Orderly'
<1>1. /\ Operands(1) /\ stack' = Popped(1) /\ ~ReadingNow
      /\ UNCHANGED <<bigs, held, bases, reading, status>> /\ Disturb(FALSE)
  BY DEF Pop, Running, Waiting
<1>2. /\ Len(stack') = Len(stack) - 1 /\ Len(stack) >= Bottom + 1 /\ Len(stack) \in Nat /\ Bottom \in Nat
      /\ DOMAIN stack' \subseteq DOMAIN stack /\ \A i \in DOMAIN stack' : stack'[i] = stack[i]
  BY <1>1, PoppedBelow, BasesTypes DEF Operands
<1>3. FramesStand'
  <2>1. Bottom <= Len(stack')
    BY <1>2
  <2> QED
    BY <1>1, <2>1, FramesStandStep DEF Orderly
<1>4. OperandsBacked'
  <2>1. stack' # <<>> /\ ~disturbed' => ~disturbed
    BY <1>1, InvParts DEF Disturb, Rest
  <2> QED
    BY <1>1, <1>2, <2>1, StillBacked DEF Orderly
<1> QED
  BY <1>1, <1>3, <1>4, NotReading DEF Orderly

\* What is loaded from a frame is above the operands that wait below it.
LEMMA LoadOrderly ==
  ASSUME CountsSuffice, Orderly, NEW h \in Holders, h \in Locals => Depth > 0 /\ h[1] = Depth, Load(h)
  PROVE  Orderly'
<1> DEFINE g == PlaceOf(h)
           v == held[g]
<1>1. /\ ~ReadingNow /\ stack' = Append(stack, v)
      /\ UNCHANGED <<bigs, held, bases, reading, status, disturbed>>
  BY DEF Load, Running, Waiting, sbVar_get_value
<1>2. stack \in Seq(Handle(bigs)) /\ Len(stack) \in Nat /\ DOMAIN stack = 1 .. Len(stack)
  BY InvParts, BasesTypes
<1>3. g \in Holders /\ (g \in Locals => Depth > 0 /\ g[1] = Depth)
  <2>1. held[h] \in Content(bigs) \cup HeapVars
    BY InvParts DEF Holds, Helds
  <2>2. held[h].type = "heapvar" => held[h].box \in Boxes
    BY <2>1 DEF Content, Handle, NOTHING, HeapVars, HeapVar
  <2>3. \A b \in Boxes : b \notin Locals
    BY DisjointAssumption
  <2> QED
    BY <2>2, <2>3 DEF PlaceOf, Holders
<1> HIDE DEF g
<1>4. /\ DOMAIN stack' = 1 .. Len(stack) + 1 /\ Len(stack') = Len(stack) + 1 /\ stack'[Len(stack) + 1] = v
      /\ \A i \in DOMAIN stack : stack'[i] = stack[i]
  BY <1>1, <1>2
<1>5. FramesStand'
  <2>1. Bottom <= Len(stack')
    BY <1>2, <1>4, BasesTypes DEF Orderly, FramesStand
  <2> QED
    BY <1>1, <2>1, FramesStandStep DEF Orderly
<1>6. OperandsBacked'
  <2> SUFFICES ASSUME ~disturbed, NEW i \in DOMAIN stack', NEW k \in DOMAIN bigs, Shared(i, k)'
               PROVE  Cardinality(Gone(held, Above(i), k)) < bigs[k].refcount
    BY <1>1, AboveSame DEF OperandsBacked
  <2>1. Above(i)' = Above(i)
    BY <1>1, AboveSame
  <2>2. i # Len(stack) + 1
    <3> SUFFICES ASSUME i = Len(stack) + 1 PROVE FALSE
      OBVIOUS
    <3>1. Above(i) = {}
      BY <1>2, BasesTypes DEF Above, Orderly, FramesStand
    <3> QED
      BY <1>2, <1>4, <2>1, <3>1 DEF Shared
  <2>3. i \in DOMAIN stack /\ stack[i] = Big(k)
    BY <1>2, <1>4, <2>2 DEF Shared
  <2>4. CASE Shared(i, k)
    BY <2>3, <2>4 DEF Orderly, OperandsBacked
  <2>5. CASE ~Shared(i, k)
    <3>1. v = Big(k)
      BY <1>1, <1>2, <1>4, <2>1, <2>3, <2>5 DEF Shared
    <3>2. g \notin Above(i)
      BY <2>3, <2>5, <3>1 DEF Shared
    <3> QED
      BY <1>3, <3>1, <3>2, Outnumbered, AboveHolders
  <2> QED
    BY <2>4, <2>5
<1> QED
  BY <1>1, <1>5, <1>6, NotReading DEF Orderly

\* What is put somewhere is among what a frame counts, if the place is its.
Stored(hd, new, place, v) == \A h \in Holders : new[h] = IF h = place THEN v ELSE hd[h]
LEMMA GonePut ==
  ASSUME NEW hd, NEW place \in Holders, NEW v, NEW new, NEW F, F \subseteq Holders, NEW k,
         Stored(hd, new, place, v)
  PROVE  Cardinality(Gone(new, F, k)) =
           Cardinality(Gone(hd, F, k)) - (IF place \in F /\ hd[place] = Big(k) THEN 1 ELSE 0)
                                       + (IF place \in F /\ v = Big(k) THEN 1 ELSE 0)
<1> DEFINE S == Gone(hd, F, k)
           R == S \ {place}
<1>1. IsFiniteSet(S) /\ Cardinality(S) \in Nat
  BY GoneFinite
<1>2. place \in S <=> place \in F /\ hd[place] = Big(k)
  BY DEF Gone
<1>3. Gone(new, F, k) = IF place \in F /\ v = Big(k) THEN R \cup {place} ELSE R
  BY DEF Gone, Stored
<1> HIDE DEF S
<1>4. IsFiniteSet(R) /\ Cardinality(R) = IF place \in S THEN Cardinality(S) - 1 ELSE Cardinality(S)
  BY <1>1, FS_RemoveElement
<1>5. place \notin R
  OBVIOUS
<1> HIDE DEF R
<1>6. Cardinality(R \cup {place}) = Cardinality(R) + 1
  BY <1>4, <1>5, FS_AddElement
<1>7. Cardinality(R) = Cardinality(S) - (IF place \in F /\ hd[place] = Big(k) THEN 1 ELSE 0)
  BY <1>1, <1>2, <1>4
<1>8. Cardinality(R) \in Int
  BY <1>1, <1>7
<1>9. CASE place \in F /\ v = Big(k)
  BY <1>3, <1>6, <1>7, <1>8, <1>9 DEF S
<1>10. CASE ~(place \in F /\ v = Big(k))
  BY <1>3, <1>7, <1>8, <1>10 DEF S
<1> QED
  BY <1>9, <1>10

\* The top operand goes to a place of this frame or of none.  Below it nothing
\* loses a count that outlives it.
LEMMA PutOrderly ==
  ASSUME CountsSuffice, Orderly, Operands(1), ~ReadingNow,
         NEW place \in Holders, place \in Locals => place[1] = Depth,
         held' = [held EXCEPT ![place] = Peek(0)], stack' = Popped(1),
         UNCHANGED <<bases, reading, status>>, DOMAIN bigs' = DOMAIN bigs,
         stack' # <<>> /\ ~disturbed' =>
           /\ ~disturbed
           /\ \A i \in DOMAIN stack', k \in DOMAIN bigs :
                bigs'[k].refcount >= bigs[k].refcount
                                       - (IF place \in Above(i) /\ held[place] = Big(k) THEN 1 ELSE 0)
                                       + (IF Peek(0) = Big(k) THEN 1 ELSE 0),
         \A k \in DOMAIN bigs : bigs'[k].refcount \in Nat
  PROVE  Orderly'
<1> DEFINE v == Peek(0)
<1>1. /\ Len(stack') = Len(stack) - 1 /\ Len(stack) >= Bottom + 1 /\ Len(stack) \in Nat /\ Bottom \in Nat
      /\ DOMAIN stack' = 1 .. Len(stack) - 1 /\ DOMAIN stack = 1 .. Len(stack)
      /\ \A i \in DOMAIN stack' : i \in DOMAIN stack /\ stack'[i] = stack[i]
      /\ stack[Len(stack)] = v
  <2>1. Len(stack) - 0 = Len(stack) /\ Len(stack) >= Bottom + 1 /\ Bottom \in Nat
    BY BasesTypes DEF Operands
  <2>2. /\ Len(Popped(1)) = Len(stack) - 1 /\ DOMAIN Popped(1) = 1 .. Len(stack) - 1
        /\ \A i \in DOMAIN Popped(1) : i \in DOMAIN stack /\ Popped(1)[i] = stack[i]
        /\ Peek(0) = stack[Len(stack) - 0]
    BY PoppedBelow
  <2>3. v = stack[Len(stack)]
    BY <2>1, <2>2
  <2> HIDE DEF v
  <2> QED
    BY <2>1, <2>2, <2>3, BasesTypes
<1>2. \A h \in Holders : held'[h] = IF h = place THEN v ELSE held[h]
  BY InvParts DEF Holds, Helds
<1> HIDE DEF v
<1>3. FramesStand'
  <2>1. Bottom <= Len(stack')
    BY <1>1
  <2>2. \A h \in Locals : h[1] > Depth => h # place
    BY BasesTypes
  <2>3. \A h \in Locals : h[1] > Depth => held'[h] = held[h]
    BY <1>2, <2>2 DEF Holders
  <2> QED
    BY <2>1, <2>3, FramesStandStep DEF Orderly
<1>4. OperandsBacked'
  <2> SUFFICES ASSUME ~disturbed', NEW i \in DOMAIN stack', NEW k \in DOMAIN bigs, Shared(i, k)'
               PROVE  Cardinality(Gone(held', Above(i), k)) < bigs'[k].refcount
    BY AboveSame DEF OperandsBacked
  <2> DEFINE lost == IF place \in Above(i) /\ held[place] = Big(k) THEN 1 ELSE 0
             more == IF v = Big(k) THEN 1 ELSE 0
             here == IF place \in Above(i) /\ v = Big(k) THEN 1 ELSE 0
             old  == Cardinality(Gone(held, Above(i), k))
             now  == Cardinality(Gone(held', Above(i), k))
  <2>1. ~disturbed /\ bigs'[k].refcount >= bigs[k].refcount - lost + more
    <3>1. stack' # <<>>
      OBVIOUS
    <3> QED
      BY <3>1 DEF v
  <2>2. now = old - lost + here
    <3> DEFINE F == Above(i)
               new == held'
    <3>1. F \subseteq Holders /\ Stored(held, new, place, v)
      BY <1>2, AboveHolders DEF Stored
    <3> HIDE DEF F, new
    <3>2. Cardinality(Gone(new, F, k)) =
            Cardinality(Gone(held, F, k)) - (IF place \in F /\ held[place] = Big(k) THEN 1 ELSE 0)
                                          + (IF place \in F /\ v = Big(k) THEN 1 ELSE 0)
      BY <3>1, GonePut
    <3> QED
      BY <3>2 DEF F, new
  <2>3. old \in Nat /\ bigs[k].refcount \in Nat /\ bigs'[k].refcount \in Nat
    BY AboveHolders, GoneFinite, InvParts, PoolShape
  <2>4. Shared(i, k)
    <3>1. Above(i)' = Above(i) /\ stack[i] = Big(k)
      BY <1>1, AboveSame DEF Shared
    <3>2. CASE \E j \in DOMAIN stack' : i < j /\ stack'[j] = Big(k)
      BY <1>1, <3>1, <3>2 DEF Shared
    <3>3. CASE \E h \in Above(i) : held'[h] = Big(k)
      <4>1. PICK h \in Above(i) : held'[h] = Big(k)
        BY <3>3
      <4>2. CASE h = place
        <5>1. stack[Len(stack)] = Big(k)
          BY <1>1, <1>2, <4>1, <4>2
        <5>2. i < Len(stack) /\ Len(stack) \in DOMAIN stack
          BY <1>1
        <5> QED
          BY <3>1, <5>1, <5>2 DEF Shared
      <4>3. CASE h # place
        BY <1>2, <3>1, <4>1, <4>3, AboveHolders DEF Shared
      <4> QED
        BY <4>2, <4>3
    <3> QED
      BY <3>1, <3>2, <3>3 DEF Shared
  <2>5. old < bigs[k].refcount
    BY <1>1, <2>1, <2>4 DEF Orderly, OperandsBacked
  <2>6. lost \in Int /\ more \in Int /\ here \in Int /\ here <= more
    OBVIOUS
  <2> HIDE DEF lost, more, here, old, now
  <2> QED
    BY <2>1, <2>2, <2>3, <2>5, <2>6 DEF now
<1> QED
  BY <1>3, <1>4, NotReading DEF Orderly

LEMMA FillOrderly ==
  ASSUME CountsSuffice, Orderly, Operands(1), Waiting, NEW place \in Holders, place \notin Locals,
         held[place] = NOTHING,
         bigs' = sbInteger_retain(bigs, Peek(0)), held' = [held EXCEPT ![place] = Peek(0)],
         stack' = Popped(1), UNCHANGED <<bases, reading, status>>, Disturb(FALSE)
  PROVE  Orderly'
<1> DEFINE v == Peek(0)
<1>1. PoolOK(bigs) /\ held \in Helds(bigs) /\ CountedIn(bigs, held) /\ v \in Handle(bigs)
  BY InvParts, OnTop DEF Holds
<1> HIDE DEF v
<1>2. ~is_bigint(NOTHING) /\ NOTHING \in Content(bigs)
  BY DEF is_bigint, NOTHING, Content
<1>3. sbInteger_release(bigs, NOTHING) = bigs
  BY <1>2 DEF sbInteger_release, Counting
<1>4. /\ SameNumbers(bigs, bigs')
      /\ \A k \in DOMAIN bigs : bigs'[k].refcount = bigs[k].refcount - (IF NOTHING = Big(k) THEN 1 ELSE 0)
                                                                    + (IF v = Big(k) THEN 1 ELSE 0)
  BY <1>1, <1>2, <1>3, SetEffect DEF v
<1>5. /\ DOMAIN bigs' = DOMAIN bigs
      /\ \A k \in DOMAIN bigs : bigs'[k].refcount \in Nat /\ bigs[k].refcount \in Nat
  BY <1>1, <1>4, PoolShape DEF SameNumbers
<1>6. place \notin Locals /\ \A i : place \notin Above(i)
  BY AboveHolders
<1>7. \A i \in DOMAIN stack', k \in DOMAIN bigs :
        bigs'[k].refcount >= bigs[k].refcount
                               - (IF place \in Above(i) /\ held[place] = Big(k) THEN 1 ELSE 0)
                               + (IF v = Big(k) THEN 1 ELSE 0)
  <2> TAKE i \in DOMAIN stack', k \in DOMAIN bigs
  <2>1. NOTHING # Big(k)
    BY DEF NOTHING, Big
  <2> QED
    BY <1>4, <1>5, <1>6, <2>1
<1>8. stack' # <<>> /\ ~disturbed' => ~disturbed
  BY InvParts DEF Disturb, Rest
<1> QED
  BY <1>5, <1>6, <1>7, <1>8, PutOrderly DEF v, Waiting

\* A store where the old value was released by nobody, or was of this frame and
\* is below nothing that waits.
LEMMA StoreOrderly ==
  ASSUME CountsSuffice, Orderly, NEW place \in Holders, place \in Locals => place[1] = Depth,
         NEW old \in Content(bigs) \cup HeapVars,
         old = held[place] \/ ~is_bigint(old), Store(old, place),
         stack' # <<>> /\ ~disturbed' =>
           ~disturbed /\ (is_bigint(old) => \A i \in DOMAIN stack' : place \in Above(i))
  PROVE  Orderly'
<1> DEFINE v == Peek(0)
<1>1. /\ Operands(1) /\ bigs' = sbInteger_retain(sbInteger_release(bigs, old), v)
      /\ held' = [held EXCEPT ![place] = v] /\ stack' = Popped(1) /\ ~ReadingNow
      /\ UNCHANGED <<bases, reading, status>>
  BY DEF Store, sbVar_set_value, Running, Waiting
<1>2. PoolOK(bigs) /\ held \in Helds(bigs) /\ CountedIn(bigs, held) /\ v \in Handle(bigs)
  BY <1>1, InvParts, OnTop DEF Holds
<1> HIDE DEF v
<1>3. /\ SameNumbers(bigs, bigs')
      /\ \A k \in DOMAIN bigs : bigs'[k].refcount = bigs[k].refcount - (IF old = Big(k) THEN 1 ELSE 0)
                                                                    + (IF v = Big(k) THEN 1 ELSE 0)
  BY <1>1, <1>2, SetEffect
<1>4. /\ DOMAIN bigs' = DOMAIN bigs
      /\ \A k \in DOMAIN bigs : bigs'[k].refcount \in Nat /\ bigs[k].refcount \in Nat
  BY <1>2, <1>3, PoolShape DEF SameNumbers
<1>5. ASSUME stack' # <<>>, ~disturbed', NEW i \in DOMAIN stack', NEW k \in DOMAIN bigs
      PROVE  bigs'[k].refcount >= bigs[k].refcount
                                    - (IF place \in Above(i) /\ held[place] = Big(k) THEN 1 ELSE 0)
                                    + (IF v = Big(k) THEN 1 ELSE 0)
  <2>1. old = Big(k) => place \in Above(i) /\ held[place] = Big(k)
    BY <1>5, BigHandle
  <2> QED
    BY <1>3, <1>4, <2>1
<1> QED
  BY <1>1, <1>4, <1>5, PutOrderly DEF v

LEMMA StoresOrderly == ASSUME CountsSuffice, Orderly, Stores PROVE Orderly'
<1>1. Holds /\ Rest /\ disturbed \in BOOLEAN
  BY InvParts DEF Rest
<1>2. \A b \in Boxes : b \in Holders /\ b \notin Locals
  BY DisjointAssumption DEF Holders
<1>3. \A i \in Items : i \in Holders /\ i \notin Locals
  BY DisjointAssumption DEF Holders
<1>4. ASSUME NEW s \in Slots, StoreVar(s) PROVE Orderly'
  <2> DEFINE h == Local(s)
  <2>1. /\ Depth > 0 /\ Store(held[h], PlaceOf(h)) /\ Disturb(FALSE)
        /\ held[h] = NOTHING \/ Len(stack) = Bottom + 1
    BY <1>4 DEF StoreVar
  <2>2. h \in Locals /\ h \in Holders /\ h[1] = Depth
    BY <1>1, <2>1, LocalHolder DEF Local
  <2> HIDE DEF h
  <2>3. held[h] \in Content(bigs) \cup HeapVars
    BY <1>1, <2>2 DEF Holds, Helds
  <2>4. stack' # <<>> /\ ~disturbed' => ~disturbed
    BY <1>1, <2>1 DEF Disturb
  <2>5. CASE held[h].type = "heapvar"
    <3>1. PlaceOf(h) \in Holders /\ PlaceOf(h) \notin Locals
      BY <1>2, <2>3, <2>5 DEF PlaceOf, Content, Handle, NOTHING, HeapVars, HeapVar
    <3>2. ~is_bigint(held[h])
      BY <2>5 DEF is_bigint
    <3> QED
      BY <2>1, <2>3, <2>4, <3>1, <3>2, StoreOrderly
  <2>6. CASE held[h].type # "heapvar"
    <3>1. PlaceOf(h) = h
      BY <2>6 DEF PlaceOf
    <3>2. is_bigint(held[h]) => \A i \in DOMAIN stack' : h \in Above(i)
      <4> SUFFICES ASSUME is_bigint(held[h]), NEW i \in DOMAIN stack' PROVE h \in Above(i)
        OBVIOUS
      <4>1. Len(stack) = Bottom + 1
        BY <2>1 DEF is_bigint, NOTHING
      <4>2. stack' = Popped(1) /\ Operands(1)
        BY <2>1 DEF Store
      <4>3. i \in 1 .. Len(stack) - 1
        BY <4>2, PoppedBelow
      <4>4. i <= bases[Depth] /\ Depth \in DOMAIN bases
        BY <2>1, <4>1, <4>3, BasesTypes
      <4> QED
        BY <2>2, <4>4 DEF Above
    <3> QED
      BY <2>1, <2>2, <2>3, <2>4, <3>1, <3>2, StoreOrderly
  <2> QED
    BY <2>5, <2>6
<1>5. ASSUME NEW b \in Boxes, StoreUpval(b) PROVE Orderly'
  <2>1. Store(HeapVar(b), b) /\ Disturb(FALSE)
    BY <1>5 DEF StoreUpval
  <2>2. HeapVar(b) \in HeapVars /\ ~is_bigint(HeapVar(b))
    BY DEF HeapVars, HeapVar, is_bigint
  <2>3. stack' # <<>> /\ ~disturbed' => ~disturbed
    BY <1>1, <2>1 DEF Disturb
  <2> QED
    BY <1>2, <2>1, <2>2, <2>3, StoreOrderly
<1>6. ASSUME NEW i \in Items, StoreItem(i) PROVE Orderly'
  <2>1. Store(held[i], i) /\ Disturb(Bottom > 0) /\ Len(stack) = Bottom + 1
    BY <1>6 DEF StoreItem
  <2>2. held[i] \in Content(bigs) \cup HeapVars
    BY <1>1, <1>3 DEF Holds, Helds
  <2>3. stack' = <<>> \/ disturbed'
    <3>1. stack' = Popped(1) /\ Operands(1)
      BY <2>1 DEF Store
    <3>2. Len(stack') = Bottom /\ Bottom \in Nat /\ stack' \in Seq(Handle(bigs))
      BY <2>1, <3>1, PoppedBelow, OnTop, BasesTypes
    <3>3. stack' = <<>> \/ Bottom > 0
      BY <3>2
    <3> QED
      BY <2>1, <3>3 DEF Disturb
  <2> QED
    BY <1>3, <2>1, <2>2, <2>3, StoreOrderly
<1> QED
  BY <1>4, <1>5, <1>6 DEF Stores

LEMMA AppendOrderly == ASSUME CountsSuffice, Orderly, NEW i \in Items, sbList_append(i) PROVE Orderly'
<1>1. i \in Holders /\ i \notin Locals
  BY DisjointAssumption DEF Holders
<1> QED
  BY <1>1, FillOrderly DEF sbList_append, Running

LEMMA ConstantOrderly ==
  ASSUME CountsSuffice, Orderly, NEW c \in Consts, sbVmCompiler_add_constant(c) PROVE Orderly'
<1>1. c \in Holders /\ c \notin Locals
  BY DisjointAssumption DEF Holders
<1> QED
  BY <1>1, FillOrderly DEF sbVmCompiler_add_constant

\* A frame loses what went to the heap; the bigint keeps the count.
LEMMA MoveOrderly ==
  ASSUME CountsSuffice, Orderly, NEW s \in Slots, NEW b \in Boxes, sbVar_move_to_heap(s, b)
  PROVE  Orderly'
<1> DEFINE h == Local(s)
<1>1. /\ Depth > 0 /\ held' = [held EXCEPT ![b] = held[h], ![h] = HeapVar(b)] /\ ~ReadingNow
      /\ UNCHANGED <<bigs, stack, bases, reading, status, disturbed>>
  BY DEF sbVar_move_to_heap, Running, Waiting
<1>2. h \in Locals /\ h \in Holders /\ b \in Holders /\ b \notin Locals /\ h[1] = Depth
  BY <1>1, InvParts, LocalHolder, DisjointAssumption DEF Holders, Local
<1> HIDE DEF h
<1>3. \A g \in Locals : held'[g] = IF g = h THEN HeapVar(b) ELSE held[g]
  BY <1>1, <1>2, InvParts DEF Holds, Helds, Holders
<1>4. Depth \in Nat /\ Bottom <= Len(stack)
  BY BasesTypes DEF Orderly, FramesStand
<1>5. FramesStand'
  <2>1. \A g \in Locals : g[1] > Depth => held'[g] = held[g]
    BY <1>2, <1>3, <1>4
  <2>2. Bottom <= Len(stack')
    BY <1>1, <1>4
  <2> QED
    BY <1>1, <2>1, <2>2, FramesStandStep DEF Orderly
<1>6. OperandsBacked'
  <2> SUFFICES ASSUME ~disturbed, NEW i \in DOMAIN stack, NEW k \in DOMAIN bigs, Shared(i, k)'
               PROVE  Cardinality(Gone(held', Above(i), k)) < bigs[k].refcount
    BY <1>1, AboveSame DEF OperandsBacked
  <2>1. HeapVar(b) # Big(k)
    BY DEF HeapVar, Big
  <2>2. \A g \in Above(i) : held'[g] = Big(k) => held[g] = Big(k)
    BY <1>3, <2>1, AboveHolders
  <2>3. Shared(i, k)
    BY <1>1, <2>2, AboveSame DEF Shared
  <2>4. Cardinality(Gone(held, Above(i), k)) < bigs[k].refcount
    BY <2>3 DEF Orderly, OperandsBacked
  <2> DEFINE S == Gone(held, Above(i), k)
             T == Gone(held', Above(i), k)
  <2>5. T \in SUBSET S
    BY <2>2 DEF Gone
  <2>6. IsFiniteSet(S) /\ Cardinality(S) \in Nat /\ Cardinality(T) \in Nat /\ bigs[k].refcount \in Nat
    BY GoneFinite, AboveHolders, InvParts, PoolShape
  <2>7. Cardinality(S) < bigs[k].refcount
    BY <2>4
  <2> HIDE DEF S, T
  <2>8. Cardinality(T) <= Cardinality(S)
    BY <2>5, <2>6, FS_Subset
  <2> QED
    BY <2>6, <2>7, <2>8 DEF T
<1> QED
  BY <1>1, <1>5, <1>6, NotReading DEF Orderly

\* A new frame lies above the operands, its locals hold nothing.
LEMMA CallOrderly == ASSUME CountsSuffice, Orderly, NEW n \in 0 .. 1, Call(n) PROVE Orderly'
<1>1. /\ Depth > 0 /\ Operands(n) /\ bases' = Append(bases, Len(stack) - n) /\ ~ReadingNow /\ status = "running"
      /\ UNCHANGED <<bigs, held, stack, reading, status, disturbed>>
  BY DEF Call, Running, Waiting
<1>2. /\ Depth \in Nat /\ DOMAIN bases = 1 .. Depth /\ Len(stack) \in Nat /\ Bottom \in Nat
      /\ DOMAIN stack = 1 .. Len(stack) /\ \A d \in DOMAIN bases : bases[d] \in Nat
  BY BasesTypes
<1>3. PICK base \in Nat : base = Len(stack) - n /\ base >= Bottom /\ base <= Len(stack)
  <2>1. Len(stack) >= Bottom + n /\ n \in {0, 1}
    BY <1>1 DEF Operands
  <2>2. Len(stack) - n \in Nat /\ Len(stack) - n >= Bottom /\ Len(stack) - n <= Len(stack)
    BY <1>2, <2>1
  <2> QED
    BY <2>2
<1>4. /\ DOMAIN bases' = 1 .. Depth + 1 /\ Depth' = Depth + 1 /\ bases'[Depth + 1] = base
      /\ \A d \in DOMAIN bases : bases'[d] = bases[d]
  <2>1. bases \in Seq(Nat) /\ bases' = Append(bases, base) /\ Depth = Len(bases)
    BY <1>1, <1>3, InvParts DEF Rest, Depth
  <2> QED
    BY <1>2, <2>1 DEF Depth
<1>5. Bottom' = base
  BY <1>2, <1>4 DEF Bottom
<1>6. FramesStand'
  <2>1. \A d \in DOMAIN bases' : bases'[d] <= base
    BY <1>2, <1>3, <1>4 DEF Orderly, FramesStand
  <2>2. \A d, e \in DOMAIN bases' : d <= e => bases'[d] <= bases'[e]
    <3> SUFFICES ASSUME NEW d \in DOMAIN bases', NEW e \in DOMAIN bases', d <= e PROVE bases'[d] <= bases'[e]
      OBVIOUS
    <3>1. CASE e = Depth + 1
      BY <1>4, <2>1, <3>1
    <3>2. CASE e # Depth + 1
      BY <1>2, <1>4, <3>2 DEF Orderly, FramesStand
    <3> QED
      BY <3>1, <3>2
  <2>3. \A h \in Locals : h[1] > Depth + 1 => held[h] = NOTHING
    <3>1. \A h \in Locals : h[1] > Depth + 1 => h[1] > Depth
      BY <1>2 DEF Locals
    <3> QED
      BY <3>1 DEF Orderly, FramesStand
  <2> QED
    BY <1>1, <1>3, <1>4, <1>5, <2>1, <2>2, <2>3 DEF FramesStand
<1>7. OperandsBacked'
  <2> SUFFICES ASSUME ~disturbed, NEW i \in DOMAIN stack, NEW k \in DOMAIN bigs, Shared(i, k)'
               PROVE  Cardinality(Gone(held, Above(i)', k)) < bigs[k].refcount
    BY <1>1 DEF OperandsBacked
  <2>1. \A h \in Above(i)' : h \notin Above(i) => held[h] = NOTHING
    <3> SUFFICES ASSUME NEW h \in Above(i)', h \notin Above(i) PROVE held[h] = NOTHING
      OBVIOUS
    <3>1. h \in Locals /\ h[1] = Depth + 1
      BY <1>2, <1>4 DEF Above
    <3> QED
      BY <1>2, <3>1 DEF Orderly, FramesStand
  <2>2. Above(i) \subseteq Above(i)'
    BY <1>2, <1>4 DEF Above
  <2>3. NOTHING # Big(k)
    BY DEF NOTHING, Big
  <2>4. Gone(held, Above(i)', k) = Gone(held, Above(i), k)
    BY <2>1, <2>2, <2>3 DEF Gone
  <2>5. Shared(i, k)
    BY <1>1, <2>1, <2>3 DEF Shared
  <2> QED
    BY <2>4, <2>5 DEF Orderly, OperandsBacked
<1> QED
  BY <1>1, <1>6, <1>7, NotReading DEF Orderly

\* The frame that ends takes its counts with it, of the operands that wait
\* below it none was among them.
LEMMA ReturnOrderly == ASSUME CountsSuffice, Orderly, Return PROVE Orderly'
<1>1. /\ Depth > 0 /\ Len(stack) = Bottom + 1 /\ ~ReadingNow /\ status = "running"
      /\ bigs' = [k \in DOMAIN bigs |-> [bigs[k] EXCEPT !.refcount = @ - Cardinality(Gone(held, Frame, k))]]
      /\ held' = [h \in Holders |-> IF h \in Frame THEN NOTHING ELSE held[h]]
      /\ bases' = SubSeq(bases, 1, Depth - 1) /\ status' # "compiling"
      /\ UNCHANGED <<stack, reading, disturbed>>
  BY DEF Return, Released, Gone, Running, Waiting
<1>2. /\ Depth \in Nat /\ DOMAIN bases = 1 .. Depth /\ Bottom \in Nat /\ Bottom = bases[Depth]
      /\ DOMAIN stack = 1 .. Bottom + 1 /\ \A d \in DOMAIN bases : bases[d] \in Nat
  BY <1>1, BasesTypes
<1>3. /\ Frame \subseteq Locals /\ Frame \subseteq Holders
      /\ \A h \in Locals : h \in Frame <=> h[1] = Depth
  <2>1. Frame \subseteq Locals
    BY <1>1, InvParts, LocalHolder DEF Frame
  <2>2. \A h \in Locals : h = <<h[1], h[2]>> /\ h[2] \in Slots
    BY DEF Locals
  <2>3. \A h \in Locals : h \in Frame <=> h[1] = Depth
    BY <2>2 DEF Frame, Local
  <2> QED
    BY <2>1, <2>3 DEF Holders
<1> HIDE DEF Frame
<1>4. /\ DOMAIN bases' = 1 .. Depth - 1 /\ Depth' = Depth - 1
      /\ \A d \in DOMAIN bases' : d \in DOMAIN bases /\ bases'[d] = bases[d]
  <2>1. PICK m \in Nat : m = Depth - 1
    BY <1>1, <1>2
  <2>2. bases \in Seq(Nat) /\ bases' = SubSeq(bases, 1, m) /\ m <= Len(bases)
    BY <1>1, <2>1, InvParts DEF Rest, Depth
  <2>3. Len(SubSeq(bases, 1, m)) = m /\ DOMAIN SubSeq(bases, 1, m) = 1 .. m
        /\ \A d \in 1 .. m : SubSeq(bases, 1, m)[d] = bases[d]
    BY <2>2
  <2>4. DOMAIN bases' = 1 .. m /\ Len(bases') = m /\ \A d \in 1 .. m : bases'[d] = bases[d]
    BY <2>2, <2>3, Zenon
  <2>5. DOMAIN bases = 1 .. Len(bases) /\ Len(bases) \in Nat
    BY <2>2
  <2>6. \A d \in 1 .. m : d \in 1 .. Len(bases)
    BY <2>1, <2>2, <2>5
  <2> QED
    BY <2>1, <2>4, <2>5, <2>6, Zenon DEF Depth
<1>5. \A h \in Holders : held'[h] = IF h \in Frame THEN NOTHING ELSE held[h]
  BY <1>1
<1>6. FramesStand'
  <2>1. CASE Depth = 1
    <3>1. bases' = <<>> /\ DOMAIN bases' = {} /\ Bottom' = 0 /\ Depth' = 0
      <4>1. bases' = <<>>
        BY <1>1, <2>1
      <4> QED
        BY <4>1 DEF Bottom, Depth
    <3>2. \A h \in Locals : h[1] > 0 => held'[h] = NOTHING
      <4>1. \A h \in Locals : h[1] > 0 => h[1] = Depth \/ h[1] > Depth
        BY <2>1 DEF Locals
      <4> QED
        BY <1>3, <1>5, <4>1 DEF Orderly, FramesStand, Holders
    <3> QED
      BY <1>1, <1>2, <3>1, <3>2 DEF FramesStand
  <2>2. CASE Depth # 1
    <3>1. Depth - 1 \in DOMAIN bases' /\ Depth - 1 > 0 /\ bases' # <<>>
      BY <1>1, <1>2, <1>4, <2>2
    <3>2. Bottom' = bases[Depth - 1] /\ Bottom' \in Nat
      BY <1>2, <1>4, <3>1 DEF Bottom
    <3>3. Bottom' <= Bottom
      BY <1>2, <1>4, <3>1, <3>2 DEF Orderly, FramesStand
    <3>4. \A d, e \in DOMAIN bases' : d <= e => bases'[d] <= bases'[e]
      BY <1>4 DEF Orderly, FramesStand
    <3>5. \A d \in DOMAIN bases' : d <= Depth - 1 /\ bases'[d] <= Bottom'
      BY <1>2, <1>4, <3>1, <3>2 DEF Orderly, FramesStand
    <3>6. \A h \in Locals : h[1] > Depth - 1 => held'[h] = NOTHING
      <4>1. \A h \in Locals : h[1] > Depth - 1 => h[1] = Depth \/ h[1] > Depth
        BY <1>2 DEF Locals
      <4> QED
        BY <1>3, <1>5, <4>1 DEF Orderly, FramesStand, Holders
    <3>7. Bottom' <= Len(stack')
      BY <1>1, <1>2, <3>2, <3>3
    <3> QED
      BY <1>1, <1>4, <3>4, <3>5, <3>6, <3>7 DEF FramesStand
  <2> QED
    BY <2>1, <2>2
<1>7. OperandsBacked'
  <2> SUFFICES ASSUME ~disturbed, NEW i \in DOMAIN stack, NEW k \in DOMAIN bigs, Shared(i, k)'
               PROVE  Cardinality(Gone(held', Above(i)', k)) < bigs'[k].refcount
    BY <1>1 DEF OperandsBacked
  <2>1. Above(i)' \subseteq Above(i) /\ \A h \in Above(i)' : h \notin Frame
    <3>1. \A h \in Locals : h[1] \in DOMAIN bases' => h[1] # Depth
      BY <1>2, <1>4
    <3> QED
      BY <1>3, <1>4, <3>1 DEF Above
  <2>2. \A h \in Above(i)' : held'[h] = held[h]
    BY <1>5, <2>1, AboveHolders
  <2>3. Shared(i, k)
    BY <1>1, <2>1, <2>2 DEF Shared
  <2>4. Cardinality(Gone(held, Above(i), k)) < bigs[k].refcount
    BY <2>3 DEF Orderly, OperandsBacked
  <2>5. i # Bottom + 1
    <3> SUFFICES ASSUME i = Bottom + 1 PROVE FALSE
      OBVIOUS
    <3>1. Above(i) = {}
      BY <1>2 DEF Above, Orderly, FramesStand
    <3> QED
      BY <1>2, <2>3, <3>1 DEF Shared
  <2>6. Frame \subseteq Above(i)
    <3>1. i <= bases[Depth] /\ Depth \in DOMAIN bases
      BY <1>1, <1>2, <2>5
    <3> QED
      BY <1>3, <3>1 DEF Above
  <2> DEFINE S == Gone(held, Above(i), k)
             T == Gone(held, Frame, k)
             R == Gone(held', Above(i)', k)
  <2>7. R \in SUBSET (S \ T) /\ T \subseteq S
    BY <2>1, <2>2, <2>6 DEF Gone
  <2>8. IsFiniteSet(S) /\ Cardinality(S) \in Nat /\ IsFiniteSet(T) /\ Cardinality(T) \in Nat
        /\ Cardinality(R) \in Nat /\ bigs[k].refcount \in Nat
    <3>1. Above(i)' \subseteq Holders
      BY <2>1, AboveHolders
    <3> QED
      BY <1>3, <3>1, GoneFinite, AboveHolders, InvParts, PoolShape
  <2>9. bigs'[k].refcount = bigs[k].refcount - Cardinality(T)
    <3>1. bigs[k] \in [refcount : Nat, sign_bit : BOOLEAN, pieces : {bigs[k].pieces}]
      BY InvParts DEF PoolOK
    <3> QED
      BY <1>1, <3>1
  <2>10. Cardinality(S) < bigs[k].refcount
    BY <2>4
  <2> HIDE DEF S, T, R
  <2>11. S \cap T = T
    BY <2>7
  <2>12. IsFiniteSet(S \ T) /\ Cardinality(S \ T) = Cardinality(S) - Cardinality(T)
    BY <2>8, <2>11, FS_Difference
  <2>13. Cardinality(R) <= Cardinality(S \ T)
    BY <2>7, <2>12, FS_Subset
  <2> QED
    BY <2>8, <2>9, <2>10, <2>12, <2>13 DEF R
<1> QED
  BY <1>1, <1>6, <1>7, NotReading DEF Orderly

-------------------------------------------------------------------------------
(* Arithmetic.  It takes the two operands on top; those below stay what they  *)
(* are, because one that is like an operand is counted.                       *)

WaitingKept ==
  \A i \in DOMAIN stack :
     ~disturbed' /\ i \in DOMAIN stack' /\ stack'[i] = stack[i] /\ stack[i].type = "big"
     /\ (stack' # stack => i < Len(stack')) => SameNumber(stack[i])

LEMMA OperandIsBig ==
  ASSUME CountsSuffice, NEW i \in DOMAIN stack, is_bigint(stack[i])
  PROVE  stack[i].at \in DOMAIN bigs /\ stack[i] = Big(stack[i].at)
<1>1. stack[i] \in Handle(bigs)
  BY InvParts
<1> QED
  BY <1>1, BigHandle DEF Content

LEMMA OperateOrderly ==
  ASSUME CountsSuffice, Orderly, Waiting, Operands(2), NEW r, Grown(bigs, r.bigs),
         Written(bigs, r.bigs, {Peek(1), Peek(0)}), Made(bigs, r.n, {Peek(1), Peek(0)}), Operate(r)
  PROVE  Orderly' /\ WaitingKept
<1> DEFINE n == Len(stack)
           a == Peek(1)
           b == Peek(0)
           v == r.n
<1>1. /\ bigs' = r.bigs /\ stack' = Append(Popped(2), v) /\ ~ReadingNow
      /\ UNCHANGED <<held, bases, reading, status, disturbed>>
  BY DEF Operate, Pushed, Waiting
<1>2. n \in Nat /\ n >= Bottom + 2 /\ Bottom \in Nat /\ DOMAIN stack = 1 .. n
  BY BasesTypes DEF Operands
<1>3. /\ Len(Popped(2)) = n - 2 /\ Popped(2) \in Seq(Handle(bigs)) /\ a = stack[n - 1] /\ b = stack[n - 0]
      /\ \A i \in 1 .. n - 2 : Popped(2)[i] = stack[i]
  BY PoppedBelow, OnTop
<1>4. b = stack[n]
  BY <1>2, <1>3
<1>5. /\ Len(stack') = n - 1 /\ DOMAIN stack' = 1 .. n - 1 /\ stack'[n - 1] = v
      /\ \A i \in 1 .. n - 2 : stack'[i] = stack[i]
  <2> HIDE DEF v, n
  <2>1. n - 2 \in Nat
    BY <1>2
  <2>2. PICK m \in Nat : m = n - 2
    BY <2>1
  <2>3. m + 1 = n - 1
    BY <1>2, <2>2
  <2>4. Len(Append(Popped(2), v)) = m + 1 /\ DOMAIN Append(Popped(2), v) = 1 .. m + 1
        /\ Append(Popped(2), v)[m + 1] = v /\ \A i \in 1 .. m : Append(Popped(2), v)[i] = Popped(2)[i]
    BY <1>3, <2>2
  <2> QED
    BY <1>1, <1>3, <2>2, <2>3, <2>4
<1>6. ASSUME ~disturbed, NEW i \in 1 .. n - 2, NEW k \in DOMAIN bigs, stack[i] = Big(k), Big(k) \in {a, b}
      PROVE  bigs[k].refcount # 0
  <2>1. n \in DOMAIN stack /\ n - 1 \in DOMAIN stack /\ i \in DOMAIN stack /\ i < n /\ i < n - 1
    BY <1>2
  <2>2. stack[n] = Big(k) \/ stack[n - 1] = Big(k)
    BY <1>3, <1>4, <1>6
  <2> QED
    BY <1>6, <2>1, <2>2, SharedIsCounted DEF Orderly
<1> HIDE DEF a, b, n, v
<1>7. DOMAIN bigs \subseteq DOMAIN bigs' /\ \A k \in DOMAIN bigs : bigs'[k].refcount = bigs[k].refcount
  BY <1>1 DEF Grown
<1>8. FramesStand'
  <2>1. Bottom <= Len(stack')
    BY <1>2, <1>5
  <2> QED
    BY <1>1, <2>1, FramesStandStep DEF Orderly
<1>9. OperandsBacked'
  <2> SUFFICES ASSUME ~disturbed, NEW i \in DOMAIN stack', NEW k \in DOMAIN bigs', Shared(i, k)'
               PROVE  Cardinality(Gone(held, Above(i), k)) < bigs'[k].refcount
    BY <1>1, AboveSame DEF OperandsBacked
  <2>1. Above(i)' = Above(i)
    BY <1>1, AboveSame
  <2>2. i # n - 1
    <3> SUFFICES ASSUME i = n - 1 PROVE FALSE
      OBVIOUS
    <3>1. Above(i) = {}
      BY <1>2, BasesTypes DEF Above, Orderly, FramesStand
    <3> QED
      BY <1>2, <1>5, <2>1, <3>1 DEF Shared
  <2>3. i \in 1 .. n - 2 /\ i \in DOMAIN stack /\ stack[i] = Big(k)
    BY <1>2, <1>5, <2>2 DEF Shared
  <2>4. k \in DOMAIN bigs
    BY <2>3, OperandIsBig DEF is_bigint, Big
  <2>5. v # Big(k)
    <3> SUFFICES ASSUME v = Big(k) PROVE FALSE
      OBVIOUS
    <3>1. Big(k) \in {a, b} /\ bigs[k].refcount = 0
      BY <2>4 DEF Made, is_bigint, Big, v, a, b
    <3> QED
      BY <1>6, <2>3, <2>4, <3>1
  <2>6. Shared(i, k)
    BY <1>1, <1>2, <1>5, <2>1, <2>3, <2>5 DEF Shared
  <2> QED
    BY <1>7, <2>3, <2>4, <2>6 DEF Orderly, OperandsBacked
<1>10. WaitingKept
  <2> SUFFICES ASSUME ~disturbed', NEW i \in DOMAIN stack, i \in DOMAIN stack', stack[i].type = "big",
                      stack' # stack => i < Len(stack')
               PROVE  SameNumber(stack[i])
    BY DEF WaitingKept
  <2> DEFINE k == stack[i].at
  <2>1. stack' # stack
    BY <1>2, <1>5
  <2>2. i \in 1 .. n - 2
    BY <1>2, <1>5, <2>1
  <2>3. k \in DOMAIN bigs /\ stack[i] = Big(k)
    BY OperandIsBig DEF is_bigint
  <2>4. ~(Big(k) \in {a, b} /\ bigs[k].refcount = 0)
    BY <1>1, <1>6, <2>2, <2>3
  <2> QED
    BY <1>1, <2>3, <2>4 DEF Written, SameNumber, a, b
<1> QED
  BY <1>1, <1>8, <1>9, <1>10, NotReading DEF Orderly

LEMMA FailKeeps == ASSUME CountsSuffice, Fail PROVE WaitingKept
BY DEF Fail, WaitingKept, SameNumber

LEMMA ArithmeticOrderly == ASSUME CountsSuffice, Orderly, Sum \/ Diff \/ Mul PROVE Orderly' /\ WaitingKept
<1>1. Operands(2) /\ Waiting
  BY DEF Sum, Diff, Mul, Computing
<1>2. PoolOK(bigs) /\ Peek(0) \in Handle(bigs) /\ Peek(1) \in Handle(bigs)
  BY <1>1, InvParts, OnTop
<1>3. CASE Fail
  BY <1>1, <1>3, FailOrderly, FailKeeps
<1>4. CASE Operate(sbInteger_sum(bigs, Peek(1), Peek(0)))
  BY <1>1, <1>2, <1>4, Operation, OperationWrites, OperateOrderly
<1>5. CASE CanDiff(Peek(1), Peek(0)) /\ Operate(sbInteger_diff(bigs, Peek(1), Peek(0)))
  BY <1>1, <1>2, <1>5, Operation, OperationWrites, OperateOrderly
<1>6. CASE Operate(sbInteger_mul(bigs, Peek(1), Peek(0)))
  BY <1>1, <1>2, <1>6, Operation, OperationWrites, OperateOrderly
<1> QED
  BY <1>3, <1>4, <1>5, <1>6 DEF Sum, Diff, Mul

\* The number that is being read may be written, and is no operand.
LEMMA ReadDigitOrderly == ASSUME CountsSuffice, Orderly, ReadDigit PROVE Orderly' /\ WaitingKept
<1> DEFINE digit == Head(reading.left)
           times == sbInteger_mul(bigs, reading.n, Small(BASE))
           plus  == sbInteger_sum(times.bigs, times.n, Small(digit))
<1>1. PoolOK(bigs) /\ stack \in Seq(Handle(bigs)) /\ Rest /\ ReadingNow
  BY InvParts DEF ReadDigit
<1>2. /\ reading.left \in Seq(0 .. BASE - 1) /\ reading.left # <<>> /\ reading.n \in Handle(bigs)
  BY <1>1 DEF Rest, ReadDigit, ReadingNow
<1>3. digit \in 0 .. BASE - 1
  BY <1>2, HeadTailProperties
<1>4. BASE \in Nat /\ digit \in Nat
  BY <1>3, LiteralAssumption
<1>5. \A p : Small(BASE) \in Handle(p) /\ Small(digit) \in Handle(p)
  BY <1>4 DEF Small, Handle
<1>6. ~is_bigint(Small(BASE)) /\ ~is_bigint(Small(digit))
  BY DEF Small, is_bigint
<1> HIDE DEF digit
<1>7. /\ Grown(bigs, times.bigs) /\ times.n \in Handle(times.bigs)
      /\ Written(bigs, times.bigs, {reading.n, Small(BASE)}) /\ Made(bigs, times.n, {reading.n, Small(BASE)})
  BY <1>1, <1>2, <1>5, Operation, OperationWrites
<1> HIDE DEF times
<1>8. PoolOK(times.bigs)
  BY <1>7 DEF Grown
<1>9. /\ Grown(times.bigs, plus.bigs)
      /\ Written(times.bigs, plus.bigs, {times.n, Small(digit)}) /\ Made(times.bigs, plus.n, {times.n, Small(digit)})
  BY <1>5, <1>7, <1>8, Operation, OperationWrites
<1> HIDE DEF plus
<1>10. Grown(bigs, plus.bigs)
  BY <1>7, <1>9, GrownTransitive
<1>11. Written(bigs, plus.bigs, {reading.n}) /\ Made(bigs, plus.n, {reading.n})
  BY <1>6, <1>7, <1>9, BothWrite
<1>12. /\ bigs' = plus.bigs
       /\ UNCHANGED <<held, bases, status, disturbed>>
       /\ \/ stack' = Append(stack, plus.n) /\ reading' = Idle
          \/ stack' = stack /\ reading'.n = plus.n
  BY DEF ReadDigit, digit, times, plus
<1>13. ASSUME NEW i \in DOMAIN stack, NEW k, stack[i] = Big(k)
       PROVE  k \in DOMAIN bigs /\ reading.n # Big(k)
  <2>1. k \in DOMAIN bigs
    BY <1>13, OperandIsBig DEF is_bigint, Big
  <2>2. is_bigint(Big(k))
    BY DEF is_bigint, Big
  <2> QED
    BY <1>1, <1>13, <2>1, <2>2 DEF Orderly, ReadingAlone
<1>14. \A i \in DOMAIN stack : is_bigint(plus.n) => stack[i] # plus.n
  <2> SUFFICES ASSUME NEW i \in DOMAIN stack, is_bigint(plus.n), stack[i] = plus.n PROVE FALSE
    OBVIOUS
  <2>1. stack[i].at \in DOMAIN bigs /\ stack[i] = Big(stack[i].at)
    BY OperandIsBig
  <2> QED
    BY <1>11, <1>13, <2>1 DEF Made
<1>15. DOMAIN bigs \subseteq DOMAIN bigs' /\ \A k \in DOMAIN bigs : bigs'[k].refcount = bigs[k].refcount
  BY <1>10, <1>12 DEF Grown
<1> DEFINE n == Len(stack)
<1>16. n \in Nat /\ DOMAIN stack = 1 .. n /\ Bottom \in Nat /\ Bottom <= n
  BY BasesTypes DEF Orderly, FramesStand
<1>17. /\ DOMAIN stack' \in {1 .. n, 1 .. n + 1} /\ Len(stack') \in {n, n + 1}
       /\ \A i \in DOMAIN stack : i \in DOMAIN stack' /\ stack'[i] = stack[i]
       /\ n + 1 \in DOMAIN stack' => stack'[n + 1] = plus.n
  <2>1. CASE stack' = stack
    BY <1>16, <2>1
  <2>2. CASE stack' = Append(stack, plus.n)
    BY <1>1, <1>16, <2>2
  <2> QED
    BY <1>12, <2>1, <2>2
<1> HIDE DEF n
<1>18. FramesStand'
  <2>1. Bottom <= Len(stack')
    BY <1>16, <1>17
  <2> QED
    BY <1>12, <2>1, FramesStandStep DEF Orderly
<1>19. OperandsBacked'
  <2> SUFFICES ASSUME ~disturbed, NEW i \in DOMAIN stack', NEW k \in DOMAIN bigs', Shared(i, k)'
               PROVE  Cardinality(Gone(held, Above(i), k)) < bigs'[k].refcount
    BY <1>12, AboveSame DEF OperandsBacked
  <2>1. Above(i)' = Above(i)
    BY <1>12, AboveSame
  <2>2. i # n + 1
    <3> SUFFICES ASSUME i = n + 1 PROVE FALSE
      OBVIOUS
    <3>1. Above(i) = {}
      BY <1>16, BasesTypes DEF Above, Orderly, FramesStand
    <3> QED
      BY <1>16, <1>17, <2>1, <3>1 DEF Shared
  <2>3. i \in DOMAIN stack /\ stack[i] = Big(k)
    BY <1>16, <1>17, <2>2 DEF Shared
  <2>4. k \in DOMAIN bigs /\ plus.n # Big(k)
    BY <1>13, <1>14, <2>3 DEF is_bigint, Big
  <2>5. Shared(i, k)
    BY <1>12, <1>16, <1>17, <2>1, <2>3, <2>4 DEF Shared
  <2> QED
    BY <1>15, <2>3, <2>4, <2>5 DEF Orderly, OperandsBacked
<1>20. ReadingAlone'
  <2>1. CASE reading' = Idle
    BY <2>1 DEF ReadingAlone, Idle, Small, is_bigint
  <2>2. CASE stack' = stack /\ reading'.n = plus.n
    BY <1>14, <2>2 DEF ReadingAlone
  <2> QED
    BY <1>12, <2>1, <2>2
<1>21. WaitingKept
  <2> SUFFICES ASSUME NEW i \in DOMAIN stack, stack[i].type = "big" PROVE SameNumber(stack[i])
    BY DEF WaitingKept
  <2> DEFINE k == stack[i].at
  <2>1. k \in DOMAIN bigs /\ stack[i] = Big(k)
    BY OperandIsBig DEF is_bigint
  <2>2. Big(k) # reading.n
    BY <1>13, <2>1
  <2> QED
    BY <1>11, <1>12, <2>1, <2>2 DEF Written, SameNumber
<1> QED
  BY <1>18, <1>19, <1>20, <1>21 DEF Orderly

-------------------------------------------------------------------------------
(* Every step, and the theorem.                                               *)

LEMMA LoadsOrderly == ASSUME CountsSuffice, Orderly, Loads PROVE Orderly'
<1>1. PICK h \in Boxes \cup Items \cup Consts \cup (IF Depth = 0 THEN {} ELSE Frame) : Load(h)
  BY DEF Loads
<1>2. CASE h \in Boxes \cup Items \cup Consts
  <2>1. h \in Holders /\ h \notin Locals
    BY <1>2, DisjointAssumption DEF Holders
  <2> QED
    BY <1>1, <2>1, LoadOrderly
<1>3. CASE Depth # 0 /\ h \in Frame
  <2>1. Rest /\ Depth > 0
    BY <1>3, InvParts, BottomType
  <2>2. h \in Holders /\ h[1] = Depth
    BY <1>3, <2>1, LocalHolder DEF Frame, Local
  <2> QED
    BY <1>1, <2>1, <2>2, LoadOrderly
<1> QED
  BY <1>1, <1>2, <1>3

LEMMA NextOrderly == CountsSuffice /\ Orderly /\ [Next]_vars => Orderly'
<1> SUFFICES ASSUME CountsSuffice, Orderly, [Next]_vars PROVE Orderly'
  OBVIOUS
<1>1. CASE \E literal \in Literals : Read(literal)
  BY <1>1, ReadOrderly
<1>2. CASE ReadDigit
  BY <1>2, ReadDigitOrderly
<1>3. CASE \E c \in Consts : sbVmCompiler_add_constant(c)
  BY <1>3, ConstantOrderly
<1>4. CASE Start \/ Loads \/ Stores \/ Pop
  BY <1>4, StartOrderly, LoadsOrderly, StoresOrderly, PopOrderly
<1>5. CASE \E i \in Items : sbList_append(i)
  BY <1>5, AppendOrderly
<1>6. CASE \E s \in Slots, b \in Boxes : sbVar_move_to_heap(s, b)
  BY <1>6, MoveOrderly
<1>7. CASE Sum \/ Diff \/ Mul
  BY <1>7, ArithmeticOrderly
<1>8. CASE \E n \in 0 .. 1 : Call(n)
  BY <1>8, CallOrderly
<1>9. CASE Return
  BY <1>9, ReturnOrderly
<1>10. CASE UNCHANGED vars
  <2>1. ReadingAlone' /\ status' = status
    BY <1>10 DEF vars, Orderly, ReadingAlone, ReadingNow
  <2> QED
    BY <1>10, <2>1, StillOrderly DEF vars
<1> QED
  BY <1>1, <1>2, <1>3, <1>4, <1>5, <1>6, <1>7, <1>8, <1>9, <1>10 DEF Next

(* No operand that waits becomes another number: arithmetic writes only to *)
(* operands that nobody counts, and one that waits while its like is used  *)
(* has a count that no store and no end of a frame takes before it is used *)
(* itself (finalize_bigint, sbVar_set_value, return_from_block); an item   *)
(* that is assigned within a call meanwhile is the exception.              *)
THEOREM WaitingOperands == Spec => OperandsKept
<1>1. CountsSuffice /\ Orderly /\ [Next]_vars => [WaitingKept]_vars
  <2> SUFFICES ASSUME CountsSuffice, Orderly, [Next]_vars PROVE WaitingKept
    OBVIOUS
  <2>1. CASE SameNumbers(bigs, bigs')
    <3> SUFFICES ASSUME NEW i \in DOMAIN stack, stack[i].type = "big" PROVE SameNumber(stack[i])
      BY DEF WaitingKept
    <3>1. stack[i].at \in DOMAIN bigs
      BY OperandIsBig DEF is_bigint
    <3> QED
      BY <2>1, <3>1 DEF SameNumbers, SameNumber
  <2>2. CASE Computes
    BY <2>2, ArithmeticOrderly, ReadDigitOrderly DEF Computes
  <2>3. Moderate
    BY NextKept DEF Kept
  <2> QED
    BY <2>1, <2>2, <2>3 DEF Moderate
<1>2. Spec => []Orderly
  BY Counts, InitOrderly, NextOrderly, PTL DEF Spec
<1> QED
  BY <1>1, <1>2, Counts, PTL DEF Spec, OperandsKept, WaitingKept

-------------------------------------------------------------------------------
(* Numbers.  What is added and multiplied piece by piece is given by functions *)
(* that the code computes from the lowest piece up, what is printed by one     *)
(* from the highest down.  They are compared by what follows a piece: its      *)
(* Tails, which need no powers.                                                *)

(* A set of naturals has a least element. *)
LEMMA LeastElement ==
  ASSUME NEW S \in SUBSET Nat, S # {}
  PROVE  \E j \in S : \A l \in S : j <= l
<1>1. PICK j \in S : \A l \in S : ~(<<l, j>> \in OpToRel(<, Nat))
  BY NatLessThanWellFounded, WFMin
<1>2. \A l \in S : ~(l < j)
  BY <1>1 DEF OpToRel
<1> QED
  BY <1>2

(* A function that is given by its value before: there is one. *)
Recurs(f, n, F) == \A i \in 0 .. n : f[i] = F[<<i, IF i = 0 THEN 0 ELSE f[i - 1]>>]
LEMMA RecursionExists ==
  ASSUME NEW n \in Int, NEW F \in [(0 .. n) \X Int -> Int]
  PROVE  \E f \in [0 .. n -> Int] : Recurs(f, n, F)
<1> DEFINE Has(m) == \E f \in [0 .. m -> Int] : Recurs(f, m, F)
           Bad == {m \in 0 .. n : ~Has(m)}
<1>1. CASE n < 0
  <2>1. 0 .. n = {}
    BY <1>1
  <2>2. [i \in 0 .. n |-> 0] \in [0 .. n -> Int]
    OBVIOUS
  <2> QED
    BY <2>1, <2>2 DEF Recurs
<1>2. CASE n >= 0 /\ Bad # {}
  <2>1. PICK m \in Bad : \A l \in Bad : m <= l
    <3>1. Bad \in SUBSET Nat
      OBVIOUS
    <3> HIDE DEF Bad
    <3> QED
      BY <1>2, <3>1, LeastElement
  <2>2. m \in 0 .. n /\ m \in Nat /\ ~Has(m)
    OBVIOUS
  <2>3. CASE m = 0
    <3> DEFINE f == [i \in 0 .. 0 |-> F[<<0, 0>>]]
    <3>1. f \in [0 .. m -> Int]
      BY <1>2, <2>3
    <3>2. Recurs(f, m, F)
      BY <2>3 DEF Recurs
    <3> HIDE DEF f
    <3> QED
      BY <2>2, <3>1, <3>2
  <2>4. CASE m # 0
    <3>1. m - 1 \in 0 .. n /\ ~(m <= m - 1)
      BY <2>2, <2>4
    <3>2. Has(m - 1)
      <4> SUFFICES ASSUME ~Has(m - 1) PROVE FALSE
        OBVIOUS
      <4>1. m - 1 \in Bad
        BY <3>1
      <4> HIDE DEF Bad
      <4> QED
        BY <2>1, <3>1, <4>1
    <3>3. PICK f \in [0 .. m - 1 -> Int] : Recurs(f, m - 1, F)
      BY <3>2
    <3>4. F[<<m, f[m - 1]>>] \in Int /\ f[m - 1] \in Int
      BY <2>2, <3>1
    <3> DEFINE g == [i \in 0 .. m |-> IF i = m THEN F[<<m, f[m - 1]>>] ELSE f[i]]
    <3>5. g \in [0 .. m -> Int]
      BY <2>2, <3>4
    <3>6. g[m] = F[<<m, f[m - 1]>>] /\ \A i \in 0 .. m - 1 : g[i] = f[i]
      BY <2>2
    <3> HIDE DEF g
    <3>7. \A i \in 0 .. m : g[i] = F[<<i, IF i = 0 THEN 0 ELSE g[i - 1]>>]
      <4> TAKE i \in 0 .. m
      <4>1. CASE i = m
        <5>1. g[m - 1] = f[m - 1]
          BY <2>2, <2>4, <3>6
        <5> QED
          BY <2>4, <3>6, <4>1, <5>1
      <4>2. CASE i # m /\ i = 0
        <5>1. i \in 0 .. m - 1
          BY <2>2, <2>4, <4>2
        <5> QED
          BY <3>3, <3>6, <4>2, <5>1 DEF Recurs
      <4>3. CASE i # m /\ i # 0
        <5>1. i \in 0 .. m - 1 /\ i - 1 \in 0 .. m - 1
          BY <2>2, <4>3
        <5> QED
          BY <3>3, <3>6, <4>3, <5>1 DEF Recurs
      <4> QED
        BY <4>1, <4>2, <4>3
    <3> QED
      BY <2>2, <3>5, <3>7 DEF Recurs
  <2> QED
    BY <2>3, <2>4
<1>3. CASE n >= 0 /\ Bad = {}
  <2>1. n \in 0 .. n
    BY <1>3
  <2>2. Has(n)
    BY <1>3, <2>1
  <2> QED
    BY <2>2
<1> QED
  BY <1>1, <1>2, <1>3

(* h[i] is the number that the pieces of x from i on make. *)
Tails(h, x, n) == h[n] = 0 /\ \A i \in 0 .. n - 1 : h[i] = x[i] + PIECE * h[i + 1]
Digits(n) == [0 .. n - 1 -> 0 .. PIECE - 1]

(* A claim about tails goes from the last to the first. *)
LEMMA TailsAgree ==
  ASSUME NEW n \in Nat, NEW x, NEW h, NEW g, Tails(h, x, n), Tails(g, x, n)
  PROVE  \A i \in 0 .. n : h[i] = g[i]
<1> DEFINE Bad == {j \in 0 .. n : h[n - j] # g[n - j]}
<1>1. SUFFICES ASSUME Bad # {} PROVE FALSE
  <2> SUFFICES ASSUME NEW i \in 0 .. n, h[i] # g[i] PROVE Bad # {}
    OBVIOUS
  <2>1. n - (n - i) = i /\ n - i \in 0 .. n
    OBVIOUS
  <2> QED
    BY <2>1
<1>2. PICK j \in Bad : \A l \in Bad : j <= l
  <2>1. Bad \in SUBSET Nat
    OBVIOUS
  <2> HIDE DEF Bad
  <2> QED
    BY <1>1, <2>1, LeastElement
<1>3. j \in 0 .. n /\ h[n - j] # g[n - j]
  OBVIOUS
<1>4. j # 0
  BY <1>3 DEF Tails
<1>5. j - 1 \in 0 .. n /\ ~(j <= j - 1) /\ n - j \in 0 .. n - 1 /\ n - (j - 1) = (n - j) + 1
  BY <1>3, <1>4
<1>6. j - 1 \notin Bad
  <2> HIDE DEF Bad
  <2> QED
    BY <1>2, <1>5
<1>7. h[n - (j - 1)] = g[n - (j - 1)]
  BY <1>5, <1>6
<1>8. h[(n - j) + 1] = g[(n - j) + 1]
  BY <1>5, <1>7
<1>9. h[n - j] = x[n - j] + PIECE * h[(n - j) + 1] /\ g[n - j] = x[n - j] + PIECE * g[(n - j) + 1]
  BY <1>5 DEF Tails
<1> QED
  BY <1>3, <1>8, <1>9

LEMMA TailsExist ==
  ASSUME NEW n \in Nat, NEW x \in [0 .. n - 1 -> Int]
  PROVE  \E h \in [0 .. n -> Int] : Tails(h, x, n)
<1> DEFINE F == [e \in (0 .. n) \X Int |-> IF e[1] = 0 THEN 0 ELSE x[n - e[1]] + PIECE * e[2]]
<1>1. F \in [(0 .. n) \X Int -> Int]
  <2> SUFFICES ASSUME NEW e \in (0 .. n) \X Int, e[1] # 0 PROVE x[n - e[1]] + PIECE * e[2] \in Int
    OBVIOUS
  <2>1. e[1] \in 0 .. n /\ e[2] \in Int /\ n - e[1] \in 0 .. n - 1
    OBVIOUS
  <2>2. x[n - e[1]] \in Int /\ PIECE \in Int
    BY <2>1, PieceAssumption
  <2> QED
    BY <2>1, <2>2
<1>2. \A i \in 0 .. n, v \in Int : F[<<i, v>>] = IF i = 0 THEN 0 ELSE x[n - i] + PIECE * v
  OBVIOUS
<1> HIDE DEF F
<1>3. PICK f \in [0 .. n -> Int] : Recurs(f, n, F)
  <2>1. n \in Int
    OBVIOUS
  <2> QED
    BY <1>1, <2>1, RecursionExists
<1> DEFINE h == [i \in 0 .. n |-> f[n - i]]
<1>4. h \in [0 .. n -> Int] /\ \A i \in 0 .. n : h[i] = f[n - i]
  OBVIOUS
<1>5. f[0] = 0
  <2>1. 0 \in 0 .. n /\ 0 \in Int
    OBVIOUS
  <2>2. f[0] = F[<<0, 0>>]
    BY <1>3, <2>1 DEF Recurs
  <2> QED
    BY <1>2, <2>1, <2>2
<1>6. h[n] = 0
  BY <1>4, <1>5
<1>7. ASSUME NEW i \in 0 .. n - 1 PROVE h[i] = x[i] + PIECE * h[i + 1]
  <2>1. n - i \in 0 .. n /\ n - i # 0 /\ (n - i) - 1 = n - (i + 1) /\ n - (n - i) = i
        /\ i \in 0 .. n /\ i + 1 \in 0 .. n /\ n - (i + 1) \in 0 .. n
    OBVIOUS
  <2>2. f[n - (i + 1)] \in Int /\ h[i + 1] = f[n - (i + 1)] /\ h[i] = f[n - i]
    BY <1>4, <2>1
  <2>3. f[n - i] = F[<<n - i, f[n - (i + 1)]>>]
    BY <1>3, <2>1 DEF Recurs
  <2>4. f[n - i] = x[n - (n - i)] + PIECE * f[n - (i + 1)]
    BY <1>2, <2>1, <2>2, <2>3
  <2> QED
    BY <2>1, <2>2, <2>4
<1> HIDE DEF h
<1> QED
  BY <1>4, <1>6, <1>7 DEF Tails

(* Zeros above make nothing. *)
LEMMA TailsZero ==
  ASSUME NEW n \in Nat, NEW x, NEW h, Tails(h, x, n), NEW k \in 0 .. n, \A i \in k .. n - 1 : x[i] = 0
  PROVE  h[k] = 0
<1> DEFINE y == [i \in 0 .. (n - k) - 1 |-> 0]
           g == [i \in 0 .. n - k |-> h[k + i]]
           z == [i \in 0 .. n - k |-> 0]
<1>1. n - k \in Nat
  OBVIOUS
<1>2. Tails(g, y, n - k)
  <2>1. g[n - k] = 0
    BY DEF Tails
  <2>2. ASSUME NEW i \in 0 .. (n - k) - 1 PROVE g[i] = y[i] + PIECE * g[i + 1]
    <3>1. k + i \in 0 .. n - 1 /\ k + i \in k .. n - 1 /\ i \in 0 .. n - k /\ i + 1 \in 0 .. n - k
          /\ k + (i + 1) = (k + i) + 1
      OBVIOUS
    <3>2. g[i] = h[k + i] /\ g[i + 1] = h[(k + i) + 1] /\ y[i] = 0 /\ x[k + i] = 0
      BY <3>1
    <3>3. h[k + i] = x[k + i] + PIECE * h[(k + i) + 1]
      BY <3>1 DEF Tails
    <3> QED
      BY <3>2, <3>3
  <2> HIDE DEF g, y
  <2> QED
    BY <2>1, <2>2 DEF Tails
<1>3. Tails(z, y, n - k)
  BY PieceAssumption DEF Tails
<1>4. 0 \in 0 .. n - k /\ g[0] = h[k] /\ z[0] = 0
  OBVIOUS
<1> HIDE DEF g, y, z
<1>5. g[0] = z[0]
  BY <1>1, <1>2, <1>3, <1>4, TailsAgree
<1> QED
  BY <1>4, <1>5

-------------------------------------------------------------------------------
(* What is printed.                                                            *)

FromZero(ps) == [i \in 0 .. Len(ps) - 1 |-> ps[i + 1]]
Pieces == Seq(0 .. PIECE - 1)

LEMMA FromZeroIs ==
  ASSUME NEW ps \in Pieces
  PROVE  /\ Len(ps) \in Nat /\ FromZero(ps) \in Digits(Len(ps)) /\ FromZero(ps) \in [0 .. Len(ps) - 1 -> Int]
         /\ \A i \in 0 .. Len(ps) - 1 : FromZero(ps)[i] = ps[i + 1]
<1>1. ps \in Seq(0 .. PIECE - 1) /\ Len(ps) \in Nat
  BY DEF Pieces
<1>2. \A i \in 0 .. Len(ps) - 1 : i + 1 \in 1 .. Len(ps) /\ ps[i + 1] \in 0 .. PIECE - 1
  <2>1. \A k \in 1 .. Len(ps) : ps[k] \in 0 .. PIECE - 1
    BY <1>1, ElementOfSeq
  <2>2. \A i \in 0 .. Len(ps) - 1 : i + 1 \in 1 .. Len(ps)
    BY <1>1
  <2> QED
    BY <2>1, <2>2
<1>3. 0 .. PIECE - 1 \subseteq Int
  OBVIOUS
<1> QED
  BY <1>1, <1>2, <1>3 DEF FromZero, Digits

Printing(g, ps) ==
  g = [i \in 0 .. Len(ps) |-> IF i = 0 THEN 0 ELSE g[i - 1] * PIECE + ps[Len(ps) + 1 - i]]

(* The pieces from the highest down make what their tails make. *)
LEMMA PrintedPieces ==
  ASSUME NEW ps \in Pieces, NEW h, Tails(h, FromZero(ps), Len(ps))
  PROVE  LET upto == CHOOSE g : Printing(g, ps) IN upto[Len(ps)] = h[0]
<1> DEFINE n == Len(ps)
           x == FromZero(ps)
           upto == CHOOSE g : Printing(g, ps)
<1>1. n \in Nat /\ x \in [0 .. n - 1 -> Int] /\ \A i \in 0 .. n - 1 : x[i] = ps[i + 1]
  BY FromZeroIs
<1> HIDE DEF n, x
<1>2. PICK t \in [0 .. n -> Int] : Tails(t, x, n)
  BY <1>1, TailsExist
<1>3. \E g : Printing(g, ps)
  <2> DEFINE g == [i \in 0 .. n |-> t[n - i]]
  <2>1. \A i \in 0 .. n : g[i] = t[n - i]
    OBVIOUS
  <2>2. ASSUME NEW i \in 0 .. n PROVE g[i] = IF i = 0 THEN 0 ELSE g[i - 1] * PIECE + ps[n + 1 - i]
    <3>1. CASE i = 0
      BY <1>1, <1>2, <2>1, <3>1 DEF Tails
    <3>2. CASE i # 0
      <4>1. n - i \in 0 .. n - 1 /\ i - 1 \in 0 .. n /\ n - (i - 1) = (n - i) + 1 /\ (n - i) + 1 = n + 1 - i
            /\ (n - i) + 1 \in 0 .. n
        BY <1>1, <3>2
      <4>2. t[n - i] = x[n - i] + PIECE * t[(n - i) + 1] /\ x[n - i] = ps[(n - i) + 1]
        BY <1>1, <1>2, <4>1 DEF Tails
      <4>3. g[i - 1] = t[(n - i) + 1] /\ g[i] = t[n - i]
        BY <2>1, <4>1
      <4>4. t[(n - i) + 1] \in Int /\ x[n - i] \in Int /\ PIECE \in Int
        BY <1>1, <4>1, PieceAssumption
      <4>5. \A p, q, r \in Int : q + p * r = r * p + q
        OBVIOUS
      <4>6. t[n - i] = t[(n - i) + 1] * PIECE + x[n - i]
        BY <4>2, <4>4, <4>5
      <4> QED
        BY <3>2, <4>1, <4>2, <4>3, <4>6
    <3> QED
      BY <3>1, <3>2
  <2>3. g = [i \in 0 .. n |-> g[i]]
    OBVIOUS
  <2> HIDE DEF g
  <2>4. g = [i \in 0 .. n |-> IF i = 0 THEN 0 ELSE g[i - 1] * PIECE + ps[n + 1 - i]]
    BY <2>2, <2>3
  <2> QED
    BY <2>4 DEF Printing, n
<1>4. Printing(upto, ps)
  BY <1>3
<1> HIDE DEF upto
<1>5. \A i \in 0 .. n : upto[i] = IF i = 0 THEN 0 ELSE upto[i - 1] * PIECE + ps[n + 1 - i]
  BY <1>4, Zenon DEF Printing, n
<1> DEFINE u == [i \in 0 .. n |-> upto[n - i]]
<1>6. \A i \in 0 .. n : n - i \in 0 .. n /\ u[i] = upto[n - i]
  BY <1>1
<1>7. \A i \in 0 .. n : upto[i] = t[n - i]
  <2> DEFINE Bad == {i \in 0 .. n : upto[i] # t[n - i]}
  <2>1. SUFFICES ASSUME Bad # {} PROVE FALSE
    OBVIOUS
  <2>2. PICK i \in Bad : \A l \in Bad : i <= l
    <3>1. Bad \in SUBSET Nat
      BY <1>1
    <3> HIDE DEF Bad
    <3> QED
      BY <2>1, <3>1, LeastElement
  <2>3. i \in 0 .. n /\ upto[i] # t[n - i]
    OBVIOUS
  <2>4. i # 0
    BY <1>1, <1>2, <1>5, <2>3 DEF Tails
  <2>5. n - i \in 0 .. n - 1 /\ i - 1 \in 0 .. n /\ n - (i - 1) = (n - i) + 1 /\ (n - i) + 1 = n + 1 - i
        /\ (n - i) + 1 \in 0 .. n /\ ~(i <= i - 1)
    BY <1>1, <2>3, <2>4
  <2>6. i - 1 \notin Bad
    <3> HIDE DEF Bad
    <3> QED
      BY <2>2, <2>5
  <2>7. upto[i - 1] = t[(n - i) + 1]
    BY <2>5, <2>6
  <2>8. t[n - i] = x[n - i] + PIECE * t[(n - i) + 1] /\ x[n - i] = ps[(n - i) + 1]
    BY <1>1, <1>2, <2>5 DEF Tails
  <2>9. upto[i] = upto[i - 1] * PIECE + ps[n + 1 - i]
    BY <1>5, <2>3, <2>4
  <2>10. t[(n - i) + 1] \in Int /\ x[n - i] \in Int /\ PIECE \in Int
    BY <1>1, <2>5, PieceAssumption
  <2>11. \A p, q, r \in Int : q + p * r = r * p + q
    OBVIOUS
  <2>12. t[n - i] = t[(n - i) + 1] * PIECE + x[n - i]
    BY <2>8, <2>10, <2>11
  <2> QED
    BY <2>3, <2>5, <2>7, <2>8, <2>9, <2>12
<1>8. upto[n] = t[0]
  BY <1>1, <1>7
<1>9. t[0] = h[0]
  <2>1. 0 \in 0 .. n /\ Tails(h, x, n)
    BY <1>1 DEF n, x
  <2> QED
    BY <1>1, <1>2, <2>1, TailsAgree
<1> QED
  BY <1>8, <1>9 DEF upto, n

(* A bigint without a sign is the number its pieces make. *)
\* The bigint k has these pieces and no sign.
Plain(p, k, ps) == p[k].pieces = ps /\ p[k].sign_bit = FALSE
LEMMA Printed ==
  ASSUME NEW p, NEW k, NEW ps \in Pieces, Plain(p, k, ps),
         NEW h, Tails(h, FromZero(ps), Len(ps)), h[0] \in Int
  PROVE  sbInteger_fprint(p, Big(k)) = h[0]
<1> USE DEF Plain
<1> DEFINE upto == CHOOSE g : Printing(g, ps)
<1>1. upto[Len(ps)] = h[0]
  BY PrintedPieces
<1>2. Big(k).at = k /\ is_bigint(Big(k))
  BY DEF Big, is_bigint
<1>3. sbInteger_fprint(p, Big(k)) = int_sign(p, Big(k)) * upto[Len(ps)]
  BY <1>2, Zenon DEF sbInteger_fprint, Printing
<1> HIDE DEF upto
<1>4. CASE \A i \in DOMAIN ps : ps[i] = 0
  <2>1. int_sign(p, Big(k)) = 0
    BY <1>2, <1>4 DEF int_sign
  <2>2. DOMAIN ps = 1 .. Len(ps) /\ Len(ps) \in Nat
    BY DEF Pieces
  <2>3. \A i \in 0 .. Len(ps) - 1 : FromZero(ps)[i] = 0
    <3> TAKE i \in 0 .. Len(ps) - 1
    <3>1. i + 1 \in DOMAIN ps /\ FromZero(ps)[i] = ps[i + 1]
      BY <2>2, FromZeroIs
    <3> QED
      BY <1>4, <3>1
  <2>4. h[0] = 0
    <3>1. 0 \in 0 .. Len(ps)
      BY <2>2
    <3> QED
      BY <2>2, <2>3, <3>1, TailsZero
  <2> QED
    BY <1>1, <1>3, <2>1, <2>4
<1>5. CASE ~(\A i \in DOMAIN ps : ps[i] = 0)
  <2>1. int_sign(p, Big(k)) = 1
    BY <1>2, <1>5 DEF int_sign
  <2> QED
    BY <1>1, <1>3, <2>1
<1> QED
  BY <1>4, <1>5

-------------------------------------------------------------------------------
(* Arithmetic on pieces.                                                        *)

LEMMA MaxExists ==
  ASSUME NEW n \in Nat, NEW S \in SUBSET (0 .. n), S # {}
  PROVE  Max(S) \in S /\ \A l \in S : l <= Max(S)
<1> DEFINE T == {n - j : j \in S}
<1>1. T \in SUBSET Nat /\ T # {}
  <2>1. \A j \in S : n - j \in Nat
    OBVIOUS
  <2>2. PICK j \in S : TRUE
    OBVIOUS
  <2>3. n - j \in T
    OBVIOUS
  <2> QED
    BY <2>1, <2>3
<1>2. PICK t \in T : \A l \in T : t <= l
  <2> HIDE DEF T
  <2> QED
    BY <1>1, LeastElement
<1>3. PICK j \in S : t = n - j
  OBVIOUS
<1>4. \A l \in S : l <= j
  <2> TAKE l \in S
  <2>1. n - l \in T /\ j \in Int /\ l \in Int
    OBVIOUS
  <2>2. n - j <= n - l
    BY <1>2, <1>3, <2>1
  <2> QED
    BY <2>1, <2>2
<1>5. \A x \in S : (\A y \in S : x >= y) <=> (\A y \in S : y <= x)
  OBVIOUS
<1>6. \E x \in S : \A y \in S : x >= y
  BY <1>3, <1>4, <1>5
<1>7. Max(S) \in S /\ \A y \in S : Max(S) >= y
  BY <1>6 DEF Max
<1> QED
  BY <1>5, <1>7

(* Column sums from the lowest up, each with what the one before carries.  *)
Carry(d, i) == IF i = 0 THEN 0 ELSE d[i - 1] \div PIECE

\* What a column can be, so that nothing is carried out of a piece's square.
Columns(y, n) ==
  /\ y \in [0 .. n - 1 -> Nat]
  /\ y[0] < PIECE * PIECE
  /\ \A i \in 1 .. n - 1 : y[i] <= PIECE * PIECE - PIECE
  /\ y[n - 1] = 0
Summed(d, y, n) ==
  \A i \in 0 .. n - 1 : LET v == y[i] + Carry(d, i) IN v < PIECE * PIECE => d[i] = v

Remainders(r, d, n) == \A i \in 0 .. n - 1 : r[i] = d[i] % PIECE

LEMMA SquareDiv == \A v \in 0 .. PIECE * PIECE - 1 :
   v \div PIECE \in 0 .. PIECE - 1 /\ v % PIECE \in 0 .. PIECE - 1 /\ v = (v % PIECE) + PIECE * (v \div PIECE)
<1> SUFFICES ASSUME NEW v \in 0 .. PIECE * PIECE - 1
             PROVE  v \div PIECE \in 0 .. PIECE - 1 /\ v % PIECE \in 0 .. PIECE - 1 /\ v = (v % PIECE) + PIECE * (v \div PIECE)
  OBVIOUS
<1>1. PIECE \in Nat /\ PIECE > 1 /\ v \in Nat /\ v < PIECE * PIECE
  BY PieceAssumption
<1>2. v % PIECE \in 0 .. PIECE - 1 /\ v \div PIECE \in Nat /\ v = PIECE * (v \div PIECE) + (v % PIECE)
  BY <1>1
<1>3. v \div PIECE < PIECE
  <2> DEFINE q == v \div PIECE
  <2> HIDE DEF q
  <2>1. SUFFICES ASSUME q >= PIECE PROVE FALSE
    BY <1>1, <1>2 DEF q
  <2>2. q \in Nat /\ PIECE * q <= v
    BY <1>1, <1>2 DEF q
  <2>3. PIECE * q >= PIECE * PIECE
    BY <1>1, <2>1, <2>2
  <2> QED
    BY <1>1, <2>2, <2>3
<1> QED
  BY <1>1, <1>2, <1>3

LEMMA SmallDiv == \A v \in 0 .. PIECE - 1 : v \div PIECE = 0
<1> SUFFICES ASSUME NEW v \in 0 .. PIECE - 1 PROVE v \div PIECE = 0
  OBVIOUS
<1>1. PIECE \in Nat /\ PIECE > 1 /\ v \in Nat /\ v < PIECE
  BY PieceAssumption
<1> QED
  BY <1>1

LEMMA Bounded ==
  ASSUME NEW n \in Nat, n > 0, NEW y, Columns(y, n), NEW d, Summed(d, y, n)
  PROVE  \A i \in 0 .. n - 1 : d[i] \in 0 .. PIECE * PIECE - 1 /\ d[i] = y[i] + Carry(d, i)
<1> DEFINE Fine(i) == d[i] \in 0 .. PIECE * PIECE - 1 /\ d[i] = y[i] + Carry(d, i)
           Bad == {i \in 0 .. n - 1 : ~Fine(i)}
<1>1. SUFFICES ASSUME Bad # {} PROVE FALSE
  OBVIOUS
<1>2. PICK i \in Bad : \A l \in Bad : i <= l
  <2>1. Bad \in SUBSET Nat
    OBVIOUS
  <2> HIDE DEF Bad
  <2> QED
    BY <1>1, <2>1, LeastElement
<1>3. i \in 0 .. n - 1 /\ ~Fine(i) /\ y[i] \in Nat
  BY DEF Columns
<1>4. PIECE \in Nat /\ PIECE * PIECE \in Nat
  BY PieceAssumption
<1>5. CASE i = 0
  <2>1. Carry(d, i) = 0 /\ y[i] < PIECE * PIECE
    BY <1>5 DEF Carry, Columns
  <2>2. d[i] = y[i] + Carry(d, i)
    BY <1>3, <2>1 DEF Summed
  <2> QED
    BY <1>3, <1>4, <2>1, <2>2
<1>6. CASE i # 0
  <2>1. i - 1 \in 0 .. n - 1 /\ ~(i <= i - 1) /\ i \in 1 .. n - 1
    BY <1>3, <1>6
  <2>2. i - 1 \notin Bad
    <3> HIDE DEF Bad
    <3> QED
      BY <1>2, <2>1
  <2>3. d[i - 1] \in 0 .. PIECE * PIECE - 1
    BY <2>1, <2>2
  <2>4. Carry(d, i) \in 0 .. PIECE - 1
    BY <1>6, <2>3, SquareDiv DEF Carry
  <2>5. y[i] <= PIECE * PIECE - PIECE
    BY <2>1 DEF Columns
  <2>6. y[i] + Carry(d, i) < PIECE * PIECE /\ y[i] + Carry(d, i) \in Nat
    BY <1>3, <1>4, <2>4, <2>5
  <2>7. d[i] = y[i] + Carry(d, i)
    BY <1>3, <2>6 DEF Summed
  <2> QED
    BY <1>3, <1>4, <2>6, <2>7
<1> QED
  BY <1>5, <1>6

LEMMA Carried ==
  ASSUME NEW n \in Nat, n > 0, NEW y, Columns(y, n), NEW d, Summed(d, y, n),
         NEW H \in [0 .. n -> Int], Tails(H, y, n),
         NEW r, Remainders(r, d, n)
  PROVE  \E g : Tails(g, r, n) /\ g[0] = H[0]
<1> DEFINE g == [i \in 0 .. n |-> H[i] + Carry(d, i)]
<1>1. \A i \in 0 .. n - 1 : d[i] \in 0 .. PIECE * PIECE - 1 /\ d[i] = y[i] + Carry(d, i)
  BY Bounded
<1>2. \A i \in 0 .. n - 1 : r[i] \in Int /\ d[i] \div PIECE \in Int /\ d[i] = r[i] + PIECE * (d[i] \div PIECE)
                            /\ y[i] \in Nat /\ Carry(d, i) \in Int
  <2> TAKE i \in 0 .. n - 1
  <2>1. r[i] \in Int /\ d[i] \div PIECE \in Int /\ d[i] = r[i] + PIECE * (d[i] \div PIECE)
    BY <1>1, SquareDiv DEF Remainders
  <2>2. CASE i = 0
    BY <2>1, <2>2 DEF Columns, Carry
  <2>3. CASE i # 0
    <3>1. i - 1 \in 0 .. n - 1
      BY <2>3
    <3>2. d[i - 1] \div PIECE \in Int
      BY <1>1, <3>1, SquareDiv
    <3> QED
      BY <2>1, <2>3, <3>2 DEF Columns, Carry
  <2> QED
    BY <2>2, <2>3
<1>3. n \in 0 .. n /\ n - 1 \in 0 .. n - 1 /\ n # 0
  OBVIOUS
<1>4. g[n] = 0
  <2>1. d[n - 1] = Carry(d, n - 1) /\ H[n] = 0
    BY <1>1, <1>2, <1>3 DEF Columns, Tails
  <2>2. d[n - 1] \in 0 .. PIECE - 1
    <3>1. CASE n - 1 = 0
      BY <2>1, <3>1, PieceAssumption DEF Carry
    <3>2. CASE n - 1 # 0
      <4>1. (n - 1) - 1 \in 0 .. n - 1
        BY <3>2
      <4>2. d[(n - 1) - 1] \in 0 .. PIECE * PIECE - 1
        BY <1>1, <4>1
      <4> QED
        BY <2>1, <3>2, <4>2, SquareDiv DEF Carry
    <3> QED
      BY <3>1, <3>2
  <2>3. d[n - 1] \div PIECE = 0
    <3>1. \A v \in 0 .. PIECE - 1 : v \div PIECE = 0
      BY SmallDiv
    <3> QED
      BY <2>2, <3>1
  <2> QED
    BY <1>3, <2>1, <2>3 DEF Carry
<1>5. ASSUME NEW i \in 0 .. n - 1 PROVE g[i] = r[i] + PIECE * g[i + 1]
  <2>1. i + 1 \in 0 .. n /\ i \in 0 .. n /\ (i + 1) - 1 = i /\ i + 1 # 0
    OBVIOUS
  <2>2. g[i] = H[i] + Carry(d, i) /\ g[i + 1] = H[i + 1] + (d[i] \div PIECE)
    BY <2>1 DEF Carry
  <2>3. H[i] = y[i] + PIECE * H[i + 1] /\ H[i] \in Int /\ H[i + 1] \in Int /\ PIECE \in Int
    BY <2>1, PieceAssumption DEF Tails
  <2>4. \A a, b, c \in Int : PIECE * (a + b) = PIECE * a + PIECE * b
    BY PieceAssumption
  <2>5. PIECE * g[i + 1] = PIECE * H[i + 1] + PIECE * (d[i] \div PIECE)
    BY <1>2, <2>2, <2>3, <2>4
  <2>6. PIECE * H[i + 1] \in Int /\ PIECE * (d[i] \div PIECE) \in Int
    <3>1. \A a \in Int : PIECE * a \in Int
      BY PieceAssumption
    <3>2. d[i] \div PIECE \in Int
      BY <1>2
    <3>3. H[i + 1] \in Int
      BY <2>3
    <3> QED
      BY <3>1, <3>2, <3>3, Zenon
  <2>7. /\ d[i] = y[i] + Carry(d, i) /\ d[i] = r[i] + PIECE * (d[i] \div PIECE)
        /\ r[i] \in Int /\ y[i] \in Int /\ Carry(d, i) \in Int
    BY <1>1, <1>2
  <2> DEFINE yi == y[i]
             ri == r[i]
             ci == Carry(d, i)
             qi == PIECE * (d[i] \div PIECE)
             ti == PIECE * H[i + 1]
  <2>8. g[i] = (yi + ti) + ci /\ yi + ci = ri + qi /\ PIECE * g[i + 1] = ti + qi
    BY <2>2, <2>3, <2>5, <2>7
  <2>9. ci \in Int /\ qi \in Int /\ ti \in Int /\ yi \in Int /\ ri \in Int
    BY <2>6, <2>7
  <2>10. g[i] = ri + PIECE * g[i + 1]
    <3> HIDE DEF g, yi, ri, ci, qi, ti
    <3>1. (yi + ti) + ci = (yi + ci) + ti /\ (ri + qi) + ti = ri + (ti + qi)
      BY <2>9
    <3> QED
      BY <2>8, <3>1
  <2> QED
    BY <2>10
<1>6. 0 \in 0 .. n /\ g[0] = H[0]
  BY DEF Carry
<1> HIDE DEF g
<1>7. Tails(g, r, n)
  BY <1>4, <1>5 DEF Tails
<1> QED
  BY <1>6, <1>7

-------------------------------------------------------------------------------
(* Operands and results.  No number is negative here: no bigint has a sign.     *)

Proper(p) == \A k \in DOMAIN p : p[k].pieces \in Pieces /\ p[k].sign_bit = FALSE
Fits(n) == n.type = "small" => n.i \in 0 .. INT_MAX

\* What an operation returns: a result that is this number.
Exact(r, v) == Proper(r.bigs) /\ Fits(r.n) /\ sbInteger_fprint(r.bigs, r.n) = v

LEMMA SmallInWord == INT_MAX \in Nat /\ INT_MAX < PIECE * PIECE /\ PIECE * PIECE < WORD /\ WORD \in Nat
  /\ \A i \in 0 .. INT_MAX : i % WORD = i
<1>1. INT_MAX \in Nat /\ INT_MAX < PIECE * PIECE
  <2>1. PIECE * PIECE \in Nat
    BY PieceAssumption
  <2> QED
    BY <2>1, SmallAssumption
<1>2. PIECE * PIECE < WORD /\ WORD \in Nat /\ PIECE * PIECE \in Nat
  BY PieceAssumption, WordAssumption
<1>3. \A i \in 0 .. INT_MAX : i % WORD = i
  <2> TAKE i \in 0 .. INT_MAX
  <2>1. i \in Nat /\ i < WORD
    BY <1>1, <1>2
  <2> QED
    BY <1>2, <2>1
<1> QED
  BY <1>1, <1>2, <1>3

LEMMA PiecesOf ==
  ASSUME NEW p, Proper(p), NEW n \in Handle(p), Fits(n)
  PROVE  /\ int_size(p, n) \in Nat
         /\ \A i \in Nat : /\ int_piece(p, n, i) \in Nat
                           /\ i >= int_size(p, n) => int_piece(p, n, i) = 0
                           /\ is_bigint(n) \/ i > 0 => int_piece(p, n, i) <= PIECE - 1
                           /\ int_piece(p, n, 0) < PIECE * PIECE
         /\ ~is_bigint(n) => /\ int_size(p, n) = 1 /\ int_piece(p, n, 0) = n.i
                             /\ n.i \in 0 .. INT_MAX
<1>1. CASE is_bigint(n)
  <2> DEFINE ps == p[n.at].pieces
  <2>1. n.at \in DOMAIN p
    BY <1>1 DEF Handle, is_bigint
  <2>2. ps \in Pieces
    BY <2>1 DEF Proper
  <2>3. Len(ps) \in Nat /\ \A i \in 0 .. Len(ps) - 1 : ps[i + 1] \in 0 .. PIECE - 1
    BY <2>2, FromZeroIs DEF Digits
  <2>4. int_size(p, n) = Len(ps) /\ \A i : int_piece(p, n, i) = IF i < Len(ps) THEN ps[i + 1] ELSE 0
    BY <1>1 DEF int_size, int_piece
  <2> HIDE DEF ps
  <2>5. \A i \in Nat : int_piece(p, n, i) \in 0 .. PIECE - 1 /\ (i >= Len(ps) => int_piece(p, n, i) = 0)
    <3> TAKE i \in Nat
    <3>1. CASE i < Len(ps)
      <4>1. i \in 0 .. Len(ps) - 1
        BY <2>3, <3>1
      <4> QED
        BY <2>3, <2>4, <3>1, <4>1
    <3>2. CASE ~(i < Len(ps))
      BY <2>4, <3>2, PieceAssumption
    <3> QED
      BY <2>3, <3>1, <3>2
  <2>6. PIECE - 1 < PIECE * PIECE
    BY PieceAssumption
  <2>7. \A v \in 0 .. PIECE - 1 : v \in Nat /\ v <= PIECE - 1 /\ v < PIECE * PIECE
    BY <2>6, PieceAssumption
  <2>8. 0 \in Nat
    OBVIOUS
  <2> QED
    BY <1>1, <2>3, <2>4, <2>5, <2>7, <2>8
<1>2. CASE ~is_bigint(n)
  <2>1. n.type = "small" /\ n.i \in 0 .. INT_MAX
    BY <1>2 DEF Handle, is_bigint, Fits
  <2>2. int_size(p, n) = 1 /\ \A i : int_piece(p, n, i) = IF i = 0 THEN n.i ELSE 0
    BY <1>2, <2>1, SmallInWord DEF int_size, int_piece
  <2>3. n.i \in Nat /\ n.i < PIECE * PIECE /\ 0 <= PIECE - 1
    <3>1. PIECE * PIECE \in Nat
      BY PieceAssumption
    <3> QED
      BY <2>1, <3>1, SmallInWord, PieceAssumption
  <2> QED
    BY <1>2, <2>1, <2>2, <2>3
<1> QED
  BY <1>1, <1>2

\* Zeros above can be left out.
LEMMA TailsShorter ==
  ASSUME NEW n \in Nat, NEW x, NEW h, Tails(h, x, n), NEW k \in 0 .. n, \A i \in k .. n - 1 : x[i] = 0,
         NEW y, \A i \in 0 .. k - 1 : y[i] = x[i]
  PROVE  Tails(h, y, k)
<1>1. h[k] = 0
  BY TailsZero
<1>2. \A i \in 0 .. k - 1 : i \in 0 .. n - 1
  OBVIOUS
<1> QED
  BY <1>1, <1>2 DEF Tails

LEMMA Operand ==
  ASSUME NEW p, Proper(p), NEW n \in Handle(p), Fits(n), NEW m \in Nat, m >= int_size(p, n)
  PROVE  \E h \in [0 .. m -> Int] : /\ Tails(h, [i \in 0 .. m - 1 |-> int_piece(p, n, i)], m)
                                    /\ h[0] = sbInteger_fprint(p, n)
<1> DEFINE x == [i \in 0 .. m - 1 |-> int_piece(p, n, i)]
           s == int_size(p, n)
<1>1. \A i \in 0 .. m - 1 : i \in Nat /\ x[i] = int_piece(p, n, i) /\ x[i] \in Int
  BY PiecesOf
<1>2. x \in [0 .. m - 1 -> Int]
  BY <1>1
<1>3. s \in 0 .. m /\ \A i \in s .. m - 1 : x[i] = 0
  <2>1. s \in 0 .. m
    BY PiecesOf
  <2>2. \A i \in s .. m - 1 : i \in 0 .. m - 1 /\ i \in Nat /\ i >= s
    BY <2>1
  <2> QED
    BY <1>1, <2>1, <2>2, PiecesOf
<1> HIDE DEF x
<1>4. PICK h \in [0 .. m -> Int] : Tails(h, x, m)
  BY <1>2, TailsExist
<1>5. h[0] \in Int
  OBVIOUS
<1>6. CASE is_bigint(n)
  <2> DEFINE k == n.at
             ps == p[k].pieces
  <2>1. k \in DOMAIN p /\ n = Big(k)
    BY <1>6 DEF Handle, is_bigint, Big
  <2>2. ps \in Pieces /\ p[k].sign_bit = FALSE /\ s = Len(ps)
    BY <1>6, <2>1 DEF Proper, int_size
  <2>3. \A i \in 0 .. s - 1 : FromZero(ps)[i] = x[i]
    <3> TAKE i \in 0 .. s - 1
    <3>1. FromZero(ps)[i] = ps[i + 1]
      BY <2>2, FromZeroIs
    <3>2. s \in Nat /\ i < s /\ i \in 0 .. m - 1
      <4> HIDE DEF s
      <4> QED
        BY <1>3
    <3>3. int_piece(p, n, i) = ps[i + 1]
      BY <1>6, <2>2, <3>2 DEF int_piece
    <3> QED
      BY <1>1, <3>1, <3>2, <3>3
  <2>4. Tails(h, FromZero(ps), s)
    BY <1>3, <1>4, <2>3, TailsShorter
  <2>5. sbInteger_fprint(p, Big(k)) = h[0]
    <3>1. Plain(p, k, ps)
      BY <2>2 DEF Plain
    <3>2. Tails(h, FromZero(ps), Len(ps)) /\ ps \in Pieces
      BY <2>2, <2>4
    <3> HIDE DEF ps, s
    <3> QED
      BY <1>5, <3>1, <3>2, Printed
  <2> QED
    BY <1>4, <2>1, <2>5 DEF x
<1>7. CASE ~is_bigint(n)
  <2>1. s = 1 /\ int_piece(p, n, 0) = n.i /\ n.i \in Int
    BY <1>7, PiecesOf
  <2>2. h[1] = 0
    BY <1>3, <1>4, <2>1, TailsZero
  <2>3. 0 \in 0 .. m - 1 /\ 0 + 1 = 1
    BY <1>3, <2>1
  <2>4. h[0] = x[0] + PIECE * h[0 + 1] /\ x[0] = n.i
    BY <1>1, <1>4, <2>1, <2>3 DEF Tails
  <2>5. h[0] = n.i
    BY <2>1, <2>2, <2>3, <2>4, PieceAssumption
  <2>6. sbInteger_fprint(p, n) = n.i
    BY <1>7 DEF sbInteger_fprint
  <2> QED
    BY <1>4, <2>5, <2>6 DEF x
<1> QED
  BY <1>6, <1>7

LEMMA Trimmed ==
  ASSUME NEW ps \in Pieces, NEW h, Tails(h, FromZero(ps), Len(ps))
  PROVE  trim_bigint(ps) \in Pieces /\ Tails(h, FromZero(trim_bigint(ps)), Len(trim_bigint(ps)))
<1> DEFINE n == Len(ps)
           S == {0} \cup {i \in DOMAIN ps : ps[i] # 0}
           t == Max(S)
           qs == trim_bigint(ps)
<1>1. n \in Nat /\ DOMAIN ps = 1 .. n /\ ps \in Seq(0 .. PIECE - 1)
  BY DEF Pieces
<1>2. S \in SUBSET (0 .. n) /\ S # {}
  BY <1>1
<1> HIDE DEF n
<1>3. t \in S /\ \A l \in S : l <= t
  <2> HIDE DEF S
  <2> QED
    BY <1>1, <1>2, MaxExists
<1>4. t \in 0 .. n
  BY <1>2, <1>3
<1>5. qs = SubSeq(ps, 1, t)
  BY DEF trim_bigint
<1>6. \A l \in 1 .. n : ps[l] # 0 => l <= t
  BY <1>1, <1>3
<1> HIDE DEF t, S, qs
<1>7. qs \in Pieces /\ Len(qs) = t
  <2>1. t \in Nat /\ t <= Len(ps)
    BY <1>1, <1>4 DEF n
  <2>2. SubSeq(ps, 1, t) \in Seq(0 .. PIECE - 1) /\ Len(SubSeq(ps, 1, t)) = t
    BY <1>1, <2>1, Shortened
  <2> QED
    BY <1>5, <2>2 DEF Pieces
<1>8. \A i \in t .. n - 1 : FromZero(ps)[i] = 0
  <2> TAKE i \in t .. n - 1
  <2>1. i + 1 \in 1 .. n /\ ~(i + 1 <= t) /\ i \in 0 .. n - 1
    BY <1>1, <1>4
  <2>2. ps[i + 1] = 0
    BY <1>6, <2>1
  <2> QED
    BY <2>1, <2>2, FromZeroIs DEF n
<1>9. \A i \in 0 .. t - 1 : FromZero(qs)[i] = FromZero(ps)[i]
  <2> TAKE i \in 0 .. t - 1
  <2>1. i + 1 \in 1 .. t /\ i \in 0 .. n - 1
    BY <1>1, <1>4
  <2>2. qs[i + 1] = ps[i + 1]
    BY <1>1, <1>4, <1>5, <2>1
  <2>3. FromZero(qs)[i] = qs[i + 1]
    BY <1>7, FromZeroIs
  <2> QED
    BY <2>1, <2>2, <2>3, FromZeroIs DEF n
<1>10. Tails(h, FromZero(qs), t)
  <2>1. Tails(h, FromZero(ps), n)
    BY DEF n
  <2> QED
    BY <1>1, <1>4, <1>8, <1>9, <2>1, TailsShorter
<1> QED
  BY <1>7, <1>10 DEF qs

LEMMA WithPieces ==
  ASSUME NEW p, Proper(p), NEW q, NEW k, DOMAIN q \subseteq DOMAIN p \cup {k}, \A l \in DOMAIN q : l # k => q[l] = p[l],
         NEW ps \in Pieces, q[k].pieces = ps, q[k].sign_bit = FALSE,
         NEW h, Tails(h, FromZero(ps), Len(ps)), h[0] \in Int
  PROVE  Exact(Returned(q, Big(k)), h[0])
<1>1. Proper(q)
  <2> SUFFICES ASSUME NEW l \in DOMAIN q PROVE q[l].pieces \in Pieces /\ q[l].sign_bit = FALSE
    BY DEF Proper
  <2>1. CASE l = k
    BY <2>1
  <2>2. CASE l # k
    BY <2>2 DEF Proper
  <2> QED
    BY <2>1, <2>2
<1>2. Fits(Big(k))
  BY DEF Fits, Big
<1>3. sbInteger_fprint(q, Big(k)) = h[0]
  <2>1. Plain(q, k, ps)
    BY DEF Plain
  <2> QED
    BY <2>1, Printed
<1> QED
  BY <1>1, <1>2, <1>3 DEF Exact, Returned

LEMMA NewExact ==
  ASSUME NEW p, PoolOK(p), Proper(p), NEW ps \in Pieces,
         NEW h, Tails(h, FromZero(ps), Len(ps)), h[0] \in Int
  PROVE  Exact(new_bigint(p, ps, FALSE), h[0])
<1> DEFINE e == [refcount |-> 0, sign_bit |-> FALSE, pieces |-> ps]
           q == Append(p, e)
           k == Len(p) + 1
<1>1. Len(p) \in Nat /\ DOMAIN p = 1 .. Len(p) /\ p \in Seq({p[l] : l \in DOMAIN p})
  BY PoolShape DEF PoolOK
<1>2. q = [l \in 1 .. k |-> IF l = k THEN e ELSE p[l]]
  BY <1>1
<1>3. DOMAIN q \subseteq DOMAIN p \cup {k} /\ (\A l \in DOMAIN q : l # k => q[l] = p[l]) /\ q[k] = e
  BY <1>1, <1>2
<1>4. e.pieces = ps /\ e.sign_bit = FALSE
  OBVIOUS
<1> HIDE DEF q, e, k
<1>5. Exact(Returned(q, Big(k)), h[0])
  BY <1>3, <1>4, WithPieces
<1> QED
  BY <1>5 DEF q, e, k, new_bigint

LEMMA Finished ==
  ASSUME NEW p, PoolOK(p), Proper(p), NEW a \in Handle(p), NEW b \in Handle(p), NEW ps \in Pieces,
         NEW h, Tails(h, FromZero(ps), Len(ps)), h[0] \in Int
  PROVE  Exact(finalize_bigint(p, a, b, ps), h[0])
<1>1. ASSUME NEW n \in Handle(p), Reusable(p, n)
      PROVE  Exact(Returned([p EXCEPT ![n.at].pieces = ps], n), h[0])
  <2> DEFINE k == n.at
             q == [p EXCEPT ![k].pieces = ps]
  <2>1. k \in DOMAIN p /\ n = Big(k)
    BY <1>1 DEF Reusable, is_bigint, Handle, Big
  <2>2. p[k] \in [refcount : Nat, sign_bit : BOOLEAN, pieces : {p[k].pieces}] /\ p[k].sign_bit = FALSE
    BY <2>1 DEF PoolOK, Proper
  <2>3. DOMAIN q \subseteq DOMAIN p \cup {k} /\ \A l \in DOMAIN q : l # k => q[l] = p[l]
    OBVIOUS
  <2>4. q[k].pieces = ps /\ q[k].sign_bit = FALSE
    BY <2>1, <2>2
  <2> HIDE DEF k, q
  <2>5. Exact(Returned(q, Big(k)), h[0])
    BY <2>3, <2>4, WithPieces
  <2> QED
    BY <2>1, <2>5 DEF k, q
<1> QED
  BY <1>1, NewExact DEF finalize_bigint

\* What the columns of an operation come to.
LEMMA FromColumns ==
  ASSUME NEW p, PoolOK(p), Proper(p), NEW a \in Handle(p), NEW b \in Handle(p),
         NEW n \in Nat, n > 0, NEW y, Columns(y, n), NEW d, Summed(d, y, n),
         NEW H \in [0 .. n -> Int], Tails(H, y, n),
         NEW ps, ps = [i \in 1 .. n |-> d[i - 1] % PIECE]
  PROVE  Exact(finalize_bigint(p, a, b, trim_bigint(ps)), H[0])
<1>1. \A i \in 1 .. n : d[i - 1] % PIECE \in 0 .. PIECE - 1
  <2> TAKE i \in 1 .. n
  <2>1. i - 1 \in 0 .. n - 1
    OBVIOUS
  <2>2. d[i - 1] \in 0 .. PIECE * PIECE - 1
    BY <2>1, Bounded
  <2> QED
    BY <2>2, SquareDiv
<1>2. ps \in [1 .. n -> 0 .. PIECE - 1]
  BY <1>1
<1>3. ps \in Seq(0 .. PIECE - 1) /\ Len(ps) = n
  BY <1>2
<1>4. FromZero(ps) = [i \in 0 .. n - 1 |-> d[i] % PIECE]
  <2>1. \A i \in 0 .. n - 1 : i + 1 \in 1 .. n /\ (i + 1) - 1 = i
    OBVIOUS
  <2>2. \A i \in 0 .. n - 1 : ps[i + 1] = d[i] % PIECE
    BY <2>1
  <2> QED
    BY <1>3, <2>2 DEF FromZero
<1>5. PICK g : Tails(g, FromZero(ps), n) /\ g[0] = H[0]
  <2> DEFINE r == FromZero(ps)
  <2>1. Remainders(r, d, n)
    BY <1>4 DEF Remainders
  <2> HIDE DEF r
  <2>2. \E g : Tails(g, r, n) /\ g[0] = H[0]
    BY <2>1, Carried
  <2> QED
    BY <2>2 DEF r
<1>6. H[0] \in Int
  OBVIOUS
<1>7. ps \in Pieces
  BY <1>3 DEF Pieces
<1>8. trim_bigint(ps) \in Pieces /\ Tails(g, FromZero(trim_bigint(ps)), Len(trim_bigint(ps)))
  BY <1>3, <1>5, <1>7, Trimmed
<1> QED
  BY <1>5, <1>6, <1>8, Finished

\* A number that is made up of one or two pieces.
LEMMA NewIsExact ==
  ASSUME NEW p, PoolOK(p), Proper(p), NEW v \in Nat, v <= 2 * INT_MAX
  PROVE  Exact(sbInteger_new(p, v), v)
<1>1. CASE v <= INT_MAX
  <2>1. sbInteger_new(p, v) = Returned(p, Small(v))
    BY <1>1 DEF sbInteger_new
  <2>2. Fits(Small(v)) /\ sbInteger_fprint(p, Small(v)) = v
    BY <1>1, SmallAssumption DEF Fits, Small, sbInteger_fprint, is_bigint
  <2> QED
    BY <2>1, <2>2 DEF Exact, Returned
<1>2. CASE ~(v <= INT_MAX)
  <2> DEFINE ps == <<v % PIECE, v \div PIECE>>
             h == [i \in 0 .. 2 |-> IF i = 0 THEN v ELSE IF i = 1 THEN v \div PIECE ELSE 0]
  <2>1. sbInteger_new(p, v) = new_bigint(p, ps, FALSE)
    <3>1. (v < 0) = FALSE
      OBVIOUS
    <3>2. sbInteger_new(p, v) = new_bigint(p, ps, v < 0)
      BY <1>2, <3>1 DEF sbInteger_new
    <3> QED
      BY <3>1, <3>2
  <2>2. v \in 0 .. PIECE * PIECE - 1
    <3>1. PIECE * PIECE \in Nat
      BY PieceAssumption
    <3> QED
      BY <3>1, SmallAssumption
  <2>3. v \div PIECE \in 0 .. PIECE - 1 /\ v % PIECE \in 0 .. PIECE - 1 /\ v = (v % PIECE) + PIECE * (v \div PIECE)
    BY <2>2, SquareDiv
  <2>4. ps \in Pieces /\ Len(ps) = 2
    BY <2>3 DEF Pieces
  <2>5. FromZero(ps)[0] = v % PIECE /\ FromZero(ps)[1] = v \div PIECE
    <3>1. 0 \in 0 .. Len(ps) - 1 /\ 1 \in 0 .. Len(ps) - 1
      BY <2>4
    <3>2. FromZero(ps)[0] = ps[0 + 1] /\ FromZero(ps)[1] = ps[1 + 1]
      BY <2>4, <3>1, FromZeroIs
    <3> QED
      BY <3>2
  <2>6. Tails(h, FromZero(ps), 2)
    <3>1. h[2] = 0 /\ h[1] = v \div PIECE /\ h[0] = v
      OBVIOUS
    <3>2. \A i \in 0 .. 2 - 1 : i = 0 \/ i = 1
      OBVIOUS
    <3>3. h[0] = FromZero(ps)[0] + PIECE * h[0 + 1]
      BY <2>3, <2>5, <3>1
    <3>4. h[1] = FromZero(ps)[1] + PIECE * h[1 + 1]
      BY <2>3, <2>5, <3>1, PieceAssumption
    <3> QED
      BY <3>1, <3>2, <3>3, <3>4 DEF Tails
  <2>7. h[0] = v
    OBVIOUS
  <2> HIDE DEF ps, h
  <2>8. Exact(new_bigint(p, ps, FALSE), h[0])
    <3>1. Tails(h, FromZero(ps), Len(ps)) /\ h[0] \in Int
      BY <2>4, <2>6, <2>7
    <3> QED
      BY <2>4, <3>1, NewExact
  <2> QED
    BY <2>1, <2>7, <2>8
<1> QED
  BY <1>1, <1>2

-------------------------------------------------------------------------------
(* Sums.                                                                        *)

LEMMA Squares ==
  /\ PIECE \in Nat /\ PIECE * PIECE \in Nat
  /\ (PIECE - 1) + (PIECE - 1) <= PIECE * PIECE - PIECE
  /\ PIECE * PIECE - PIECE < PIECE * PIECE
  /\ INT_MAX + (PIECE - 1) < PIECE * PIECE
  /\ (PIECE - 1) * (PIECE - 1) <= PIECE * PIECE - PIECE
<1>1. PIECE \in Nat /\ PIECE > 1
  BY PieceAssumption
<1>2. PIECE * PIECE \in Nat
  BY <1>1
<1>3. (PIECE - 1) * (PIECE - 1) = (PIECE * PIECE - PIECE) - (PIECE - 1)
  BY <1>1
<1>4. (PIECE - 1) * (PIECE - 2) \in Nat
  <2>1. PIECE - 1 \in Nat /\ PIECE - 2 \in Nat
    BY <1>1
  <2> QED
    BY <2>1
<1>5. (PIECE - 1) * (PIECE - 2) = (PIECE * PIECE - PIECE) - ((PIECE - 1) + (PIECE - 1))
  BY <1>1
<1>6. (PIECE - 1) + (PIECE - 1) <= PIECE * PIECE - PIECE
  BY <1>1, <1>2, <1>4, <1>5
<1>7. INT_MAX + (PIECE - 1) < PIECE * PIECE
  BY <1>1, <1>2, <1>6, SmallAssumption
<1> QED
  BY <1>1, <1>2, <1>3, <1>6, <1>7

Adding(d, p, a, b, n) ==
  d = [i \in 0 .. n - 1 |-> int_piece(p, a, i) + int_piece(p, b, i) + (IF i = 0 THEN 0 ELSE d[i - 1] \div PIECE)]

\* The columns of an operation have their sums, whatever they are.
LEMMA SumsExist ==
  ASSUME NEW n \in Nat, n > 0, NEW y \in [0 .. n - 1 -> Nat]
  PROVE  \E d : d = [i \in 0 .. n - 1 |-> y[i] + (IF i = 0 THEN 0 ELSE d[i - 1] \div PIECE)]
<1> DEFINE m == n - 1
           F == [e \in (0 .. m) \X Int |-> y[e[1]] + (IF e[1] = 0 THEN 0 ELSE e[2] \div PIECE)]
<1>1. F \in [(0 .. m) \X Int -> Int]
  <2> SUFFICES ASSUME NEW e \in (0 .. m) \X Int PROVE y[e[1]] + (IF e[1] = 0 THEN 0 ELSE e[2] \div PIECE) \in Int
    OBVIOUS
  <2>1. e[1] \in 0 .. n - 1 /\ e[2] \in Int
    OBVIOUS
  <2>2. y[e[1]] \in Nat /\ e[2] \div PIECE \in Int
    BY <2>1, PieceAssumption
  <2> QED
    BY <2>2
<1>2. \A i \in 0 .. m, v \in Int : F[<<i, v>>] = y[i] + (IF i = 0 THEN 0 ELSE v \div PIECE)
  OBVIOUS
<1>3. m \in Int
  OBVIOUS
<1> HIDE DEF F
<1>4. PICK d \in [0 .. m -> Int] : Recurs(d, m, F)
  <2> HIDE DEF m
  <2> QED
    BY <1>1, <1>3, RecursionExists
<1>5. \A i \in 0 .. m : d[i] = y[i] + (IF i = 0 THEN 0 ELSE d[i - 1] \div PIECE)
  <2> TAKE i \in 0 .. m
  <2>1. d[i] = F[<<i, IF i = 0 THEN 0 ELSE d[i - 1]>>]
    BY <1>4 DEF Recurs
  <2>2. (IF i = 0 THEN 0 ELSE d[i - 1]) \in Int
    <3>1. i # 0 => i - 1 \in 0 .. m
      OBVIOUS
    <3> QED
      BY <3>1
  <2>3. CASE i = 0
    BY <1>2, <2>1, <2>2, <2>3
  <2>4. CASE i # 0
    BY <1>2, <2>1, <2>2, <2>4
  <2> QED
    BY <2>3, <2>4
<1>6. d = [i \in 0 .. m |-> d[i]]
  OBVIOUS
<1>7. d = [i \in 0 .. m |-> y[i] + (IF i = 0 THEN 0 ELSE d[i - 1] \div PIECE)]
  BY <1>5, <1>6
<1> QED
  BY <1>7

LEMMA SumPiecesIs ==
  ASSUME NEW p, NEW a, NEW b
  PROVE  LET n == Max({int_size(p, a), int_size(p, b)}) + 1
             d == CHOOSE d : Adding(d, p, a, b, n)
         IN  SumPieces(p, a, b) = [i \in 1 .. n |-> d[i - 1] % PIECE]
BY Zenon DEF SumPieces, Adding

LEMMA LargerOf ==
  ASSUME NEW s \in Nat, NEW t \in Nat
  PROVE  Max({s, t}) \in Nat /\ Max({s, t}) >= s /\ Max({s, t}) >= t
<1>1. s + t \in Nat /\ {s, t} \in SUBSET (0 .. s + t) /\ {s, t} # {}
  OBVIOUS
<1>2. Max({s, t}) \in {s, t} /\ \A l \in {s, t} : l <= Max({s, t})
  BY <1>1, MaxExists
<1> QED
  BY <1>2

LEMMA BigSum ==
  ASSUME NEW p, PoolOK(p), Proper(p), NEW a \in Handle(p), NEW b \in Handle(p), Fits(a), Fits(b),
         is_bigint(a) \/ is_bigint(b)
  PROVE  Exact(finalize_bigint(p, a, b, trim_bigint(SumPieces(p, a, b))),
               sbInteger_fprint(p, a) + sbInteger_fprint(p, b))
<1> DEFINE sa == int_size(p, a)
           sb == int_size(p, b)
           m == Max({sa, sb})
           n == m + 1
           y == [i \in 0 .. n - 1 |-> int_piece(p, a, i) + int_piece(p, b, i)]
           d == CHOOSE d : Adding(d, p, a, b, n)
           xa == [i \in 0 .. n - 1 |-> int_piece(p, a, i)]
           xb == [i \in 0 .. n - 1 |-> int_piece(p, b, i)]
           ps == SumPieces(p, a, b)
<1>1. m \in Nat /\ m >= sa /\ m >= sb
  BY PiecesOf, LargerOf
<1>2. ps = [i \in 1 .. n |-> d[i - 1] % PIECE]
  BY SumPiecesIs
<1> HIDE DEF m, ps
<1>3. n \in Nat /\ n > 0 /\ n - 1 = m /\ n >= sa /\ n >= sb
  <2>1. sa \in Nat /\ sb \in Nat
    BY PiecesOf
  <2> HIDE DEF sa, sb
  <2> QED
    BY <1>1, <2>1
<1>4. \A i \in 0 .. n - 1 : i \in Nat /\ int_piece(p, a, i) \in Nat /\ int_piece(p, b, i) \in Nat
  BY <1>3, PiecesOf
<1>5. \A i \in 0 .. n - 1 : y[i] = int_piece(p, a, i) + int_piece(p, b, i)
  OBVIOUS
<1>6. y \in [0 .. n - 1 -> Nat]
  BY <1>4
<1> HIDE DEF y
<1>7. Columns(y, n)
  <2>1. y[0] < PIECE * PIECE
    <3>1. 0 \in 0 .. n - 1 /\ 0 \in Nat
      BY <1>3
    <3>2. \A v \in {a, b} : /\ v \in Handle(p) /\ Fits(v) /\ int_piece(p, v, 0) \in Nat
                            /\ is_bigint(v) => int_piece(p, v, 0) <= PIECE - 1
                            /\ ~is_bigint(v) => int_piece(p, v, 0) <= INT_MAX
      BY <3>1, PiecesOf, SmallAssumption
    <3>3. int_piece(p, a, 0) + int_piece(p, b, 0) < PIECE * PIECE
      <4> DEFINE va == int_piece(p, a, 0)
                 vb == int_piece(p, b, 0)
      <4>1. va \in Nat /\ vb \in Nat
        BY <3>2
      <4>2. \/ va <= PIECE - 1 /\ vb <= PIECE - 1
            \/ va <= PIECE - 1 /\ vb <= INT_MAX
            \/ va <= INT_MAX /\ vb <= PIECE - 1
        BY <3>2
      <4> HIDE DEF va, vb
      <4>3. va + vb < PIECE * PIECE
        BY <4>1, <4>2, Squares, SmallAssumption
      <4> QED
        BY <4>3 DEF va, vb
    <3> QED
      BY <1>5, <3>1, <3>3
  <2>2. \A i \in 1 .. n - 1 : y[i] <= PIECE * PIECE - PIECE
    <3> TAKE i \in 1 .. n - 1
    <3>1. i \in 0 .. n - 1 /\ i \in Nat /\ i > 0
      BY <1>3
    <3>2. /\ int_piece(p, a, i) <= PIECE - 1 /\ int_piece(p, b, i) <= PIECE - 1
          /\ int_piece(p, a, i) \in Nat /\ int_piece(p, b, i) \in Nat
      BY <3>1, PiecesOf
    <3> QED
      BY <1>5, <3>1, <3>2, Squares
  <2>3. y[n - 1] = 0
    <3>1. m \in 0 .. n - 1
      BY <1>1, <1>3
    <3>2. int_piece(p, a, m) = 0 /\ int_piece(p, b, m) = 0
      BY <1>1, PiecesOf
    <3> QED
      BY <1>3, <1>5, <3>1, <3>2
  <2> QED
    BY <1>6, <2>1, <2>2, <2>3 DEF Columns
<1>8. Adding(d, p, a, b, n)
  <2>1. \E e : e = [i \in 0 .. n - 1 |-> y[i] + (IF i = 0 THEN 0 ELSE e[i - 1] \div PIECE)]
    BY <1>3, <1>6, SumsExist
  <2>2. \E e : Adding(e, p, a, b, n)
    BY <1>5, <2>1 DEF Adding
  <2> QED
    BY <2>2
<1> HIDE DEF d
<1>9. Summed(d, y, n)
  <2>1. \A i \in 0 .. n - 1 : d[i] = int_piece(p, a, i) + int_piece(p, b, i) + (IF i = 0 THEN 0 ELSE d[i - 1] \div PIECE)
    BY <1>8, Zenon DEF Adding
  <2> QED
    BY <1>5, <2>1 DEF Summed, Carry
<1>10. PICK ha \in [0 .. n -> Int] : Tails(ha, xa, n) /\ ha[0] = sbInteger_fprint(p, a)
  BY <1>3, Operand
<1>11. PICK hb \in [0 .. n -> Int] : Tails(hb, xb, n) /\ hb[0] = sbInteger_fprint(p, b)
  BY <1>3, Operand
<1> DEFINE H == [i \in 0 .. n |-> ha[i] + hb[i]]
<1>12. H \in [0 .. n -> Int] /\ H[0] = sbInteger_fprint(p, a) + sbInteger_fprint(p, b)
  <2>1. 0 \in 0 .. n
    BY <1>3
  <2> QED
    BY <1>10, <1>11, <2>1
<1>13. Tails(H, y, n)
  <2>1. H[n] = 0
    <3>1. n \in 0 .. n
      BY <1>3
    <3> QED
      BY <1>10, <1>11, <3>1 DEF Tails
  <2>2. ASSUME NEW i \in 0 .. n - 1 PROVE H[i] = y[i] + PIECE * H[i + 1]
    <3>1. i \in 0 .. n /\ i + 1 \in 0 .. n
      BY <1>3
    <3> DEFINE u == int_piece(p, a, i)
               w == int_piece(p, b, i)
               s == ha[i + 1]
               t == hb[i + 1]
    <3>2. ha[i] = u + PIECE * s /\ hb[i] = w + PIECE * t
      BY <1>10, <1>11 DEF Tails
    <3>3. H[i] = ha[i] + hb[i] /\ H[i + 1] = s + t /\ y[i] = u + w
      BY <1>5, <3>1
    <3>4. u \in Int /\ w \in Int /\ s \in Int /\ t \in Int /\ PIECE \in Int
      BY <1>4, <3>1, PieceAssumption
    <3> HIDE DEF u, w, s, t, H
    <3>5. PIECE * (s + t) = PIECE * s + PIECE * t /\ PIECE * s \in Int /\ PIECE * t \in Int
      BY <3>4
    <3> QED
      BY <3>2, <3>3, <3>4, <3>5
  <2> HIDE DEF H
  <2> QED
    BY <2>1, <2>2 DEF Tails
<1> HIDE DEF H
<1>14. Exact(finalize_bigint(p, a, b, trim_bigint(ps)), H[0])
  BY <1>2, <1>3, <1>7, <1>9, <1>12, <1>13, FromColumns
<1> QED
  BY <1>12, <1>14 DEF ps

LEMMA SumIsExact ==
  ASSUME NEW p, PoolOK(p), Proper(p), NEW a \in Handle(p), NEW b \in Handle(p), Fits(a), Fits(b)
  PROVE  Exact(sbInteger_sum(p, a, b), sbInteger_fprint(p, a) + sbInteger_fprint(p, b))
<1>1. CASE is_bigint(a) \/ is_bigint(b)
  BY <1>1, BigSum DEF sbInteger_sum
<1>2. CASE ~(is_bigint(a) \/ is_bigint(b))
  <2>1. a.i \in 0 .. INT_MAX /\ b.i \in 0 .. INT_MAX
    BY <1>2, PiecesOf
  <2>2. a.i + b.i \in Nat /\ a.i + b.i <= 2 * INT_MAX
    BY <2>1, SmallAssumption
  <2>3. sbInteger_fprint(p, a) = a.i /\ sbInteger_fprint(p, b) = b.i
    BY <1>2 DEF sbInteger_fprint
  <2> QED
    BY <1>2, <2>2, <2>3, NewIsExact DEF sbInteger_sum
<1> QED
  BY <1>1, <1>2

-------------------------------------------------------------------------------
(* Products.                                                                    *)

LEMMA Within ==
  ASSUME NEW n \in Nat, NEW t \in 0 .. n - 1
  PROVE  t % n = t /\ t \div n = 0
<1>1. t \in Nat /\ t < n /\ n > 0
  OBVIOUS
<1> QED
  BY <1>1

LEMMA Divided ==
  ASSUME NEW n \in Nat, n > 0, NEW t \in Nat
  PROVE  t % n \in Nat /\ t \div n \in Nat
OBVIOUS

InWords(d, y, m) == d = [t \in 0 .. m |-> (y[t] + (IF t = 0 THEN 0 ELSE d[t - 1] \div PIECE)) % WORD]

LEMMA WordsExist ==
  ASSUME NEW m \in Int, NEW y \in [0 .. m -> Nat]
  PROVE  \E d : InWords(d, y, m)
<1> DEFINE F == [e \in (0 .. m) \X Int |-> (y[e[1]] + (IF e[1] = 0 THEN 0 ELSE e[2] \div PIECE)) % WORD]
<1>1. F \in [(0 .. m) \X Int -> Int]
  <2> SUFFICES ASSUME NEW e \in (0 .. m) \X Int
               PROVE  (y[e[1]] + (IF e[1] = 0 THEN 0 ELSE e[2] \div PIECE)) % WORD \in Int
    OBVIOUS
  <2>1. e[1] \in 0 .. m /\ e[2] \in Int
    OBVIOUS
  <2>2. y[e[1]] \in Nat /\ e[2] \div PIECE \in Int
    BY <2>1, PieceAssumption
  <2>3. WORD \in Nat /\ WORD > 0
    BY SmallInWord, Squares
  <2> QED
    BY <2>2, <2>3
<1>2. \A t \in 0 .. m, v \in Int : F[<<t, v>>] = (y[t] + (IF t = 0 THEN 0 ELSE v \div PIECE)) % WORD
  OBVIOUS
<1> HIDE DEF F
<1>3. PICK d \in [0 .. m -> Int] : Recurs(d, m, F)
  BY <1>1, RecursionExists
<1>4. \A t \in 0 .. m : d[t] = (y[t] + (IF t = 0 THEN 0 ELSE d[t - 1] \div PIECE)) % WORD
  <2> TAKE t \in 0 .. m
  <2>1. d[t] = F[<<t, IF t = 0 THEN 0 ELSE d[t - 1]>>]
    BY <1>3 DEF Recurs
  <2>2. (IF t = 0 THEN 0 ELSE d[t - 1]) \in Int
    <3>1. t # 0 => t - 1 \in 0 .. m
      OBVIOUS
    <3> QED
      BY <3>1
  <2>3. CASE t = 0
    BY <1>2, <2>1, <2>2, <2>3
  <2>4. CASE t # 0
    BY <1>2, <2>1, <2>2, <2>4
  <2> QED
    BY <2>3, <2>4
<1>5. d = [t \in 0 .. m |-> d[t]]
  OBVIOUS
<1>6. d = [t \in 0 .. m |-> (y[t] + (IF t = 0 THEN 0 ELSE d[t - 1] \div PIECE)) % WORD]
  BY <1>4, <1>5
<1> QED
  BY <1>6 DEF InWords

LEMMA WordsAre ==
  ASSUME NEW m \in Int, NEW y \in [0 .. m -> Nat], NEW d, InWords(d, y, m)
  PROVE  \A t \in 0 .. m : /\ d[t] \in Nat
                           /\ (IF t = 0 THEN 0 ELSE d[t - 1] \div PIECE) \in Nat
                           /\ d[t] = (y[t] + (IF t = 0 THEN 0 ELSE d[t - 1] \div PIECE)) % WORD
<1>1. \A t \in 0 .. m : d[t] = (y[t] + (IF t = 0 THEN 0 ELSE d[t - 1] \div PIECE)) % WORD
  BY Zenon DEF InWords
<1>2. WORD \in Nat /\ WORD > 0
  BY SmallInWord, Squares
<1>3. \A v \in Nat : v \div PIECE \in Nat
  BY PieceAssumption
<1>4. \A u, v \in Nat : (u + v) % WORD \in Nat
  BY <1>2
<1>5. \A t \in 0 .. m : d[t] \in Nat
  <2> DEFINE Bad == {t \in 0 .. m : d[t] \notin Nat}
  <2>1. SUFFICES ASSUME Bad # {} PROVE FALSE
    OBVIOUS
  <2>2. PICK t \in Bad : \A l \in Bad : t <= l
    <3>1. Bad \in SUBSET Nat
      OBVIOUS
    <3> HIDE DEF Bad
    <3> QED
      BY <2>1, <3>1, LeastElement
  <2>3. t \in 0 .. m /\ d[t] \notin Nat /\ y[t] \in Nat
    OBVIOUS
  <2>4. (IF t = 0 THEN 0 ELSE d[t - 1] \div PIECE) \in Nat
    <3>1. CASE t = 0
      BY <3>1
    <3>2. CASE t # 0
      <4>1. t - 1 \in 0 .. m /\ ~(t <= t - 1)
        BY <2>3, <3>2
      <4>2. t - 1 \notin Bad
        <5> HIDE DEF Bad
        <5> QED
          BY <2>2, <4>1
      <4>3. d[t - 1] \in Nat
        BY <4>1, <4>2
      <4> QED
        BY <1>3, <3>2, <4>3
    <3> QED
      BY <3>1, <3>2
  <2> QED
    BY <1>1, <1>4, <2>3, <2>4
<1> QED
  <2> SUFFICES ASSUME NEW t \in 0 .. m PROVE (IF t = 0 THEN 0 ELSE d[t - 1] \div PIECE) \in Nat
    BY <1>1, <1>5
  <2>1. CASE t = 0
    BY <2>1
  <2>2. CASE t # 0
    <3>1. t - 1 \in 0 .. m
      BY <2>2
    <3> QED
      BY <1>3, <1>5, <2>2, <3>1
  <2> QED
    BY <2>1, <2>2

\* The products of the pieces, the places where one is written, and the result.
Products(p, a, b, row, last) == [t \in 0 .. last |-> int_piece(p, a, t % row) * int_piece(p, b, t \div row)]
Multiplying(d, p, a, b, row, last) ==
  d = [t \in 0 .. last |-> (int_piece(p, a, t % row) * int_piece(p, b, t \div row)
                            + (IF t = 0 THEN 0 ELSE d[t - 1] \div PIECE)) % WORD]
Places(k, row, last) == {t \in 0 .. last : (t % row) + (t \div row) = k - 1}

LEMMA MulPiecesIs ==
  ASSUME NEW p, NEW a, NEW b
  PROVE  LET row  == int_size(p, a) + 1
             last == int_size(p, b) * row - 1
             d    == CHOOSE d : Multiplying(d, p, a, b, row, last)
         IN  MulPieces(p, a, b) =
               [k \in 1 .. int_size(p, a) + int_size(p, b) |->
                  IF Places(k, row, last) = {} THEN 0 ELSE d[Max(Places(k, row, last))] % PIECE]
BY Zenon DEF MulPieces, Multiplying, Places

LEMMA ProductsAre ==
  ASSUME NEW p, Proper(p), NEW a \in Handle(p), NEW b \in Handle(p), Fits(a), Fits(b)
  PROVE  LET row  == int_size(p, a) + 1
             last == int_size(p, b) * row - 1
             d    == CHOOSE d : Multiplying(d, p, a, b, row, last)
         IN  /\ row \in Nat /\ row > 0 /\ last \in Int
             /\ Products(p, a, b, row, last) \in [0 .. last -> Nat]
             /\ InWords(d, Products(p, a, b, row, last), last)
<1> DEFINE row  == int_size(p, a) + 1
           last == int_size(p, b) * row - 1
           d    == CHOOSE d : Multiplying(d, p, a, b, row, last)
           y    == Products(p, a, b, row, last)
<1>1. int_size(p, a) \in Nat /\ int_size(p, b) \in Nat
  BY PiecesOf
<1>2. row \in Nat /\ row > 0
  BY <1>1
<1>3. last \in Int
  <2> HIDE DEF row
  <2> QED
    BY <1>1, <1>2
<1> HIDE DEF row, last
<1>4. \A t \in 0 .. last : y[t] = int_piece(p, a, t % row) * int_piece(p, b, t \div row) /\ y[t] \in Nat
  <2> TAKE t \in 0 .. last
  <2>1. t \in Nat
    BY <1>3
  <2>2. t % row \in Nat /\ t \div row \in Nat
    BY <1>2, <2>1, Divided
  <2>3. int_piece(p, a, t % row) \in Nat /\ int_piece(p, b, t \div row) \in Nat
    BY <2>2, PiecesOf
  <2>4. \A u, v \in Nat : u * v \in Nat
    OBVIOUS
  <2> QED
    BY <2>3, <2>4 DEF Products
<1>5. y \in [0 .. last -> Nat]
  BY <1>4 DEF Products
<1>6. \A e : InWords(e, y, last) <=> Multiplying(e, p, a, b, row, last)
  BY <1>4 DEF InWords, Multiplying
<1>7. \E e : InWords(e, y, last)
  BY <1>3, <1>5, WordsExist
<1>8. InWords(d, y, last)
  BY <1>6, <1>7
<1> QED
  BY <1>2, <1>3, <1>5, <1>8 DEF row, last

LEMMA FunctionIsSeq == ASSUME NEW S, NEW n \in Nat, NEW s \in [1 .. n -> S] PROVE s \in Seq(S)
OBVIOUS

LEMMA MulIsProper ==
  ASSUME NEW p, PoolOK(p), Proper(p), NEW a \in Handle(p), NEW b \in Handle(p), Fits(a), Fits(b)
  PROVE  \E v : Exact(finalize_bigint(p, a, b, trim_bigint(MulPieces(p, a, b))), v)
<1> DEFINE row  == int_size(p, a) + 1
           last == int_size(p, b) * row - 1
           d    == CHOOSE d : Multiplying(d, p, a, b, row, last)
           y    == Products(p, a, b, row, last)
           size == int_size(p, a) + int_size(p, b)
           ps   == MulPieces(p, a, b)
<1>1. last \in Int /\ y \in [0 .. last -> Nat] /\ InWords(d, y, last)
  BY ProductsAre
<1>2. ps = [k \in 1 .. size |-> IF Places(k, row, last) = {} THEN 0 ELSE d[Max(Places(k, row, last))] % PIECE]
  BY MulPiecesIs
<1>3. size \in Nat
  BY PiecesOf
<1> HIDE DEF row, last, d, y, size, ps
<1>4. \A t \in 0 .. last : d[t] \in Nat
  BY <1>1, WordsAre
<1>5. \A k \in 1 .. size : (IF Places(k, row, last) = {} THEN 0 ELSE d[Max(Places(k, row, last))] % PIECE) \in 0 .. PIECE - 1
  <2> SUFFICES ASSUME NEW k \in 1 .. size
               PROVE  (IF Places(k, row, last) = {} THEN 0 ELSE d[Max(Places(k, row, last))] % PIECE) \in 0 .. PIECE - 1
    OBVIOUS
  <2> DEFINE W == Places(k, row, last)
  <2>1. CASE W = {}
    BY <2>1, PieceAssumption
  <2>2. CASE W # {}
    <3>1. W \in SUBSET (0 .. last)
      BY DEF Places
    <3>2. last \in Nat
      BY <1>1, <2>2, <3>1
    <3> HIDE DEF W
    <3>3. Max(W) \in W
      BY <2>2, <3>1, <3>2, MaxExists
    <3>4. d[Max(W)] \in Nat
      BY <1>4, <3>1, <3>3
    <3>5. d[Max(W)] % PIECE \in 0 .. PIECE - 1
      BY <3>4, PieceAssumption
    <3> QED
      BY <2>2, <3>5 DEF W
  <2> QED
    BY <2>1, <2>2
<1>6. ps \in [1 .. size -> 0 .. PIECE - 1]
  BY <1>2, <1>5
<1>7. ps \in Pieces /\ Len(ps) \in Nat
  <2>1. ps \in Seq(0 .. PIECE - 1)
    BY <1>3, <1>6, FunctionIsSeq
  <2> QED
    BY <2>1 DEF Pieces
<1>8. PICK h \in [0 .. Len(ps) -> Int] : Tails(h, FromZero(ps), Len(ps))
  BY <1>7, FromZeroIs, TailsExist
<1>9. h[0] \in Int
  BY <1>7
<1>10. trim_bigint(ps) \in Pieces /\ Tails(h, FromZero(trim_bigint(ps)), Len(trim_bigint(ps)))
  BY <1>7, <1>8, Trimmed
<1>11. Exact(finalize_bigint(p, a, b, trim_bigint(ps)), h[0])
  BY <1>9, <1>10, Finished
<1> QED
  BY <1>11 DEF ps

LEMMA Factors == \A u, w \in 0 .. PIECE - 1 : u * w \in Nat /\ u * w <= PIECE * PIECE - PIECE
<1> SUFFICES ASSUME NEW u \in 0 .. PIECE - 1, NEW w \in 0 .. PIECE - 1
             PROVE  u * w \in Nat /\ u * w <= PIECE * PIECE - PIECE
  OBVIOUS
<1> DEFINE z == PIECE - 1
<1>1. u \in Nat /\ w \in Nat /\ z \in Nat /\ u <= z /\ w <= z
  BY PieceAssumption
<1> HIDE DEF z
<1>2. u * w <= z * w /\ z * w <= z * z /\ u * w \in Nat /\ z * w \in Nat /\ z * z \in Nat
  <2>1. z - u \in Nat /\ z - w \in Nat
    BY <1>1
  <2>2. (z - u) * w \in Nat /\ (z - w) * z \in Nat
    BY <1>1, <2>1
  <2>3. (z - u) * w = z * w - u * w /\ (z - w) * z = z * z - z * w
    BY <1>1
  <2>4. u * w \in Nat /\ z * w \in Nat /\ z * z \in Nat
    BY <1>1
  <2> QED
    BY <2>2, <2>3, <2>4
<1>3. z * z <= PIECE * PIECE - PIECE
  BY Squares DEF z
<1>4. PIECE * PIECE - PIECE \in Int
  BY Squares
<1> QED
  BY <1>2, <1>3, <1>4

\* With a right factor of one piece every place is written once.
LEMMA OnePiece ==
  ASSUME NEW p, PoolOK(p), Proper(p), NEW a \in Handle(p), NEW b \in Handle(p), Fits(a), Fits(b),
         ~is_bigint(b), b.i < PIECE, ~is_bigint(a) => a.i * b.i < PIECE * PIECE
  PROVE  Exact(finalize_bigint(p, a, b, trim_bigint(MulPieces(p, a, b))),
               sbInteger_fprint(p, a) * sbInteger_fprint(p, b))
<1> DEFINE sa   == int_size(p, a)
           n    == sa + 1
           last == int_size(p, b) * n - 1
           d    == CHOOSE d : Multiplying(d, p, a, b, n, last)
           y    == Products(p, a, b, n, last)
           ps   == MulPieces(p, a, b)
           f    == b.i
           xa   == [i \in 0 .. n - 1 |-> int_piece(p, a, i)]
<1>1. int_size(p, b) = 1 /\ int_piece(p, b, 0) = f /\ f \in 0 .. PIECE - 1 /\ f \in Nat /\ sbInteger_fprint(p, b) = f
  <2>1. int_size(p, b) = 1 /\ int_piece(p, b, 0) = f /\ f \in 0 .. INT_MAX
    BY PiecesOf
  <2>2. f \in 0 .. PIECE - 1
    BY <2>1, PieceAssumption, SmallAssumption
  <2> QED
    BY <2>1, <2>2 DEF sbInteger_fprint
<1>2. sa \in Nat /\ n \in Nat /\ n > 0 /\ n - 1 = sa /\ n >= sa
  <2>1. sa \in Nat
    BY PiecesOf
  <2> HIDE DEF sa
  <2> QED
    BY <2>1
<1>3. last = n - 1
  <2> HIDE DEF n
  <2> QED
    BY <1>1, <1>2
<1>4. y \in [0 .. last -> Nat] /\ InWords(d, y, last)
  BY ProductsAre
<1>5. ps = [k \in 1 .. sa + int_size(p, b) |-> IF Places(k, n, last) = {} THEN 0 ELSE d[Max(Places(k, n, last))] % PIECE]
  BY MulPiecesIs
<1> HIDE DEF last, d, ps, n, sa, f
<1>6. \A t \in 0 .. n - 1 : t % n = t /\ t \div n = 0
  BY <1>2, Within
<1>7. \A t \in 0 .. n - 1 : y[t] = int_piece(p, a, t) * f /\ int_piece(p, a, t) \in Nat /\ t \in Nat
  <2> TAKE t \in 0 .. n - 1
  <2>1. t \in Nat
    OBVIOUS
  <2>2. y[t] = int_piece(p, a, t) * f
    BY <1>1, <1>3, <1>6 DEF Products
  <2> QED
    BY <2>1, <2>2, PiecesOf
<1>8. ps = [k \in 1 .. n |-> d[k - 1] % PIECE]
  <2>1. sa + int_size(p, b) = n
    BY <1>1, <1>2
  <2>2. \A k \in 1 .. n : Places(k, n, last) = {k - 1}
    <3> TAKE k \in 1 .. n
    <3>1. k - 1 \in 0 .. n - 1
      BY <1>2
    <3>2. \A t \in 0 .. n - 1 : (t % n) + (t \div n) = t
      BY <1>6
    <3> QED
      BY <1>3, <3>1, <3>2 DEF Places
  <2>3. \A k \in 1 .. n : Max({k - 1}) = k - 1
    <3> TAKE k \in 1 .. n
    <3>1. {k - 1} \in SUBSET (0 .. n) /\ {k - 1} # {}
      BY <1>2
    <3>2. Max({k - 1}) \in {k - 1}
      BY <1>2, <3>1, MaxExists
    <3> QED
      BY <3>2
  <2>4. \A k \in 1 .. n :
          (IF Places(k, n, last) = {} THEN 0 ELSE d[Max(Places(k, n, last))] % PIECE) = d[k - 1] % PIECE
    <3> TAKE k \in 1 .. n
    <3>1. Places(k, n, last) # {} /\ Max(Places(k, n, last)) = k - 1
      BY <2>2, <2>3
    <3> QED
      BY <3>1
  <2> QED
    BY <1>5, <2>1, <2>4
<1> HIDE DEF y
<1>9. Columns(y, n)
  <2>1. y[0] < PIECE * PIECE
    <3>1. 0 \in 0 .. n - 1 /\ 0 \in Nat
      BY <1>2
    <3>2. CASE is_bigint(a)
      <4>1. int_piece(p, a, 0) \in 0 .. PIECE - 1
        BY <3>1, <3>2, PiecesOf, PieceAssumption
      <4>2. y[0] \in Nat /\ y[0] <= PIECE * PIECE - PIECE
        BY <1>1, <1>7, <3>1, <4>1, Factors
      <4> QED
        BY <4>2, Squares
    <3>3. CASE ~is_bigint(a)
      <4>1. int_piece(p, a, 0) = a.i
        BY <3>3, PiecesOf
      <4> QED
        BY <1>7, <3>1, <3>3, <4>1 DEF f
    <3> QED
      BY <3>2, <3>3
  <2>2. \A i \in 1 .. n - 1 : y[i] <= PIECE * PIECE - PIECE
    <3> TAKE i \in 1 .. n - 1
    <3>1. i \in 0 .. n - 1 /\ i \in Nat /\ i > 0
      BY <1>2
    <3>2. int_piece(p, a, i) \in 0 .. PIECE - 1
      BY <3>1, PiecesOf, PieceAssumption
    <3> QED
      BY <1>1, <1>7, <3>1, <3>2, Factors
  <2>3. y[n - 1] = 0
    <3>1. n - 1 \in 0 .. n - 1 /\ sa \in 0 .. n - 1
      BY <1>2
    <3>2. int_piece(p, a, sa) = 0
      BY <1>2, PiecesOf DEF sa
    <3> QED
      BY <1>1, <1>2, <1>7, <3>1, <3>2
  <2>4. y \in [0 .. n - 1 -> Nat]
    BY <1>3, <1>4
  <2> QED
    BY <2>1, <2>2, <2>3, <2>4 DEF Columns
<1>10. Summed(d, y, n)
  <2> SUFFICES ASSUME NEW i \in 0 .. n - 1, y[i] + Carry(d, i) < PIECE * PIECE
               PROVE  d[i] = y[i] + Carry(d, i)
    BY DEF Summed
  <2>1. last \in Int /\ i \in 0 .. last
    BY <1>2, <1>3
  <2>2. Carry(d, i) \in Nat /\ d[i] = (y[i] + Carry(d, i)) % WORD
    BY <1>4, <2>1, WordsAre DEF Carry
  <2>3. y[i] \in Nat
    BY <1>4, <2>1
  <2>4. \A v \in Nat : v < PIECE * PIECE => v % WORD = v
    <3> TAKE v \in Nat
    <3>1. WORD \in Nat /\ PIECE * PIECE \in Nat /\ PIECE * PIECE < WORD
      BY SmallInWord, Squares
    <3> SUFFICES ASSUME v < PIECE * PIECE PROVE v % WORD = v
      OBVIOUS
    <3>2. v < WORD /\ v \in 0 .. WORD - 1
      BY <3>1
    <3> QED
      BY <3>1, <3>2, Within
  <2> QED
    BY <2>2, <2>3, <2>4
<1>11. PICK ha \in [0 .. n -> Int] : Tails(ha, xa, n) /\ ha[0] = sbInteger_fprint(p, a)
  BY <1>2, Operand DEF sa
<1> DEFINE H == [i \in 0 .. n |-> ha[i] * f]
<1>12. H \in [0 .. n -> Int] /\ H[0] = sbInteger_fprint(p, a) * f
  <2>1. 0 \in 0 .. n
    BY <1>2
  <2>2. \A u \in Int : u * f \in Int
    BY <1>1
  <2> QED
    BY <1>11, <2>1, <2>2
<1>13. Tails(H, y, n)
  <2>1. H[n] = 0
    <3>1. n \in 0 .. n
      BY <1>2
    <3> QED
      BY <1>1, <1>11, <3>1 DEF Tails
  <2>2. ASSUME NEW i \in 0 .. n - 1 PROVE H[i] = y[i] + PIECE * H[i + 1]
    <3>1. i \in 0 .. n /\ i + 1 \in 0 .. n
      BY <1>2
    <3> DEFINE u == int_piece(p, a, i)
               s == ha[i + 1]
    <3>2. ha[i] = u + PIECE * s
      BY <1>11 DEF Tails
    <3>3. H[i] = ha[i] * f /\ H[i + 1] = s * f /\ y[i] = u * f
      BY <1>7, <3>1
    <3>4. u \in Int /\ s \in Int /\ PIECE \in Int /\ f \in Int
      BY <1>1, <1>7, <3>1, PieceAssumption
    <3> HIDE DEF u, s, H
    <3>5. (u + PIECE * s) * f = u * f + PIECE * (s * f)
      BY <3>4
    <3> QED
      BY <3>2, <3>3, <3>5
  <2> HIDE DEF H
  <2> QED
    BY <2>1, <2>2 DEF Tails
<1> HIDE DEF H
<1>14. Exact(finalize_bigint(p, a, b, trim_bigint(ps)), H[0])
  BY <1>2, <1>8, <1>9, <1>10, <1>12, <1>13, FromColumns
<1> QED
  BY <1>1, <1>12, <1>14 DEF ps

LEMMA SmallProductFits ==
  ASSUME NEW a \in 0 .. INT_MAX, NEW b \in 0 .. INT_MAX, SmallProduct(a, b)
  PROVE  a * b \in Nat /\ a * b <= INT_MAX
<1>1. INT_MAX \in Nat /\ a \in Nat /\ b \in Nat
  BY SmallAssumption
<1>2. a * b \in Nat
  BY <1>1
<1>3. CASE a = 0
  BY <1>1, <1>3
<1>4. CASE a > 0
  <2> DEFINE q == INT_MAX \div a
  <2>1. b < q
    <3>1. Quotient(INT_MAX, a) = q
      BY <1>1, <1>4 DEF Quotient
    <3> QED
      BY <1>4, <3>1 DEF SmallProduct
  <2>2. q \in Nat /\ a * q <= INT_MAX
    BY <1>1, <1>4
  <2> HIDE DEF q
  <2>3. q - b \in Nat
    BY <1>1, <2>1, <2>2
  <2>4. a * (q - b) \in Nat /\ a * (q - b) = a * q - a * b /\ a * q \in Nat
    BY <1>1, <2>2, <2>3
  <2> QED
    BY <1>1, <1>2, <2>2, <2>4
<1> QED
  BY <1>1, <1>3, <1>4

LEMMA MulIsExact ==
  ASSUME NEW p, PoolOK(p), Proper(p), NEW a \in Handle(p), NEW b \in Handle(p), Fits(a), Fits(b)
  PROVE  /\ \E v : Exact(sbInteger_mul(p, a, b), v)
         /\ ~is_bigint(b) /\ b.i < PIECE /\ (~is_bigint(a) => a.i * b.i < PIECE * PIECE)
               => Exact(sbInteger_mul(p, a, b), sbInteger_fprint(p, a) * sbInteger_fprint(p, b))
<1>1. CASE IsSmallProduct(a, b)
  <2>1. ~is_bigint(a) /\ ~is_bigint(b) /\ SmallProduct(a.i, b.i)
    BY <1>1 DEF IsSmallProduct
  <2>2. a.i \in 0 .. INT_MAX /\ b.i \in 0 .. INT_MAX
    BY <2>1, PiecesOf
  <2>3. a.i * b.i \in Nat /\ a.i * b.i <= 2 * INT_MAX
    BY <2>1, <2>2, SmallProductFits, SmallAssumption
  <2>4. sbInteger_fprint(p, a) = a.i /\ sbInteger_fprint(p, b) = b.i
    BY <2>1 DEF sbInteger_fprint
  <2>5. sbInteger_mul(p, a, b) = sbInteger_new(p, a.i * b.i)
    BY <1>1 DEF sbInteger_mul
  <2>6. Exact(sbInteger_mul(p, a, b), a.i * b.i)
    BY <2>3, <2>5, NewIsExact
  <2> QED
    BY <2>4, <2>6
<1>2. CASE ~IsSmallProduct(a, b)
  <2>1. sbInteger_mul(p, a, b) = finalize_bigint(p, a, b, trim_bigint(MulPieces(p, a, b)))
    BY <1>2 DEF sbInteger_mul
  <2> QED
    BY <2>1, MulIsProper, OnePiece
<1> QED
  BY <1>1, <1>2

-------------------------------------------------------------------------------
(* Without numbers below zero, which Results bounds, every number there is is  *)
(* what the code takes it for, and what was read so far is what was said.      *)

Positive == Results \subseteq Nat

Unsigned ==
  /\ Proper(bigs)
  /\ \A h \in Holders : Fits(held[h])
  /\ \A i \in DOMAIN stack : Fits(stack[i])
  /\ Fits(reading.n)
  /\ ReadingNow => reading.said = sbInteger_fprint(bigs, reading.n)

LEMMA SameProper == ASSUME NEW p, NEW q, Proper(p), SameNumbers(p, q) PROVE Proper(q)
BY DEF Proper, SameNumbers

LEMMA OthersFit == Fits(NOTHING) /\ \A b : Fits(HeapVar(b))
BY DEF Fits, NOTHING, HeapVar

LEMMA TopFits ==
  ASSUME CountsSuffice, Unsigned, NEW n \in {1, 2}, Operands(n)
  PROVE  /\ \A k \in 0 .. n - 1 : Fits(Peek(k))
         /\ \A i \in DOMAIN Popped(n) : Fits(Popped(n)[i])
<1>1. Len(stack) \in Nat /\ Len(stack) >= n /\ stack \in Seq(Handle(bigs)) /\ DOMAIN stack = 1 .. Len(stack)
  BY InvParts, OnTop
<1>2. \A k \in 0 .. n - 1 : Fits(Peek(k))
  <2> TAKE k \in 0 .. n - 1
  <2>1. Len(stack) - k \in DOMAIN stack
    BY <1>1
  <2> QED
    BY <2>1 DEF Peek, Unsigned
<1>3. \A i \in DOMAIN Popped(n) : i \in DOMAIN stack /\ Popped(n)[i] = stack[i]
  BY <1>1 DEF Popped
<1> QED
  BY <1>2, <1>3 DEF Unsigned

\* A step that only hands numbers on.
LEMMA HandedOn ==
  ASSUME Unsigned, SameNumbers(bigs, bigs'), ~ReadingNow, UNCHANGED reading,
         \A h \in Holders : Fits(held'[h]), \A i \in DOMAIN stack' : Fits(stack'[i])
  PROVE  Unsigned'
<1>1. Proper(bigs')
  BY SameProper DEF Unsigned
<1>2. Fits(reading'.n) /\ ~ReadingNow'
  BY DEF Unsigned, ReadingNow
<1> QED
  BY <1>1, <1>2 DEF Unsigned

LEMMA PutUnsigned ==
  ASSUME CountsSuffice, Unsigned, SameNumbers(bigs, bigs'), ~ReadingNow, UNCHANGED reading,
         Operands(1), NEW place, held' = [held EXCEPT ![place] = Peek(0)], stack' = Popped(1)
  PROVE  Unsigned'
<1>1. Fits(Peek(0)) /\ \A i \in DOMAIN stack' : Fits(stack'[i])
  BY TopFits
<1>2. \A h \in Holders : held'[h] = IF h = place THEN Peek(0) ELSE held[h]
  BY InvParts DEF Holds, Helds
<1>3. \A h \in Holders : Fits(held'[h])
  BY <1>1, <1>2 DEF Unsigned
<1> QED
  BY <1>1, <1>3, HandedOn

LEMMA StoresUnsigned == ASSUME CountsSuffice, Unsigned, SameNumbers(bigs, bigs'), Stores PROVE Unsigned'
<1>1. ASSUME NEW old, NEW place, Store(old, place) PROVE Unsigned'
  BY <1>1, PutUnsigned DEF Store, Running, Waiting, sbVar_set_value
<1> QED
  BY <1>1 DEF Stores, StoreVar, StoreUpval, StoreItem

LEMMA AppendUnsigned ==
  ASSUME CountsSuffice, Unsigned, SameNumbers(bigs, bigs'), NEW i \in Items, sbList_append(i)
  PROVE  Unsigned'
BY PutUnsigned DEF sbList_append, Running, Waiting

LEMMA ConstantUnsigned ==
  ASSUME CountsSuffice, Unsigned, SameNumbers(bigs, bigs'), NEW c \in Consts, sbVmCompiler_add_constant(c)
  PROVE  Unsigned'
BY PutUnsigned DEF sbVmCompiler_add_constant, Waiting

LEMMA LoadsUnsigned == ASSUME CountsSuffice, Unsigned, SameNumbers(bigs, bigs'), Loads PROVE Unsigned'
<1>1. PICK h : Load(h) /\ (h \in Boxes \cup Items \cup Consts \/ (Depth # 0 /\ h \in Frame))
  BY DEF Loads
<1>2. Rest /\ Holds /\ stack \in Seq(Handle(bigs))
  BY InvParts
<1>3. h \in Holders
  <2>1. CASE h \in Boxes \cup Items \cup Consts
    BY <2>1 DEF Holders
  <2>2. CASE Depth # 0 /\ h \in Frame
    BY <1>2, <2>2, BottomType, LocalHolder DEF Frame
  <2> QED
    BY <1>1, <2>1, <2>2
<1>4. PlaceOf(h) \in Holders
  BY <1>2, <1>3 DEF PlaceOf, Holds, Helds, Content, Handle, NOTHING, HeapVars, HeapVar, Holders
<1> DEFINE v == sbVar_get_value(h)
<1>5. Fits(v)
  BY <1>4 DEF Unsigned, sbVar_get_value
<1>6. stack' = Append(stack, v) /\ UNCHANGED <<held, reading>> /\ ~ReadingNow
  BY <1>1 DEF Load, Running, Waiting
<1> HIDE DEF v
<1>7. \A i \in DOMAIN stack' : stack'[i] = v \/ (i \in DOMAIN stack /\ stack'[i] = stack[i])
  BY <1>2, <1>6
<1>8. \A i \in DOMAIN stack' : Fits(stack'[i])
  BY <1>5, <1>7 DEF Unsigned
<1>9. \A h2 \in Holders : Fits(held'[h2])
  BY <1>6 DEF Unsigned
<1> QED
  BY <1>6, <1>8, <1>9, HandedOn

LEMMA MoveUnsigned ==
  ASSUME CountsSuffice, Unsigned, SameNumbers(bigs, bigs'), NEW s \in Slots, NEW b \in Boxes, sbVar_move_to_heap(s, b)
  PROVE  Unsigned'
<1>1. /\ held' = [held EXCEPT ![b] = held[Local(s)], ![Local(s)] = HeapVar(b)]
      /\ UNCHANGED <<stack, reading>> /\ ~ReadingNow /\ Depth > 0
  BY DEF sbVar_move_to_heap, Running, Waiting
<1>2. Local(s) \in Holders /\ held \in Helds(bigs)
  BY <1>1, InvParts, LocalHolder DEF Holds
<1>3. \A h \in Holders : held'[h] \in {held[h], held[Local(s)], HeapVar(b)}
  BY <1>1, <1>2 DEF Helds
<1>4. \A h \in Holders : Fits(held'[h])
  BY <1>2, <1>3, OthersFit DEF Unsigned
<1>5. \A i \in DOMAIN stack' : Fits(stack'[i])
  BY <1>1 DEF Unsigned
<1> QED
  BY <1>1, <1>4, <1>5, HandedOn

LEMMA ReturnUnsigned == ASSUME CountsSuffice, Unsigned, SameNumbers(bigs, bigs'), Return PROVE Unsigned'
<1>1. /\ held' = [h \in Holders |-> IF h \in Frame THEN NOTHING ELSE held[h]]
      /\ UNCHANGED <<stack, reading>> /\ ~ReadingNow
  BY DEF Return, Running, Waiting
<1>2. \A h \in Holders : Fits(held'[h])
  BY <1>1, OthersFit DEF Unsigned
<1>3. \A i \in DOMAIN stack' : Fits(stack'[i])
  BY <1>1 DEF Unsigned
<1> QED
  BY <1>1, <1>2, <1>3, HandedOn

LEMMA PopUnsigned == ASSUME CountsSuffice, Unsigned, SameNumbers(bigs, bigs'), Pop PROVE Unsigned'
<1>1. Operands(1) /\ stack' = Popped(1) /\ UNCHANGED <<held, reading>> /\ ~ReadingNow
  BY DEF Pop, Running, Waiting
<1>2. \A i \in DOMAIN stack' : Fits(stack'[i])
  BY <1>1, TopFits
<1>3. \A h \in Holders : Fits(held'[h])
  BY <1>1 DEF Unsigned
<1> QED
  BY <1>1, <1>2, <1>3, HandedOn

LEMMA StillUnsigned ==
  ASSUME Unsigned, SameNumbers(bigs, bigs'), UNCHANGED <<held, stack, reading>>, ~ReadingNow
  PROVE  Unsigned'
<1>1. (\A h \in Holders : Fits(held'[h])) /\ \A i \in DOMAIN stack' : Fits(stack'[i])
  BY DEF Unsigned
<1> QED
  BY <1>1, HandedOn

LEMMA ReadUnsigned == ASSUME Unsigned, NEW literal \in Literals, Read(literal) PROVE Unsigned'
<1>1. UNCHANGED <<bigs, held, stack>> /\ reading'.n = Small(0) /\ reading'.said = 0
  BY DEF Read, Idle
<1>2. Fits(Small(0)) /\ \A p : sbInteger_fprint(p, Small(0)) = 0
  BY SmallAssumption DEF Fits, Small, sbInteger_fprint, is_bigint
<1> QED
  BY <1>1, <1>2 DEF Unsigned

-------------------------------------------------------------------------------
(* Steps that compute.                                                          *)

LEMMA OperateUnsigned ==
  ASSUME CountsSuffice, Unsigned, Operands(2), Waiting, NEW r, NEW v, Exact(r, v), Operate(r)
  PROVE  Unsigned' /\ Result = v
<1>1. /\ bigs' = r.bigs /\ stack' = Append(Popped(2), r.n)
      /\ UNCHANGED <<held, reading>> /\ ~ReadingNow
  BY DEF Operate, Pushed, Waiting
<1>2. Popped(2) \in Seq(Handle(bigs)) /\ \A i \in DOMAIN Popped(2) : Fits(Popped(2)[i])
  BY OnTop, TopFits
<1> DEFINE s == Popped(2)
           n == r.n
<1>3. Fits(n) /\ Proper(bigs') /\ sbInteger_fprint(bigs', n) = v
  BY <1>1 DEF Exact
<1> HIDE DEF s, n
<1>4. /\ \A i \in DOMAIN stack' : stack'[i] = n \/ (i \in DOMAIN s /\ stack'[i] = s[i])
      /\ stack'[Len(stack')] = n
  BY <1>1, <1>2 DEF s, n
<1>5. \A i \in DOMAIN stack' : Fits(stack'[i])
  BY <1>2, <1>3, <1>4 DEF s
<1>6. Unsigned'
  BY <1>1, <1>3, <1>5 DEF Unsigned, ReadingNow
<1>7. Result = v
  BY <1>3, <1>4 DEF Result
<1> QED
  BY <1>6, <1>7

LEMMA ComputingOperands ==
  ASSUME CountsSuffice, Unsigned, Computing
  PROVE  /\ PoolOK(bigs) /\ Proper(bigs) /\ Operands(2) /\ Waiting
         /\ Peek(0) \in Handle(bigs) /\ Peek(1) \in Handle(bigs) /\ Fits(Peek(0)) /\ Fits(Peek(1))
BY InvParts, OnTop, TopFits DEF Computing, Unsigned

LEMMA SumReckons ==
  ASSUME CountsSuffice, Unsigned, Sum
  PROVE  Unsigned' /\ (status' # "panic" => Result = Left + Right)
<1> DEFINE r == sbInteger_sum(bigs, Peek(1), Peek(0))
<1>1. Computing /\ (Fail \/ Operate(r))
  BY DEF Sum
<1>2. Exact(r, Left + Right)
  BY <1>1, ComputingOperands, SumIsExact DEF Left, Right
<1> HIDE DEF r
<1>3. CASE Fail
  <2>1. SameNumbers(bigs, bigs')
    BY <1>3, InvParts DEF Fail, SameNumbers
  <2> QED
    BY <1>1, <1>3, <2>1, StillUnsigned DEF Fail, Computing, Waiting
<1>4. CASE Operate(r)
  BY <1>1, <1>2, <1>4, ComputingOperands, OperateUnsigned
<1> QED
  BY <1>1, <1>3, <1>4

LEMMA MulReckons ==
  ASSUME CountsSuffice, Unsigned, Mul
  PROVE  Unsigned' /\ (Multiplies(Peek(1), Peek(0)) => Result = Left * Right)
<1> DEFINE r == sbInteger_mul(bigs, Peek(1), Peek(0))
<1>1. Computing /\ Operate(r)
  BY DEF Mul
<1>2. (\E v : Exact(r, v)) /\ (Multiplies(Peek(1), Peek(0)) => Exact(r, Left * Right))
  BY <1>1, ComputingOperands, MulIsExact DEF Left, Right, Multiplies
<1> HIDE DEF r
<1> QED
  BY <1>1, <1>2, ComputingOperands, OperateUnsigned

LEMMA DiffReckons == ASSUME Positive, CountsSuffice, Unsigned, Diff PROVE Unsigned'
<1>1. Computing
  BY DEF Diff
<1>2. CASE Fail
  <2>1. SameNumbers(bigs, bigs')
    BY <1>2, InvParts DEF Fail, SameNumbers
  <2> QED
    BY <1>1, <1>2, <2>1, StillUnsigned DEF Fail, Computing, Waiting
<1>3. CASE CanDiff(Peek(1), Peek(0)) /\ Left - Right \in Results /\ Operate(sbInteger_diff(bigs, Peek(1), Peek(0)))
  <2> DEFINE a == Peek(1)
             b == Peek(0)
  <2>1. ~is_bigint(a) /\ ~is_bigint(b)
    BY <1>3 DEF CanDiff
  <2>2. a.i \in 0 .. INT_MAX /\ b.i \in 0 .. INT_MAX
    BY <1>1, <2>1, ComputingOperands, PiecesOf
  <2>3. a.i - b.i \in Nat
    BY <1>3, <2>1 DEF Positive, Left, Right, sbInteger_fprint
  <2>4. a.i - b.i <= 2 * INT_MAX
    BY <2>2, SmallAssumption
  <2>5. Exact(sbInteger_diff(bigs, a, b), a.i - b.i)
    BY <1>1, <2>3, <2>4, ComputingOperands, NewIsExact DEF sbInteger_diff
  <2> QED
    BY <1>1, <1>3, <2>5, ComputingOperands, OperateUnsigned
<1> QED
  BY <1>2, <1>3 DEF Diff

ReadsOn ==
  LET n == IF reading' = Idle THEN stack'[Len(stack')] ELSE reading'.n
  IN  sbInteger_fprint(bigs', n) = reading.said * BASE + Head(reading.left)

LEMMA MoreLeft ==
  ASSUME NEW S, NEW l \in Seq(S), l # <<>>
  PROVE  Head(l) \in S /\ (Len(l) # 1 => Tail(l) # <<>>)
<1>1. Len(l) \in Nat /\ Len(l) # 0
  OBVIOUS
<1>2. Head(l) \in S /\ Len(Tail(l)) = Len(l) - 1
  BY <1>1
<1>3. ASSUME Tail(l) = <<>> PROVE Len(l) = 1
  <2>1. Len(Tail(l)) = 0
    <3>1. Len(<<>>) = 0
      OBVIOUS
    <3> QED
      BY <1>3, <3>1, Zenon
  <2>2. Len(l) - 1 = 0
    BY <1>2, <2>1, Zenon
  <2> QED
    BY <1>1, <2>2
<1> QED
  BY <1>2, <1>3

LEMMA ReadDigitReckons == ASSUME CountsSuffice, Unsigned, ReadDigit PROVE Unsigned' /\ ReadsOn
<1> DEFINE digit == Head(reading.left)
           times == sbInteger_mul(bigs, reading.n, Small(BASE))
           plus  == sbInteger_sum(times.bigs, times.n, Small(digit))
           said  == reading.said * BASE + digit
           done  == Len(reading.left) = 1
<1>1. PoolOK(bigs) /\ stack \in Seq(Handle(bigs)) /\ Rest /\ ReadingNow /\ Proper(bigs) /\ Fits(reading.n)
  BY InvParts DEF ReadDigit, Unsigned
<1>2. /\ reading.left \in Seq(0 .. BASE - 1) /\ reading.left # <<>> /\ reading.n \in Handle(bigs)
  BY <1>1 DEF Rest, ReadingNow
<1>3. digit \in 0 .. BASE - 1 /\ (~done => Tail(reading.left) # <<>>)
  BY <1>2, MoreLeft
<1>4. BASE \in Nat /\ digit \in Nat /\ BASE \in 0 .. INT_MAX /\ digit \in 0 .. INT_MAX /\ BASE < PIECE
  BY <1>3, LiteralAssumption, BaseAssumption, SmallAssumption
<1>5. /\ \A p : Small(BASE) \in Handle(p) /\ Small(digit) \in Handle(p)
      /\ \A p : sbInteger_fprint(p, Small(BASE)) = BASE /\ sbInteger_fprint(p, Small(digit)) = digit
      /\ Fits(Small(BASE)) /\ Fits(Small(digit)) /\ ~is_bigint(Small(BASE)) /\ Small(BASE).i = BASE
  BY <1>4 DEF Small, Handle, Fits, sbInteger_fprint, is_bigint
<1> HIDE DEF digit
<1>6. ~is_bigint(reading.n) => reading.n.i * BASE < PIECE * PIECE
  <2> SUFFICES ASSUME ~is_bigint(reading.n) PROVE reading.n.i * BASE < PIECE * PIECE
    OBVIOUS
  <2> DEFINE u == reading.n.i
  <2>1. u \in 0 .. INT_MAX
    BY <1>1, <1>2, PiecesOf
  <2> HIDE DEF u
  <2>2. INT_MAX - u \in Nat /\ u \in Nat /\ INT_MAX \in Nat
    BY <2>1, SmallAssumption
  <2>3. (INT_MAX - u) * BASE \in Nat /\ (INT_MAX - u) * BASE = INT_MAX * BASE - u * BASE
        /\ u * BASE \in Nat /\ INT_MAX * BASE \in Nat
    BY <1>4, <2>2
  <2>4. u * BASE < PIECE * PIECE
    BY <2>3, BaseAssumption, Squares
  <2> QED
    BY <2>4 DEF u
<1>7. Exact(times, reading.said * BASE)
  <2>1. reading.said = sbInteger_fprint(bigs, reading.n)
    BY <1>1 DEF Unsigned
  <2>2. Exact(times, sbInteger_fprint(bigs, reading.n) * sbInteger_fprint(bigs, Small(BASE)))
    BY <1>1, <1>2, <1>4, <1>5, <1>6, MulIsExact
  <2> QED
    BY <1>5, <2>1, <2>2
<1>8. PoolOK(times.bigs) /\ times.n \in Handle(times.bigs)
  BY <1>1, <1>2, <1>5, Operation DEF Grown
<1> HIDE DEF times
<1>9. Exact(plus, said)
  <2>1. Proper(times.bigs) /\ Fits(times.n) /\ sbInteger_fprint(times.bigs, times.n) = reading.said * BASE
    BY <1>7 DEF Exact
  <2>2. Exact(plus, sbInteger_fprint(times.bigs, times.n) + sbInteger_fprint(times.bigs, Small(digit)))
    BY <1>5, <1>8, <2>1, SumIsExact
  <2> QED
    BY <1>5, <2>1, <2>2
<1>10. /\ bigs' = plus.bigs /\ UNCHANGED held
       /\ stack' = IF done THEN Append(stack, plus.n) ELSE stack
       /\ reading' = IF done THEN Idle ELSE [left |-> Tail(reading.left), n |-> plus.n, said |-> said]
  BY DEF ReadDigit, digit, times, plus
<1> HIDE DEF plus, said, done
<1>11. Proper(bigs') /\ Fits(plus.n) /\ sbInteger_fprint(bigs', plus.n) = said
  BY <1>9, <1>10 DEF Exact
<1>12. \A h \in Holders : Fits(held'[h])
  BY <1>10 DEF Unsigned
<1>13. CASE done
  <2>1. stack' = Append(stack, plus.n) /\ reading' = Idle
    BY <1>10, <1>13
  <2>2. /\ \A i \in DOMAIN stack' : stack'[i] = plus.n \/ (i \in DOMAIN stack /\ stack'[i] = stack[i])
        /\ stack'[Len(stack')] = plus.n
    BY <1>1, <2>1
  <2>3. \A i \in DOMAIN stack' : Fits(stack'[i])
    BY <1>11, <2>2 DEF Unsigned
  <2>4. Fits(reading'.n) /\ ~ReadingNow'
    BY <2>1, SmallAssumption DEF Idle, Fits, Small, ReadingNow
  <2>5. Unsigned'
    BY <1>11, <1>12, <2>3, <2>4 DEF Unsigned
  <2> QED
    BY <1>11, <2>1, <2>2, <2>5 DEF ReadsOn, said, digit
<1>14. CASE ~done
  <2>1. stack' = stack /\ reading'.n = plus.n /\ reading'.said = said /\ reading'.left # <<>>
    BY <1>3, <1>10, <1>14
  <2>2. \A i \in DOMAIN stack' : Fits(stack'[i])
    BY <2>1 DEF Unsigned
  <2>3. Unsigned'
    BY <1>11, <1>12, <2>1, <2>2 DEF Unsigned
  <2>4. reading' # Idle
    BY <2>1 DEF Idle
  <2> QED
    BY <1>11, <2>1, <2>3, <2>4 DEF ReadsOn, said, digit
<1> QED
  BY <1>13, <1>14

-------------------------------------------------------------------------------
(* Every step, and the theorem.                                                 *)

LEMMA InitUnsigned == Init => Unsigned
<1> SUFFICES ASSUME Init PROVE Unsigned
  OBVIOUS
<1>1. DOMAIN bigs = {} /\ DOMAIN stack = {} /\ \A h \in Holders : held[h] = NOTHING
  BY DEF Init
<1>2. Fits(reading.n) /\ ~ReadingNow
  BY SmallAssumption DEF Init, Idle, Fits, Small, ReadingNow
<1> QED
  BY <1>1, <1>2, OthersFit DEF Unsigned, Proper

LEMMA NextUnsigned == ASSUME Positive PROVE CountsSuffice /\ Unsigned /\ [Next]_vars => Unsigned'
<1> SUFFICES ASSUME CountsSuffice, Unsigned, [Next]_vars PROVE Unsigned'
  OBVIOUS
<1>1. CASE Computes
  BY <1>1, SumReckons, DiffReckons, MulReckons, ReadDigitReckons DEF Computes
<1>2. CASE ~Computes
  <2>1. SameNumbers(bigs, bigs')
    BY <1>2, NextKept DEF Kept, Moderate
  <2>2. CASE \E literal \in Literals : Read(literal)
    BY <2>2, ReadUnsigned
  <2>3. CASE \E c \in Consts : sbVmCompiler_add_constant(c)
    BY <2>1, <2>3, ConstantUnsigned
  <2>4. CASE Start
    BY <2>1, <2>4, StillUnsigned DEF Start, Waiting
  <2>5. CASE Loads \/ Stores \/ Pop
    BY <2>1, <2>5, LoadsUnsigned, StoresUnsigned, PopUnsigned
  <2>6. CASE \E i \in Items : sbList_append(i)
    BY <2>1, <2>6, AppendUnsigned
  <2>7. CASE \E s \in Slots, b \in Boxes : sbVar_move_to_heap(s, b)
    BY <2>1, <2>7, MoveUnsigned
  <2>8. CASE \E n \in 0 .. 1 : Call(n)
    BY <2>1, <2>8, StillUnsigned DEF Call, Running, Waiting
  <2>9. CASE Return
    BY <2>1, <2>9, ReturnUnsigned
  <2>10. CASE UNCHANGED vars
    BY <2>10 DEF vars, Unsigned, ReadingNow
  <2> QED
    BY <1>2, <2>2, <2>3, <2>4, <2>5, <2>6, <2>7, <2>8, <2>9, <2>10 DEF Next, Computes
<1> QED
  BY <1>1, <1>2

Reckons ==
  /\ Sum /\ status' # "panic" => Result = Left + Right
  /\ Mul /\ Multiplies(Peek(1), Peek(0)) => Result = Left * Right
  /\ ReadDigit => ReadsOn

(* Sums, the products the code can do and the reading of a number digit by    *)
(* digit come to the right number, for every base, word length and number of  *)
(* pieces, whether the result is small, new or written over an operand         *)
(* (sbInteger_sum, sbInteger_mul, finalize_bigint, trim_bigint).               *)
THEOREM Reckoning == ASSUME Positive PROVE Spec => ArithmeticExact
<1>1. CountsSuffice /\ Unsigned /\ [Next]_vars => [Reckons]_vars
  BY SumReckons, MulReckons, ReadDigitReckons DEF Reckons
<1>2. Spec => []Unsigned
  BY Counts, InitUnsigned, NextUnsigned, PTL DEF Spec
<1> QED
  BY <1>1, <1>2, Counts, PTL DEF Spec, ArithmeticExact, Reckons, ReadsOn
===============================================================================
