--------------------------- MODULE BytecodeProofs ---------------------------
(******************************************************************************)
(* Proofs about Bytecode.tla. That the machine reads what was compiled rests  *)
(* on three things: numbers of every width and sign are read from their bytes *)
(* as they were written; the address of a forward jump is written over four   *)
(* bytes of that jump and nothing else; and the instructions lie one after    *)
(* the other, so that the end of the one executed is the start of the next.   *)
(*                                                                            *)
(* Addressable says that the code of a block can be addressed in four bytes,  *)
(* which is what a forward jump has room for. An instruction takes at most    *)
(* ten bytes.                                                                 *)
(******************************************************************************)
EXTENDS Bytecode, WellFoundedInduction, TLAPS

-------------------------------------------------------------------------------
(*****************************************************************************)
(* Numbers in bytes. Power is a recursive function: that it is what its      *)
(* definition says is proved by giving the function, and what Unsigned reads *)
(* from the digits of a number by giving the quotients it passes through.    *)
(*****************************************************************************)
(* What a byte can be *)
Byte == 0 .. Base - 1

(* A set of naturals has a least element. *)
LEMMA LeastElement ==
  ASSUME NEW S \in SUBSET Nat, S # {}
  PROVE  \E j \in S : \A l \in S : j <= l
<1>1. PICK j \in S : \A l \in S : ~(<<l, j>> \in OpToRel(<, Nat))
  BY NatLessThanWellFounded, WFMin
<1>2. \A l \in S : ~(l < j)
  BY <1>1 DEF OpToRel
<1> QED
  BY <1>2

(* A number is what is left of it and its quotient make. *)
LEMMA Divided ==
  ASSUME NEW n \in Int, NEW b \in Nat, b > 0
  PROVE  n \div b \in Int /\ n % b \in 0 .. b - 1 /\ n = (n \div b) * b + (n % b)
<1>1. n \div b \in Int
  OBVIOUS
<1>2. n % b \in 0 .. b - 1
  OBVIOUS
<1>3. (n % b) + (n \div b) * b = n
  BY Z3
<1>4. (n % b) + (n \div b) * b = (n \div b) * b + (n % b)
  BY <1>1, <1>2
<1> QED
  BY <1>1, <1>2, <1>3, <1>4

(* A byte has an even number of values, more than four. *)
LEMMA BaseIs == Base \in Nat /\ Base > 4 /\ \E c \in Nat : c > 2 /\ Base = 2 * c
<1>1. Base \in Nat /\ Base > 4 /\ Base % 2 = 0
  BY BytecodeAssumption
<1>2. PICK b \in Nat : b = Base /\ b > 4 /\ b % 2 = 0
  BY <1>1
<1>3. b = (b \div 2) * 2 + (b % 2) /\ b \div 2 \in Int
  BY Divided
<1>4. PICK c \in Int : c = b \div 2
  BY <1>3
<1>5. b = 2 * c
  BY <1>2, <1>3, <1>4
<1>6. c > 2
  BY <1>2, <1>5
<1> QED
  BY <1>1, <1>2, <1>4, <1>5, <1>6

(* Power is what its definition says: there is such a function. *)
LEMMA PowerIs == Power[0] = 1 /\ \A w \in 1 .. 8 : Power[w] = Base * Power[w - 1]
<1> DEFINE Is(g) == g = [width \in 0 .. 8 |-> IF width = 0 THEN 1 ELSE Base * g[width - 1]]
<1>1. PICK p2, p3, p4, p5, p6, p7, p8 :
        /\ p2 = Base * (Base * 1) /\ p3 = Base * p2 /\ p4 = Base * p3 /\ p5 = Base * p4
        /\ p6 = Base * p5 /\ p7 = Base * p6 /\ p8 = Base * p7
  OBVIOUS
<1>2. PICK g : g = [w \in 0 .. 8 |-> <<1, Base * 1, p2, p3, p4, p5, p6, p7, p8>>[w + 1]]
  OBVIOUS
<1>3. /\ g[0] = 1 /\ g[1] = Base * 1 /\ g[2] = p2 /\ g[3] = p3 /\ g[4] = p4 /\ g[5] = p5
      /\ g[6] = p6 /\ g[7] = p7 /\ g[8] = p8
  BY <1>2
<1>4. ASSUME NEW w \in 1 .. 8 PROVE g[w] = Base * g[w - 1]
  <2>1. w = 1 \/ w = 2 \/ w = 3 \/ w = 4 \/ w = 5 \/ w = 6 \/ w = 7 \/ w = 8
    OBVIOUS
  <2>2. \A k, l \in 0 .. 8 : k = l - 1 /\ l = w /\ g[l] = Base * g[k] => g[w] = Base * g[w - 1]
    OBVIOUS
  <2> QED
    BY <1>1, <1>3, <2>1, <2>2
<1>5. Is(g)
  BY <1>2, <1>3, <1>4
<1>6. Power = CHOOSE h : Is(h)
  BY DEF Power
<1>7. Is(Power)
  BY <1>5, <1>6
<1> QED
  BY <1>7

(* Every width has some values. *)
LEMMA PowerNat == \A w \in 0 .. 8 : Power[w] \in Nat /\ Power[w] > 0
<1> DEFINE Bad == {w \in 0 .. 8 : ~(Power[w] \in Nat /\ Power[w] > 0)}
<1>1. SUFFICES ASSUME Bad # {} PROVE FALSE
  OBVIOUS
<1>2. PICK w \in Bad : \A v \in Bad : w <= v
  <2>1. Bad \in SUBSET Nat
    OBVIOUS
  <2> HIDE DEF Bad
  <2> QED
    BY <1>1, <2>1, LeastElement
<1>3. w \in 0 .. 8 /\ ~(Power[w] \in Nat /\ Power[w] > 0)
  OBVIOUS
<1>4. w \in 1 .. 8 /\ w - 1 \in 0 .. 8 /\ ~(w <= w - 1)
  BY <1>3, PowerIs
<1>5. w - 1 \notin Bad
  <2> HIDE DEF Bad
  <2> QED
    BY <1>2, <1>4
<1>6. PICK p \in Nat : p = Power[w - 1] /\ p > 0
  BY <1>4, <1>5
<1>7. Power[w] = Base * p
  BY <1>4, <1>6, PowerIs
<1>8. Base * p \in Nat /\ Base * p > 0
  BY <1>6, BaseIs
<1> QED
  BY <1>3, <1>7, <1>8

(* Half of the numbers of a width are its negative ones. *)
LEMMA PowerEven == ASSUME NEW w \in 1 .. 8 PROVE \E h \in Nat : Power[w] = 2 * h /\ Power[w] \div 2 = h /\ h > 0
<1>1. PICK c \in Nat : c > 2 /\ Base = 2 * c
  BY BaseIs
<1>2. PICK p \in Nat : p = Power[w - 1] /\ p > 0
  BY PowerNat
<1>3. PICK h \in Nat : h = c * p
  BY <1>1, <1>2
<1>4. Power[w] = 2 * h
  BY <1>1, <1>2, <1>3, PowerIs
<1>5. (2 * h) \div 2 = h
  BY <1>3
<1>6. h > 0
  BY <1>1, <1>2, <1>3
<1> QED
  BY <1>3, <1>4, <1>5, <1>6

(* A quotient is known by what it leaves. *)
LEMMA QuotientIs ==
  ASSUME NEW n \in Int, NEW b \in Nat, b > 0, NEW q \in Int, NEW r \in 0 .. b - 1, n = b * q + r
  PROVE  n \div b = q /\ n % b = r
<1>1. n \div b = q
  OBVIOUS
<1>2. n % b = r
  OBVIOUS
<1> QED
  BY <1>1, <1>2

(* Dividing by a product is dividing by its factors in turn. *)
LEMMA QuotientOfProduct ==
  ASSUME NEW n \in Nat, NEW b \in Nat, b > 0, NEW p \in Nat, p > 0
  PROVE  n \div (b * p) = (n \div p) \div b
OBVIOUS

(* Quotients by the powers, from the greatest down: each is the one before *)
(* it, and the digit that follows.                                         *)
LEMMA DigitFollows ==
  ASSUME NEW n \in Nat, NEW w \in 1 .. 8
  PROVE  n \div Power[w - 1] = (n \div Power[w]) * Base + ((n \div Power[w - 1]) % Base)
<1>1. PICK p \in Nat : p = Power[w - 1] /\ p > 0
  BY PowerNat
<1>2. Power[w] = Base * p
  BY <1>1, PowerIs
<1>3. PICK b \in Nat : b = Base /\ b > 0
  BY BaseIs
<1>4. n \div (b * p) = (n \div p) \div b
  BY <1>1, <1>3, QuotientOfProduct
<1>5. PICK m \in Int : m = n \div p
  BY <1>1, Divided
<1>6. m = (m \div b) * b + (m % b)
  BY <1>3, Divided
<1>7. n \div Power[w] = m \div Base
  BY <1>2, <1>3, <1>4, <1>5
<1>8. n \div Power[w - 1] = m
  BY <1>1, <1>5
<1> QED
  BY <1>3, <1>6, <1>7, <1>8

(* The numbers that Unsigned reads, one digit more each *)
Sums(g, bytes) ==
  g = [d \in 0 .. Len(bytes) |-> IF d = 0 THEN 0 ELSE g[d - 1] * Base + bytes[d]]

(* Two such functions agree. *)
LEMMA SumsAgree ==
  ASSUME NEW bytes, Len(bytes) \in Nat, NEW g, NEW h, Sums(g, bytes), Sums(h, bytes)
  PROVE  \A d \in 0 .. Len(bytes) : g[d] = h[d]
<1> DEFINE Bad == {d \in 0 .. Len(bytes) : g[d] # h[d]}
<1>1. SUFFICES ASSUME Bad # {} PROVE FALSE
  OBVIOUS
<1>2. PICK d \in Bad : \A l \in Bad : d <= l
  <2>1. Bad \in SUBSET Nat
    OBVIOUS
  <2> HIDE DEF Bad
  <2> QED
    BY <1>1, <2>1, LeastElement
<1>3. d \in 0 .. Len(bytes) /\ g[d] # h[d]
  OBVIOUS
<1>4. \A f, e : Sums(f, bytes) /\ e \in 0 .. Len(bytes) =>
        f[e] = IF e = 0 THEN 0 ELSE f[e - 1] * Base + bytes[e]
  BY Zenon DEF Sums
<1>5. d # 0
  BY <1>3, <1>4
<1>6. d - 1 \in 0 .. Len(bytes) /\ ~(d <= d - 1)
  BY <1>3, <1>5
<1>7. d - 1 \notin Bad
  <2> HIDE DEF Bad
  <2> QED
    BY <1>2, <1>6
<1>8. g[d - 1] = h[d - 1]
  BY <1>6, <1>7
<1>9. g[d] = g[d - 1] * Base + bytes[d] /\ h[d] = h[d - 1] * Base + bytes[d]
  BY <1>3, <1>4, <1>5
<1> QED
  BY <1>3, <1>8, <1>9

(* Unsigned is the last of these numbers, whoever gives them. *)
LEMMA UnsignedFrom ==
  ASSUME NEW bytes, Len(bytes) \in Nat, NEW g, Sums(g, bytes)
  PROVE  Unsigned(bytes) = g[Len(bytes)]
<1> DEFINE result == CHOOSE f : Sums(f, bytes)
<1>1. Unsigned(bytes) = result[Len(bytes)]
  BY DEF Unsigned, Sums
<1>2. Sums(result, bytes)
  OBVIOUS
<1> HIDE DEF result
<1>3. Len(bytes) \in 0 .. Len(bytes)
  OBVIOUS
<1>4. \A d \in 0 .. Len(bytes) : result[d] = g[d]
  BY <1>2, SumsAgree
<1> QED
  BY <1>1, <1>3, <1>4

(* The bytes of a number: as many as the width, each a digit. *)
LEMMA BigEndianIs ==
  ASSUME NEW n \in Int, NEW w \in 1 .. 8
  PROVE  /\ BigEndian(n, w) \in Seq(Byte)
         /\ Len(BigEndian(n, w)) = w
         /\ \A d \in 1 .. w : BigEndian(n, w)[d] = (n \div Power[w - d]) % Base
<1>1. ASSUME NEW d \in 1 .. w PROVE (n \div Power[w - d]) % Base \in Byte
  <2>1. w - d \in 0 .. 8
    OBVIOUS
  <2>2. PICK p \in Nat : p = Power[w - d] /\ p > 0
    BY <2>1, PowerNat
  <2>3. PICK m \in Int : m = n \div p
    BY <2>2, Divided
  <2>4. PICK b \in Nat : b = Base /\ b > 0
    BY BaseIs
  <2>5. m % b \in 0 .. b - 1
    BY <2>4, Divided
  <2> QED
    BY <2>2, <2>3, <2>4, <2>5 DEF Byte
<1>2. PICK s : s = [d \in 1 .. w |-> (n \div Power[w - d]) % Base]
  OBVIOUS
<1>3. s \in [1 .. w -> Byte] /\ \A d \in 1 .. w : s[d] = (n \div Power[w - d]) % Base
  BY <1>1, <1>2
<1>4. s \in Seq(Byte) /\ Len(s) = w
  BY <1>3
<1>5. BigEndian(n, w) = s
  BY <1>2 DEF BigEndian
<1> QED
  BY <1>3, <1>4, <1>5

(* Bytes written from a number read as that number. *)
LEMMA UnsignedOf ==
  ASSUME NEW w \in 1 .. 8, NEW n \in Nat, n < Power[w]
  PROVE  Unsigned(BigEndian(n, w)) = n
<1>1. PICK bytes : bytes = BigEndian(n, w)
  OBVIOUS
<1>2. Len(bytes) = w /\ \A d \in 1 .. w : bytes[d] = (n \div Power[w - d]) % Base
  <2>1. n \in Int
    OBVIOUS
  <2>2. /\ Len(BigEndian(n, w)) = w
        /\ \A d \in 1 .. w : BigEndian(n, w)[d] = (n \div Power[w - d]) % Base
    BY <2>1, BigEndianIs, Zenon
  <2> QED
    BY <1>1, <2>2, Zenon
<1>3. PICK g : g = [d \in 0 .. w |-> n \div Power[w - d]]
  OBVIOUS
<1>4. g[0] = 0
  <2>1. PICK p \in Nat : p = Power[w] /\ p > 0
    BY PowerNat
  <2>2. n = p * 0 + n /\ n \in 0 .. p - 1
    BY <2>1
  <2>3. n \div p = 0
    BY <2>1, <2>2, QuotientIs
  <2>4. g[0] = n \div Power[w]
    BY <1>3
  <2> QED
    BY <2>1, <2>3, <2>4
<1>5. ASSUME NEW d \in 0 .. w, d # 0 PROVE g[d] = g[d - 1] * Base + bytes[d]
  <2>1. w - d + 1 \in 1 .. 8 /\ (w - d + 1) - 1 = w - d /\ w - (d - 1) = w - d + 1 /\ d \in 1 .. w /\ d - 1 \in 0 .. w
    BY <1>5
  <2>2. g[d] = n \div Power[w - d] /\ g[d - 1] = n \div Power[w - d + 1]
    BY <1>3, <2>1
  <2>3. bytes[d] = (n \div Power[w - d]) % Base
    BY <1>2, <2>1
  <2>4. n \div Power[w - d] = (n \div Power[w - d + 1]) * Base + ((n \div Power[w - d]) % Base)
    BY <2>1, DigitFollows
  <2> QED
    BY <2>2, <2>3, <2>4
<1>6. Sums(g, bytes)
  <2>1. DOMAIN g = 0 .. Len(bytes) /\ g = [d \in 0 .. Len(bytes) |-> g[d]]
    BY <1>2, <1>3
  <2>2. \A d \in 0 .. Len(bytes) : g[d] = IF d = 0 THEN 0 ELSE g[d - 1] * Base + bytes[d]
    BY <1>2, <1>4, <1>5
  <2> QED
    BY <2>1, <2>2 DEF Sums
<1>7. Unsigned(bytes) = g[w]
  BY <1>2, <1>6, UnsignedFrom
<1>8. g[w] = n \div Power[0]
  BY <1>3
<1>9. n \div 1 = n
  OBVIOUS
<1> QED
  BY <1>1, <1>7, <1>8, <1>9, PowerIs

(* Bytes written from a number of either sign read as that number. *)
LEMMA SignedOf ==
  ASSUME NEW w \in 1 .. 8, NEW n \in Int, -(Power[w] \div 2) <= n, n < Power[w] \div 2
  PROVE  Signed(Wide(n, w)) = n
<1>1. PICK h \in Nat : Power[w] = 2 * h /\ Power[w] \div 2 = h /\ h > 0
  BY PowerEven
<1>2. PICK p \in Nat : p = Power[w] /\ p = 2 * h /\ p > 0 /\ p \div 2 = h
  BY <1>1
<1>3. -h <= n /\ n < h
  BY <1>1
<1>4. PICK u \in Nat : u = n % p /\ u < p
  BY <1>2, Divided
<1>5. Wide(n, w) = BigEndian(u, w)
  BY <1>2, <1>4 DEF Wide
<1>6. Unsigned(Wide(n, w)) = u /\ Len(Wide(n, w)) = w
  <2>1. u \in Int /\ u < Power[w]
    BY <1>2, <1>4
  <2>2. Unsigned(BigEndian(u, w)) = u
    BY <2>1, UnsignedOf
  <2>3. Len(BigEndian(u, w)) = w
    BY <2>1, BigEndianIs, Zenon
  <2> QED
    BY <1>5, <2>2, <2>3
<1>7. Signed(Wide(n, w)) = IF u >= h THEN u - p ELSE u
  BY <1>2, <1>6, Zenon DEF Signed
<1>8. CASE n >= 0
  <2>1. n = p * 0 + n /\ n \in 0 .. p - 1
    BY <1>2, <1>3, <1>8
  <2>2. u = n
    BY <1>2, <1>4, <2>1, QuotientIs
  <2> QED
    BY <1>3, <1>7, <2>2
<1>9. CASE n < 0
  <2>1. n = p * (-1) + (n + p) /\ n + p \in 0 .. p - 1 /\ n + p >= h
    BY <1>2, <1>3, <1>9
  <2>2. u = n + p
    BY <1>2, <1>4, <2>1, QuotientIs
  <2> QED
    BY <1>7, <1>2, <2>1, <2>2
<1> QED
  BY <1>8, <1>9

(* The bytes written for a number of either sign are bytes. *)
LEMMA WideIs ==
  ASSUME NEW n \in Int, NEW w \in 1 .. 8
  PROVE  Wide(n, w) \in Seq(Byte) /\ Len(Wide(n, w)) = w
<1>1. PICK p \in Nat : p = Power[w] /\ p > 0
  BY PowerNat
<1>2. PICK u \in Int : u = n % p
  BY <1>1, Divided
<1> QED
  BY <1>1, <1>2, BigEndianIs DEF Wide

-------------------------------------------------------------------------------
(*****************************************************************************)
(* One instruction. Says(t, op, n) is an instruction t that is read with     *)
(* the opcode and the parameter it was compiled with, unless that is the     *)
(* number of a marker; emit_arg writes only such instructions, and where one *)
(* lies in the code get_param reads it from its own bytes.                   *)
(*****************************************************************************)
(* The bytes t lie in the code after the first at. *)
Lies(bytes, at, t) ==
  at + Len(t) <= Len(bytes) /\ \A b \in 1 .. Len(t) : bytes[at + b] = t[b]

(* An instruction that is read with the parameter it was compiled with, if *)
(* that is not the number of a marker                                      *)
Reads(t, op, n) == t[1] = op /\ Len(t) = 2 + Following(t[2]) /\ Param(t, 2) = n
Says(t, op, n) ==
  t \in Seq(Byte) /\ Len(t) \in 2 .. 10 /\ (n \notin Markers => Reads(t, op, n))

Encodable(n) == n \in Int /\ -(Power[8] \div 2) <= n /\ n < Power[8] \div 2

(* What follows each marker, and nothing follows anything else. *)
LEMMA MarkersFollow ==
  /\ LONG \in Byte /\ VLONG \in Byte /\ VVLONG \in Byte /\ OP \in Byte /\ JMP \in Byte
  /\ Following(LONG) = 2 /\ Following(VLONG) = 4 /\ Following(VVLONG) = 8
  /\ \A n : n \notin Markers => Following(n) = 0
<1>1. LONG # VLONG /\ VLONG # VVLONG /\ LONG # VVLONG /\ {LONG, VLONG, VVLONG, OP, JMP} \subseteq Byte
  BY BytecodeAssumption DEF Byte
<1>2. Following(LONG) = 2 /\ Following(VLONG) = 4 /\ Following(VVLONG) = 8
  BY <1>1, Zenon DEF Following
<1>3. \A n : n \notin Markers => Following(n) = 0
  BY Zenon DEF Following, Markers
<1> QED
  BY <1>1, <1>2, <1>3

(* How many bytes can follow. *)
LEMMA FollowingNat == \A m : Following(m) \in {0, 2, 4, 8}
BY DEF Following

(* An opcode, a marker and the bytes that follow it *)
LEMMA MarkedIs ==
  ASSUME NEW op \in Byte, NEW m \in Byte, NEW body \in Seq(Byte)
  PROVE  /\ <<op>> \o (<<m>> \o body) \in Seq(Byte)
         /\ Len(<<op>> \o (<<m>> \o body)) = 2 + Len(body)
         /\ (<<op>> \o (<<m>> \o body))[1] = op
         /\ (<<op>> \o (<<m>> \o body))[2] = m
         /\ \A i \in 1 .. Len(body) : (<<op>> \o (<<m>> \o body))[2 + i] = body[i]
<1>1. PICK u : u = <<m>> \o body
  OBVIOUS
<1>2. u \in Seq(Byte) /\ Len(u) = 1 + Len(body) /\ u[1] = m /\ \A i \in 1 .. Len(body) : u[1 + i] = body[i]
  BY <1>1
<1>3. PICK t : t = <<op>> \o u
  OBVIOUS
<1>4. t \in Seq(Byte) /\ Len(t) = 1 + Len(u) /\ t[1] = op /\ \A i \in 1 .. Len(u) : t[1 + i] = u[i]
  BY <1>2, <1>3
<1>5. Len(body) \in Nat
  OBVIOUS
<1>6. Len(t) = 2 + Len(body)
  BY <1>2, <1>4, <1>5
<1>7. t[2] = m
  <2>1. 1 \in 1 .. Len(u)
    BY <1>2, <1>5
  <2>2. t[1 + 1] = u[1]
    BY <1>4, <2>1
  <2> QED
    BY <1>2, <2>2
<1>8. ASSUME NEW i \in 1 .. Len(body) PROVE t[2 + i] = body[i]
  <2>1. 1 + i \in 1 .. Len(u) /\ 1 + (1 + i) = 2 + i
    BY <1>2, <1>5
  <2>2. t[1 + (1 + i)] = u[1 + i]
    BY <1>4, <2>1
  <2> QED
    BY <1>2, <2>1, <2>2
<1> QED
  BY <1>1, <1>3, <1>4, <1>6, <1>7, <1>8

(* A part of a sequence *)
LEMMA PartIs ==
  ASSUME NEW s \in Seq(Byte), NEW a \in Nat, NEW w \in Nat, a + w <= Len(s)
  PROVE  /\ SubSeq(s, a + 1, a + w) \in Seq(Byte)
         /\ Len(SubSeq(s, a + 1, a + w)) = w
         /\ \A i \in 1 .. w : SubSeq(s, a + 1, a + w)[i] = s[a + i]
<1>1. SubSeq(s, a + 1, a + w) \in Seq(Byte)
  OBVIOUS
<1>2. Len(SubSeq(s, a + 1, a + w)) = w
  OBVIOUS
<1>3. \A i \in 1 .. w : SubSeq(s, a + 1, a + w)[i] = s[a + i]
  OBVIOUS
<1> QED
  BY <1>1, <1>2, <1>3

(* Where an instruction lies in the code, its parameter is read from the   *)
(* bytes of the instruction alone.                                         *)
LEMMA ParamWhereItLies ==
  ASSUME NEW bytes \in Seq(Byte), NEW at \in Nat, NEW t \in Seq(Byte), Lies(bytes, at, t),
         Len(t) >= 2, Len(t) = 2 + Following(t[2])
  PROVE  /\ bytes[at + 1] = t[1] /\ bytes[at + 2] = t[2]
         /\ at + 2 + Following(bytes[at + 2]) = at + Len(t)
         /\ at + Len(t) <= Len(bytes)
         /\ Param(bytes, at + 2) = Param(t, 2)
<1>1. PICK w \in Nat : w = Following(t[2])
  BY FollowingNat
<1>2. Len(t) = 2 + w /\ at + 2 + w <= Len(bytes) /\ \A b \in 1 .. 2 + w : bytes[at + b] = t[b]
  BY <1>1 DEF Lies
<1>3. bytes[at + 1] = t[1] /\ bytes[at + 2] = t[2]
  BY <1>2
<1>4. PICK a, p, s, r : a = at + 2 /\ p = 2 /\ s = SubSeq(bytes, a + 1, a + w) /\ r = SubSeq(t, p + 1, p + w)
  OBVIOUS
<1>5. s = r
  <2>1. s \in Seq(Byte) /\ Len(s) = w /\ \A i \in 1 .. w : s[i] = bytes[a + i]
    <3>1. a \in Nat /\ a + w <= Len(bytes)
      BY <1>2, <1>4
    <3>2. /\ SubSeq(bytes, a + 1, a + w) \in Seq(Byte) /\ Len(SubSeq(bytes, a + 1, a + w)) = w
          /\ \A i \in 1 .. w : SubSeq(bytes, a + 1, a + w)[i] = bytes[a + i]
      BY <3>1, PartIs
    <3>3. s = SubSeq(bytes, a + 1, a + w)
      BY <1>4
    <3> QED
      BY <3>2, <3>3, Zenon
  <2>2. r \in Seq(Byte) /\ Len(r) = w /\ \A i \in 1 .. w : r[i] = t[p + i]
    <3>1. p \in Nat /\ p + w <= Len(t)
      BY <1>2, <1>4
    <3>2. /\ SubSeq(t, p + 1, p + w) \in Seq(Byte) /\ Len(SubSeq(t, p + 1, p + w)) = w
          /\ \A i \in 1 .. w : SubSeq(t, p + 1, p + w)[i] = t[p + i]
      BY <3>1, PartIs
    <3>3. r = SubSeq(t, p + 1, p + w)
      BY <1>4
    <3> QED
      BY <3>2, <3>3, Zenon
  <2>3. ASSUME NEW i \in 1 .. w PROVE s[i] = r[i]
    <3>1. PICK k \in 1 .. 2 + w : k = 2 + i /\ a + i = at + k /\ p + i = k
      BY <1>4
    <3>2. s[i] = bytes[at + k]
      BY <2>1, <3>1
    <3>3. r[i] = t[k]
      BY <2>2, <3>1
    <3> QED
      BY <1>2, <3>2, <3>3
  <2> QED
    BY <2>1, <2>2, <2>3
<1>6. Param(bytes, a) = Param(t, p)
  <2>1. bytes[a] = t[p] /\ Following(bytes[a]) = w /\ Following(t[p]) = w
    BY <1>1, <1>3, <1>4
  <2>2. \A q, k : Param(q, k) = IF q[k] \in Markers THEN Signed(SubSeq(q, k + 1, k + Following(q[k]))) ELSE q[k]
    BY Zenon DEF Param
  <2>3. CASE t[p] \in Markers
    <3>1. Param(bytes, a) = Signed(s)
      BY <1>4, <2>1, <2>2, <2>3
    <3>2. Param(t, p) = Signed(r)
      BY <1>4, <2>1, <2>2, <2>3
    <3> QED
      BY <1>5, <3>1, <3>2, Zenon
  <2>4. CASE t[p] \notin Markers
    <3>1. Param(bytes, a) = bytes[a]
      BY <2>1, <2>2, <2>4
    <3>2. Param(t, p) = t[p]
      BY <2>2, <2>4
    <3> QED
      BY <2>1, <3>1, <3>2
  <2> QED
    BY <2>3, <2>4, Zenon
<1>7. Param(bytes, at + 2) = Param(t, 2)
  BY <1>4, <1>6, Zenon
<1>8. at + 2 + Following(bytes[at + 2]) = at + Len(t) /\ at + Len(t) <= Len(bytes)
  <2>1. Following(bytes[at + 2]) = w
    BY <1>1, <1>3
  <2>2. PICK m \in Nat : m = Len(t) /\ m = 2 + w
    BY <1>2
  <2>3. at + 2 + w = at + m
    BY <2>2
  <2>4. at + m <= Len(bytes)
    BY <2>2 DEF Lies
  <2> QED
    BY <2>1, <2>2, <2>3, <2>4
<1> QED
  BY <1>3, <1>7, <1>8

(* A parameter after a marker of its width is read as it was written. *)
LEMMA WideSays ==
  ASSUME NEW op \in Byte, NEW m \in Markers, NEW w \in 1 .. 8, w = Following(m),
         NEW n \in Int, -(Power[w] \div 2) <= n, n < Power[w] \div 2
  PROVE  Says(<<op>> \o (<<m>> \o Wide(n, w)), op, n)
<1>1. PICK body : body = Wide(n, w)
  OBVIOUS
<1>2. body \in Seq(Byte) /\ Len(body) = w /\ Signed(body) = n
  BY <1>1, WideIs, SignedOf
<1>3. m \in Byte
  BY MarkersFollow DEF Markers
<1>4. PICK t : t = <<op>> \o (<<m>> \o body)
  OBVIOUS
<1>5. t \in Seq(Byte) /\ Len(t) = 2 + w /\ t[1] = op /\ t[2] = m /\ \A i \in 1 .. w : t[2 + i] = body[i]
  BY <1>2, <1>3, <1>4, MarkedIs
<1>6. SubSeq(t, 2 + 1, 2 + w) = body
  <2>1. PICK r : r = SubSeq(t, 2 + 1, 2 + w)
    OBVIOUS
  <2>2. r \in Seq(Byte) /\ Len(r) = w /\ \A i \in 1 .. w : r[i] = t[2 + i]
    BY <1>5, <2>1
  <2>3. \A i \in 1 .. w : r[i] = body[i]
    BY <1>5, <2>2
  <2>4. r = body
    BY <1>2, <2>2, <2>3
  <2> QED
    BY <2>1, <2>4
<1>7. Param(t, 2) = n
  BY <1>2, <1>5, <1>6, Zenon DEF Param
<1>8. Says(t, op, n)
  BY <1>5, <1>7 DEF Says, Reads
<1> QED
  BY <1>1, <1>4, <1>8

(* Every parameter is encoded so that it is read again, but for the *)
(* numbers of the markers (emit_arg).                               *)
LEMMA ArgSays ==
  ASSUME NEW op \in Byte, NEW n, Encodable(n)
  PROVE  Says(<<op>> \o Arg(n), op, n)
<1>1. n \in Int /\ -(Power[8] \div 2) <= n /\ n < Power[8] \div 2
  BY DEF Encodable
<1>2. CASE n \in 0 .. Base - 4
  <2>1. n \in Byte
    BY <1>2, BaseIs DEF Byte
  <2>2. Arg(n) = <<n>>
    BY <1>2, Zenon DEF Arg
  <2>3. PICK t : t = <<op>> \o <<n>>
    OBVIOUS
  <2>4. t \in Seq(Byte) /\ Len(t) = 2 /\ t[1] = op /\ t[2] = n
    BY <2>1, <2>3
  <2>5. n \notin Markers => Param(t, 2) = n /\ Following(t[2]) = 0
    BY <2>4, MarkersFollow, Zenon DEF Param
  <2>6. Says(t, op, n)
    BY <2>4, <2>5 DEF Says, Reads
  <2> QED
    BY <2>2, <2>3, <2>6
<1>3. \A w \in 1 .. 8 : Fits(n, w) => -(Power[w] \div 2) <= n /\ n < Power[w] \div 2
  <2> SUFFICES ASSUME NEW w \in 1 .. 8, Fits(n, w) PROVE -(Power[w] \div 2) <= n /\ n < Power[w] \div 2
    OBVIOUS
  <2>1. PICK h \in Nat : Power[w] \div 2 = h
    BY PowerEven
  <2> QED
    BY <1>1, <2>1 DEF Fits
<1>4. CASE n \notin 0 .. Base - 4 /\ Fits(n, 2)
  <2>1. Arg(n) = <<LONG>> \o Wide(n, 2)
    BY <1>4, Zenon DEF Arg
  <2>2. -(Power[2] \div 2) <= n /\ n < Power[2] \div 2
    BY <1>3, <1>4
  <2>3. LONG \in Markers /\ 2 = Following(LONG) /\ 2 \in 1 .. 8
    BY MarkersFollow DEF Markers
  <2>4. Says(<<op>> \o (<<LONG>> \o Wide(n, 2)), op, n)
    BY <1>1, <2>2, <2>3, WideSays, Zenon
  <2> QED
    BY <2>1, <2>4
<1>5. CASE n \notin 0 .. Base - 4 /\ ~Fits(n, 2) /\ Fits(n, 4)
  <2>1. Arg(n) = <<VLONG>> \o Wide(n, 4)
    BY <1>5, Zenon DEF Arg
  <2>2. -(Power[4] \div 2) <= n /\ n < Power[4] \div 2
    BY <1>3, <1>5
  <2>3. VLONG \in Markers /\ 4 = Following(VLONG) /\ 4 \in 1 .. 8
    BY MarkersFollow DEF Markers
  <2>4. Says(<<op>> \o (<<VLONG>> \o Wide(n, 4)), op, n)
    BY <1>1, <2>2, <2>3, WideSays, Zenon
  <2> QED
    BY <2>1, <2>4
<1>6. CASE n \notin 0 .. Base - 4 /\ ~Fits(n, 2) /\ ~Fits(n, 4)
  <2>1. Arg(n) = <<VVLONG>> \o Wide(n, 8)
    BY <1>6, Zenon DEF Arg
  <2>2. Says(<<op>> \o (<<VVLONG>> \o Wide(n, 8)), op, n)
    BY <1>1, WideSays, MarkersFollow DEF Markers
  <2> QED
    BY <2>1, <2>2
<1> QED
  BY <1>2, <1>4, <1>5, <1>6

-------------------------------------------------------------------------------
(*****************************************************************************)
(* Filling in the addresses at the end of compile_chunk. Filled goes         *)
(* through the addresses one after the other; what a byte is afterwards is   *)
(* said by the latest address that covers it.                                *)
(*****************************************************************************)
CodeTyped == code \in Seq(Byte) /\ fixups \in Seq(Label \X Nat) /\ place \in [Label -> Int]

(* The four bytes of an address and the places they are written to *)
Covers(f, b) == b - fixups[f][2] \in 1 .. 4
Address(f) == BigEndian(place[fixups[f][1]], 4)

(* The last of the first f addresses that is written over byte b, or 0 *)
IsLatest(k, f, b) ==
  k \in 0 .. f /\ (k = 0 \/ Covers(k, b)) /\ \A l \in 1 .. f : Covers(l, b) => l <= k
Latest(f, b) == CHOOSE k : IsLatest(k, f, b)
Written(f, b) ==
  IF Latest(f, b) = 0 THEN code[b]
  ELSE Address(Latest(f, b))[b - fixups[Latest(f, b)][2]]

(* There is a latest address. *)
LEMMA LatestIs ==
  ASSUME NEW f \in Nat, NEW b
  PROVE  IsLatest(Latest(f, b), f, b)
<1> DEFINE Left == {j \in 0 .. f : f - j = 0 \/ Covers(f - j, b)}
<1>1. f \in Left /\ Left \in SUBSET Nat
  OBVIOUS
<1>2. PICK j \in Left : \A l \in Left : j <= l
  <2> HIDE DEF Left
  <2> QED
    BY <1>1, LeastElement
<1>3. PICK k \in 0 .. f : k = f - j /\ j = f - k
  <2>1. j \in 0 .. f
    OBVIOUS
  <2> QED
    BY <2>1
<1>4. k = 0 \/ Covers(k, b)
  <2>1. f - j = 0 \/ Covers(f - j, b)
    OBVIOUS
  <2> QED
    BY <1>3, <2>1
<1>5. ASSUME NEW l \in 1 .. f, Covers(l, b) PROVE l <= k
  <2>1. PICK i \in 0 .. f : i = f - l /\ f - i = l
    OBVIOUS
  <2>2. i \in Left
    BY <1>5, <2>1
  <2>3. j <= i
    <3> HIDE DEF Left
    <3> QED
      BY <1>2, <2>2
  <2>4. j \in 0 .. f
    OBVIOUS
  <2> HIDE DEF Left
  <2> QED
    BY <1>3, <2>1, <2>3, <2>4
<1>6. IsLatest(k, f, b)
  BY <1>4, <1>5 DEF IsLatest
<1> HIDE DEF Left
<1> QED
  BY <1>6, Zenon DEF Latest

(* There is only one latest address. *)
LEMMA LatestOnly ==
  ASSUME NEW f \in Nat, NEW b, NEW k, IsLatest(k, f, b)
  PROVE  Latest(f, b) = k
<1>1. PICK m : m = Latest(f, b) /\ IsLatest(m, f, b)
  BY LatestIs
<1>2. m \in 0 .. f /\ k \in 0 .. f
  BY <1>1 DEF IsLatest
<1>3. m <= k
  <2>1. CASE m = 0
    BY <1>2, <2>1
  <2>2. CASE m # 0
    <3>1. m \in 1 .. f /\ Covers(m, b)
      BY <1>1, <1>2, <2>2 DEF IsLatest
    <3> QED
      BY <3>1 DEF IsLatest
  <2> QED
    BY <2>1, <2>2
<1>4. k <= m
  <2>1. CASE k = 0
    BY <1>2, <2>1
  <2>2. CASE k # 0
    <3>1. k \in 1 .. f /\ Covers(k, b)
      BY <1>2, <2>2 DEF IsLatest
    <3> QED
      BY <1>1, <3>1 DEF IsLatest
  <2> QED
    BY <2>1, <2>2
<1> QED
  BY <1>1, <1>2, <1>3, <1>4

(* One address more is the latest where it is written, and changes nothing *)
(* elsewhere.                                                              *)
LEMMA OneAddressMore ==
  ASSUME NEW f \in Nat, f # 0, NEW b
  PROVE  /\ Covers(f, b) => Latest(f, b) = f
         /\ ~Covers(f, b) => Latest(f, b) = Latest(f - 1, b)
<1>1. ASSUME Covers(f, b) PROVE Latest(f, b) = f
  <2>1. IsLatest(f, f, b)
    BY <1>1 DEF IsLatest
  <2> QED
    BY <2>1, LatestOnly
<1>2. ASSUME ~Covers(f, b) PROVE Latest(f, b) = Latest(f - 1, b)
  <2>1. f - 1 \in Nat
    OBVIOUS
  <2>2. PICK k : k = Latest(f - 1, b) /\ IsLatest(k, f - 1, b)
    BY <2>1, LatestIs
  <2>3. k \in 0 .. f /\ (k = 0 \/ Covers(k, b))
    BY <2>1, <2>2 DEF IsLatest
  <2>4. ASSUME NEW l \in 1 .. f, Covers(l, b) PROVE l <= k
    <3>1. l # f
      BY <1>2, <2>4
    <3>2. l \in 1 .. f - 1
      BY <3>1
    <3> QED
      BY <2>2, <2>4, <3>2 DEF IsLatest
  <2>5. IsLatest(k, f, b)
    BY <2>3, <2>4 DEF IsLatest
  <2> QED
    BY <2>2, <2>5, LatestOnly
<1> QED
  BY <1>1, <1>2

Fills(g) ==
  g = [f \in 0 .. Len(fixups) |->
        IF f = 0 THEN code
        ELSE Overwritten(g[f - 1], fixups[f][2], BigEndian(place[fixups[f][1]], 4))]

(* Two such functions agree. *)
LEMMA FillsAgree ==
  ASSUME Len(fixups) \in Nat, NEW g, NEW h, Fills(g), Fills(h)
  PROVE  \A f \in 0 .. Len(fixups) : g[f] = h[f]
<1> DEFINE Bad == {f \in 0 .. Len(fixups) : g[f] # h[f]}
<1>1. SUFFICES ASSUME Bad # {} PROVE FALSE
  OBVIOUS
<1>2. PICK f \in Bad : \A l \in Bad : f <= l
  <2>1. Bad \in SUBSET Nat
    OBVIOUS
  <2> HIDE DEF Bad
  <2> QED
    BY <1>1, <2>1, LeastElement
<1>3. f \in 0 .. Len(fixups) /\ g[f] # h[f]
  OBVIOUS
<1>4. ASSUME NEW k, Fills(k)
      PROVE  k[f] = IF f = 0 THEN code
                    ELSE Overwritten(k[f - 1], fixups[f][2], BigEndian(place[fixups[f][1]], 4))
  BY <1>3, <1>4, Zenon DEF Fills
<1>5. f # 0
  BY <1>3, <1>4
<1>6. f - 1 \in 0 .. Len(fixups) /\ ~(f <= f - 1)
  BY <1>3, <1>5
<1>7. f - 1 \notin Bad
  <2> HIDE DEF Bad
  <2> QED
    BY <1>2, <1>6
<1>8. g[f - 1] = h[f - 1]
  BY <1>6, <1>7
<1>9. /\ g[f] = Overwritten(g[f - 1], fixups[f][2], BigEndian(place[fixups[f][1]], 4))
      /\ h[f] = Overwritten(h[f - 1], fixups[f][2], BigEndian(place[fixups[f][1]], 4))
  BY <1>3, <1>4, <1>5
<1> QED
  BY <1>3, <1>8, <1>9, Zenon

(* Filled is the last of these codes, whoever gives them. *)
LEMMA FilledFrom ==
  ASSUME Len(fixups) \in Nat, NEW g, Fills(g)
  PROVE  Filled = g[Len(fixups)]
<1> DEFINE filled == CHOOSE f : Fills(f)
<1>1. Filled = filled[Len(fixups)]
  BY DEF Filled, Fills
<1>2. Fills(filled)
  OBVIOUS
<1> HIDE DEF filled
<1>3. Len(fixups) \in 0 .. Len(fixups)
  OBVIOUS
<1>4. \A f \in 0 .. Len(fixups) : filled[f] = g[f]
  BY <1>2, FillsAgree
<1> QED
  BY <1>1, <1>3, <1>4

(* An address is four bytes. *)
LEMMA AddressIs ==
  ASSUME CodeTyped, NEW f \in 1 .. Len(fixups)
  PROVE  /\ place[fixups[f][1]] \in Int /\ fixups[f][2] \in Nat
         /\ Address(f) \in Seq(Byte) /\ Len(Address(f)) = 4 /\ DOMAIN Address(f) = 1 .. 4
<1>1. fixups[f] \in Label \X Nat
  BY DEF CodeTyped
<1>2. PICK n \in Int : n = place[fixups[f][1]]
  BY <1>1 DEF CodeTyped
<1>3. PICK s : s = BigEndian(n, 4)
  OBVIOUS
<1>4. s \in Seq(Byte) /\ Len(s) = 4
  BY <1>3, BigEndianIs
<1>5. DOMAIN s = 1 .. 4
  BY <1>4
<1> QED
  BY <1>1, <1>2, <1>3, <1>4, <1>5 DEF Address

(* The addresses are filled in one after the other: where several are      *)
(* written the last one stays.                                             *)
LEMMA FilledIs ==
  ASSUME CodeTyped
  PROVE  /\ Filled \in Seq(Byte) /\ Len(Filled) = Len(code)
         /\ \A b \in 1 .. Len(code) : Filled[b] = Written(Len(fixups), b)
<1>1. PICK g : g = [f \in 0 .. Len(fixups) |-> [b \in 1 .. Len(code) |-> Written(f, b)]]
  OBVIOUS
<1>2. Len(fixups) \in Nat /\ DOMAIN code = 1 .. Len(code)
  BY DEF CodeTyped
<1>3. \A f \in 0 .. Len(fixups) :
        g[f] = [b \in 1 .. Len(code) |-> Written(f, b)] /\ DOMAIN g[f] = 1 .. Len(code)
        /\ \A b \in 1 .. Len(code) : g[f][b] = Written(f, b)
  BY <1>1
<1>4. g[0] = code
  <2>1. \A b : IsLatest(0, 0, b)
    BY DEF IsLatest
  <2>2. \A b : Latest(0, b) = 0
    BY <2>1, LatestOnly
  <2>3. \A b : Written(0, b) = code[b]
    BY <2>2, Zenon DEF Written
  <2>4. code = [b \in 1 .. Len(code) |-> code[b]]
    BY <1>2 DEF CodeTyped
  <2>5. 0 \in 0 .. Len(fixups)
    BY <1>2
  <2>6. g[0] = [b \in 1 .. Len(code) |-> Written(0, b)]
    BY <1>3, <2>5
  <2>7. g[0] = [b \in 1 .. Len(code) |-> code[b]]
    BY <2>3, <2>6, Zenon
  <2> QED
    BY <2>4, <2>7, Zenon
<1>5. ASSUME NEW f \in 0 .. Len(fixups), f # 0
      PROVE  g[f] = Overwritten(g[f - 1], fixups[f][2], BigEndian(place[fixups[f][1]], 4))
  <2>1. f \in 1 .. Len(fixups) /\ f - 1 \in 0 .. Len(fixups) /\ f \in Nat
    BY <1>2, <1>5
  <2>2. PICK new : new = Address(f) /\ DOMAIN new = 1 .. 4
    BY <2>1, AddressIs
  <2>3. ASSUME NEW b \in 1 .. Len(code)
        PROVE  Written(f, b) = IF b - fixups[f][2] \in 1 .. 4 THEN new[b - fixups[f][2]] ELSE Written(f - 1, b)
    <3>1. CASE Covers(f, b)
      <4>1. Latest(f, b) = f
        BY <1>5, <2>1, <3>1, OneAddressMore
      <4>2. Written(f, b) = new[b - fixups[f][2]]
        BY <1>5, <2>2, <4>1 DEF Written
      <4> QED
        BY <3>1, <4>2, Zenon DEF Covers
    <3>2. CASE ~Covers(f, b)
      <4>1. Latest(f, b) = Latest(f - 1, b)
        BY <1>5, <2>1, <3>2, OneAddressMore
      <4>2. Written(f, b) = Written(f - 1, b)
        BY <4>1, Zenon DEF Written
      <4> QED
        BY <3>2, <4>2, Zenon DEF Covers
    <3> QED
      BY <3>1, <3>2
  <2>4. Overwritten(g[f - 1], fixups[f][2], new) =
          [b \in 1 .. Len(code) |-> IF b - fixups[f][2] \in 1 .. 4 THEN new[b - fixups[f][2]] ELSE g[f - 1][b]]
    BY <1>3, <2>1, <2>2, Zenon DEF Overwritten
  <2>5. g[f] = [b \in 1 .. Len(code) |-> IF b - fixups[f][2] \in 1 .. 4 THEN new[b - fixups[f][2]] ELSE g[f - 1][b]]
    <3>1. \A b \in 1 .. Len(code) : g[f - 1][b] = Written(f - 1, b)
      BY <1>3, <2>1
    <3>2. g[f] = [b \in 1 .. Len(code) |-> Written(f, b)]
      BY <1>3
    <3> QED
      BY <2>3, <3>1, <3>2
  <2> QED
    BY <2>2, <2>4, <2>5 DEF Address
<1>6. Fills(g)
  <2>1. g = [f \in 0 .. Len(fixups) |-> g[f]]
    BY <1>1
  <2>2. \A f \in 0 .. Len(fixups) :
          g[f] = IF f = 0 THEN code
                 ELSE Overwritten(g[f - 1], fixups[f][2], BigEndian(place[fixups[f][1]], 4))
    BY <1>4, <1>5
  <2> QED
    BY <2>1, <2>2 DEF Fills
<1>7. PICK n : n = Len(fixups) /\ n \in 0 .. Len(fixups) /\ n \in Nat
  BY <1>2
<1>8. PICK s : s = g[n]
  OBVIOUS
<1>9. Filled = s
  BY <1>2, <1>6, <1>7, <1>8, FilledFrom
<1>10. \A b \in 1 .. Len(code) : Written(n, b) \in Byte
  <2> SUFFICES ASSUME NEW b \in 1 .. Len(code) PROVE Written(n, b) \in Byte
    OBVIOUS
  <2>1. PICK k : k = Latest(n, b) /\ IsLatest(k, n, b)
    BY <1>7, LatestIs
  <2>2. CASE k = 0
    <3>1. code[b] \in Byte
      BY DEF CodeTyped
    <3> QED
      BY <2>1, <2>2, <3>1 DEF Written
  <2>3. CASE k # 0
    <3>1. k \in 1 .. Len(fixups) /\ b - fixups[k][2] \in 1 .. 4
      BY <1>7, <2>1, <2>3 DEF IsLatest, Covers
    <3>2. Written(n, b) = Address(k)[b - fixups[k][2]]
      BY <2>1, <2>3, Zenon DEF Written
    <3>3. PICK a, i : a = Address(k) /\ i = b - fixups[k][2]
      OBVIOUS
    <3>4. a \in Seq(Byte) /\ Len(a) = 4
      BY <3>1, <3>3, AddressIs
    <3>5. i \in 1 .. 4
      BY <3>1, <3>3
    <3>6. a[i] \in Byte
      <4>1. a \in Seq(Byte)
        BY <3>4
      <4>2. \A j \in 1 .. Len(a) : a[j] \in Byte
        BY <4>1
      <4>3. i \in 1 .. Len(a)
        BY <3>4, <3>5, Zenon
      <4> QED
        BY <4>2, <4>3, Zenon
    <3> QED
      BY <3>2, <3>3, <3>6
  <2> QED
    BY <2>2, <2>3
<1>11. s = [b \in 1 .. Len(code) |-> Written(n, b)]
  BY <1>3, <1>7, <1>8
<1>12. s \in [1 .. Len(code) -> Byte] /\ \A b \in 1 .. Len(code) : s[b] = Written(n, b)
  BY <1>10, <1>11
<1>13. Len(code) \in Nat
  BY DEF CodeTyped
<1>14. s \in Seq(Byte) /\ Len(s) = Len(code)
  BY <1>12, <1>13
<1> QED
  BY <1>7, <1>9, <1>12, <1>14

-------------------------------------------------------------------------------
(*****************************************************************************)
(* The types. Parameters is whatever get_param can return.                   *)
(*****************************************************************************)
Sendable == ({OP} \X Int) \cup ({JMP} \X Label)
Parameters == {Param(p[1], p[2]) : p \in Seq(Byte) \X Nat}

TypeInv ==
  /\ phase \in {"emit", "run", "overrun"}
  /\ code \in Seq(Byte)
  /\ sent \in Seq(Sendable)
  /\ Len(sent) <= MaxInstructions
  /\ place \in [Label -> {Unplaced} \cup 0 .. Len(code)]
  /\ fixups \in Seq(Label \X Nat)
  /\ ip \in 0 .. Len(code)
  /\ got \in Seq(Byte \X Parameters)

(* The types are what the lemmas about Filled need. *)
LEMMA TypeInvIsTyped == TypeInv => CodeTyped
<1> SUFFICES ASSUME TypeInv PROVE CodeTyped
  OBVIOUS
<1>1. PICK n \in Nat : n = Len(code)
  BY DEF TypeInv
<1>2. place \in [Label -> {-1} \cup 0 .. n]
  BY <1>1 DEF TypeInv, Unplaced
<1>3. place \in [Label -> Int]
  BY <1>2
<1> QED
  BY <1>3 DEF TypeInv, CodeTyped

(* A parameter is one to nine bytes. *)
LEMMA ArgBytes ==
  ASSUME NEW n \in Int
  PROVE  Arg(n) \in Seq(Byte) /\ Len(Arg(n)) \in 1 .. 9
<1>1. ASSUME NEW m \in Byte, NEW w \in 1 .. 8
      PROVE  <<m>> \o Wide(n, w) \in Seq(Byte) /\ Len(<<m>> \o Wide(n, w)) \in 1 .. 9
  <2>1. PICK x \in Seq(Byte) : x = Wide(n, w)
    BY WideIs
  <2>2. <<m>> \o x \in Seq(Byte)
    OBVIOUS
  <2>3. Len(<<m>> \o x) = 1 + Len(x)
    OBVIOUS
  <2>4. Len(x) = w
    BY <2>1, WideIs
  <2> QED
    BY <2>1, <2>2, <2>3, <2>4
<1>2. LONG \in Byte /\ VLONG \in Byte /\ VVLONG \in Byte
  BY MarkersFollow
<1>4. CASE n \in 0 .. Base - 4
  <2>1. n \in Byte
    BY <1>4, BaseIs DEF Byte
  <2>2. <<n>> \in Seq(Byte) /\ Len(<<n>>) = 1
    BY <2>1
  <2>3. Arg(n) = <<n>>
    BY <1>4, Zenon DEF Arg
  <2> QED
    BY <2>2, <2>3
<1>5. CASE n \notin 0 .. Base - 4
  <2>1. \/ Arg(n) = <<LONG>> \o Wide(n, 2)
        \/ Arg(n) = <<VLONG>> \o Wide(n, 4)
        \/ Arg(n) = <<VVLONG>> \o Wide(n, 8)
    BY <1>5, Zenon DEF Arg
  <2>2. 2 \in 1 .. 8 /\ 4 \in 1 .. 8 /\ 8 \in 1 .. 8
    OBVIOUS
  <2> QED
    BY <1>1, <1>2, <2>1, <2>2, Zenon
<1> QED
  BY <1>4, <1>5

(* What a parameter before it is written takes: four zeros *)
LEMMA BlanksAre ==
  /\ Arg(0) \o Arg(0) \o Arg(0) \o Arg(0) \in Seq(Byte)
  /\ Len(Arg(0) \o Arg(0) \o Arg(0) \o Arg(0)) = 4
<1>1. 0 \in 0 .. Base - 4 /\ 0 \in Byte
  BY BaseIs DEF Byte
<1>2. Arg(0) = <<0>>
  BY <1>1, Zenon DEF Arg
<1>3. <<0>> \in Seq(Byte) /\ Len(<<0>>) = 1
  BY <1>1
<1>4. PICK z \in Seq(Byte) : z = <<0>>
  BY <1>3
<1>5. z \o z \o z \o z \in Seq(Byte) /\ Len(z \o z \o z \o z) = Len(z) + Len(z) + Len(z) + Len(z)
  OBVIOUS
<1>6. Len(z) = 1
  BY <1>3, <1>4, Zenon
<1>7. Len(z \o z \o z \o z) = 4
  BY <1>5, <1>6
<1>8. Arg(0) = z
  BY <1>2, <1>4, Zenon
<1> QED
  BY <1>5, <1>7, <1>8, Zenon

(* One instruction more keeps the types. *)
LEMMA EmitTypes ==
  ASSUME TypeInv, NEW bytes \in Seq(Byte), NEW op, NEW arg, <<op, arg>> \in Sendable,
         Emit(bytes, op, arg), fixups' \in Seq(Label \X Nat)
  PROVE  TypeInv'
<1>1. /\ phase' = phase /\ code' = code \o bytes /\ sent' = Append(sent, <<op, arg>>)
      /\ place' = place /\ ip' = ip /\ got' = got /\ Len(sent) < MaxInstructions
  BY DEF Emit
<1>2. PICK n \in Nat : n = Len(code)
  BY DEF TypeInv
<1>3. PICK m \in Nat : m = Len(code') /\ n <= m
  BY <1>1, <1>2 DEF TypeInv
<1>4. code' \in Seq(Byte)
  BY <1>1 DEF TypeInv
<1>5. place' \in [Label -> {Unplaced} \cup 0 .. Len(code')]
  <2>1. place \in [Label -> {Unplaced} \cup 0 .. n]
    BY <1>2 DEF TypeInv
  <2>2. {Unplaced} \cup 0 .. n \subseteq {Unplaced} \cup 0 .. m
    BY <1>3
  <2>3. place \in [Label -> {Unplaced} \cup 0 .. m]
    BY <2>1, <2>2
  <2> QED
    BY <1>1, <1>3, <2>3
<1>6. ip' \in 0 .. Len(code')
  BY <1>1, <1>2, <1>3 DEF TypeInv
<1>7. sent' \in Seq(Sendable) /\ Len(sent') <= MaxInstructions
  <2>1. PICK e \in Sendable : e = <<op, arg>>
    OBVIOUS
  <2>2. PICK k \in Nat : k = Len(sent)
    BY DEF TypeInv
  <2>3. sent' \in Seq(Sendable) /\ Len(sent') = k + 1
    BY <1>1, <2>1, <2>2 DEF TypeInv
  <2> QED
    BY <1>1, <2>2, <2>3, BytecodeAssumption
<1> QED
  BY <1>1, <1>4, <1>5, <1>6, <1>7 DEF TypeInv

(* Every step keeps the types. *)
LEMMA TypeInvIsInductive == TypeInv /\ [Next]_vars => TypeInv'
<1> SUFFICES ASSUME TypeInv, [Next]_vars PROVE TypeInv'
  OBVIOUS
<1> USE DEF TypeInv
<1>1. ASSUME NEW n \in Args, EmitInstruction(n) PROVE TypeInv'
  <2>1. n \in Int
    <3>1. PICK h \in Int : Power[8] \div 2 = h
      BY PowerEven
    <3> QED
      BY <3>1, BytecodeAssumption
  <2>2. PICK t : t = <<OP>> \o Arg(n)
    OBVIOUS
  <2>3. t \in Seq(Byte)
    BY <2>1, <2>2, ArgBytes, MarkersFollow
  <2>4. Emit(t, OP, n) /\ fixups' = fixups
    BY <1>1, <2>2 DEF EmitInstruction
  <2>5. <<OP, n>> \in Sendable
    BY <2>1 DEF Sendable
  <2> QED
    BY <2>3, <2>4, <2>5, EmitTypes
<1>2. ASSUME NEW l \in Label, EmitBackward(l) PROVE TypeInv'
  <2>1. place[l] \in Int
    BY TypeInvIsTyped DEF CodeTyped
  <2>2. PICK t : t = <<JMP>> \o Arg(place[l])
    OBVIOUS
  <2>3. t \in Seq(Byte)
    BY <2>1, <2>2, ArgBytes, MarkersFollow
  <2>4. Emit(t, JMP, l) /\ fixups' = fixups
    BY <1>2, <2>2 DEF EmitBackward
  <2>5. <<JMP, l>> \in Sendable
    BY DEF Sendable
  <2> QED
    BY <2>3, <2>4, <2>5, EmitTypes
<1>3. ASSUME NEW l \in Label, EmitForward(l) PROVE TypeInv'
  <2>1. PICK blanks \in Seq(Byte) : blanks = Arg(0) \o Arg(0) \o Arg(0) \o Arg(0)
    BY BlanksAre
  <2>2. PICK t : t = <<JMP, VLONG>> \o Arg(0) \o Arg(0) \o Arg(0) \o Arg(0)
    OBVIOUS
  <2>3. t \in Seq(Byte)
    <3>1. PICK z \in Seq(Byte) : z = Arg(0)
      <4>1. Arg(0) \in Seq(Byte)
        BY ArgBytes
      <4> QED
        BY <4>1
    <3>2. <<JMP, VLONG>> \in Seq(Byte)
      BY MarkersFollow
    <3> QED
      BY <2>2, <3>1, <3>2
  <2>4. Emit(t, JMP, l) /\ fixups' = Append(fixups, <<l, Len(code) + 2>>)
    BY <1>3, <2>2 DEF EmitForward
  <2>5. <<JMP, l>> \in Sendable
    BY DEF Sendable
  <2>6. fixups' \in Seq(Label \X Nat)
    <3>1. PICK at \in Nat : at = Len(code) + 2
      OBVIOUS
    <3>2. PICK e \in Label \X Nat : e = <<l, at>>
      OBVIOUS
    <3> QED
      BY <2>4, <3>1, <3>2
  <2> QED
    BY <2>3, <2>4, <2>5, <2>6, EmitTypes
<1>4. ASSUME NEW l \in Label, PlaceLabel(l) PROVE TypeInv'
  <2>1. place' = [place EXCEPT ![l] = Len(code)] /\ UNCHANGED <<phase, code, sent, fixups, ip, got>>
    BY <1>4 DEF PlaceLabel
  <2>2. PICK n \in Nat : n = Len(code)
    OBVIOUS
  <2>3. place' \in [Label -> {Unplaced} \cup 0 .. n]
    BY <2>1, <2>2
  <2> QED
    BY <2>1, <2>2, <2>3
<1>5. ASSUME FinishChunk PROVE TypeInv'
  <2>1. code' = Filled /\ fixups' = <<>> /\ phase' = "run" /\ UNCHANGED <<sent, place, ip, got>>
    BY <1>5 DEF FinishChunk
  <2>2. code' \in Seq(Byte) /\ Len(code') = Len(code)
    BY <2>1, FilledIs, TypeInvIsTyped
  <2>3. fixups' \in Seq(Label \X Nat)
    BY <2>1
  <2> QED
    BY <2>1, <2>2, <2>3
<1>6. ASSUME Execute PROVE TypeInv'
  <2>1. /\ ip + 2 + Following(code[ip + 2]) <= Len(code) /\ ip + 2 <= Len(code)
        /\ got' = Append(got, <<code[ip + 1], Param(code, ip + 2)>>)
        /\ ip' = ip + 2 + Following(code[ip + 2])
        /\ UNCHANGED <<phase, code, sent, place, fixups>>
    BY <1>6 DEF Execute
  <2>2. ip' \in 0 .. Len(code')
    <3>1. PICK f \in Nat : f = Following(code[ip + 2])
      BY FollowingNat
    <3>2. PICK n \in Nat : n = Len(code)
      OBVIOUS
    <3> QED
      BY <2>1, <3>1, <3>2
  <2>3. code[ip + 1] \in Byte
    BY <2>1
  <2>4. Param(code, ip + 2) \in Parameters
    <3>1. code \in Seq(Byte) /\ ip + 2 \in Nat
      OBVIOUS
    <3>2. PICK p \in Seq(Byte) \X Nat : p[1] = code /\ p[2] = ip + 2
      <4>1. PICK k \in Nat : k = ip + 2
        BY <3>1
      <4>2. <<code, k>> \in Seq(Byte) \X Nat /\ <<code, k>>[1] = code /\ <<code, k>>[2] = k
        BY <3>1
      <4> QED
        BY <4>1, <4>2, Zenon
    <3> QED
      BY <3>2, Zenon DEF Parameters
  <2>5. got' \in Seq(Byte \X Parameters)
    <3>1. PICK e \in Byte \X Parameters : e = <<code[ip + 1], Param(code, ip + 2)>>
      BY <2>3, <2>4
    <3> QED
      BY <2>1, <3>1
  <2> QED
    BY <2>1, <2>2, <2>5
<1>7. ASSUME Overrun PROVE TypeInv'
  BY <1>7 DEF Overrun
<1>8. CASE UNCHANGED vars
  BY <1>8 DEF vars
<1> QED
  BY <1>1, <1>2, <1>3, <1>4, <1>5, <1>6, <1>7, <1>8 DEF Next

(* The types hold at first. *)
LEMMA TypeInvAtFirst == Init => TypeInv
BY BytecodeAssumption DEF Init, TypeInv

(* Every state is of the types of the variables. *)
THEOREM BytecodeTypeOK == Spec => []TypeOK
<1>1. TypeInv => TypeOK
  BY DEF TypeInv, TypeOK, Byte
<1> QED
  BY <1>1, TypeInvAtFirst, TypeInvIsInductive, PTL DEF Spec

-------------------------------------------------------------------------------
(*****************************************************************************)
(* Where the instructions lie. A layout at gives the start of each           *)
(* instruction; at[j + 1] is where instruction j ends. Instruction j is      *)
(* either encoded (its meaning lies there) or waiting, in the set late, with *)
(* an address to be filled in; every address to be filled in belongs to a    *)
(* waiting jump.                                                             *)
(*****************************************************************************)
(* Instructions take at most ten bytes: every address in the code of a     *)
(* block fits the four that a forward jump has for it.                     *)
Addressable == 10 * MaxInstructions < Power[4] \div 2

(* Where the instructions start, and last where the code ends *)
Starts(at) ==
  /\ at \in [1 .. Len(sent) + 1 -> Nat]
  /\ at[1] = 0 /\ at[Len(sent) + 1] = Len(code)
Stepwise(at) == \A j \in 1 .. Len(sent) : at[j] + 2 <= at[j + 1]
Rising(at) == \A i, k \in 1 .. Len(sent) + 1 : i < k => at[i] + 2 <= at[k]
Small(at) == \A j \in 1 .. Len(sent) + 1 : at[j] <= 10 * (j - 1)
Layout(at) == Starts(at) /\ Stepwise(at) /\ Rising(at) /\ Small(at)

(* A jump whose target is known, or no jump *)
Settled(j) == sent[j][1] = JMP => place[sent[j][2]] # Unplaced
(* An instruction whose meaning lies in the code *)
Encoded(at, j) ==
  /\ Settled(j)
  /\ \E t \in Seq(Byte) :
       /\ Says(t, sent[j][1], Meant(j))
       /\ at[j + 1] = at[j] + Len(t)
       /\ Lies(code, at[j], t)
(* A jump whose address is to be filled in *)
Waiting(at, j) ==
  /\ sent[j][1] = JMP
  /\ at[j + 1] = at[j] + 6
  /\ code[at[j] + 1] = JMP /\ code[at[j] + 2] = VLONG
  /\ \E f \in 1 .. Len(fixups) : fixups[f] = <<sent[j][2], at[j] + 2>>
(* late are the jumps that wait *)
AllLaid(at, late) ==
  /\ late \in SUBSET (1 .. Len(sent))
  /\ \A j \in (1 .. Len(sent)) \ late : Encoded(at, j)
  /\ \A j \in late : Waiting(at, j)
  /\ \A f \in 1 .. Len(fixups) : \E j \in late : fixups[f] = <<sent[j][2], at[j] + 2>>
Laid(at, late) == Layout(at) /\ AllLaid(at, late)

(* What was compiled is an instruction or a jump to a label. *)
LEMMA SentIs ==
  ASSUME TypeInv
  PROVE  /\ Len(sent) \in Nat /\ Len(code) \in Nat /\ Len(fixups) \in Nat /\ Len(got) \in Nat
         /\ DOMAIN sent = 1 .. Len(sent) /\ DOMAIN got = 1 .. Len(got) /\ DOMAIN fixups = 1 .. Len(fixups)
         /\ \A j \in 1 .. Len(sent) :
              \/ sent[j][1] = OP /\ sent[j][2] \in Int
              \/ sent[j][1] = JMP /\ sent[j][2] \in Label
<1>1. \A j \in 1 .. Len(sent) : sent[j] \in Sendable
  BY DEF TypeInv
<1>2. \A e \in Sendable : (e[1] = OP /\ e[2] \in Int) \/ (e[1] = JMP /\ e[2] \in Label)
  BY DEF Sendable
<1>3. \A j \in 1 .. Len(sent) :
              \/ sent[j][1] = OP /\ sent[j][2] \in Int
              \/ sent[j][1] = JMP /\ sent[j][2] \in Label
  BY <1>1, <1>2, Zenon
<1>4. Len(sent) \in Nat /\ Len(code) \in Nat /\ Len(fixups) \in Nat /\ Len(got) \in Nat
  BY DEF TypeInv
<1>5. DOMAIN sent = 1 .. Len(sent) /\ DOMAIN got = 1 .. Len(got) /\ DOMAIN fixups = 1 .. Len(fixups)
  BY DEF TypeInv
<1> QED
  BY <1>3, <1>4, <1>5

(* Where an instruction lies is not changed by what is written after it. *)
LEMMA LiesLonger ==
  ASSUME NEW bytes \in Seq(Byte), NEW more \in Seq(Byte), NEW at \in Nat, NEW t \in Seq(Byte),
         Lies(bytes, at, t)
  PROVE  Lies(bytes \o more, at, t)
<1>1. PICK s : s = bytes \o more
  OBVIOUS
<1>2. Len(s) >= Len(bytes) /\ \A b \in 1 .. Len(bytes) : s[b] = bytes[b]
  BY <1>1
<1>3. at + Len(t) <= Len(bytes) /\ \A b \in 1 .. Len(t) : bytes[at + b] = t[b]
  BY DEF Lies
<1>4. PICK m \in Nat : m = Len(t)
  OBVIOUS
<1>5. PICK n \in Nat : n = Len(bytes)
  OBVIOUS
<1>6. PICK k \in Nat : k = Len(s)
  BY <1>1
<1>7. \A b \in 1 .. m : at + b \in 1 .. n
  BY <1>3, <1>4, <1>5
<1>8. \A b \in 1 .. m : s[at + b] = t[b]
  BY <1>2, <1>3, <1>4, <1>5, <1>7
<1>9. at + m <= k
  BY <1>2, <1>3, <1>4, <1>5, <1>6
<1> QED
  BY <1>1, <1>4, <1>6, <1>8, <1>9 DEF Lies

(* What is written lies where the code ended. *)
LEMMA LiesAtTheEnd ==
  ASSUME NEW bytes \in Seq(Byte), NEW t \in Seq(Byte)
  PROVE  Lies(bytes \o t, Len(bytes), t)
<1>1. PICK s : s = bytes \o t
  OBVIOUS
<1>2. Len(s) = Len(bytes) + Len(t) /\ \A b \in 1 .. Len(t) : s[Len(bytes) + b] = t[b]
  BY <1>1
<1>3. Len(bytes) \in Nat /\ Len(t) \in Nat
  OBVIOUS
<1>4. Len(bytes) + Len(t) <= Len(s)
  BY <1>2, <1>3
<1> QED
  BY <1>1, <1>2, <1>4 DEF Lies

Longer(t, e) == code' = code \o t /\ sent' = Append(sent, e) /\ place' = place
SameStarts(at, at2) == \A k \in 1 .. Len(sent) + 1 : at2[k] = at[k]

(* One instruction more, and the others as they were. *)
LEMMA LongerIs ==
  ASSUME TypeInv, NEW t \in Seq(Byte), NEW e \in Sendable, Longer(t, e)
  PROVE  /\ Len(sent') = Len(sent) + 1
         /\ \A j \in 1 .. Len(sent) : sent'[j] = sent[j]
         /\ sent'[Len(sent) + 1] = e
<1>1. PICK s : s = Append(sent, e)
  OBVIOUS
<1>2. Len(s) = Len(sent) + 1 /\ (\A j \in 1 .. Len(sent) : s[j] = sent[j]) /\ s[Len(sent) + 1] = e
  BY <1>1 DEF TypeInv
<1>3. sent' = s
  BY <1>1 DEF Longer
<1> QED
  BY <1>2, <1>3

(* One instruction more: where it starts is where the code ended. *)
LEMMA LayoutLonger ==
  ASSUME TypeInv, NEW at, Layout(at), NEW t \in Seq(Byte), Len(t) \in 2 .. 10,
         NEW e \in Sendable, Longer(t, e)
  PROVE  \E at2 :
           /\ Layout(at2)' /\ SameStarts(at, at2)
           /\ at2[Len(sent) + 2] = Len(code) + Len(t)
<1>1. PICK n \in Nat : n = Len(sent)
  BY SentIs
<1>2. PICK m \in Nat : m = Len(code)
  BY SentIs
<1>3. PICK x \in 2 .. 10 : x = Len(t)
  OBVIOUS
<1>4. Len(code') = m + x
  <2>1. Len(code \o t) = Len(code) + Len(t)
    BY DEF TypeInv
  <2>2. code' = code \o t
    BY DEF Longer
  <2> QED
    BY <1>2, <1>3, <2>1, <2>2, Zenon
<1>5. Len(sent') = n + 1
  BY <1>1, LongerIs
<1>6. PICK at2 : at2 = [k \in 1 .. n + 2 |-> IF k = n + 2 THEN m + x ELSE at[k]]
  OBVIOUS
<1>7. at \in [1 .. n + 1 -> Nat] /\ at[1] = 0 /\ at[n + 1] = m
  BY <1>1, <1>2 DEF Layout, Starts
<1>8. \A j \in 1 .. n : at[j] + 2 <= at[j + 1]
  BY <1>1 DEF Layout, Stepwise
<1>9. \A i, k \in 1 .. n + 1 : i < k => at[i] + 2 <= at[k]
  BY <1>1 DEF Layout, Rising
<1>10. \A j \in 1 .. n + 1 : at[j] <= 10 * (j - 1)
  BY <1>1 DEF Layout, Small
<1>11. at2[n + 2] = m + x /\ \A k \in 1 .. n + 1 : at2[k] = at[k]
  BY <1>6
<1>12. at2 \in [1 .. n + 2 -> Nat]
  BY <1>6, <1>7
<1>13. \A j \in 1 .. n + 1 : at2[j] + 2 <= at2[j + 1]
  <2> SUFFICES ASSUME NEW j \in 1 .. n + 1 PROVE at2[j] + 2 <= at2[j + 1]
    OBVIOUS
  <2>1. CASE j = n + 1
    <3>1. at2[j] = at[n + 1] /\ j + 1 = n + 2
      <4>1. n + 1 \in 1 .. n + 1
        OBVIOUS
      <4>2. at2[n + 1] = at[n + 1]
        BY <1>11, <4>1
      <4> QED
        BY <2>1, <4>2
    <3>2. at2[j] = m /\ at2[j + 1] = m + x
      BY <1>7, <1>11, <3>1
    <3> QED
      BY <3>2
  <2>2. CASE j # n + 1
    <3>1. j \in 1 .. n /\ j \in 1 .. n + 1 /\ j + 1 \in 1 .. n + 1
      BY <2>2
    <3> QED
      BY <1>8, <1>11, <3>1
  <2> QED
    BY <2>1, <2>2
<1>14. \A i, k \in 1 .. n + 2 : i < k => at2[i] + 2 <= at2[k]
  <2> SUFFICES ASSUME NEW i \in 1 .. n + 2, NEW k \in 1 .. n + 2, i < k PROVE at2[i] + 2 <= at2[k]
    OBVIOUS
  <2>1. i \in 1 .. n + 1 /\ at2[i] = at[i] /\ at[i] \in Nat
    <3>1. i \in 1 .. n + 1
      OBVIOUS
    <3> QED
      BY <1>7, <1>11, <3>1
  <2>2. CASE k = n + 2
    <3>1. at[i] <= m
      <4>1. CASE i = n + 1
        BY <1>7, <4>1
      <4>2. CASE i # n + 1
        <5>1. i < n + 1 /\ n + 1 \in 1 .. n + 1
          BY <2>1, <4>2
        <5>2. at[i] + 2 <= at[n + 1]
          BY <1>9, <2>1, <5>1
        <5> QED
          BY <1>7, <2>1, <5>2
      <4> QED
        BY <4>1, <4>2
    <3> QED
      BY <1>11, <2>1, <2>2, <3>1
  <2>3. CASE k # n + 2
    <3>1. k \in 1 .. n + 1
      BY <2>3
    <3> QED
      BY <1>9, <1>11, <2>1, <3>1
  <2> QED
    BY <2>2, <2>3
<1>15. \A j \in 1 .. n + 2 : at2[j] <= 10 * (j - 1)
  <2> SUFFICES ASSUME NEW j \in 1 .. n + 2 PROVE at2[j] <= 10 * (j - 1)
    OBVIOUS
  <2>1. CASE j = n + 2
    <3>1. m <= 10 * n
      <4>1. n + 1 \in 1 .. n + 1 /\ (n + 1) - 1 = n
        OBVIOUS
      <4> QED
        BY <1>7, <1>10, <4>1
    <3> QED
      BY <1>11, <2>1, <3>1
  <2>2. CASE j # n + 2
    <3>1. j \in 1 .. n + 1
      BY <2>2
    <3>2. at2[j] = at[j] /\ at[j] <= 10 * (j - 1)
      BY <1>10, <1>11, <3>1
    <3> QED
      BY <3>2
  <2> QED
    BY <2>1, <2>2
<1>16. at2[1] = 0
  BY <1>7, <1>11
<1>17. (n + 1) + 1 = n + 2
  OBVIOUS
<1>18. Starts(at2)'
  BY <1>4, <1>5, <1>11, <1>12, <1>16, <1>17 DEF Starts
<1>19. Stepwise(at2)'
  BY <1>5, <1>13 DEF Stepwise
<1>20. Rising(at2)'
  BY <1>5, <1>14, <1>17 DEF Rising
<1>21. Small(at2)'
  BY <1>5, <1>15, <1>17 DEF Small
<1>22. Layout(at2)'
  BY <1>18, <1>19, <1>20, <1>21 DEF Layout
<1>23. SameStarts(at, at2)
  BY <1>1, <1>11 DEF SameStarts
<1> QED
  BY <1>1, <1>2, <1>3, <1>11, <1>22, <1>23

(* What was settled before is settled the same way after. *)
LEMMA MeantStays ==
  ASSUME NEW j, sent'[j] = sent[j], place' = place
  PROVE  Meant(j)' = Meant(j) /\ Settled(j)' = Settled(j)
<1>1. Meant(j)' = IF sent'[j][1] = JMP THEN place'[sent'[j][2]] ELSE sent'[j][2]
  BY DEF Meant
<1>2. Meant(j) = IF sent[j][1] = JMP THEN place[sent[j][2]] ELSE sent[j][2]
  BY DEF Meant
<1>3. Meant(j)' = Meant(j)
  BY <1>1, <1>2, Zenon
<1>4. Settled(j)' <=> (sent'[j][1] = JMP => place'[sent'[j][2]] # Unplaced)
  BY DEF Settled
<1>5. Settled(j) <=> (sent[j][1] = JMP => place[sent[j][2]] # Unplaced)
  BY DEF Settled
<1>6. Settled(j)' = Settled(j)
  BY <1>4, <1>5, Zenon DEF Settled
<1> QED
  BY <1>3, <1>6

(* The start and the end of an instruction are natural numbers. *)
LEMMA StartsAre ==
  ASSUME TypeInv, NEW at, Layout(at), NEW j \in 1 .. Len(sent)
  PROVE  /\ j \in 1 .. Len(sent) + 1 /\ j + 1 \in 1 .. Len(sent) + 1
         /\ at[j] \in Nat /\ at[j + 1] \in Nat
<1>1. j \in 1 .. Len(sent) + 1 /\ j + 1 \in 1 .. Len(sent) + 1
  BY SentIs
<1>2. at \in [1 .. Len(sent) + 1 -> Nat]
  BY DEF Layout, Starts
<1> QED
  BY <1>1, <1>2

(* An encoded instruction stays encoded when another is written. *)
LEMMA EncodedStays ==
  ASSUME TypeInv, NEW at, Layout(at), NEW t \in Seq(Byte), NEW e \in Sendable, Longer(t, e),
         NEW at2, SameStarts(at, at2), NEW j \in 1 .. Len(sent), Encoded(at, j)
  PROVE  Encoded(at2, j)'
<1>1. PICK u \in Seq(Byte) :
        Says(u, sent[j][1], Meant(j)) /\ at[j + 1] = at[j] + Len(u) /\ Lies(code, at[j], u)
  BY DEF Encoded
<1>2. at2[j] = at[j] /\ at2[j + 1] = at[j + 1] /\ at[j] \in Nat
  BY StartsAre DEF SameStarts
<1>3. sent'[j] = sent[j] /\ place' = place /\ code' = code \o t
  BY LongerIs DEF Longer
<1>4. Meant(j)' = Meant(j) /\ Settled(j)' = Settled(j)
  BY <1>3, MeantStays
<1>5. Lies(code', at2[j], u)
  <2>1. Lies(code \o t, at[j], u)
    BY <1>1, <1>2, LiesLonger DEF TypeInv
  <2> QED
    BY <1>2, <1>3, <2>1
<1>6. Says(u, sent'[j][1], Meant(j)')
  BY <1>1, <1>3, <1>4, Zenon
<1>7. at2[j + 1] = at2[j] + Len(u)
  BY <1>1, <1>2
<1>8. Settled(j)'
  BY <1>4 DEF Encoded
<1> QED
  BY <1>5, <1>6, <1>7, <1>8, Zenon DEF Encoded

(* A waiting jump keeps waiting when another instruction is written. *)
LEMMA WaitingStays ==
  ASSUME TypeInv, NEW at, Layout(at), NEW t \in Seq(Byte), NEW e \in Sendable, Longer(t, e),
         NEW at2, SameStarts(at, at2), NEW j \in 1 .. Len(sent), Waiting(at, j),
         \A f \in 1 .. Len(fixups) : f \in 1 .. Len(fixups') /\ fixups'[f] = fixups[f]
  PROVE  Waiting(at2, j)'
<1>1. PICK f \in 1 .. Len(fixups) : fixups[f] = <<sent[j][2], at[j] + 2>>
  BY DEF Waiting
<1>2. sent[j][1] = JMP /\ at[j + 1] = at[j] + 6 /\ code[at[j] + 1] = JMP /\ code[at[j] + 2] = VLONG
  BY DEF Waiting
<1>3. at2[j] = at[j] /\ at2[j + 1] = at[j + 1] /\ at[j] \in Nat /\ j \in 1 .. Len(sent) + 1 /\ j + 1 \in 1 .. Len(sent) + 1
  BY StartsAre DEF SameStarts
<1>4. sent'[j] = sent[j] /\ code' = code \o t
  BY LongerIs DEF Longer
<1>5. at[j + 1] <= Len(code)
  <2>1. PICK n \in Nat : n = Len(sent) /\ j \in 1 .. n
    BY SentIs
  <2>2. at[n + 1] = Len(code) /\ \A i, k \in 1 .. n + 1 : i < k => at[i] + 2 <= at[k]
    BY <2>1 DEF Layout, Starts, Rising
  <2>3. PICK m \in Nat : m = Len(code)
    BY SentIs
  <2>4. CASE j = n
    BY <2>2, <2>3, <2>4
  <2>5. CASE j # n
    <3>1. j + 1 \in 1 .. n + 1 /\ n + 1 \in 1 .. n + 1 /\ j + 1 < n + 1
      BY <2>1, <2>5
    <3>2. at[j + 1] + 2 <= at[n + 1]
      BY <2>2, <3>1
    <3>3. at[j + 1] \in Nat
      BY StartsAre
    <3> QED
      BY <2>2, <2>3, <3>2, <3>3
  <2> QED
    BY <2>4, <2>5
<1>6. code'[at[j] + 1] = JMP /\ code'[at[j] + 2] = VLONG
  <2>1. \A b \in 1 .. Len(code) : (code \o t)[b] = code[b]
    BY DEF TypeInv
  <2>2. PICK m \in Nat : m = Len(code)
    BY SentIs
  <2>3. at[j] + 1 \in 1 .. m /\ at[j] + 2 \in 1 .. m
    <3>1. PICK a \in Nat : a = at[j]
      BY <1>3
    <3>2. a + 6 <= m
      BY <1>2, <1>5, <2>2, <3>1
    <3>3. a + 1 \in 1 .. m /\ a + 2 \in 1 .. m
      BY <3>2
    <3> QED
      BY <3>1, <3>3
  <2> QED
    BY <1>2, <1>4, <2>1, <2>2, <2>3
<1>7. fixups'[f] = <<sent'[j][2], at2[j] + 2>> /\ f \in 1 .. Len(fixups')
  BY <1>1, <1>3, <1>4, Zenon
<1>8. at2[j + 1] = at2[j] + 6 /\ sent'[j][1] = JMP
  BY <1>2, <1>3, <1>4
<1>9. code'[at2[j] + 1] = JMP /\ code'[at2[j] + 2] = VLONG
  BY <1>3, <1>6
<1> QED
  BY <1>7, <1>8, <1>9, Zenon DEF Waiting

(* One instruction more: it starts where the code ended, and those before  *)
(* it are as they were.                                                    *)
LEMMA OneMore ==
  ASSUME TypeInv, NEW at, NEW late, Laid(at, late), NEW t \in Seq(Byte), Len(t) \in 2 .. 10,
         NEW e \in Sendable, Longer(t, e),
         \A f \in 1 .. Len(fixups) : f \in 1 .. Len(fixups') /\ fixups'[f] = fixups[f]
  PROVE  \E at2 :
           /\ Layout(at2)'
           /\ SameStarts(at, at2)
           /\ at2[Len(sent) + 1] = Len(code) /\ at2[Len(sent) + 2] = Len(code) + Len(t)
           /\ late \in SUBSET (1 .. Len(sent))
           /\ \A j \in (1 .. Len(sent)) \ late : Encoded(at2, j)'
           /\ \A j \in late : Waiting(at2, j)'
<1>1. Layout(at) /\ AllLaid(at, late)
  BY DEF Laid
<1>2. PICK at2 : Layout(at2)' /\ SameStarts(at, at2) /\ at2[Len(sent) + 2] = Len(code) + Len(t)
  BY <1>1, LayoutLonger
<1>3. at2[Len(sent) + 1] = Len(code)
  <2>1. Len(sent) + 1 \in 1 .. Len(sent) + 1
    BY SentIs
  <2> QED
    BY <1>1, <1>2, <2>1 DEF SameStarts, Layout, Starts
<1>4. late \in SUBSET (1 .. Len(sent))
  BY <1>1 DEF AllLaid
<1>5. ASSUME NEW j \in (1 .. Len(sent)) \ late PROVE Encoded(at2, j)'
  BY <1>1, <1>2, <1>5, EncodedStays DEF AllLaid
<1>6. ASSUME NEW j \in late PROVE Waiting(at2, j)'
  BY <1>1, <1>2, <1>4, <1>6, WaitingStays DEF AllLaid
<1> QED
  BY <1>2, <1>3, <1>4, <1>5, <1>6, Zenon

(* An instruction, or a jump to a label already placed, is encoded at once *)
(* (EMIT; EARG).                                                           *)
LEMMA EmitKeeps ==
  ASSUME TypeInv, NEW at, NEW late, Laid(at, late), NEW t, NEW op, NEW arg, NEW n,
         Says(t, op, n), <<op, arg>> \in Sendable, Longer(t, <<op, arg>>), fixups' = fixups,
         op = JMP => place[arg] # Unplaced /\ n = place[arg],
         op # JMP => n = arg
  PROVE  \E at2 : Laid(at2, late)'
<1>1. t \in Seq(Byte) /\ Len(t) \in 2 .. 10
  BY DEF Says
<1>2. PICK e \in Sendable : e = <<op, arg>> /\ e[1] = op /\ e[2] = arg
  OBVIOUS
<1>3. \A f \in 1 .. Len(fixups) : f \in 1 .. Len(fixups') /\ fixups'[f] = fixups[f]
  OBVIOUS
<1>4. Longer(t, e)
  BY <1>2
<1>5. PICK at2 :
        /\ Layout(at2)' /\ SameStarts(at, at2)
        /\ at2[Len(sent) + 1] = Len(code) /\ at2[Len(sent) + 2] = Len(code) + Len(t)
        /\ late \in SUBSET (1 .. Len(sent))
        /\ \A j \in (1 .. Len(sent)) \ late : Encoded(at2, j)'
        /\ \A j \in late : Waiting(at2, j)'
  BY <1>1, <1>3, <1>4, OneMore
<1>6. PICK k \in Nat : k = Len(sent)
  BY SentIs
<1>7. Len(sent') = k + 1 /\ sent'[k + 1] = e /\ place' = place /\ code' = code \o t
  BY <1>1, <1>4, <1>6, LongerIs DEF Longer
<1>8. Encoded(at2, k + 1)'
  <2>1. Settled(k + 1)'
    BY <1>2, <1>7 DEF Settled
  <2>2. Meant(k + 1)' = n
    <3>1. Meant(k + 1)' = IF op = JMP THEN place[arg] ELSE arg
      BY <1>2, <1>7 DEF Meant
    <3> QED
      BY <3>1
  <2>3. Lies(code', at2[k + 1], t)
    BY <1>1, <1>5, <1>6, <1>7, LiesAtTheEnd DEF TypeInv
  <2>4. at2[(k + 1) + 1] = at2[k + 1] + Len(t)
    <3>1. (k + 1) + 1 = k + 2
      OBVIOUS
    <3> QED
      BY <1>5, <1>6, <3>1
  <2>5. Says(t, sent'[k + 1][1], Meant(k + 1)')
    BY <1>2, <1>7, <2>2
  <2> QED
    BY <1>1, <2>1, <2>3, <2>4, <2>5, Zenon DEF Encoded
<1>9. AllLaid(at2, late)'
  <2>1. late \in SUBSET (1 .. Len(sent'))
    BY <1>5, <1>6, <1>7
  <2>2. ASSUME NEW j \in (1 .. Len(sent')) \ late PROVE Encoded(at2, j)'
    <3>1. j = k + 1 \/ j \in (1 .. Len(sent)) \ late
      BY <1>6, <1>7
    <3> QED
      BY <1>5, <1>8, <3>1
  <2>3. ASSUME NEW f \in 1 .. Len(fixups') PROVE \E j \in late : fixups'[f] = <<sent'[j][2], at2[j] + 2>>
    <3>1. PICK j \in late : fixups[f] = <<sent[j][2], at[j] + 2>>
      BY DEF Laid, AllLaid
    <3>2. j \in 1 .. Len(sent) /\ j \in 1 .. Len(sent) + 1
      BY <1>5, <1>6
    <3>3. sent'[j] = sent[j] /\ at2[j] = at[j]
      BY <1>1, <1>4, <1>5, <3>2, LongerIs DEF SameStarts
    <3> QED
      BY <3>1, <3>3
  <2> QED
    BY <1>5, <2>1, <2>2, <2>3 DEF AllLaid
<1> QED
  BY <1>5, <1>9 DEF Laid

(* A jump to a label not placed yet waits for its address (record_labelpos). *)
LEMMA ForwardKeeps ==
  ASSUME TypeInv, NEW at, NEW late, Laid(at, late), NEW l \in Label, NEW t \in Seq(Byte),
         Len(t) = 6, t[1] = JMP, t[2] = VLONG, Longer(t, <<JMP, l>>),
         fixups' = Append(fixups, <<l, Len(code) + 2>>)
  PROVE  \E at2, late2 : Laid(at2, late2)'
<1>1. <<JMP, l>> \in Sendable
  BY DEF Sendable
<1>2. PICK e \in Sendable : e = <<JMP, l>> /\ e[1] = JMP /\ e[2] = l
  BY <1>1
<1>3. PICK q \in Nat : q = Len(fixups)
  BY SentIs
<1>4. /\ \A f \in 1 .. q : f \in 1 .. Len(fixups') /\ fixups'[f] = fixups[f]
      /\ fixups'[q + 1] = <<l, Len(code) + 2>> /\ Len(fixups') = q + 1
  <2>1. PICK a \in Nat : a = Len(code) + 2
    BY SentIs
  <2>2. PICK x \in Label \X Nat : x = <<l, a>>
    OBVIOUS
  <2>3. fixups' = Append(fixups, x)
    BY <2>1, <2>2
  <2>4. fixups \in Seq(Label \X Nat)
    BY DEF TypeInv
  <2>5. Len(fixups') = q + 1 /\ fixups'[q + 1] = x /\ \A f \in 1 .. q : fixups'[f] = fixups[f]
    BY <1>3, <2>3, <2>4
  <2> QED
    BY <2>1, <2>2, <2>5
<1>5. Longer(t, e) /\ Len(t) \in 2 .. 10
  BY <1>2
<1>6. PICK at2 :
        /\ Layout(at2)' /\ SameStarts(at, at2)
        /\ at2[Len(sent) + 1] = Len(code) /\ at2[Len(sent) + 2] = Len(code) + Len(t)
        /\ late \in SUBSET (1 .. Len(sent))
        /\ \A j \in (1 .. Len(sent)) \ late : Encoded(at2, j)'
        /\ \A j \in late : Waiting(at2, j)'
  BY <1>3, <1>4, <1>5, OneMore
<1>7. PICK k \in Nat : k = Len(sent)
  BY SentIs
<1>8. Len(sent') = k + 1 /\ sent'[k + 1] = e /\ place' = place /\ code' = code \o t
  BY <1>5, <1>7, LongerIs DEF Longer
<1>9. Waiting(at2, k + 1)'
  <2>1. at2[(k + 1) + 1] = at2[k + 1] + 6
    <3>1. (k + 1) + 1 = k + 2
      OBVIOUS
    <3> QED
      BY <1>6, <1>7, <3>1
  <2>2. PICK m \in Nat : m = Len(code)
    BY SentIs
  <2>3. code'[m + 1] = JMP /\ code'[m + 2] = VLONG
    <3>1. Lies(code \o t, m, t)
      BY <2>2, LiesAtTheEnd DEF TypeInv
    <3>2. 1 \in 1 .. Len(t) /\ 2 \in 1 .. Len(t)
      OBVIOUS
    <3> QED
      BY <1>8, <3>1, <3>2 DEF Lies
  <2>4. at2[k + 1] = m
    BY <1>6, <1>7, <2>2
  <2>5. sent'[k + 1][1] = JMP /\ sent'[k + 1][2] = l
    BY <1>2, <1>8
  <2>6. q + 1 \in 1 .. Len(fixups') /\ fixups'[q + 1] = <<sent'[k + 1][2], at2[k + 1] + 2>>
    BY <1>4, <2>2, <2>4, <2>5
  <2>7. code'[at2[k + 1] + 1] = JMP /\ code'[at2[k + 1] + 2] = VLONG
    BY <2>3, <2>4
  <2> QED
    BY <2>1, <2>5, <2>6, <2>7, Zenon DEF Waiting
<1>10. PICK late2 : late2 = late \cup {k + 1}
  OBVIOUS
<1>11. AllLaid(at2, late2)'
  <2>1. late2 \in SUBSET (1 .. Len(sent'))
    <3>1. ASSUME NEW j \in late2 PROVE j \in 1 .. Len(sent')
      <4>1. j = k + 1 \/ j \in 1 .. k
        BY <1>6, <1>7, <1>10
      <4> QED
        BY <1>8, <4>1
    <3> QED
      BY <3>1
  <2>2. ASSUME NEW j \in (1 .. Len(sent')) \ late2 PROVE Encoded(at2, j)'
    <3>1. j \in (1 .. Len(sent)) \ late
      BY <1>7, <1>8, <1>10
    <3> QED
      BY <1>6, <3>1
  <2>3. ASSUME NEW j \in late2 PROVE Waiting(at2, j)'
    BY <1>6, <1>9, <1>10
  <2>4. ASSUME NEW f \in 1 .. Len(fixups') PROVE \E j \in late2 : fixups'[f] = <<sent'[j][2], at2[j] + 2>>
    <3>1. CASE f = q + 1
      <4>1. at2[k + 1] = Len(code) /\ sent'[k + 1][2] = l
        BY <1>2, <1>6, <1>7, <1>8
      <4>2. k + 1 \in late2
        BY <1>10
      <4> QED
        BY <1>4, <3>1, <4>1, <4>2
    <3>2. CASE f # q + 1
      <4>1. f \in 1 .. q /\ f \in 1 .. Len(fixups)
        BY <1>3, <1>4, <3>2
      <4>2. PICK j \in late : fixups[f] = <<sent[j][2], at[j] + 2>>
        BY <4>1 DEF Laid, AllLaid
      <4>3. j \in 1 .. Len(sent) /\ j \in 1 .. Len(sent) + 1
        BY <1>6, <1>7
      <4>4. sent'[j] = sent[j] /\ at2[j] = at[j]
        BY <1>5, <1>6, <4>3, LongerIs DEF SameStarts
      <4>5. fixups'[f] = fixups[f]
        BY <1>4, <4>1
      <4> QED
        BY <1>10, <4>2, <4>4, <4>5
    <3> QED
      BY <3>1, <3>2
  <2> QED
    BY <2>1, <2>2, <2>3, <2>4 DEF AllLaid
<1> QED
  BY <1>6, <1>11 DEF Laid

-------------------------------------------------------------------------------
(*****************************************************************************)
(* Finishing a block: the addresses fit four bytes, each is written over the *)
(* last four bytes of its own jump, and every instruction is encoded then.   *)
(*****************************************************************************)

(* What fits four bytes fits eight. *)
LEMMA PowersGrow == Power[4] \div 2 <= Power[8] \div 2
<1>1. ASSUME NEW w \in 1 .. 8 PROVE Power[w - 1] <= Power[w]
  <2>1. PICK p \in Nat : p = Power[w - 1] /\ p > 0
    BY PowerNat
  <2>2. PICK b \in Nat : b = Base /\ b > 4
    BY BaseIs
  <2>3. p <= b * p
    BY <2>1, <2>2
  <2> QED
    BY <2>1, <2>2, <2>3, PowerIs
<1>2. \A w \in 0 .. 8 : Power[w] \in Nat
  BY PowerNat
<1>3. Power[5 - 1] <= Power[5] /\ Power[6 - 1] <= Power[6] /\ Power[7 - 1] <= Power[7] /\ Power[8 - 1] <= Power[8]
  BY <1>1
<1>4. Power[4] <= Power[8]
  BY <1>2, <1>3
<1>5. PICK h \in Nat : Power[4] = 2 * h /\ Power[4] \div 2 = h
  BY PowerEven
<1>6. PICK k \in Nat : Power[8] = 2 * k /\ Power[8] \div 2 = k
  BY PowerEven
<1> QED
  BY <1>4, <1>5, <1>6

(* Every address in the code of a block fits four bytes. *)
LEMMA CodeSize ==
  ASSUME TypeInv, Addressable, NEW at, Layout(at), NEW n \in Nat, n <= Len(code)
  PROVE  /\ Encodable(n)
         /\ -(Power[4] \div 2) <= n /\ n < Power[4] \div 2
         /\ BigEndian(n, 4) = Wide(n, 4)
<1>1. PICK m \in Nat : m = Len(sent) /\ m <= MaxInstructions
  BY SentIs DEF TypeInv
<1>2. PICK x \in Nat : x = MaxInstructions
  BY BytecodeAssumption
<1>3. PICK c \in Nat : c = Len(code)
  BY SentIs
<1>4. c <= 10 * m
  <2>1. m + 1 \in 1 .. m + 1 /\ (m + 1) - 1 = m
    OBVIOUS
  <2>2. at[m + 1] <= 10 * ((m + 1) - 1)
    BY <1>1, <2>1 DEF Layout, Small
  <2>3. at[m + 1] = c
    BY <1>1, <1>3 DEF Layout, Starts
  <2> QED
    BY <2>1, <2>2, <2>3
<1>5. PICK h \in Nat : Power[4] = 2 * h /\ Power[4] \div 2 = h
  BY PowerEven
<1>6. PICK k \in Nat : Power[8] = 2 * k /\ Power[8] \div 2 = k
  BY PowerEven
<1>7. h <= k
  BY <1>5, <1>6, PowersGrow
<1>8. n < h
  BY <1>1, <1>2, <1>3, <1>4, <1>5 DEF Addressable
<1>9. Encodable(n)
  BY <1>6, <1>7, <1>8 DEF Encodable
<1>10. PICK p \in Nat : p = Power[4] /\ p = 2 * h /\ p > 0
  BY <1>5, PowerNat
<1>11. n = p * 0 + n /\ n \in 0 .. p - 1
  BY <1>8, <1>10
<1>12. n % p = n
  BY <1>10, <1>11, QuotientIs
<1>13. BigEndian(n, 4) = Wide(n, 4)
  BY <1>10, <1>12 DEF Wide
<1>14. -h <= n
  OBVIOUS
<1> QED
  BY <1>5, <1>8, <1>9, <1>13, <1>14

(* The address of a jump that waits for it is written over the last four   *)
(* bytes of that jump, and over no other instruction.                      *)
LEMMA CoveredWhere ==
  ASSUME TypeInv, NEW at, NEW late, Laid(at, late), NEW j \in 1 .. Len(sent),
         NEW b \in Nat, at[j] + 1 <= b, b <= at[j + 1], NEW f \in 1 .. Len(fixups), Covers(f, b)
  PROVE  j \in late /\ fixups[f] = <<sent[j][2], at[j] + 2>> /\ at[j] + 3 <= b
<1>1. Layout(at) /\ AllLaid(at, late)
  BY DEF Laid
<1>2. PICK i \in late : fixups[f] = <<sent[i][2], at[i] + 2>>
  BY <1>1 DEF AllLaid
<1>3. i \in 1 .. Len(sent) /\ Waiting(at, i)
  BY <1>1 DEF AllLaid
<1>4. PICK n \in Nat : n = Len(sent)
  BY SentIs
<1>5. PICK a \in Nat : a = at[i] /\ at[i + 1] = a + 6
  BY <1>1, <1>3, StartsAre DEF Waiting
<1>6. PICK c \in Nat, d \in Nat : c = at[j] /\ d = at[j + 1]
  BY <1>1, StartsAre
<1>7. a + 3 <= b /\ b <= a + 6 /\ c + 1 <= b /\ b <= d
  <2>1. b - fixups[f][2] \in 1 .. 4
    BY DEF Covers
  <2>2. fixups[f][2] = a + 2
    BY <1>2, <1>5
  <2>3. b - (a + 2) \in 1 .. 4
    BY <2>1, <2>2
  <2> QED
    BY <1>6, <2>3
<1>8. i \in 1 .. n + 1 /\ i + 1 \in 1 .. n + 1 /\ j \in 1 .. n + 1 /\ j + 1 \in 1 .. n + 1
  BY <1>3, <1>4
<1>9. \A k, l \in 1 .. n + 1 : k < l => at[k] + 2 <= at[l]
  BY <1>1, <1>4 DEF Layout, Rising
<1>10. ~(i < j)
  <2> SUFFICES ASSUME i < j PROVE FALSE
    OBVIOUS
  <2>1. CASE i + 1 = j
    <3>1. c = a + 6
      BY <1>5, <1>6, <2>1
    <3> QED
      BY <1>7, <3>1
  <2>2. CASE i + 1 # j
    <3>1. i + 1 < j
      BY <1>3, <2>2
    <3>2. at[i + 1] + 2 <= at[j]
      BY <1>8, <1>9, <3>1
    <3>3. (a + 6) + 2 <= c
      BY <1>5, <1>6, <3>2
    <3> QED
      BY <1>7, <3>3
  <2> QED
    BY <2>1, <2>2
<1>11. ~(j < i)
  <2> SUFFICES ASSUME j < i PROVE FALSE
    OBVIOUS
  <2>1. CASE j + 1 = i
    <3>1. d = a
      BY <1>5, <1>6, <2>1
    <3> QED
      BY <1>7, <3>1
  <2>2. CASE j + 1 # i
    <3>1. j + 1 < i
      BY <1>3, <2>2
    <3>2. at[j + 1] + 2 <= at[i]
      BY <1>8, <1>9, <3>1
    <3>3. d + 2 <= a
      BY <1>5, <1>6, <3>2
    <3> QED
      BY <1>7, <3>3
  <2> QED
    BY <2>1, <2>2
<1>12. i = j
  BY <1>3, <1>10, <1>11
<1> QED
  BY <1>2, <1>5, <1>6, <1>7, <1>12

(* A byte that no address is written over stays as it was. *)
LEMMA KeptByte ==
  ASSUME TypeInv, NEW b \in 1 .. Len(code), \A f \in 1 .. Len(fixups) : ~Covers(f, b)
  PROVE  Filled[b] = code[b]
<1>1. PICK q \in Nat : q = Len(fixups)
  BY SentIs
<1>2. IsLatest(0, q, b)
  BY <1>1 DEF IsLatest
<1>3. Latest(q, b) = 0
  BY <1>2, LatestOnly
<1>4. Written(q, b) = code[b]
  BY <1>3, Zenon DEF Written
<1> QED
  BY <1>1, <1>4, FilledIs, TypeInvIsTyped

(* A byte that only addresses of one place and one label are written over  *)
(* is a byte of that address.                                              *)
LEMMA WrittenByte ==
  ASSUME TypeInv, NEW b \in 1 .. Len(code), NEW l, NEW offset, NEW f \in 1 .. Len(fixups), Covers(f, b),
         \A k \in 1 .. Len(fixups) : Covers(k, b) => fixups[k] = <<l, offset>>
  PROVE  Filled[b] = BigEndian(place[l], 4)[b - offset]
<1>1. PICK q \in Nat : q = Len(fixups)
  BY SentIs
<1>2. PICK k : k = Latest(q, b) /\ IsLatest(k, q, b)
  BY LatestIs
<1>3. k # 0
  BY <1>1, <1>2 DEF IsLatest
<1>4. k \in 1 .. Len(fixups) /\ Covers(k, b)
  BY <1>1, <1>2, <1>3 DEF IsLatest
<1>5. fixups[k][1] = l /\ fixups[k][2] = offset
  BY <1>4
<1>6. Written(q, b) = Address(k)[b - fixups[k][2]]
  BY <1>2, <1>3, Zenon DEF Written
<1>7. Written(q, b) = BigEndian(place[l], 4)[b - offset]
  BY <1>5, <1>6, Zenon DEF Address
<1> QED
  BY <1>1, <1>7, FilledIs, TypeInvIsTyped

(* Every instruction ends inside the code. *)
LEMMA EndsInCode ==
  ASSUME TypeInv, NEW at, Layout(at), NEW j \in 1 .. Len(sent)
  PROVE  at[j] \in Nat /\ at[j + 1] \in Nat /\ at[j + 1] <= Len(code)
<1>1. PICK n \in Nat : n = Len(sent) /\ j \in 1 .. n
  BY SentIs
<1>2. at[n + 1] = Len(code) /\ \A i, k \in 1 .. n + 1 : i < k => at[i] + 2 <= at[k]
  BY <1>1 DEF Layout, Starts, Rising
<1>3. PICK m \in Nat : m = Len(code)
  BY SentIs
<1>4. at[j] \in Nat /\ at[j + 1] \in Nat
  BY StartsAre
<1>5. CASE j = n
  BY <1>2, <1>3, <1>4, <1>5
<1>6. CASE j # n
  <2>1. j + 1 \in 1 .. n + 1 /\ n + 1 \in 1 .. n + 1 /\ j + 1 < n + 1
    BY <1>1, <1>6
  <2>2. at[j + 1] + 2 <= at[n + 1]
    BY <1>2, <2>1
  <2> QED
    BY <1>2, <1>3, <1>4, <2>2
<1> QED
  BY <1>5, <1>6

(* A jump that waited has its address when the block is finished. *)
LEMMA WaitingIsFilled ==
  ASSUME TypeInv, Addressable, NEW at, NEW late, Laid(at, late), NEW j \in late,
         \A f \in 1 .. Len(fixups) : place[fixups[f][1]] # Unplaced
  PROVE  /\ Settled(j)
         /\ \E t \in Seq(Byte) :
              Says(t, sent[j][1], Meant(j)) /\ at[j + 1] = at[j] + Len(t) /\ Lies(Filled, at[j], t)
<1>1. Layout(at) /\ AllLaid(at, late)
  BY DEF Laid
<1>2. j \in 1 .. Len(sent) /\ Waiting(at, j)
  BY <1>1 DEF AllLaid
<1>3. PICK l \in Label : l = sent[j][2] /\ sent[j][1] = JMP
  <2>1. sent[j][1] = JMP /\ JMP # OP
    BY <1>2, BytecodeAssumption DEF Waiting
  <2> QED
    BY <1>2, <2>1, SentIs
<1>4. PICK a \in Nat, d \in Nat : a = at[j] /\ d = at[j + 1] /\ d = a + 6 /\ d <= Len(code)
  BY <1>1, <1>2, EndsInCode DEF Waiting
<1>5. code[a + 1] = JMP /\ code[a + 2] = VLONG
  BY <1>2, <1>4 DEF Waiting
<1>6. PICK f \in 1 .. Len(fixups) : fixups[f] = <<l, a + 2>>
  BY <1>2, <1>3, <1>4 DEF Waiting
<1>7. PICK n \in Nat : n = place[l] /\ n <= Len(code)
  <2>1. place[l] # Unplaced
    BY <1>6
  <2>2. PICK c \in Nat : c = Len(code)
    BY SentIs
  <2>3. place[l] \in {Unplaced} \cup 0 .. c
    BY <2>2 DEF TypeInv
  <2> QED
    BY <2>1, <2>2, <2>3
<1>8. PICK body \in Seq(Byte) : body = Wide(n, 4) /\ body = BigEndian(n, 4) /\ Len(body) = 4
  <2>1. BigEndian(n, 4) = Wide(n, 4)
    BY <1>1, <1>7, CodeSize
  <2>2. n \in Int /\ 4 \in 1 .. 8
    OBVIOUS
  <2>3. Wide(n, 4) \in Seq(Byte) /\ Len(Wide(n, 4)) = 4
    BY <2>2, WideIs
  <2> QED
    BY <2>1, <2>3, Zenon
<1>9. PICK t : t = <<JMP>> \o (<<VLONG>> \o body)
  OBVIOUS
<1>10. /\ t \in Seq(Byte) /\ Len(t) = 6 /\ t[1] = JMP /\ t[2] = VLONG
       /\ \A i \in 1 .. 4 : t[2 + i] = body[i]
  <2>1. JMP \in Byte /\ VLONG \in Byte
    BY MarkersFollow
  <2>2. /\ t \in Seq(Byte) /\ Len(t) = 2 + Len(body) /\ t[1] = JMP /\ t[2] = VLONG
        /\ \A i \in 1 .. Len(body) : t[2 + i] = body[i]
    BY <1>9, <2>1, MarkedIs
  <2>3. Len(body) = 4
    BY <1>8
  <2>4. Len(t) = 2 + 4 /\ \A i \in 1 .. 4 : t[2 + i] = body[i]
    BY <2>2, <2>3, Zenon
  <2>5. 2 + 4 = 6
    OBVIOUS
  <2> QED
    BY <2>2, <2>4, <2>5, Zenon
<1>11. Says(t, JMP, n)
  <2>1. VLONG \in Markers /\ 4 = Following(VLONG) /\ 4 \in 1 .. 8 /\ JMP \in Byte /\ n \in Int
    BY MarkersFollow DEF Markers
  <2>2. -(Power[4] \div 2) <= n /\ n < Power[4] \div 2
    BY <1>1, <1>7, CodeSize
  <2>3. Says(<<JMP>> \o (<<VLONG>> \o Wide(n, 4)), JMP, n)
    BY <2>1, <2>2, WideSays, Zenon
  <2> QED
    BY <1>8, <1>9, <2>3
<1>12. ASSUME NEW k \in 1 .. Len(fixups), NEW b \in Nat, a + 1 <= b, b <= d, Covers(k, b)
       PROVE  fixups[k] = <<l, a + 2>> /\ a + 3 <= b
  <2>1. at[j] + 1 <= b /\ b <= at[j + 1]
    BY <1>4, <1>12
  <2>2. fixups[k] = <<sent[j][2], at[j] + 2>> /\ at[j] + 3 <= b
    BY <1>2, <1>12, <2>1, CoveredWhere, SMTT(30)
  <2> QED
    BY <1>3, <1>4, <2>2
<1>13. PICK c \in Nat : c = Len(code) /\ a + 6 <= c
  BY <1>4, SentIs
<1>14. Filled[a + 1] = JMP /\ Filled[a + 2] = VLONG
  <2>1. ASSUME NEW b \in {a + 1, a + 2}, NEW k \in 1 .. Len(fixups) PROVE ~Covers(k, b)
    <3>1. b = a + 1 \/ b = a + 2
      OBVIOUS
    <3>2. d = a + 6
      BY <1>4
    <3>3. b \in Nat /\ a + 1 <= b /\ b <= d /\ ~(a + 3 <= b)
      BY <3>1, <3>2
    <3> QED
      BY <1>12, <3>3
  <2>2. a + 1 \in 1 .. Len(code) /\ a + 2 \in 1 .. Len(code)
    BY <1>13
  <2> QED
    BY <1>5, <2>1, <2>2, KeptByte
<1>15. ASSUME NEW i \in 1 .. 4 PROVE Filled[a + (2 + i)] = body[i]
  <2>1. PICK b \in 1 .. c : b = a + (2 + i) /\ b - (a + 2) = i /\ a + 1 <= b /\ b <= a + 6
    BY <1>13
  <2>2. b \in 1 .. Len(code) /\ b \in Nat /\ b <= d
    BY <1>4, <1>13, <2>1
  <2>3. Covers(f, b)
    <3>1. fixups[f][2] = a + 2
      BY <1>6
    <3> QED
      BY <2>1, <3>1 DEF Covers
  <2>4. \A k \in 1 .. Len(fixups) : Covers(k, b) => fixups[k] = <<l, a + 2>>
    BY <1>12, <2>1, <2>2
  <2>5. PICK offset : offset = a + 2
    OBVIOUS
  <2>6. \A k \in 1 .. Len(fixups) : Covers(k, b) => fixups[k] = <<l, offset>>
    BY <2>4, <2>5, Zenon
  <2>7. Filled[b] = BigEndian(place[l], 4)[b - offset]
    BY <2>2, <2>3, <2>6, WrittenByte, ZenonT(30)
  <2> QED
    BY <1>7, <1>8, <2>1, <2>5, <2>7, Zenon
<1>16. Lies(Filled, a, t)
  <2>1. Len(Filled) = c
    BY <1>13, FilledIs, TypeInvIsTyped
  <2>2. ASSUME NEW b \in 1 .. 6 PROVE Filled[a + b] = t[b]
    <3>1. b = 1 \/ b = 2 \/ \E i \in 1 .. 4 : b = 2 + i
      <4>1. b = 1 \/ b = 2 \/ (b - 2 \in 1 .. 4 /\ b = 2 + (b - 2))
        OBVIOUS
      <4> QED
        BY <4>1
    <3> QED
      BY <1>10, <1>14, <1>15, <3>1
  <2> QED
    BY <1>10, <1>13, <2>1, <2>2 DEF Lies
<1>17. Settled(j) /\ Meant(j) = n
  BY <1>3, <1>6, <1>7 DEF Settled, Meant
<1> QED
  BY <1>3, <1>4, <1>10, <1>11, <1>16, <1>17

(* No address is written over an encoded instruction. *)
LEMMA EncodedIsKept ==
  ASSUME TypeInv, NEW at, NEW late, Laid(at, late), NEW j \in (1 .. Len(sent)) \ late,
         NEW t \in Seq(Byte), Lies(code, at[j], t), NEW d \in Nat, d = at[j + 1], d = at[j] + Len(t)
  PROVE  Lies(Filled, at[j], t)
<1>1. PICK m \in Nat : m = Len(t)
  OBVIOUS
<1>2. PICK a \in Nat : a = at[j] /\ d = a + m /\ d <= Len(code)
  BY <1>1, EndsInCode DEF Laid
<1>3. PICK c \in Nat : c = Len(code) /\ d <= c
  BY <1>2, SentIs
<1>4. ASSUME NEW b \in 1 .. m PROVE Filled[a + b] = t[b]
  <2>1. a + b \in 1 .. Len(code) /\ a + b \in Nat /\ a + 1 <= a + b /\ a + b <= d
    <3>1. d = a + m /\ d <= c
      BY <1>2, <1>3
    <3>2. a + b \in 1 .. c /\ a + b \in Nat /\ a + 1 <= a + b /\ a + b <= d
      BY <3>1
    <3> QED
      BY <1>3, <3>2
  <2>2. \A f \in 1 .. Len(fixups) : ~Covers(f, a + b)
    <3>1. at[j] + 1 <= a + b /\ a + b <= at[j + 1]
      BY <1>2, <2>1
    <3> QED
      BY <2>1, <3>1, CoveredWhere
  <2>3. Filled[a + b] = code[a + b]
    BY <2>1, <2>2, KeptByte
  <2> QED
    BY <1>1, <1>2, <2>3 DEF Lies
<1>5. Len(Filled) = c
  BY <1>3, FilledIs, TypeInvIsTyped
<1>6. a + m <= c
  BY <1>2, <1>3
<1> QED
  BY <1>1, <1>2, <1>4, <1>5, <1>6 DEF Lies

(* When the block is finished every instruction is encoded. *)
LEMMA FinishKeeps ==
  ASSUME TypeInv, Addressable, NEW at, NEW late, Laid(at, late), FinishChunk
  PROVE  Laid(at, {})'
<1>1. /\ code' = Filled /\ fixups' = <<>> /\ sent' = sent /\ place' = place
      /\ \A f \in 1 .. Len(fixups) : place[fixups[f][1]] # Unplaced
  BY SentIs DEF FinishChunk
<1>2. Layout(at) /\ AllLaid(at, late)
  BY DEF Laid
<1>3. Len(code') = Len(code)
  BY <1>1, FilledIs, TypeInvIsTyped
<1>4. Layout(at)'
  BY <1>1, <1>2, <1>3 DEF Layout, Starts, Stepwise, Rising, Small
<1>5. ASSUME NEW j \in 1 .. Len(sent) PROVE Encoded(at, j)'
  <2>1. Meant(j)' = Meant(j) /\ Settled(j)' = Settled(j)
    BY <1>1, MeantStays
  <2>2. Settled(j) /\ \E t \in Seq(Byte) :
              Says(t, sent[j][1], Meant(j)) /\ at[j + 1] = at[j] + Len(t) /\ Lies(Filled, at[j], t)
    <3>1. CASE j \in late
      BY <1>1, <3>1, WaitingIsFilled
    <3>2. CASE j \notin late
      <4>1. Encoded(at, j)
        BY <1>2, <3>2 DEF AllLaid
      <4>2. PICK t \in Seq(Byte) :
              Says(t, sent[j][1], Meant(j)) /\ at[j + 1] = at[j] + Len(t) /\ Lies(code, at[j], t)
        BY <4>1 DEF Encoded
      <4>3. PICK d \in Nat : d = at[j + 1] /\ d = at[j] + Len(t)
        BY <1>2, <4>2, EndsInCode
      <4>4. Lies(Filled, at[j], t)
        BY <3>2, <4>2, <4>3, EncodedIsKept
      <4> QED
        BY <4>1, <4>2, <4>4 DEF Encoded
    <3> QED
      BY <3>1, <3>2
  <2>3. PICK t \in Seq(Byte) :
          Says(t, sent[j][1], Meant(j)) /\ at[j + 1] = at[j] + Len(t) /\ Lies(Filled, at[j], t)
    BY <2>2
  <2>4. Says(t, sent'[j][1], Meant(j)') /\ Lies(code', at[j], t)
    BY <1>1, <2>1, <2>3, Zenon
  <2>5. Settled(j)'
    BY <2>1, <2>2
  <2> QED
    BY <2>3, <2>4, <2>5, Zenon DEF Encoded
<1>6. AllLaid(at, {})'
  <2>1. Len(fixups') = 0 /\ 1 .. 0 = {}
    BY <1>1
  <2>2. sent' = sent /\ (1 .. Len(sent)) \ {} = 1 .. Len(sent)
    BY <1>1
  <2>3. \A j \in (1 .. Len(sent')) \ {} : Encoded(at, j)'
    BY <1>5, <2>2
  <2>4. \A f \in 1 .. Len(fixups') : \E j \in {} : fixups'[f] = <<sent'[j][2], at[j] + 2>>
    BY <2>1
  <2> QED
    BY <2>3, <2>4 DEF AllLaid
<1> QED
  BY <1>4, <1>6 DEF Laid

-------------------------------------------------------------------------------
(*****************************************************************************)
(* Execution. As long as no parameter has been the number of a marker, the   *)
(* machine is at the start of an instruction and reads what was compiled.    *)
(*****************************************************************************)
StraightTo(m) == \A h \in 1 .. m : h \in DOMAIN sent /\ Meant(h) \notin Markers
Direct == \A j \in DOMAIN sent : Meant(j) \notin Markers

Ran(at) ==
  /\ InStep
  /\ StraightTo(Len(got)) => ip = at[Len(got) + 1]
  /\ Direct => Len(got) <= Len(sent) /\ phase # "overrun"
  /\ phase = "emit" => got = <<>> /\ ip = 0
  /\ phase # "emit" => fixups = <<>>

IInv == TypeInv /\ \E at, late : Laid(at, late) /\ Ran(at)

(* The layout depends on what was compiled and on the code only. *)
LEMMA LaidSame ==
  ASSUME NEW at, NEW late, Laid(at, late), code' = code, sent' = sent, place' = place, fixups' = fixups
  PROVE  Laid(at, late)'
<1>1. Layout(at)'
  BY DEF Laid, Layout, Starts, Stepwise, Rising, Small
<1>2. \A j : Meant(j)' = Meant(j) /\ Settled(j)' = Settled(j)
  BY DEF Meant, Settled
<1>3. ASSUME NEW j, Encoded(at, j) PROVE Encoded(at, j)'
  <2>1. PICK t \in Seq(Byte) :
          Says(t, sent[j][1], Meant(j)) /\ at[j + 1] = at[j] + Len(t) /\ Lies(code, at[j], t)
    BY <1>3 DEF Encoded
  <2>2. Says(t, sent'[j][1], Meant(j)') /\ Lies(code', at[j], t)
    BY <1>2, <2>1, Zenon
  <2>3. Settled(j)'
    BY <1>2, <1>3 DEF Encoded
  <2> QED
    BY <2>1, <2>2, <2>3, Zenon DEF Encoded
<1>4. ASSUME NEW j, Waiting(at, j) PROVE Waiting(at, j)'
  BY <1>4, Zenon DEF Waiting
<1>5. AllLaid(at, late)'
  BY <1>3, <1>4 DEF Laid, AllLaid
<1> QED
  BY <1>1, <1>5 DEF Laid

(* Before anything has been executed every layout will do. *)
LEMMA NothingRan ==
  ASSUME NEW at, at[1] = 0, got = <<>>, ip = 0, phase # "overrun", phase # "emit" => fixups = <<>>, TypeInv
  PROVE  Ran(at)
<1>1. Len(got) = 0 /\ DOMAIN got = {}
  OBVIOUS
<1>2. InStep
  BY <1>1 DEF InStep
<1>3. Len(got) + 1 = 1 /\ Len(got) <= Len(sent)
  BY <1>1, SentIs
<1> QED
  BY <1>2, <1>3 DEF Ran

(* Placing a label changes no jump that was encoded: its label was placed. *)
LEMMA PlaceKeeps ==
  ASSUME TypeInv, NEW at, NEW late, Laid(at, late), NEW l \in Label, PlaceLabel(l)
  PROVE  Laid(at, late)'
<1>1. /\ place[l] = Unplaced /\ place' = [place EXCEPT ![l] = Len(code)]
      /\ code' = code /\ sent' = sent /\ fixups' = fixups
  BY DEF PlaceLabel
<1>2. Layout(at)'
  BY <1>1 DEF Laid, Layout, Starts, Stepwise, Rising, Small
<1>3. ASSUME NEW j \in (1 .. Len(sent)) \ late PROVE Encoded(at, j)'
  <2>1. Encoded(at, j)
    BY DEF Laid, AllLaid
  <2>2. Meant(j)' = Meant(j) /\ Settled(j)'
    <3>1. CASE sent[j][1] = JMP
      <4>1. PICK x \in Label : x = sent[j][2]
        <5>1. JMP # OP
          BY BytecodeAssumption
        <5> QED
          BY <3>1, <5>1, SentIs
      <4>2. place[x] # Unplaced
        BY <2>1, <3>1, <4>1 DEF Encoded, Settled
      <4>3. place'[x] = place[x]
        BY <1>1, <4>1, <4>2 DEF TypeInv
      <4> QED
        BY <1>1, <3>1, <4>1, <4>2, <4>3 DEF Meant, Settled
    <3>2. CASE sent[j][1] # JMP
      BY <1>1, <3>2 DEF Meant, Settled
    <3> QED
      BY <3>1, <3>2
  <2>3. PICK t \in Seq(Byte) :
          Says(t, sent[j][1], Meant(j)) /\ at[j + 1] = at[j] + Len(t) /\ Lies(code, at[j], t)
    BY <2>1 DEF Encoded
  <2>4. Says(t, sent'[j][1], Meant(j)') /\ Lies(code', at[j], t)
    BY <1>1, <2>2, <2>3, Zenon
  <2> QED
    BY <2>2, <2>3, <2>4, Zenon DEF Encoded
<1>4. ASSUME NEW j \in late PROVE Waiting(at, j)'
  <2>1. Waiting(at, j)
    BY DEF Laid, AllLaid
  <2> QED
    BY <1>1, <2>1, Zenon DEF Waiting
<1>5. AllLaid(at, late)'
  <2>1. late \in SUBSET (1 .. Len(sent')) /\ sent' = sent
    BY <1>1 DEF Laid, AllLaid
  <2>2. \A f \in 1 .. Len(fixups') : \E j \in late : fixups'[f] = <<sent'[j][2], at[j] + 2>>
    BY <1>1 DEF Laid, AllLaid
  <2> QED
    BY <1>3, <1>4, <2>1, <2>2 DEF AllLaid
<1> QED
  BY <1>2, <1>5 DEF Laid

(* In step, the machine is at an instruction that was compiled, and reads  *)
(* what that instruction says.                                             *)
LEMMA NextInstruction ==
  ASSUME TypeInv, NEW at, NEW late, Laid(at, late), Ran(at), fixups = <<>>, ip < Len(code),
         NEW j \in Nat, j = Len(got) + 1, StraightTo(j - 1)
  PROVE  /\ j \in 1 .. Len(sent) /\ at[j] = ip
         /\ Meant(j) \notin Markers =>
              /\ ip + 2 <= Len(code) /\ ip + 2 + Following(code[ip + 2]) <= Len(code)
              /\ ip + 2 + Following(code[ip + 2]) = at[j + 1]
              /\ code[ip + 1] = sent[j][1] /\ Param(code, ip + 2) = Meant(j)
<1>1. PICK n \in Nat, g \in Nat : n = Len(sent) /\ g = Len(got) /\ j = g + 1
  BY SentIs
<1>2. g <= n
  <2>1. CASE g = 0
    BY <2>1
  <2>2. CASE g # 0
    <3>1. g \in 1 .. j - 1
      BY <1>1, <2>2
    <3>2. g \in DOMAIN sent
      BY <3>1 DEF StraightTo
    <3> QED
      BY <1>1, <3>2, SentIs
  <2> QED
    BY <2>1, <2>2
<1>3. ip = at[j]
  BY <1>1 DEF Ran
<1>4. at[n + 1] = Len(code)
  BY <1>1 DEF Laid, Layout, Starts
<1>5. ip \in Nat /\ Len(code) \in Nat
  BY SentIs DEF TypeInv
<1>6. j # n + 1
  BY <1>3, <1>4, <1>5
<1>7. j \in 1 .. Len(sent)
  BY <1>1, <1>2, <1>6
<1>8. late = {}
  <2>1. Len(fixups) = 0
    OBVIOUS
  <2>2. \A i \in late : \E f \in 1 .. Len(fixups) : TRUE
    BY DEF Laid, AllLaid, Waiting
  <2> QED
    BY <2>1, <2>2
<1>9. Encoded(at, j)
  BY <1>7, <1>8 DEF Laid, AllLaid
<1>10. PICK t \in Seq(Byte) :
        Says(t, sent[j][1], Meant(j)) /\ at[j + 1] = at[j] + Len(t) /\ Lies(code, at[j], t)
  BY <1>9 DEF Encoded
<1>11. ASSUME Meant(j) \notin Markers
       PROVE  /\ ip + 2 <= Len(code) /\ ip + 2 + Following(code[ip + 2]) <= Len(code)
              /\ ip + 2 + Following(code[ip + 2]) = at[j + 1]
              /\ code[ip + 1] = sent[j][1] /\ Param(code, ip + 2) = Meant(j)
  <2>1. Reads(t, sent[j][1], Meant(j))
    BY <1>10, <1>11 DEF Says
  <2>2. t[1] = sent[j][1] /\ Len(t) = 2 + Following(t[2]) /\ Param(t, 2) = Meant(j)
    BY <2>1 DEF Reads
  <2>3. Len(t) >= 2
    <3>1. Len(t) \in 2 .. 10
      BY <1>10, Zenon DEF Says
    <3>2. \A x : x \in 2 .. 10 => x >= 2
      OBVIOUS
    <3> QED
      BY <3>1, <3>2, Zenon
  <2>4. /\ code[ip + 1] = t[1] /\ code[ip + 2] = t[2]
        /\ ip + 2 + Following(code[ip + 2]) = ip + Len(t)
        /\ ip + Len(t) <= Len(code)
        /\ Param(code, ip + 2) = Param(t, 2)
    <3>1. Lies(code, ip, t) /\ code \in Seq(Byte) /\ ip \in Nat
      BY <1>3, <1>5, <1>10 DEF TypeInv
    <3>2. Len(t) = 2 + Following(t[2])
      BY <2>2
    <3> QED
      BY <2>3, <3>1, <3>2, ParamWhereItLies, Zenon
  <2>5. PICK m \in Nat : m = Len(t) /\ m >= 2
    BY <2>3
  <2>6. ip + 2 <= Len(code)
    BY <1>5, <2>4, <2>5
  <2>7. ip + 2 + Following(code[ip + 2]) <= Len(code)
    BY <2>4
  <2>8. ip + 2 + Following(code[ip + 2]) = at[j + 1]
    BY <1>3, <1>10, <2>4
  <2> QED
    BY <2>2, <2>4, <2>6, <2>7, <2>8
<1> QED
  BY <1>3, <1>7, <1>11

(* An instruction executed is the next one compiled. *)
LEMMA ExecuteKeeps ==
  ASSUME TypeInv, NEW at, NEW late, Laid(at, late), Ran(at), Execute
  PROVE  Ran(at)'
<1>1. /\ phase = "run" /\ ip + 2 <= Len(code)
      /\ got' = Append(got, <<code[ip + 1], Param(code, ip + 2)>>)
      /\ ip' = ip + 2 + Following(code[ip + 2])
      /\ phase' = phase /\ code' = code /\ sent' = sent /\ place' = place /\ fixups' = fixups
  BY DEF Execute
<1>2. fixups = <<>>
  BY <1>1 DEF Ran
<1>3. ip < Len(code)
  BY <1>1, SentIs DEF TypeInv
<1>4. PICK g \in Nat : g = Len(got)
  BY SentIs
<1>5. PICK e : e = <<code[ip + 1], Param(code, ip + 2)>>
  OBVIOUS
<1>6. e \in Byte \X Parameters
  <2>1. TypeInv'
    BY TypeInvIsInductive DEF Next
  <2>2. got' \in Seq(Byte \X Parameters) /\ got \in Seq(Byte \X Parameters)
    BY <2>1 DEF TypeInv
  <2>3. code[ip + 1] \in Byte
    BY <1>1 DEF TypeInv
  <2>4. PICK b \in Byte : b = code[ip + 1]
    BY <2>3
  <2>5. PICK p \in Seq(Byte) \X Nat : p[1] = code /\ p[2] = ip + 2
    <3>1. PICK k \in Nat : k = ip + 2
      BY DEF TypeInv
    <3>2. <<code, k>> \in Seq(Byte) \X Nat /\ <<code, k>>[1] = code /\ <<code, k>>[2] = k
      BY DEF TypeInv
    <3> QED
      BY <3>1, <3>2, Zenon
  <2>6. Param(code, ip + 2) \in Parameters
    BY <2>5, Zenon DEF Parameters
  <2> QED
    BY <1>5, <2>3, <2>6
<1>7. Len(got') = g + 1 /\ got'[g + 1] = e /\ (\A j \in 1 .. g : got'[j] = got[j]) /\ DOMAIN got' = 1 .. g + 1
  BY <1>1, <1>4, <1>5, <1>6 DEF TypeInv
<1>8. \A h : Meant(h)' = Meant(h)
  BY <1>1 DEF Meant
<1>9. \A m : StraightTo(m)' = StraightTo(m)
  BY <1>1, <1>8 DEF StraightTo
<1>10. ASSUME StraightTo(g)
       PROVE  /\ g + 1 \in 1 .. Len(sent) /\ g + 1 \in DOMAIN sent
              /\ Meant(g + 1) \notin Markers => e = <<sent[g + 1][1], Meant(g + 1)>> /\ ip' = at[(g + 1) + 1]
  <2>1. PICK j \in Nat : j = Len(got) + 1 /\ j = g + 1 /\ j - 1 = g
    BY <1>4
  <2>2. StraightTo(j - 1)
    BY <1>10, <2>1
  <2>3. /\ j \in 1 .. Len(sent)
        /\ Meant(j) \notin Markers =>
             /\ ip + 2 + Following(code[ip + 2]) = at[j + 1]
             /\ code[ip + 1] = sent[j][1] /\ Param(code, ip + 2) = Meant(j)
    BY <1>2, <1>3, <2>1, <2>2, NextInstruction
  <2>4. j \in DOMAIN sent
    BY <2>3, SentIs
  <2> QED
    BY <1>1, <1>5, <2>1, <2>3, <2>4
<1>11. InStep'
  <2> SUFFICES ASSUME NEW j \in 1 .. g + 1, StraightTo(j - 1)
               PROVE  j \in DOMAIN sent /\ (Meant(j) \notin Markers => got'[j] = <<sent[j][1], Meant(j)>>)
    BY <1>1, <1>7, <1>8 DEF InStep, Executed, StraightTo
  <2>1. CASE j = g + 1
    <3>1. j - 1 = g
      BY <2>1
    <3>2. StraightTo(g)
      BY <3>1
    <3> QED
      BY <1>7, <1>10, <2>1, <3>2
  <2>2. CASE j # g + 1
    <3>1. j \in 1 .. g /\ j \in DOMAIN got
      BY <1>4, <2>2, SentIs
    <3>2. InStep
      BY DEF Ran
    <3>3. j \in DOMAIN sent /\ (Meant(j) \notin Markers => Executed(j))
      BY <3>1, <3>2 DEF InStep, StraightTo
    <3> QED
      BY <1>7, <3>1, <3>3 DEF Executed
  <2> QED
    BY <2>1, <2>2
<1>12. ASSUME StraightTo(g + 1) PROVE ip' = at[(g + 1) + 1]
  <2>1. StraightTo(g) /\ Meant(g + 1) \notin Markers
    BY <1>12 DEF StraightTo
  <2> QED
    BY <1>10, <2>1
<1>13. ASSUME Direct PROVE g + 1 <= Len(sent)
  <2>1. g <= Len(sent)
    BY <1>4, <1>13 DEF Ran
  <2>2. StraightTo(g)
    <3>1. \A h \in 1 .. g : h \in DOMAIN sent
      BY <2>1, SentIs
    <3> QED
      BY <1>13, <3>1 DEF Direct, StraightTo
  <2> QED
    BY <1>10, <2>2
<1>14. Direct' = Direct
  BY <1>1, <1>8 DEF Direct
<1>15. StraightTo(Len(got))' => ip' = at[Len(got') + 1]
  <2>1. StraightTo(Len(got))' = StraightTo(g + 1)
    BY <1>1, <1>7, <1>8 DEF StraightTo
  <2> QED
    BY <1>7, <1>12, <2>1
<1>16. Direct' => Len(got') <= Len(sent') /\ phase' # "overrun"
  BY <1>1, <1>7, <1>13, <1>14
<1> QED
  BY <1>1, <1>2, <1>11, <1>15, <1>16 DEF Ran

(* The invariant holds at first. *)
LEMMA IInvAtFirst == Init => IInv
<1> SUFFICES ASSUME Init PROVE IInv
  OBVIOUS
<1>1. TypeInv
  BY TypeInvAtFirst
<1>2. /\ phase = "emit" /\ code = <<>> /\ sent = <<>> /\ fixups = <<>> /\ ip = 0 /\ got = <<>>
      /\ Len(code) = 0 /\ Len(sent) = 0 /\ Len(fixups) = 0
  BY DEF Init
<1>3. PICK at : at = [k \in 1 .. 1 |-> 0]
  OBVIOUS
<1>4. at \in [1 .. 0 + 1 -> Nat] /\ at[1] = 0 /\ at[0 + 1] = 0
  BY <1>3
<1>5. Starts(at)
  BY <1>2, <1>4 DEF Starts
<1>6. Stepwise(at) /\ Rising(at) /\ Small(at)
  BY <1>2, <1>4 DEF Stepwise, Rising, Small
<1>7. AllLaid(at, {})
  BY <1>2 DEF AllLaid
<1>8. Laid(at, {})
  BY <1>5, <1>6, <1>7 DEF Laid, Layout
<1>9. Ran(at)
  BY <1>1, <1>2, <1>4, NothingRan
<1> QED
  BY <1>1, <1>8, <1>9 DEF IInv

(* While a block is compiled nothing of it is executed. *)
LEMMA StillEmitting ==
  ASSUME TypeInv, TypeInv', NEW at, Ran(at), phase = "emit", phase' = "emit", got' = got, ip' = ip,
         NEW at2, NEW late2, Laid(at2, late2)'
  PROVE  IInv'
<1>1. got' = <<>> /\ ip' = 0
  BY DEF Ran
<1>2. at2[1] = 0
  BY DEF Laid, Layout, Starts
<1>3. Len(got') = 0 /\ DOMAIN got' = {}
  BY <1>1
<1>4. InStep'
  BY <1>3 DEF InStep
<1>5. Len(got') + 1 = 1 /\ Len(got') <= Len(sent')
  <2>1. Len(sent') \in Nat
    BY DEF TypeInv
  <2> QED
    BY <1>3, <2>1
<1>6. Ran(at2)'
  BY <1>1, <1>2, <1>4, <1>5 DEF Ran
<1> QED
  BY <1>6 DEF IInv

(* Every step keeps the invariant, if the code of a block can be addressed. *)
LEMMA IInvIsInductive == Addressable /\ IInv /\ [Next]_vars => IInv'
<1> SUFFICES ASSUME Addressable, IInv, [Next]_vars PROVE IInv'
  OBVIOUS
<1>1. TypeInv /\ TypeInv'
  BY TypeInvIsInductive DEF IInv
<1>2. PICK at, late : Laid(at, late) /\ Ran(at)
  BY DEF IInv
<1>3. Layout(at)
  BY <1>2 DEF Laid
<1>4. ASSUME NEW n \in Args, EmitInstruction(n) PROVE IInv'
  <2>1. PICK t : t = <<OP>> \o Arg(n)
    OBVIOUS
  <2>2. /\ phase = "emit" /\ phase' = phase /\ got' = got /\ ip' = ip
        /\ Longer(t, <<OP, n>>) /\ fixups' = fixups
    BY <1>4, <2>1 DEF EmitInstruction, Emit, Longer
  <2>3. Encodable(n)
    <3>1. PICK h \in Int : Power[8] \div 2 = h
      BY PowerEven
    <3> QED
      BY <3>1, BytecodeAssumption DEF Encodable
  <2>4. Says(t, OP, n)
    BY <2>1, <2>3, ArgSays, MarkersFollow
  <2>5. <<OP, n>> \in Sendable
    BY <2>3 DEF Sendable, Encodable
  <2>6. OP # JMP
    BY BytecodeAssumption
  <2>7. \E at2 : Laid(at2, late)'
    BY <1>1, <1>2, <2>2, <2>4, <2>5, <2>6, EmitKeeps
  <2> QED
    BY <1>1, <1>2, <2>2, <2>7, StillEmitting
<1>5. ASSUME NEW l \in Label, EmitBackward(l) PROVE IInv'
  <2>1. PICK c \in Nat : c = Len(code)
    BY <1>1, SentIs
  <2>2. PICK n \in Nat : n = place[l] /\ n <= Len(code) /\ n # Unplaced
    <3>1. place[l] \in {Unplaced} \cup 0 .. c /\ place[l] # Unplaced
      BY <1>1, <1>5, <2>1 DEF TypeInv, EmitBackward
    <3> QED
      BY <2>1, <3>1
  <2>3. PICK t : t = <<JMP>> \o Arg(n)
    OBVIOUS
  <2>4. /\ phase = "emit" /\ phase' = phase /\ got' = got /\ ip' = ip
        /\ Longer(t, <<JMP, l>>) /\ fixups' = fixups
    BY <1>5, <2>2, <2>3 DEF EmitBackward, Emit, Longer
  <2>5. Encodable(n)
    BY <1>1, <1>3, <2>2, CodeSize
  <2>6. Says(t, JMP, n)
    BY <2>3, <2>5, ArgSays, MarkersFollow
  <2>7. <<JMP, l>> \in Sendable
    BY DEF Sendable
  <2>8. \E at2 : Laid(at2, late)'
    BY <1>1, <1>2, <2>2, <2>4, <2>6, <2>7, EmitKeeps
  <2> QED
    BY <1>1, <1>2, <2>4, <2>8, StillEmitting
<1>6. ASSUME NEW l \in Label, EmitForward(l) PROVE IInv'
  <2>1. PICK z \in Seq(Byte) : z = Arg(0)
    BY ArgBytes
  <2>2. Len(z) = 1
    <3>1. 0 \in 0 .. Base - 4
      BY BaseIs
    <3>2. Arg(0) = <<0>>
      BY <3>1, Zenon DEF Arg
    <3> QED
      BY <2>1, <3>2
  <2>3. PICK t : t = <<JMP, VLONG>> \o z \o z \o z \o z
    OBVIOUS
  <2>4. PICK s \in Seq(Byte) : s = <<JMP, VLONG>> /\ Len(s) = 2 /\ s[1] = JMP /\ s[2] = VLONG
    <3>1. JMP \in Byte /\ VLONG \in Byte
      BY MarkersFollow
    <3>2. <<JMP, VLONG>> \in Seq(Byte)
      BY <3>1
    <3> QED
      BY <3>2
  <2>5. t \in Seq(Byte) /\ Len(t) = Len(s) + Len(z) + Len(z) + Len(z) + Len(z) /\ \A i \in 1 .. Len(s) : t[i] = s[i]
    BY <2>3, <2>4
  <2>6. Len(t) = 6
    BY <2>2, <2>4, <2>5
  <2>7. t[1] = JMP /\ t[2] = VLONG
    BY <2>4, <2>5
  <2>8. /\ phase = "emit" /\ phase' = phase /\ got' = got /\ ip' = ip
        /\ Longer(t, <<JMP, l>>) /\ fixups' = Append(fixups, <<l, Len(code) + 2>>)
    BY <1>6, <2>1, <2>3 DEF EmitForward, Emit, Longer
  <2>9. \E at2, late2 : Laid(at2, late2)'
    BY <1>1, <1>2, <2>5, <2>6, <2>7, <2>8, ForwardKeeps
  <2> QED
    BY <1>1, <1>2, <2>8, <2>9, StillEmitting
<1>7. ASSUME NEW l \in Label, PlaceLabel(l) PROVE IInv'
  <2>1. phase = "emit" /\ phase' = phase /\ got' = got /\ ip' = ip
    BY <1>7 DEF PlaceLabel
  <2>2. Laid(at, late)'
    BY <1>1, <1>2, <1>7, PlaceKeeps
  <2> QED
    BY <1>1, <1>2, <2>1, <2>2, StillEmitting
<1>8. ASSUME FinishChunk PROVE IInv'
  <2>1. phase = "emit" /\ phase' = "run" /\ got' = got /\ ip' = ip /\ fixups' = <<>>
    BY <1>8 DEF FinishChunk
  <2>2. Laid(at, {})'
    BY <1>1, <1>2, <1>8, FinishKeeps
  <2>3. at[1] = 0
    BY <1>3 DEF Layout, Starts
  <2>4. got' = <<>> /\ ip' = 0 /\ Len(got') = 0 /\ DOMAIN got' = {}
    BY <1>2, <2>1 DEF Ran
  <2>5. InStep'
    BY <2>4 DEF InStep
  <2>6. Len(got') + 1 = 1 /\ Len(got') <= Len(sent')
    <3>1. Len(sent') \in Nat
      BY <1>1 DEF TypeInv
    <3> QED
      BY <2>4, <3>1
  <2>7. Ran(at)'
    BY <2>1, <2>3, <2>4, <2>5, <2>6 DEF Ran
  <2> QED
    BY <1>1, <2>2, <2>7 DEF IInv
<1>9. ASSUME Execute PROVE IInv'
  <2>1. code' = code /\ sent' = sent /\ place' = place /\ fixups' = fixups
    BY <1>9 DEF Execute
  <2>2. Laid(at, late)'
    BY <1>2, <2>1, LaidSame
  <2>3. Ran(at)'
    BY <1>1, <1>2, <1>9, ExecuteKeeps
  <2> QED
    BY <1>1, <2>2, <2>3 DEF IInv
<1>10. ASSUME Overrun PROVE IInv'
  <2>1. /\ phase = "run" /\ phase' = "overrun" /\ ip < Len(code)
        /\ ip + 2 <= Len(code) => ~(ip + 2 + Following(code[ip + 2]) <= Len(code))
        /\ code' = code /\ sent' = sent /\ place' = place /\ fixups' = fixups /\ ip' = ip /\ got' = got
    <3>1. \A n, f \in Int : n + f > Len(code) => ~(n + f <= Len(code))
      BY <1>1, SentIs
    <3>2. ip + 2 \in Int /\ Following(code[ip + 2]) \in Int
      <4>1. \A f \in {0, 2, 4, 8} : f \in Int
        OBVIOUS
      <4>2. ip + 2 \in Int
        BY <1>1 DEF TypeInv
      <4> QED
        BY <4>1, <4>2, FollowingNat
    <3>3. ip + 2 > Len(code) => ~(ip + 2 <= Len(code))
      BY <1>1, <3>2, SentIs
    <3> QED
      BY <1>10, <3>1, <3>2, <3>3 DEF Overrun
  <2>2. Laid(at, late)'
    BY <1>2, <2>1, LaidSame
  <2>3. \A h : Meant(h)' = Meant(h)
    BY <2>1 DEF Meant
  <2>4. ~Direct
    <3> SUFFICES ASSUME Direct PROVE FALSE
      OBVIOUS
    <3>1. PICK g \in Nat : g = Len(got) /\ g <= Len(sent)
      BY <1>1, <1>2, SentIs DEF Ran
    <3>2. StraightTo(g)
      <4>1. \A h \in 1 .. g : h \in DOMAIN sent
        BY <1>1, <3>1, SentIs
      <4> QED
        BY <4>1 DEF Direct, StraightTo
    <3>3. PICK j \in Nat : j = Len(got) + 1 /\ j - 1 = g
      BY <3>1
    <3>4. fixups = <<>>
      BY <1>2, <2>1 DEF Ran
    <3>5. StraightTo(j - 1)
      BY <3>2, <3>3
    <3>6. /\ j \in 1 .. Len(sent)
          /\ Meant(j) \notin Markers =>
               ip + 2 <= Len(code) /\ ip + 2 + Following(code[ip + 2]) <= Len(code)
      BY <1>1, <1>2, <2>1, <3>3, <3>4, <3>5, NextInstruction
    <3>7. Meant(j) \notin Markers
      BY <1>1, <3>6, SentIs DEF Direct
    <3> QED
      BY <2>1, <3>6, <3>7
  <2>5. ~Direct'
    BY <2>1, <2>3, <2>4 DEF Direct
  <2>6. InStep'
    <3>1. InStep
      BY <1>2 DEF Ran
    <3> QED
      BY <2>1, <2>3, <3>1 DEF InStep, Executed
  <2>7. StraightTo(Len(got))' => ip' = at[Len(got') + 1]
    <3>1. StraightTo(Len(got))' = StraightTo(Len(got))
      BY <2>1, <2>3 DEF StraightTo
    <3> QED
      BY <1>2, <2>1, <3>1 DEF Ran
  <2>8. fixups' = <<>>
    BY <1>2, <2>1 DEF Ran
  <2>9. Ran(at)'
    BY <2>1, <2>5, <2>6, <2>7, <2>8 DEF Ran
  <2> QED
    BY <1>1, <2>2, <2>9 DEF IInv
<1>11. CASE UNCHANGED vars
  <2>1. /\ phase' = phase /\ code' = code /\ sent' = sent /\ place' = place /\ fixups' = fixups
        /\ ip' = ip /\ got' = got
    BY <1>11 DEF vars
  <2>2. Laid(at, late)'
    BY <1>2, <2>1, LaidSame
  <2>3. \A h : Meant(h)' = Meant(h)
    BY <2>1 DEF Meant
  <2>4. InStep'
    <3>1. InStep
      BY <1>2 DEF Ran
    <3> QED
      BY <2>1, <2>3, <3>1 DEF InStep, Executed
  <2>5. Direct' = Direct /\ StraightTo(Len(got))' = StraightTo(Len(got))
    BY <2>1, <2>3 DEF Direct, StraightTo
  <2>6. Ran(at)'
    BY <1>2, <2>1, <2>4, <2>5 DEF Ran
  <2> QED
    BY <1>1, <2>2, <2>6 DEF IInv
<1> QED
  BY <1>4, <1>5, <1>6, <1>7, <1>8, <1>9, <1>10, <1>11 DEF Next

(* The invariant says that execution is in step. *)
LEMMA IInvSays == IInv => InStep /\ RunsToTheEnd
<1> SUFFICES ASSUME IInv PROVE InStep /\ RunsToTheEnd
  OBVIOUS
<1>1. PICK at, late : Laid(at, late) /\ Ran(at)
  BY DEF IInv
<1>2. TypeInv
  BY DEF IInv
<1>3. InStep
  BY <1>1 DEF Ran
<1>4. ASSUME Direct PROVE phase # "overrun" /\ (phase = "run" /\ Len(got) = Len(sent) => ip = Len(code))
  <2>1. phase # "overrun" /\ Len(got) <= Len(sent)
    BY <1>1, <1>4 DEF Ran
  <2>2. ASSUME Len(got) = Len(sent) PROVE ip = Len(code)
    <3>1. StraightTo(Len(got))
      BY <1>2, <1>4, <2>2, SentIs DEF Direct, StraightTo
    <3>2. ip = at[Len(sent) + 1]
      BY <1>1, <2>2, <3>1 DEF Ran
    <3> QED
      BY <1>1, <3>2 DEF Laid, Layout, Starts
  <2> QED
    BY <2>1, <2>2
<1>5. RunsToTheEnd
  BY <1>4 DEF Direct, RunsToTheEnd
<1> QED
  BY <1>3, <1>5

(* InStep holds always: the machine executes the instructions that were *)
(* compiled, up to the first parameter that is the number of a marker   *)
(* (emit_arg against get_param, and the filling in of forward jumps).   *)
THEOREM ExecutedInStep == Addressable => (Spec => []InStep)
<1> SUFFICES ASSUME Addressable PROVE Spec => []InStep
  OBVIOUS
<1>1. IInv /\ [Next]_vars => IInv'
  BY IInvIsInductive
<1> QED
  BY <1>1, IInvAtFirst, IInvSays, PTL DEF Spec

(* RunsToTheEnd holds always: without such a parameter nothing is read past *)
(* the end of the code, and all of it has been executed when as many        *)
(* instructions have been executed as were compiled.                        *)
THEOREM ExecutedToTheEnd == Addressable => (Spec => []RunsToTheEnd)
<1> SUFFICES ASSUME Addressable PROVE Spec => []RunsToTheEnd
  OBVIOUS
<1>1. IInv /\ [Next]_vars => IInv'
  BY IInvIsInductive
<1> QED
  BY <1>1, IInvAtFirst, IInvSays, PTL DEF Spec
===============================================================================
