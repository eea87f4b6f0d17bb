----------------------------- MODULE BigIntegers ----------------------------
(***************************************************************************)
(* data/integer.c: integers.  A handle is the number itself when it is      *)
(* small, else the place of a bigint in the pool, which never gives one     *)
(* back.  A bigint has its pieces, the lowest first, a sign and a count.    *)
(* The operations are functions of the pool, bigs, and return the pool with *)
(* the handle of the result: [bigs, n].  temp_val, where a result is made   *)
(* up, is only the sequence of its pieces.                                  *)
(***************************************************************************)
EXTENDS Integers, Sequences, FiniteSets, FiniteSetsExt

CONSTANTS
    PIECE,     \* BIGINT_PIECE_MAX: the base of the pieces (10^9)
    INT_MAX,   \* SARABANDE_INT_MAX: the largest small number (2^48 - 1)
    WORD       \* the values of a machine word (2^64)

ASSUME PieceAssumption == PIECE \in Nat /\ PIECE > 1
ASSUME SmallAssumption == INT_MAX \in Nat /\ 2 * INT_MAX < PIECE * PIECE
ASSUME WordAssumption  == WORD \in Nat /\ PIECE * PIECE < WORD

Small(i)     == [type |-> "small", i |-> i]
Big(k)       == [type |-> "big", at |-> k]
is_bigint(n) == n.type = "big"

Returned(bigs, n) == [bigs |-> bigs, n |-> n]

int_size(bigs, n) == IF is_bigint(n) THEN Len(bigs[n.at].pieces) ELSE 1

\* A piece, counted from 0.  A small number is one piece, whatever its size;
\* a negative one is read as an unsigned word.
int_piece(bigs, n, i) ==
    IF ~is_bigint(n) THEN IF i = 0 THEN n.i % WORD ELSE 0
    ELSE IF i < Len(bigs[n.at].pieces) THEN bigs[n.at].pieces[i + 1] ELSE 0

int_sign(bigs, n) ==
    IF ~is_bigint(n) THEN IF n.i = 0 THEN 0 ELSE IF n.i < 0 THEN -1 ELSE 1
    ELSE IF \A i \in DOMAIN bigs[n.at].pieces : bigs[n.at].pieces[i] = 0 THEN 0
    ELSE IF bigs[n.at].sign_bit THEN -1 ELSE 1

\* A pool entry is zeroed when it is made: no sign, nobody counted.
new_bigint(bigs, pieces, sign_bit) ==
    Returned(Append(bigs, [refcount |-> 0, sign_bit |-> sign_bit, pieces |-> pieces]), Big(Len(bigs) + 1))

sbInteger_new(bigs, value) ==
    LET magnitude == IF value < 0 THEN -value ELSE value
    IN  IF magnitude <= INT_MAX THEN Returned(bigs, Small(value))
        ELSE new_bigint(bigs, <<magnitude % PIECE, magnitude \div PIECE>>, value < 0)

\* The count wraps at zero; that it never gets there is CountsSuffice.
Counting(bigs, n, by)    == IF is_bigint(n) THEN [bigs EXCEPT ![n.at].refcount = @ + by] ELSE bigs
sbInteger_retain(bigs, n)  == Counting(bigs, n, 1)
sbInteger_release(bigs, n) == Counting(bigs, n, -1)

trim_bigint(pieces) ==
    SubSeq(pieces, 1, Max({0} \cup {i \in DOMAIN pieces : pieces[i] # 0}))

\* An operand that nobody counts is overwritten.
\* Mutant: one that a single variable holds is overwritten as well.
HeldAtMostOnce(bigs, n) == IF is_bigint(n) THEN bigs[n.at].refcount <= 1 ELSE FALSE
Reusable(bigs, n)       == IF is_bigint(n) THEN bigs[n.at].refcount = 0 ELSE FALSE

\* The result goes into an operand if it can, into a new bigint if not: its
\* pieces only, the sign of the result is not kept.
finalize_bigint(bigs, a, b, pieces) ==
    IF Reusable(bigs, a) THEN Returned([bigs EXCEPT ![a.at].pieces = pieces], a)
    ELSE IF Reusable(bigs, b) THEN Returned([bigs EXCEPT ![b.at].pieces = pieces], b)
    ELSE new_bigint(bigs, pieces, FALSE)

\* Piece by piece with what is carried, and one piece more.
\* Mutant: nothing is carried into the piece that only one operand has.
SumPiecesApart(bigs, a, b) ==
    LET size == Max({int_size(bigs, a), int_size(bigs, b)}) + 1
        both == Min({int_size(bigs, a), int_size(bigs, b)})
        digit_sum[i \in 0 .. size - 1] ==
            int_piece(bigs, a, i) + int_piece(bigs, b, i)
            + (IF i = 0 \/ i >= both THEN 0 ELSE digit_sum[i - 1] \div PIECE)
    IN  [i \in 1 .. size |-> digit_sum[i - 1] % PIECE]
SumPieces(bigs, a, b) ==
    LET size == Max({int_size(bigs, a), int_size(bigs, b)}) + 1
        digit_sum[i \in 0 .. size - 1] ==
            int_piece(bigs, a, i) + int_piece(bigs, b, i)
            + (IF i = 0 THEN 0 ELSE digit_sum[i - 1] \div PIECE)
    IN  [i \in 1 .. size |-> digit_sum[i - 1] % PIECE]

\* Every piece of b with every piece of a and one piece more.  A place that
\* is written for several pieces of b keeps the last of them, and what is
\* carried goes on into the next piece of b.
MulPieces(bigs, a, b) ==
    LET asize == int_size(bigs, a)
        row   == asize + 1
        last  == int_size(bigs, b) * row - 1
        digit_sum[t \in 0 .. last] ==
            (int_piece(bigs, a, t % row) * int_piece(bigs, b, t \div row)
             + (IF t = 0 THEN 0 ELSE digit_sum[t - 1] \div PIECE)) % WORD
        writes(k) == {t \in 0 .. last : (t % row) + (t \div row) = k - 1}
    IN  [k \in 1 .. asize + int_size(bigs, b) |->
            IF writes(k) = {} THEN 0 ELSE digit_sum[Max(writes(k))] % PIECE]

CanSum(bigs, a, b) ==
    (is_bigint(a) \/ is_bigint(b)) => int_sign(bigs, a) >= 0 /\ int_sign(bigs, b) >= 0
sbInteger_sum(bigs, a, b) ==
    IF is_bigint(a) \/ is_bigint(b)
    THEN finalize_bigint(bigs, a, b, trim_bigint(SumPieces(bigs, a, b)))
    ELSE sbInteger_new(bigs, a.i + b.i)

CanDiff(a, b) == ~is_bigint(a) /\ ~is_bigint(b)
sbInteger_diff(bigs, a, b) == sbInteger_new(bigs, a.i - b.i)

\* Whether the product of two small numbers is small, as the code asks it:
\* strictly inside of the quotient, which C rounds towards zero.
Quotient(n, d) == IF (n < 0) = (d < 0) THEN (IF n < 0 THEN -n ELSE n) \div (IF d < 0 THEN -d ELSE d)
                  ELSE -((IF n < 0 THEN -n ELSE n) \div (IF d < 0 THEN -d ELSE d))
SmallProduct(a, b) ==
    \/ a = 0
    \/ a > 0 /\ b < Quotient(INT_MAX, a) /\ b > Quotient(-INT_MAX, a)
    \/ a < 0 /\ b < Quotient(-INT_MAX, a) /\ b > Quotient(INT_MAX, a)
IsSmallProduct(a, b) ==
    IF is_bigint(a) \/ is_bigint(b) THEN FALSE ELSE SmallProduct(a.i, b.i)
sbInteger_mul(bigs, a, b) ==
    IF IsSmallProduct(a, b) THEN sbInteger_new(bigs, a.i * b.i)
    ELSE finalize_bigint(bigs, a, b, trim_bigint(MulPieces(bigs, a, b)))

\* The number that is printed: the sign and the pieces, the highest first,
\* each of the others with all its digits.
sbInteger_fprint(bigs, n) ==
    IF ~is_bigint(n) THEN n.i
    ELSE LET pieces == bigs[n.at].pieces
             upto[i \in 0 .. Len(pieces)] ==
                 IF i = 0 THEN 0 ELSE upto[i - 1] * PIECE + pieces[Len(pieces) + 1 - i]
         IN  int_sign(bigs, n) * upto[Len(pieces)]
============================================================================
