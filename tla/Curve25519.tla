----------------------------- MODULE Curve25519 ------------------------------
(***************************************************************************)
(* Arithmetic modulo p = 2^255 - 19 on five limbs of 51 bits               *)
(* (hc/crypto/curve25519.c).  The number of limbs, their width and the     *)
(* constant 19 are parameters: p = 2^(Limbs * Width) - Fold.  Words are    *)
(* Slack bits wider than a limb (13 bits in the code) and wrap around.     *)
(* The code is unrolled; here a carry runs through a recursive function.   *)
(***************************************************************************)
EXTENDS Integers, FiniteSetsExt, Evaluation

CONSTANTS
    Limbs,      \* 5
    Width,      \* 51
    Fold,       \* 19
    Slack       \* 13

Base == 2 ^ Width
LimbWord == 2 ^ (Width + Slack)
Index == 0 .. Limbs - 1

ASSUME CurveAssumption ==
    /\ Limbs \in Nat \ {0, 1} /\ Width \in Nat \ {0} /\ Slack \in Nat
    /\ Fold \in 1 .. Base \div 2

Zero == [i \in Index |-> 0]

\* The limb i of the constant k * p that a subtraction adds to stay positive.
MultipleOfP(k, i) == k * (Base - (IF i = 0 THEN Fold ELSE 1))

-----------------------------------------------------------------------------
(***************************************************************************)
(* Loading, storing and carrying.                                          *)
(***************************************************************************)

\* curve25519_load: the bits above the last limb are ignored.  The value is split where the
\* limbs of this size end; the byte offsets and shifts of curve25519.c:11-15 are not modelled.
Load(in) == [i \in Index |-> (in \div Base ^ i) % Base]

\* curve25519_store, of a fully reduced number.
Store(a) == MapThenSumSet(LAMBDA i : a[i] * Base ^ i, Index)

\* The carry into each limb, and out of the last one, when t is carried once.
Carries(t) ==
    LET carry[i \in 0 .. Limbs] ==
            IF i = 0 THEN 0 ELSE ((t[i - 1] + carry[i - 1]) \div Base) % LimbWord
    IN  carry

\* One pass of carries; what leaves the last limb comes back times 19, as 2^255 = 19.
CarryOnce(t) ==
    LET carry == Carries(t)
        low   == [i \in Index |-> (t[i] + carry[i]) % Base]
    IN  [low EXCEPT ![0] = (@ + Fold * carry[Limbs]) % LimbWord]

\* curve25519_reduce: two passes, then 19 is added and, after a third pass, taken off
\* again as 2^255 - 19 with the carry out of the last limb dropped.
Reduce(a) ==
    LET once   == CarryOnce(CarryOnce(a))
        offset == CarryOnce([once EXCEPT ![0] = (@ + Fold) % LimbWord])
        whole  == [i \in Index |-> (offset[i] + MultipleOfP(1, i)) % LimbWord]
        carry  == Carries(whole)
    IN  [i \in Index |-> (whole[i] + carry[i]) % Base]

-----------------------------------------------------------------------------
(***************************************************************************)
(* Powers on integers.  Factors are split at 2^10: with a modulus below    *)
(* 2^20 no product leaves TLC's integers.                                  *)
(***************************************************************************)

Prime == Base ^ Limbs - Fold

MulModulo(a, b, m) ==
    LET high == (((a * (b \div 1024)) % m) * 1024) % m IN (high + ((a * (b % 1024)) % m)) % m

PowModulo(a, e, m) ==
    LET power[n \in 0 .. e] ==
            IF n = 0 THEN 1
            ELSE Eager(LAMBDA half : MulModulo(IF n % 2 = 0 THEN 1 ELSE a, MulModulo(half, half, m), m),
                       power[n \div 2])
    IN  power[e]

-----------------------------------------------------------------------------
(***************************************************************************)
(* The operations of the field.                                            *)
(***************************************************************************)

\* curve25519_cSwap
CSwap(a, b, shouldSwap) == IF shouldSwap = 1 THEN <<b, a>> ELSE <<a, b>>

AddNoReduce(a, b) == [i \in Index |-> (a[i] + b[i]) % LimbWord]

Add(a, b) == CarryOnce(AddNoReduce(a, b))

SubNoReduce(a, b) == [i \in Index |-> (a[i] + MultipleOfP(2, i) - b[i]) % LimbWord]

SubNoReduceFourP(a, b) == [i \in Index |-> (a[i] + MultipleOfP(4, i) - b[i]) % LimbWord]

Sub(a, b) == CarryOnce(SubNoReduce(a, b))

\* curve25519_mulScalar
MulScalar(a, scalar) == CarryOnce([i \in Index |-> a[i] * scalar])

\* The last lines of curve25519_mul and curve25519_squareN: the first limb, which the
\* fold may have filled, is carried once more.
CarryProduct(t) ==
    LET r == CarryOnce(t)
    IN  [r EXCEPT ![0] = @ % Base, ![1] = @ + r[0] \div Base]

\* curve25519_mul: the columns of the product, those past the last limb times 19.
MulColumns(a, b) ==
    LET low(k)  == MapThenSumSet(LAMBDA i : b[i] * a[k - i], 0 .. k)
        high(k) == MapThenSumSet(LAMBDA i : ((b[i] * Fold) % LimbWord) * a[k + Limbs - i],
                                 (k + 1) .. (Limbs - 1))
    IN  [k \in Index |-> low(k) + high(k)]

Mul(a, b) == Eager(LAMBDA x : Eager(CarryProduct, MulColumns(x[1], x[2])), <<a, b>>)

\* One round of curve25519_squareN: every product of two limbs once, doubled.
SquareColumns(r) ==
    LET twice(S) == MapThenSumSet(LAMBDA e : ((2 * r[e[1]]) % LimbWord) * r[e[2]], S)
        fold(S)  == MapThenSumSet(LAMBDA e : r[e[1]] * ((2 * Fold * r[e[2]]) % LimbWord), S)
        pairs(n) == {e \in Index \X Index : e[1] < e[2] /\ e[1] + e[2] = n}
        diagonal(k) == MapThenSumSet(
            LAMBDA i : IF 2 * i = k THEN r[i] * r[i]
                       ELSE IF 2 * i = k + Limbs THEN r[i] * ((r[i] * Fold) % LimbWord) ELSE 0, Index)
    IN  [k \in Index |-> twice(pairs(k)) + fold(pairs(k + Limbs)) + diagonal(k)]

Square(a) == Eager(LAMBDA r : Eager(CarryProduct, SquareColumns(r)), a)

SquareN(a, n) ==
    LET round[i \in 0 .. n] == IF i = 0 THEN a ELSE Square(round[i - 1]) IN round[n]

\* The exponents modulo m of what curve25519_squareN and curve25519_mul compute: a squaring
\* doubles the exponent and a multiplication adds two.
DoubleN(m, e, n) == (e * PowModulo(2, n, m)) % m

\* _curve25519_pow11PowTwo250mtwo0: the exponents 11 and 2^250 - 1.
PowerChain(m) ==
    LET sq(e, n)  == DoubleN(m, e, n)
        mul(e, f) == (e + f) % m
        p2   == sq(1, 1)
        p9   == mul(sq(p2, 2), 1)
        p11  == mul(p9, p2)
        b5   == mul(sq(p11, 1), p9)
        b10  == mul(sq(b5, 5), b5)
        b20  == mul(sq(b10, 10), b10)
        b40  == mul(sq(b20, 20), b20)
        b50  == mul(sq(b40, 10), b10)
        b100 == mul(sq(b50, 50), b50)
        b200 == mul(sq(b100, 100), b100)
    IN  <<p11, mul(sq(b200, 50), b50)>>

\* The exponents that curve25519_invert and curve25519_powTwo252m3 raise to, modulo m.
InvertExponent(m) == (DoubleN(m, PowerChain(m)[2], 5) + PowerChain(m)[1]) % m

RootExponent(m) == (DoubleN(m, PowerChain(m)[2], 2) + 1) % m

\* curve25519_invert and curve25519_powTwo252m3 for the modelled prime, whose exponents
\* p - 2 and (p - 5) / 8 are not those of the chain.
Invert(z) == Load(PowModulo(Store(Reduce(z)), Prime - 2, Prime))

PowTwo252m3(z) == Load(PowModulo(Store(Reduce(z)), (Prime - 5) \div 8, Prime))
=============================================================================
