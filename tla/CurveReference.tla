--------------------------- MODULE CurveReference ----------------------------
(***************************************************************************)
(* What the curve code is to compute, on integers: the field modulo Prime, *)
(* the group laws of the Edwards curve and of the Montgomery curve         *)
(* b y^2 = x^3 + a x^2 + x, and multiples of points by doubling and        *)
(* adding.                                                                 *)
(***************************************************************************)
EXTENDS Ed25519

AddMod(a, b) == (a + b) % Prime
SubMod(a, b) == (a - b) % Prime

MulMod(a, b) == MulModulo(a, b, Prime)

InvMod(a) == PowModulo(a, Prime - 2, Prime)

\* The value of limbs that need not be reduced.
ValueOf(a, limbs, base) ==
    LET value[i \in 0 .. limbs] ==      \* of the limbs from i up
            IF i = limbs THEN 0 ELSE (((base * value[i + 1]) % Prime) + a[i]) % Prime
    IN  value[0]

FieldValue(a) == ValueOf(a, Limbs, Base)

\* A number of many bytes modulo the group order.
BytesModOrder(in, n) ==
    LET value[i \in 0 .. n] ==
            IF i = n THEN 0 ELSE (((ScalarByte * value[i + 1]) % Order) + in[i]) % Order
    IN  value[0]

-----------------------------------------------------------------------------

EdwardsAdd(p, q) ==
    LET xy == MulMod(p[1], q[2])
        yx == MulMod(p[2], q[1])
        t  == MulMod(CurveD, MulMod(xy, yx))
    IN  <<MulMod(AddMod(xy, yx), InvMod(AddMod(1, t))),
          MulMod(AddMod(MulMod(p[2], q[2]), MulMod(p[1], q[1])), InvMod(SubMod(1, t)))>>

\* k times p for a group with the operation add.
Multiple(k, p, zero, add(_, _)) ==
    LET multiple[n \in 0 .. k] ==
            IF n = 0 THEN zero
            ELSE IF n = 1 THEN p
            ELSE Eager(LAMBDA twice : IF n % 2 = 0 THEN twice ELSE add(p, twice),
                       Eager(LAMBDA half : add(half, half), multiple[n \div 2]))
    IN  multiple[k]

EdwardsMultiple(k, p) == Multiple(k, p, <<0, 1>>, EdwardsAdd)

Encode(p) == p[2] + SignBit * (p[1] % 2)

-----------------------------------------------------------------------------

Infinity == <<>>
MontgomeryA == (4 * A24 + 2) % Prime

\* The right hand side of the curve's equation, which is b for a point (x, 1).
Cubic(x) == MulMod(x, AddMod(MulMod(x, AddMod(x, MontgomeryA)), 1))

\* The sum of p and q on the curve with the constant b.
MontgomeryAdd(b, p, q) ==
    IF p = Infinity THEN q
    ELSE IF q = Infinity THEN p
    ELSE IF p[1] = q[1] /\ AddMod(p[2], q[2]) = 0 THEN Infinity
    ELSE LET slope == IF p = q
                      THEN MulMod(AddMod(AddMod(MulMod(3, MulMod(p[1], p[1])),
                                                MulMod(2, MulMod(MontgomeryA, p[1]))), 1),
                                  InvMod(MulMod(2, MulMod(b, p[2]))))
                      ELSE MulMod(SubMod(q[2], p[2]), InvMod(SubMod(q[1], p[1])))
             x == SubMod(SubMod(SubMod(MulMod(b, MulMod(slope, slope)), MontgomeryA), p[1]), q[1])
         IN  <<x, SubMod(MulMod(slope, SubMod(p[1], x)), p[2])>>

\* k times the point (x, 1) of the curve it is on.
MontgomeryMultiple(k, x) ==
    Multiple(k, <<x, 1>>, Infinity, LAMBDA p, q : MontgomeryAdd(Cubic(x), p, q))
=============================================================================
