------------------------------- MODULE X25519 --------------------------------
(***************************************************************************)
(* X25519 (hc/crypto/x25519.c): the Montgomery ladder on the arithmetic of *)
(* Curve25519, for scalars of ScalarBits bits (256 in the code) and the    *)
(* curve's constant A24 (121665, that is (486662 - 2) / 4).                *)
(***************************************************************************)
EXTENDS Curve25519, TLC

CONSTANTS ScalarBits, A24

ASSUME LadderAssumption == ScalarBits \in Nat /\ ScalarBits >= 5 /\ A24 \in Nat

Bit(n, i) == (n \div 2 ^ i) % 2

\* The scalar as x25519 and ed25519_x25519Basepoint use it: the lowest three bits and the
\* highest are cleared and the one below that is set.
Clamp(e) == 8 * ((e % 2 ^ (ScalarBits - 2)) \div 8) + 2 ^ (ScalarBits - 2)

\* One round of the loop of _x25519_mul after the conditional swaps: (x0 : z0) is
\* doubled and (x1 : z1) becomes the sum of both points.
LadderRound(x0, z0, x1, z1, q) ==
    LET sum0  == AddNoReduce(x0, z0)
        diff0 == SubNoReduce(x0, z0)
        b     == Mul(sum0, SubNoReduce(x1, z1))
        a     == SquareN(sum0, 1)
        c     == Mul(AddNoReduce(x1, z1), diff0)
        d     == SquareN(diff0, 1)
        e     == SubNoReduce(a, d)
    IN  [x0 |-> Mul(a, d),
         z0 |-> Mul(e, AddNoReduce(MulScalar(e, A24), a)),
         x1 |-> SquareN(AddNoReduce(c, b), 1),
         z1 |-> Mul(SquareN(SubNoReduce(c, b), 1), q)]

\* Mutated form of LadderStep: the swap of the last round is not undone.
LadderStepKeepsSwap(s, bit, q) ==
    LET x == CSwap(s.x0, s.x1, bit)
        z == CSwap(s.z0, s.z1, bit)
    IN  LadderRound(x[1], z[1], x[2], z[2], q) @@ [swap |-> bit]

LadderStep(s, bit, q) ==
    LET swap == (s.swap + bit) % 2
        x == CSwap(s.x0, s.x1, swap)
        z == CSwap(s.z0, s.z1, swap)
    IN  LadderRound(x[1], z[1], x[2], z[2], q) @@ [swap |-> bit]
=============================================================================
