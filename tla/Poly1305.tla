------------------------------ MODULE Poly1305 ------------------------------
(***************************************************************************)
(* poly1305.c: the polynomial modulo 2^130 - 5 on limbs of 44, 44 and 42   *)
(* bits.  Here the limbs have LimbBits, LimbBits and LimbBits - 2 bits,    *)
(* the modulus is 2^(3 * LimbBits - 2) - 5 and a block has two bits less.  *)
(* No sum or product overflows its word of 64 or 128 bits.                 *)
(***************************************************************************)
EXTENDS Sequences, Bitwise, Evaluation

CONSTANTS
    LimbBits,           \* 44
    PolyBlockSize,      \* 16
    ClampMasks          \* of the limbs of r

Limb == 2 ^ LimbBits
TopLimb == 2 ^ (LimbBits - 2)
BlockBits == 3 * LimbBits - 4                   \* 128
PolyByte == 2 ^ (BlockBits \div PolyBlockSize)
HiBit == 2 ^ (LimbBits - 4)                     \* 2^128 in the highest limb

\* Bytes from the lowest on, as two calls of mem_loadU64 read them.
PolyLoad(in) ==
    LET load[k \in 0 .. Len(in)] ==
            IF k = 0 THEN 0 ELSE load[k - 1] + in[k] * PolyByte ^ (k - 1)
    IN  load[Len(in)]

LimbsOf(x) == <<x % Limb, (x \div Limb) % Limb, (x \div Limb ^ 2) % TopLimb>>

\* _poly1305_blocks: one block.
PolyBlock(self, in, hibit) ==
    LET m  == LimbsOf(PolyLoad(in))
        r  == self.r
        h  == <<self.h[1] + m[1], self.h[2] + m[2], self.h[3] + (m[3] | hibit)>>
        s  == [i \in 1 .. 3 |-> r[i] * 20]
        d1 == h[1] * r[1] + h[2] * s[3] + h[3] * s[2]
        d2 == h[1] * r[2] + h[2] * r[1] + h[3] * s[3] + d1 \div Limb
        d3 == h[1] * r[3] + h[2] * r[2] + h[3] * r[1] + d2 \div Limb
        low == (d1 % Limb) + (d3 \div TopLimb) * 5
    IN  Eager(LAMBDA new : [self EXCEPT !.h = new],
              <<low % Limb, (d2 % Limb) + low \div Limb, d3 % TopLimb>>)

PolyBlocks(self, in, n) ==
    Iterate(LAMBDA p, k : PolyBlock(p, SubSeq(in, k * PolyBlockSize + 1, (k + 1) * PolyBlockSize), HiBit),
            self, n)

\* poly1305_init: key is the clamped r and the pad.
PolyInit(key) ==
    LET r == LimbsOf(PolyLoad(SubSeq(key, 1, PolyBlockSize)))
    IN  [r |-> [i \in 1 .. 3 |-> r[i] & ClampMasks[i]], h |-> <<0, 0, 0>>,
         pad |-> LimbsOf(PolyLoad(SubSeq(key, PolyBlockSize + 1, 2 * PolyBlockSize))),
         buffer |-> [k \in 1 .. PolyBlockSize |-> 0], bufferSize |-> 0]

PolyCopyTo(buffer, offset, in) ==
    [k \in DOMAIN buffer |-> IF k \in offset + 1 .. offset + Len(in) THEN in[k - offset] ELSE buffer[k]]

PolyUpdateBlocks(self, in) ==
    LET n == Len(in) \div PolyBlockSize
    IN  [PolyBlocks(self, in, n) EXCEPT
            !.buffer = PolyCopyTo(@, 0, SubSeq(in, n * PolyBlockSize + 1, Len(in))),
            !.bufferSize = Len(in) % PolyBlockSize]

\* poly1305_update
PolyUpdate(self, in) ==
    LET space  == PolyBlockSize - self.bufferSize
        read   == IF space > Len(in) THEN Len(in) ELSE space
        filled == PolyCopyTo(self.buffer, self.bufferSize, SubSeq(in, 1, read))
    IN  CASE self.bufferSize = 0 -> PolyUpdateBlocks(self, in)
          [] self.bufferSize > 0 /\ read < space ->
                [self EXCEPT !.buffer = filled, !.bufferSize = @ + read]
          [] OTHER -> PolyUpdateBlocks(PolyBlock([self EXCEPT !.buffer = filled], filled, HiBit),
                                       SubSeq(in, read + 1, Len(in)))

\* Half of the carries of poly1305_finish.
FullCarry(h) ==
    LET top == h[3] + h[2] \div Limb
        low == h[1] + (top \div TopLimb) * 5
    IN  <<low % Limb, (h[2] % Limb) + low \div Limb, top % TopLimb>>

\* h - p, if the code finds that it is not negative.  It subtracts 2^43 in the highest
\* limb, where p has 2^42.
MinusP(h) ==
    LET g0 == h[1] + 5
        g1 == h[2] + g0 \div Limb
        g2 == h[3] + g1 \div Limb - 2 * TopLimb
    IN  IF g2 < 0 THEN h ELSE <<g0 % Limb, g1 % Limb, g2>>

\* h + pad, cut to the size of a block.
AddPad(h, pad) ==
    LET a == h[1] + pad[1]
        b == h[2] + pad[2] + a \div Limb
        c == h[3] + pad[3] + b \div Limb
    IN  ((a % Limb) + (b % Limb) * Limb + (c % TopLimb) * Limb ^ 2) % 2 ^ BlockBits

\* The last block has a one behind its last byte.
PolyLast(self) ==
    LET n == self.bufferSize
    IN  IF n = 0 THEN self
        ELSE PolyBlock(self, [k \in 1 .. PolyBlockSize |-> IF k <= n THEN self.buffer[k]
                                                           ELSE IF k = n + 1 THEN 1 ELSE 0], 0)

\* poly1305_finish
PolyFinish(self) ==
    Eager(LAMBDA h : AddPad(MinusP(FullCarry(FullCarry(h))), self.pad), PolyLast(self).h)
=============================================================================
