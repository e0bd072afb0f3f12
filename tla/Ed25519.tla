------------------------------- MODULE Ed25519 -------------------------------
(***************************************************************************)
(* Ed25519 (hc/crypto/ed25519.c): arithmetic modulo the group order with   *)
(* Barrett's reduction, the signed recodings of a scalar, and the points   *)
(* of the twisted Edwards curve -x^2 + y^2 = 1 + d x^2 y^2.  A scalar has  *)
(* ScalarBytes bytes of ScalarByteBits bits (32 of 8), kept in ModmLimbs limbs   *)
(* of ModmLimbBytes bytes (5 of 7).                                        *)
(***************************************************************************)
EXTENDS X25519, Sequences

CONSTANTS
    ScalarByteBits, ScalarBytes, ModmLimbs, ModmLimbBytes,
    Order,              \* m, the order of the base point
    CurveD, SqrtNeg1,   \* d and a square root of -1
    BaseX, BaseY,       \* the base point
    Hash(_)             \* SHA-512, external: a function from 0 .. 2 * ScalarBytes - 1 to bytes

ASSUME Ed25519Assumption ==
    /\ ScalarBits = ScalarByteBits * ScalarBytes /\ ScalarBits % 4 = 0
    /\ (ModmLimbs - 1) * ModmLimbBytes < ScalarBytes
    /\ ScalarBytes + 1 <= ModmLimbs * ModmLimbBytes
    /\ 2 ^ (ScalarBits - ScalarByteBits) <= Order /\ Order < 2 ^ (ScalarBits - 3)

ScalarByte     == 2 ^ ScalarByteBits
LastLimb     == ModmLimbs - 1
ModmIndex == 0 .. LastLimb
ModmBase == ScalarByte ^ ModmLimbBytes
ModmWord == ModmBase * 2 ^ 8                        \* limbs of 56 bits in words of 64
TopBytes == ScalarBytes - LastLimb * ModmLimbBytes      \* 4
Top      == ScalarByte ^ TopBytes

\* ed25519_modm_m, and ed25519_modm_mu = floor(256^64 / m) by long division.
ModmM == [i \in ModmIndex |-> (Order \div ModmBase ^ i) % ModmBase]

MuBits ==
    LET rest[i \in 0 .. 2 * ScalarBits] ==      \* 2^i mod m
            IF i = 0 THEN 1 ELSE (2 * rest[i - 1]) % Order
    IN  [i \in 0 .. 2 * ScalarBits - 1 |-> (2 * rest[2 * ScalarBits - 1 - i]) \div Order]
ModmMu ==
    LET width == ModmLimbBytes * ScalarByteBits
    IN  [k \in ModmIndex |-> MapThenSumSet(
            LAMBDA j : MuBits[k * width + j] * 2 ^ j, 0 .. width - 1)]

ModmValue(r) == MapThenSumSet(LAMBDA i : r[i] * ModmBase ^ i, ModmIndex)

-----------------------------------------------------------------------------
(***************************************************************************)
(* ed25519_modm                                                            *)
(***************************************************************************)

\* r - s with the borrow running up from the first limb; top is the value of the last
\* limb's borrow.
ModmSub(r, s, top) ==
    LET diff[i \in ModmIndex] ==
            LET borrow == IF i = 0 THEN 0 ELSE diff[i - 1].borrow
                d      == (r[i] - (borrow + s[i])) % ModmWord
                b      == d \div (ModmWord \div 2)
            IN  [borrow |-> b, limb |-> (d + b * (IF i = LastLimb THEN top ELSE ModmBase)) % ModmWord]
    IN  [limbs |-> [i \in ModmIndex |-> diff[i].limb], borrow |-> diff[LastLimb].borrow]

\* ed25519_modm_reduce: subtract m unless r is smaller.
ModmReduce(x) ==
    Eager(LAMBDA r : LET t == ModmSub(r, ModmM, Top) IN IF t.borrow = 1 THEN r ELSE t.limbs, x)

\* The columns first .. 2 * LastLimb of the product of x and y, each with the carry of the
\* one below.
ColumnsOf(x, y, first) ==
    LET column[k \in first .. 2 * LastLimb] ==
            (IF k = first THEN 0 ELSE column[k - 1] \div ModmBase)
              + MapThenSumSet(LAMBDA i : IF k - i \in ModmIndex THEN x[i] * y[k - i] ELSE 0, ModmIndex)
    IN  [k \in first .. 2 * LastLimb |-> column[k]]

Columns(x, y, first) == Eager(LAMBDA xy : ColumnsOf(xy[1], xy[2], first), <<x, y>>)

\* The number in columns from LastLimb up, shifted right by some bytes (fewer than a limb).
ShiftColumns(column, bytes) ==
    LET low(k)  == (column[k] % ModmBase) \div ScalarByte ^ bytes
        high(k) == (column[k + 1] * ScalarByte ^ (ModmLimbBytes - bytes)) % ModmBase
    IN  [i \in ModmIndex |-> IF i = LastLimb THEN column[2 * LastLimb] \div ScalarByte ^ bytes
                             ELSE low(LastLimb + i) + high(LastLimb + i)]

\* The estimate q3 of x / m from q1 = x >> 248; the lowest columns of mu * q1 are left out.
Quotient(q1) == ShiftColumns(Columns(ModmMu, q1, LastLimb - 1), TopBytes + 1)

\* The lowest 264 bits of a product.
LowColumns(column) ==
    [i \in ModmIndex |-> column[i] % (IF i = LastLimb THEN Top * ScalarByte ELSE ModmBase)]

\* ed25519_modm_barrettReduce: x mod m for r1 = x mod 2^264.
BarrettReduce(q1, r1) ==
    Eager(LAMBDA q3 : ModmReduce(ModmReduce(
                          ModmSub(r1, LowColumns(Columns(ModmM, q3, 0)), Top * ScalarByte).limbs)),
          Quotient(q1))

\* ed25519_modm_add
ModmAdd(x, y) ==
    LET sum[i \in ModmIndex] ==
            (IF i = 0 THEN 0 ELSE sum[i - 1] \div ModmBase) + x[i] + y[i]
    IN  ModmReduce([i \in ModmIndex |-> IF i = LastLimb THEN sum[i] ELSE sum[i] % ModmBase])

\* ed25519_modm_mul
ModmMul(x, y) ==
    Eager(LAMBDA c : BarrettReduce(ShiftColumns(c, TopBytes - 1), LowColumns(c)), Columns(x, y, 0))

\* n bytes of in, from offset on, as a number.
BytesAt(in, offset, n) == MapThenSumSet(LAMBDA j : in[offset + j] * ScalarByte ^ j, 0 .. n - 1)

\* ed25519_modm_load of a scalar, and of a hash of twice its size.
ModmLoad(in) ==
    [i \in ModmIndex |-> BytesAt(in, i * ModmLimbBytes, IF i = LastLimb THEN TopBytes ELSE ModmLimbBytes)]

LimbsFrom(in, first) ==
    [i \in ModmIndex |->
        BytesAt(in, first + i * ModmLimbBytes, IF i = LastLimb THEN TopBytes + 1 ELSE ModmLimbBytes)]

ModmLoad64(in) ==
    Eager(LAMBDA hash : BarrettReduce(LimbsFrom(hash, ScalarBytes - 1), LimbsFrom(hash, 0)), in)

\* ed25519_modm_store
ModmStore(r) == [j \in 0 .. ScalarBytes - 1 |->
    (r[j \div ModmLimbBytes] \div ScalarByte ^ (j % ModmLimbBytes)) % ScalarByte]

-----------------------------------------------------------------------------
(***************************************************************************)
(* Signed recodings of a scalar.                                           *)
(***************************************************************************)

Digits == ScalarBits \div 4     \* 64

\* _ed25519_modm_window4: digits from -8 to 7 of base 16; the last one keeps its carry.
Window4(s) ==
    LET quad(i) == (ModmValue(s) \div 16 ^ i) % 16
        digit[i \in 0 .. Digits - 1] ==
            LET d == quad(i) + (IF i = 0 THEN 0 ELSE digit[i - 1].carry)
            IN  [carry |-> d \div 16 + (d % 16) \div 8,
                 value |-> (d % 16) - 16 * ((d % 16) \div 8), whole |-> d]
    IN  [i \in 0 .. Digits - 1 |-> IF i = Digits - 1 THEN digit[i].whole ELSE digit[i].value]

BitIndex == 0 .. ScalarBits - 1

\* Mutated form of CarryUp: the carry does not go past the next bit.
CarryUpOnce(r, k) == [r EXCEPT ![k] = 1 - r[k]]

\* The carry of ed25519_modm_window: ones from k up become zeros and the first zero a
\* one; a carry out of the last bit is lost.
CarryUp(r, k) ==
    LET zeros == {n \in BitIndex : n >= k /\ r[n] = 0}
        first == IF zeros = {} THEN ScalarBits ELSE Min(zeros)
    IN  [n \in BitIndex |-> IF n = first THEN 1 ELSE IF n \in k .. first - 1 THEN 0 ELSE r[n]]

\* The inner loop of ed25519_modm_window at bit j: bits above j are drawn into r[j]
\* while it stays within m.
DrawIn(r, j, m) ==
    LET end == Min({ScalarBits - j, 7})
        drawn[b \in 0 .. end - 1] ==
            IF b = 0 THEN [r |-> r, stop |-> FALSE]
            ELSE LET s    == drawn[b - 1]
                     plus == s.r[j] + s.r[j + b] * 2 ^ b
                     less == s.r[j] - s.r[j + b] * 2 ^ b
                 IN  IF s.stop THEN s
                     ELSE IF plus <= m THEN [s EXCEPT !.r = [@ EXCEPT ![j] = plus, ![j + b] = 0]]
                     ELSE IF less >= -m THEN [s EXCEPT !.r = CarryUp([@ EXCEPT ![j] = less], j + b)]
                     ELSE [s EXCEPT !.stop = s.r[j + b] # 0]
    IN  drawn[end - 1].r

\* ed25519_modm_window: a sliding window of odd digits within m.
Window(s, m) ==
    LET slid[j \in 0 .. ScalarBits] ==
            IF j = 0 THEN [i \in BitIndex |-> Bit(ModmValue(s), i)]
            ELSE LET r == slid[j - 1] IN IF r[j - 1] = 0 THEN r ELSE DrawIn(r, j - 1, m)
    IN  slid[ScalarBits]

-----------------------------------------------------------------------------
(***************************************************************************)
(* ed25519_ge: points.  struct ed25519_ge is (X : Y : Z) with T = XY / Z,  *)
(* p1p1 is ((X : Z), (Y : T)), niels is (y - x, y + x, 2dxy).              *)
(***************************************************************************)

Ecd  == Load(CurveD)
Ec2d == Load((2 * CurveD) % Prime)

P1p1ToPartial(p, t) == [x |-> Mul(p.x, p.t), y |-> Mul(p.y, p.z), z |-> Mul(p.z, p.t), t |-> t]

P1p1ToFull(p) ==
    [x |-> Mul(p.x, p.t), y |-> Mul(p.y, p.z), z |-> Mul(p.z, p.t), t |-> Mul(p.x, p.y)]

FullToPniels(r) ==
    [ysubx |-> SubNoReduce(r.y, r.x), xaddy |-> AddNoReduce(r.y, r.x), z |-> r.z, t2d |-> Mul(r.t, Ec2d)]

DoubleP1p1(p) ==
    LET a == SquareN(p.x, 1)
        b == SquareN(p.y, 1)
        c == SquareN(p.z, 1)
        y == AddNoReduce(b, a)
        z == SubNoReduce(b, a)
    IN  [x |-> SubNoReduceFourP(SquareN(AddNoReduce(p.x, p.y), 1), y), y |-> y, z |-> z,
         t |-> SubNoReduceFourP(Add(c, c), z)]

\* The common part of the two additions: q or -q by its sign, twoZ = 2 * Z1 * Z2.
AddP1p1(p, q, signbit, twoZ) ==
    LET a == Mul(SubNoReduce(p.y, p.x), IF signbit = 0 THEN q.ysubx ELSE q.xaddy)
        b == Mul(AddNoReduce(p.y, p.x), IF signbit = 0 THEN q.xaddy ELSE q.ysubx)
        c == Mul(p.t, q.t2d)
    IN  [x |-> SubNoReduce(b, a), y |-> AddNoReduce(b, a),
         z |-> IF signbit = 0 THEN AddNoReduce(twoZ, c) ELSE SubNoReduce(twoZ, c),
         t |-> IF signbit = 0 THEN SubNoReduce(twoZ, c) ELSE AddNoReduce(twoZ, c)]

NielsAddP1p1(p, q, signbit) == AddP1p1(p, q, signbit, Add(p.z, p.z))

PnielsAddP1p1(p, q, signbit) ==
    LET zz == Mul(p.z, q.z) IN AddP1p1(p, q, signbit, Add(zz, zz))

\* A partial result keeps the old T, which a doubling does not read.
DoublePartial(p) == P1p1ToPartial(DoubleP1p1(p), p.t)

Double(p) == P1p1ToFull(DoubleP1p1(p))

\* ed25519_ge_nielsAdd
NielsAdd(r, q) ==
    LET a == Mul(SubNoReduce(r.y, r.x), q.ysubx)
        b == Mul(AddNoReduce(r.y, r.x), q.xaddy)
        h == AddNoReduce(b, a)
        e == SubNoReduce(b, a)
        c == Mul(r.t, q.t2d)
        zz == AddNoReduce(r.z, r.z)
        g == AddNoReduce(zz, c)
        f == SubNoReduce(zz, c)
    IN  [x |-> Mul(e, f), y |-> Mul(h, g), z |-> Mul(g, f), t |-> Mul(e, h)]

\* ed25519_ge_pnielsAdd
PnielsAdd(p, q) ==
    LET a == Mul(SubNoReduce(p.y, p.x), q.ysubx)
        b == Mul(AddNoReduce(p.y, p.x), q.xaddy)
        y == AddNoReduce(b, a)
        x == SubNoReduce(b, a)
        c == Mul(p.t, q.t2d)
        zz == Mul(p.z, q.z)
        z == AddNoReduce(AddNoReduce(zz, zz), c)
        t == SubNoReduce(AddNoReduce(zz, zz), c)
        sumX == Mul(x, t)
        sumY == Mul(y, z)
    IN  [ysubx |-> SubNoReduce(sumY, sumX), xaddy |-> AddNoReduce(sumX, sumY), z |-> Mul(z, t),
         t2d |-> Mul(Mul(x, y), Ec2d)]

Neutral == [x |-> Zero, y |-> Load(1), z |-> Load(1), t |-> Zero]

\* ed25519_ge_pack: y, and the parity of x in the bit above.
SignBit == 2 ^ (Limbs * Width)

Pack(p) ==
    LET zi == Invert(p.z)
        x  == Reduce(Mul(p.x, zi))
    IN  Store(Reduce(Mul(p.y, zi))) + SignBit * (x[0] % 2)

IsZero(a) == Reduce(a) = Zero

\* A root of num / den, if there is one, or else SqrtNeg1 times too much.
RootCandidate(num, den) ==
    LET d3 == Mul(SquareN(den, 1), den)
    IN  Mul(Mul(PowTwo252m3(Mul(Mul(SquareN(d3, 1), den), num)), d3), num)

\* The affine point of y and a candidate for x, t = den x^2; negate by the parity of x.
FromCandidate(y, candidate, t, num, negate(_)) ==
    LET root == Reduce(IF IsZero(SubNoReduceFourP(t, num)) THEN candidate
                       ELSE Mul(candidate, Load(SqrtNeg1)))
        x == IF negate(root[0] % 2) THEN Sub(Zero, root) ELSE root
    IN  [ok |-> IsZero(SubNoReduceFourP(t, num)) \/ IsZero(AddNoReduce(t, num)),
         point |-> [x |-> x, y |-> y, z |-> Load(1), t |-> Mul(x, y)]]

UnpackOf(y, num, den, negate(_)) ==
    Eager(LAMBDA x : FromCandidate(y, x, Mul(SquareN(x, 1), den), num, negate), RootCandidate(num, den))

UnpackWith(y, yy, negate(_)) ==
    UnpackOf(y, SubNoReduce(yy, Load(1)), AddNoReduce(Mul(yy, Ecd), Load(1)), negate)

\* ed25519_ge_unpackNegativeVartime: x = sqrt(num / den) of the other parity, if there
\* is a root.
UnpackNegative(in) ==
    UnpackWith(Load(in), SquareN(Load(in), 1), LAMBDA parity : parity = in \div SignBit)
=============================================================================
