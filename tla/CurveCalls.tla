----------------------------- MODULE CurveCalls ------------------------------
(***************************************************************************)
(* Calls of x25519, ed25519_x25519Basepoint and of ed25519_public,         *)
(* ed25519_sign and ed25519_verify one after the other (hc/crypto/         *)
(* x25519.c, ed25519.c).  A step is one round of a loop over the scalar,   *)
(* so that what a loop keeps true can be stated.                           *)
(***************************************************************************)
EXTENDS CurveReference

CONSTANTS
    Secrets,        \* scalars of x25519 and of ed25519_x25519Basepoint
    Publics,        \* x coordinates given to x25519
    Signers,        \* secrets of ed25519
    Messages,
    FieldInputs,    \* numbers of five limbs for the field's operations
    FieldSeconds,   \* their second operands
    Forgeries       \* changes made to a signature before it is verified, "none" among them

VARIABLES
    call,       \* the call: its operation and arguments
    pc,         \* the loop that runs next
    i,          \* its counter
    ladder,     \* x0, z0, x1, z1 and swap of _x25519_mul
    scalar,     \* the scalar of a multiplication of the base point, as limbs
    point,      \* r of the loops over points
    pre,        \* pre1 of ed25519_ge_doubleScalarmultVartime
    slides,     \* slide1 and slide2
    public,     \* the public key
    signature,  \* its R and S
    result      \* what the call returns

curveVars == <<call, pc, i, ladder, scalar, point, pre, slides, public, signature, result>>

Calls ==
    [op : {"x25519"}, secret : Secrets, public : Publics]
      \cup [op : {"basepoint"}, secret : Secrets]
      \cup [op : {"sign"}, secret : Signers, message : Messages, forgery : Forgeries]
      \cup [op : {"field"}, a : FieldInputs, b : FieldSeconds]

NoValue == -1

\* _ed25519_extSecret: the clamped scalar and the bytes that hide r.
ExtSecret(secret) ==
    LET h == Hash(<<secret>>) IN
    [a   |-> Clamp(BytesAt(h, 0, ScalarBytes)), hide |-> BytesAt(h, ScalarBytes, ScalarBytes)]

BytesOf(n) == [j \in 0 .. ScalarBytes - 1 |-> (n \div ScalarByte ^ j) % ScalarByte]
Limbed(n) == ModmLoad(BytesOf(n))

Start(c) ==
    CASE c.op = "x25519"    -> [pc |-> "ladder", scalar |-> Limbed(0)]
      [] c.op = "basepoint" -> [pc |-> "first", scalar |-> Limbed(Clamp(c.secret))]
      [] c.op \in {"field", "none"} -> [pc |-> "done", scalar |-> Limbed(0)]
      [] c.op = "sign"      -> [pc |-> "first", scalar |-> Limbed(ExtSecret(c.secret).a)]

CurveInit(calls) ==
    /\ call \in calls
    /\ pc = Start(call).pc /\ i = 0
    /\ ladder = [x0 |-> Load(1), z0 |-> Zero, z1 |-> Load(1), swap |-> 0,
                 x1 |-> Load(IF call.op = "x25519" THEN call.public ELSE 0)]
    /\ scalar = Start(call).scalar
    /\ point = Neutral /\ pre = <<>> /\ slides = <<>>
    /\ public = NoValue /\ signature = <<>> /\ result = NoValue

-----------------------------------------------------------------------------
(***************************************************************************)
(* x25519                                                                  *)
(***************************************************************************)

LadderLoop ==
    /\ pc = "ladder" /\ i < ScalarBits
    /\ i' = i + 1
    /\ ladder' = LadderStep(ladder, Bit(Clamp(call.secret), ScalarBits - 1 - i), Load(call.public))
    /\ UNCHANGED <<call, pc, scalar, point, pre, slides, public, signature, result>>

LadderDone ==
    LET x == CSwap(ladder.x0, ladder.x1, ladder.swap)[1]
        z == CSwap(ladder.z0, ladder.z1, ladder.swap)[1]
    IN
    /\ pc = "ladder" /\ i = ScalarBits
    /\ pc' = "done"
    /\ result' = Store(Reduce(Mul(x, Invert(z))))
    /\ UNCHANGED <<call, i, ladder, scalar, point, pre, slides, public, signature>>

-----------------------------------------------------------------------------
(***************************************************************************)
(* ed25519_ge_scalarmultBaseNiels                                          *)
(***************************************************************************)

\* A point as niels.  The first rows of the packed table hold 2xy instead of 2dxy, as
\* the first addition needs it.
Niels(p, factor) ==
    [ysubx |-> Load(SubMod(p[2], p[1])), xaddy |-> Load(AddMod(p[2], p[1])),
     t2d |-> Load(MulMod(factor, MulMod(2, MulMod(p[1], p[2]))))]

BasePoint == <<BaseX, BaseY>>

\* ed25519_ge_nielsBaseMultiples: 1 to 8 times 256^pos times the base point, from the group
\* law: the numbers of the source's table are not checked.
NielsBaseMultiples ==
    [pos \in 0 .. Digits \div 2 |-> [n \in 1 .. 8 |->
        Niels(EdwardsMultiple(n, EdwardsMultiple(256 ^ pos, BasePoint)), IF pos = 0 THEN 1 ELSE CurveD)]]

\* ed25519_ge_nielsSlidingMultiples: the odd multiples up to 63, from the group law too.
NielsSlidingMultiples == [n \in 0 .. 31 |-> Niels(EdwardsMultiple(2 * n + 1, BasePoint), CurveD)]

Magnitude(b) == IF b < 0 THEN -b ELSE b

\* _ed25519_ge_scalarmultBaseChooseNiels
ChooseNiels(pos, b) ==
    LET one == [ysubx |-> Load(1), xaddy |-> Load(1), t2d |-> Zero]
        t   == IF b = 0 THEN one ELSE NielsBaseMultiples[pos][Magnitude(b)]
    IN  IF b >= 0 THEN t
        ELSE [ysubx |-> t.xaddy, xaddy |-> t.ysubx, t2d |-> Sub(Zero, t.t2d)]

\* The digit 1 starts the sum of the odd digits.
BaseFirst ==
    LET t == ChooseNiels(0, Window4(scalar)[1]) IN
    /\ pc = "first"
    /\ pc' = "odd" /\ i' = 3
    /\ point' = [x |-> Sub(t.xaddy, t.ysubx), y |-> Add(t.xaddy, t.ysubx), z |-> Load(2), t |-> t.t2d]
    /\ UNCHANGED <<call, ladder, scalar, pre, slides, public, signature, result>>

BaseOdd ==
    /\ pc = "odd" /\ i < Digits
    /\ i' = Min({i + 2, Digits})
    /\ point' = NielsAdd(point, ChooseNiels(i \div 2, Window4(scalar)[i]))
    /\ UNCHANGED <<call, pc, ladder, scalar, pre, slides, public, signature, result>>

\* Sixteen times the sum of the odd digits: three doublings that leave T and a full one.
BaseSixteen ==
    /\ pc = "odd" /\ i >= Digits /\ i < Digits + 4
    /\ i' = i + 1
    /\ point' = IF i < Digits + 3 THEN DoublePartial(point) ELSE Double(point)
    /\ UNCHANGED <<call, pc, ladder, scalar, pre, slides, public, signature, result>>

\* The digit 0, whose table rows lack the factor d.
BaseZero ==
    LET t == ChooseNiels(0, Window4(scalar)[0]) IN
    /\ pc = "odd" /\ i = Digits + 4
    /\ pc' = "even" /\ i' = 2
    /\ point' = NielsAdd(point, [t EXCEPT !.t2d = Mul(@, Ecd)])
    /\ UNCHANGED <<call, ladder, scalar, pre, slides, public, signature, result>>

BaseEven ==
    /\ pc = "even" /\ i < Digits
    /\ i' = i + 2
    /\ point' = NielsAdd(point, ChooseNiels(i \div 2, Window4(scalar)[i]))
    /\ UNCHANGED <<call, pc, ladder, scalar, pre, slides, public, signature, result>>

BaseDone == pc = "even" /\ i >= Digits

\* ed25519_x25519Basepoint: u = (y + z) / (z - y).
BasepointDone ==
    /\ call.op = "basepoint" /\ BaseDone
    /\ pc' = "done"
    /\ result' = Store(Reduce(Mul(AddNoReduce(point.y, point.z), Invert(SubNoReduce(point.z, point.y)))))
    /\ UNCHANGED <<call, i, ladder, scalar, point, pre, slides, public, signature>>

-----------------------------------------------------------------------------
(***************************************************************************)
(* ed25519_public, ed25519_sign and ed25519_verify                         *)
(***************************************************************************)

\* The secret r of a signature.
R(secret, message) == ModmLoad64(Hash(<<ExtSecret(secret).hide, message>>))

\* ed25519_public packs A; ed25519_sign starts with R = rB.
PublicDone ==
    /\ call.op = "sign" /\ public = NoValue /\ BaseDone
    /\ public' = Pack(point)
    /\ pc' = "first" /\ i' = 0
    /\ scalar' = R(call.secret, call.message)
    /\ UNCHANGED <<call, ladder, point, pre, slides, signature, result>>

\* _ed25519_hram
Hram(encodedR, encodedA, message) == ModmLoad64(Hash(<<encodedR, encodedA, message>>))

\* S = r + H(R, A, message) a
SignS(encodedR, a, r) == ModmAdd(ModmMul(Hram(encodedR, public, call.message), Limbed(a)), r)

\* ed25519_sign: the signature is complete.  What is verified may have been changed.
SignDone ==
    /\ call.op = "sign" /\ public # NoValue /\ pc = "even" /\ i >= Digits
    /\ pc' = "unpack"
    /\ \E encodedR \in {Pack(point)} :
       \E S \in {ModmStore(SignS(encodedR, ExtSecret(call.secret).a, scalar))} :
          signature' = [r |-> IF call.forgery = "r" THEN (encodedR + 1) % SignBit ELSE encodedR,
                        s |-> CASE call.forgery = "s"   -> [S EXCEPT ![0] = (@ + 1) % ScalarByte]
                                [] call.forgery = "order"  -> BytesOf(BytesAt(S, 0, ScalarBytes) + Order)
                                [] call.forgery = "orders" -> BytesOf(BytesAt(S, 0, ScalarBytes) + 2 * Order)
                                [] OTHER -> S]
    /\ UNCHANGED <<call, i, ladder, scalar, point, pre, slides, public, result>>

\* The message that is verified, and the key.
Verified == IF call.forgery = "message" THEN (call.message + 1) ELSE call.message
VerifiedKey == IF call.forgery = "key" THEN (public + SignBit) % (2 * SignBit) ELSE public

\* The bits of S that ed25519_verify wants to be 0, from 253 on: those of twice the
\* power of two that m is next to.
SBound == 2 ^ (Limbs * Width - 2)

\* ed25519_verify up to the loop: the highest bits of S, -A, the sliding windows.  S may
\* be as large as m, or larger.
VerifyStarts ==
    LET A == UnpackNegative(VerifiedKey)
        S == signature.s
        accepted == BytesAt(S, 0, ScalarBytes) < SBound /\ A.ok
    IN
    /\ pc = "unpack"
    /\ pc' = IF accepted THEN "precompute" ELSE "done"
    /\ result' = IF accepted THEN NoValue ELSE 1
    /\ slides' = IF accepted
                   THEN <<Window(Hram(signature.r, VerifiedKey, Verified), 15), Window(ModmLoad(S), 63)>>
                   ELSE <<>>
    /\ point' = IF accepted THEN A.point ELSE point
    /\ UNCHANGED <<call, i, ladder, scalar, pre, public, signature>>

\* pre1: -A, -3A, -5A, ..., -15A.
Precompute ==
    /\ pc = "precompute" /\ Len(pre) < 8
    /\ pre' = Append(pre, IF pre = <<>> THEN FullToPniels(point)
                          ELSE PnielsAdd(Double(point), pre[Len(pre)]))
    /\ UNCHANGED <<call, pc, i, ladder, scalar, point, slides, public, signature, result>>

\* The highest bit that is set in a window.
PrecomputeDone ==
    /\ pc = "precompute" /\ Len(pre) = 8
    /\ pc' = "double" /\ point' = Neutral
    /\ i' = Max({n \in BitIndex : slides[1][n] # 0 \/ slides[2][n] # 0} \cup {-1})
    /\ UNCHANGED <<call, ladder, scalar, pre, slides, public, signature, result>>

\* Whether to subtract an entry: the sign of a digit.
Sign(d) == IF d < 0 THEN 1 ELSE 0

\* Mutated form of AddPublic: the table holds the odd multiples only, and is indexed as
\* if it held all of them.
AddPublicUnhalved(t, digit) ==
    IF digit = 0 THEN t
    ELSE PnielsAddP1p1(P1p1ToFull(t), pre[(Magnitude(digit) % 8) + 1], Sign(digit))

\* The additions of a round for the digits of the two scalars.
AddPublic(t, digit) ==
    IF digit = 0 THEN t
    ELSE PnielsAddP1p1(P1p1ToFull(t), pre[(Magnitude(digit) \div 2) + 1], Sign(digit))

AddBase(t, digit) ==
    IF digit = 0 THEN t
    ELSE NielsAddP1p1(P1p1ToFull(t), NielsSlidingMultiples[Magnitude(digit) \div 2], Sign(digit))

\* One round of ed25519_ge_doubleScalarmultVartime; T is not read before it is computed
\* again.
DoubleAdd(r, d1, d2) == P1p1ToPartial(AddBase(AddPublic(DoubleP1p1(r), d1), d2), r.t)

DoubleLoop ==
    /\ pc = "double" /\ i >= 0
    /\ i' = i - 1
    /\ point' = DoubleAdd(point, slides[1][i], slides[2][i])
    /\ UNCHANGED <<call, pc, ladder, scalar, pre, slides, public, signature, result>>

\* R = SB - H(R, A, message)A?
VerifyDone ==
    /\ pc = "double" /\ i < 0
    /\ pc' = "done"
    /\ result' = IF Pack(point) = signature.r THEN 0 ELSE 1
    /\ UNCHANGED <<call, i, ladder, scalar, point, pre, slides, public, signature>>

\* No call at all.
CurveIdle == CurveInit({[op |-> "none"]})

-----------------------------------------------------------------------------
(***************************************************************************)
(* Properties.                                                             *)
(***************************************************************************)

\* The code's five limbs, of four bits each.
Five == INSTANCE Curve25519 WITH Limbs <- 5, Width <- 4

FiveValue(a) == ValueOf(a, 5, 16)

\* On unreduced limbs every operation of curve25519.c computes what it should modulo p,
\* curve25519_reduce returns the one representative below p, and the addition chain of
\* curve25519_invert and curve25519_powTwo252m3 has the exponents 2^255 - 21 and 2^252 - 3.
FieldArithmeticExact ==
    call.op = "field" =>
        LET a == call.a
            b == call.b
            x == FiveValue(a)
            y == FiveValue(b)
        IN
        /\ \A r \in {a, Five!Mul(a, b), Five!SubNoReduceFourP(a, b)} :
              Five!Store(Five!Reduce(r)) = FiveValue(r)
        /\ FiveValue(Five!Mul(a, b)) = MulMod(x, y)
        /\ FiveValue(Five!SquareN(a, 2)) = MulMod(MulMod(x, x), MulMod(x, x))
        /\ FiveValue(Five!Add(a, b)) = AddMod(x, y)
        /\ FiveValue(Five!Sub(a, b)) = SubMod(x, y)
        /\ FiveValue(Five!SubNoReduceFourP(a, b)) = SubMod(x, y)
        /\ FiveValue(Five!MulScalar(a, A24)) = MulMod(A24, x)
        /\ LET m == 1000 + (x % 1000) IN
           /\ InvertExponent(m) = (DoubleN(m, 1, 255) - 21) % m
           /\ RootExponent(m) = (DoubleN(m, 1, 252) - 3) % m

\* (x : z) is the x coordinate of a point.
IsX(x, z, p) ==
    IF p = Infinity THEN FieldValue(z) = 0
    ELSE FieldValue(z) # 0 /\ FieldValue(x) = MulMod(p[1], FieldValue(z))

XOf(p) == IF p = Infinity THEN 0 ELSE p[1]

\* The two scalar multiplications agree with the group law: x25519 and
\* ed25519_x25519Basepoint return the x coordinate of the clamped multiple, 0 for infinity,
\* and ed25519_public the packed multiple of the base point.  On the way, whatever was
\* swapped so far, after i bits of the scalar _x25519_mul holds k and k + 1 times the point,
\* for the number k of these bits.
MultiplesExact ==
    /\ pc = "ladder" =>
          LET k == Clamp(call.secret) \div 2 ^ (ScalarBits - i)
              x == CSwap(ladder.x0, ladder.x1, ladder.swap)
              z == CSwap(ladder.z0, ladder.z1, ladder.swap)
          IN
          /\ IsX(x[1], z[1], MontgomeryMultiple(k, call.public % Prime))
          /\ IsX(x[2], z[2], MontgomeryMultiple(k + 1, call.public % Prime))
    /\ pc = "done" /\ call.op = "x25519" =>
          result = XOf(MontgomeryMultiple(Clamp(call.secret), call.public % Prime))
    /\ pc = "done" /\ call.op = "basepoint" =>
          LET u == MulMod(AddMod(1, BaseY), InvMod(SubMod(1, BaseY)))
          IN  result = XOf(MontgomeryMultiple(Clamp(call.secret), u))
    /\ pc = "unpack" => public = Encode(EdwardsMultiple(ExtSecret(call.secret).a, BasePoint))

DigitSum(digits, base, indices) == MapThenSumSet(LAMBDA n : digits[n] * base ^ n, indices)

\* Barrett's reduction leaves the one representative of a hash or a product modulo the
\* group order, and the signed recodings, which the tables of points are made for,
\* represent the scalar they came from.
ScalarArithmeticExact ==
    /\ pc = "odd" =>
          LET digits == Window4(scalar) IN
          /\ DigitSum(digits, 16, 0 .. Digits - 1) = ModmValue(scalar)
          /\ \A n \in 0 .. Digits - 1 : digits[n] \in -8 .. 8
    /\ pc = "first" /\ public # NoValue =>
          ModmValue(scalar) = BytesModOrder(Hash(<<ExtSecret(call.secret).hide, call.message>>), 2 * ScalarBytes)
    /\ pc = "precompute" =>
          LET h == BytesModOrder(Hash(<<signature.r, VerifiedKey, Verified>>), 2 * ScalarBytes)
              S == BytesAt(signature.s, 0, ScalarBytes)
          IN
          /\ DigitSum(slides[1], 2, BitIndex) = h /\ DigitSum(slides[2], 2, BitIndex) = S
          /\ \A n \in BitIndex : /\ slides[1][n] \in -15 .. 15 /\ (slides[1][n] = 0 \/ slides[1][n] % 2 = 1)
                                 /\ slides[2][n] \in -63 .. 63 /\ (slides[2][n] = 0 \/ slides[2][n] % 2 = 1)
          /\ call.forgery = "none" =>
                S = (ModmValue(scalar) + MulModulo(h, ExtSecret(call.secret).a % Order, Order)) % Order

\* ed25519_verify accepts what ed25519_sign made, and of what was changed only the
\* signature whose S is larger by the group order: the mask of its highest bits leaves
\* room for one order, not for two.  Neither another message or key nor another R passes,
\* nor an S that differs modulo the order.  (An S of 2^253 - m or more has no second form
\* below the bound; the scaled order is below 2^17, so here every S has one.)
SignaturesVerify ==
    pc = "done" /\ call.op = "sign" => (result = 0 <=> call.forgery \in {"none", "order"})

\* The arithmetic on limbs, of the field and of scalars, is exact.
ArithmeticExact == FieldArithmeticExact /\ ScalarArithmeticExact
=============================================================================
