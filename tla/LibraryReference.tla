-------------------------- MODULE LibraryReference --------------------------
(***************************************************************************)
(* What the standards say that the library computes: FIPS 180-4 and 197,   *)
(* RFC 8439 and RFC 4648.                                                  *)
(***************************************************************************)
EXTENDS Sha, Poly1305, ChaCha20, Aes, CoreLibrary, FiniteSetsExt

\* SHA-2: a .. h move down by one register in every round.
RefSchedule(in) ==
    Iterate(LAMBDA w, t : Append(w, IF t < 16 THEN LoadBE(in, t)
                                    ELSE (SigmaA(w[t - 1], Rotations.a1) + w[t - 6]
                                          + SigmaA(w[t - 14], Rotations.a0) + w[t - 15]) % Word),
            <<>>, Rounds)

RefRound(v, key, w) ==
    LET not(x) == Word - 1 - x
        t1 == v[8] + SigmaB(v[5], Rotations.b1) + ((v[5] & v[6]) ^^ (not(v[5]) & v[7])) + key + w
        t2 == SigmaB(v[1], Rotations.b0) + (((v[1] & v[2]) ^^ (v[1] & v[3])) ^^ (v[2] & v[3]))
    IN  <<(t1 + t2) % Word, v[1], v[2], v[3], (v[4] + t1) % Word, v[5], v[6], v[7]>>

RefSha2Block(state, in) ==
    Eager(LAMBDA w : Eager(LAMBDA v : [k \in 1 .. 8 |-> (state[k] + v[k]) % Word],
                           Iterate(LAMBDA v, t : RefRound(v, RoundKeys[t], w[t + 1]), state, Rounds)),
          RefSchedule(in))

RefSha1Block(state, in) ==
    LET not(x) == Word - 1 - x
        f(t, x, y, z) ==
            CASE t \div Quarter = 0 -> (x & y) ^^ (not(x) & z)
              [] t \div Quarter = 2 -> ((x & y) ^^ (x & z)) ^^ (y & z)
              [] OTHER              -> (x ^^ y) ^^ z
        schedule == Iterate(LAMBDA w, t : Append(w, IF t < 16 THEN LoadBE(in, t)
                        ELSE Rotl(((w[t - 2] ^^ w[t - 7]) ^^ w[t - 13]) ^^ w[t - 15], 1)), <<>>, Sha1Rounds)
        round(v, t, w) == <<(Rotl(v[1], Rotl5) + f(t, v[2], v[3], v[4]) + v[5]
                             + QuarterKeys[t \div Quarter] + w) % Word,
                            v[1], Rotl(v[2], Rotl30), v[3], v[4]>>
    IN  Eager(LAMBDA w : Eager(LAMBDA v : [k \in 1 .. 5 |-> (state[k] + v[k]) % Word],
                               Iterate(LAMBDA v, t : round(v, t, w[t + 1]), state, Sha1Rounds)), schedule)

\* The message, a one bit, zeros up to the end of a block, and its length.
Padded(message) ==
    LET zeros == (BlockSize - LengthSize - 1 - Len(message)) % BlockSize
    IN  message \o <<Mark>> \o [k \in 1 .. zeros |-> 0] \o StoreBE(Len(message) * ByteBits, LengthSize)

RefHash(alg, message) ==
    Eager(LAMBDA in : Iterate(LAMBDA s, k :
                LET block == SubSeq(in, k * BlockSize + 1, (k + 1) * BlockSize)
                IN  IF alg = "sha1" THEN RefSha1Block(s, block) ELSE RefSha2Block(s, block),
              Initial[alg], Len(in) \div BlockSize), Padded(message))

-----------------------------------------------------------------------------
PolyPrime == 2 ^ (3 * LimbBits - 2) - 5

TimesMod(a, b) ==
    LET times[n \in 0 .. PolyPrime] ==
            IF n = 0 THEN 0
            ELSE LET half == times[n \div 2] IN (2 * half + (n % 2) * a) % PolyPrime
    IN  times[b]

\* The blocks of the message, each with a one above its last byte, are the coefficients.
RefPolynomial(key, message) ==
    LET r == PolyInit(key).r
        point == r[1] + r[2] * Limb + r[3] * Limb ^ 2
        n == (Len(message) + PolyBlockSize - 1) \div PolyBlockSize
        coefficient(k) ==
            LET last == IF Len(message) < (k + 1) * PolyBlockSize THEN Len(message) ELSE (k + 1) * PolyBlockSize
            IN  PolyLoad(SubSeq(message, k * PolyBlockSize + 1, last) \o <<1>>)
    IN  Iterate(LAMBDA h, k : TimesMod(h + coefficient(k), point % PolyPrime), 0, n)

RefMac(key, message) ==
    (RefPolynomial(key, message) + PolyLoad(SubSeq(key, PolyBlockSize + 1, 2 * PolyBlockSize))) % 2 ^ BlockBits

-----------------------------------------------------------------------------
\* RFC 8439: ten times the four columns, then the four diagonals of the matrix.
RefQuarter(x, a, b, c, d) ==
    LET step(y, i, j, k, n) == LET sum == (y[i] + y[j]) % ChaWord
                               IN  [y EXCEPT ![i] = sum, ![k] = ChaRotl(y[k] ^^ sum, n)]
    IN  step(step(step(step(x, a, b, d, ChaRotations[1]), c, d, b, ChaRotations[2]),
                  a, b, d, ChaRotations[3]), c, d, b, ChaRotations[4])

RefChaBlock(input) ==
    LET diagonal(i) == (i \div 4) % 2       \* 0 for a round of columns
        round(x, i) == LET s == diagonal(i)
                           col == i % 4
                       IN  RefQuarter(x, col, 4 + ((col + s) % 4), 8 + ((col + 2 * s) % 4),
                                      12 + ((col + 3 * s) % 4))
    IN  Eager(LAMBDA x : [k \in 0 .. 15 |-> (x[k] + input[k]) % ChaWord], Iterate(round, input, 80))

-----------------------------------------------------------------------------
(* FIPS 197, on the bytes in[4 * column + row]. *)

GfTimes(a, b) ==
    Iterate(LAMBDA p, i : IF (b \div 2 ^ (7 - i)) % 2 = 1 THEN Times2(p) ^^ a ELSE Times2(p), 0, 8)

\* The affine transformation of the inverse.
RefSub(b) ==
    LET inverse == IF b = 0 THEN 0 ELSE CHOOSE c \in 1 .. 255 : GfTimes(b, c) = 1
        rotl(n) == ((inverse * 2 ^ n) % 256) + inverse \div 2 ^ (8 - n)
    IN  ((((inverse ^^ rotl(1)) ^^ rotl(2)) ^^ rotl(3)) ^^ rotl(4)) ^^ 99

RefShiftedSub(s) == [n \in 0 .. 15 |-> Sub1(s[(n + 4 * (n % 4)) % 16])]

RefMixed(s) ==
    [n \in 0 .. 15 |->
        LET column == n - (n % 4)
            at(k) == s[column + ((n + k) % 4)]
        IN  ((GfTimes(at(0), 2) ^^ GfTimes(at(1), 3)) ^^ at(2)) ^^ at(3)]

RefAddKey(s, w, round) == [n \in 0 .. 15 |-> s[n] ^^ w[4 * round + (n \div 4) + 1][(n % 4) + 1]]

RefKeys(key, rounds) ==
    LET nk == Len(key)
        rcon(n) == <<Iterate(LAMBDA p, i : Times2(p), 1, n - 1), 0, 0, 0>>
        rotWord(w) == <<w[2], w[3], w[4], w[1]>>
        word(w, i) ==
            LET last == w[i]
                temp == IF i % nk = 0 THEN XorWords(SubWord(rotWord(last)), rcon(i \div nk))
                        ELSE IF nk > 6 /\ i % nk = 4 THEN SubWord(last) ELSE last
            IN  XorWords(w[i - nk + 1], temp)
    IN  Iterate(LAMBDA w, n : Append(w, word(w, nk + n)), key, 4 * (rounds + 1) - nk)

RefAes(in, key, rounds) ==
    LET bytes == [n \in 0 .. 15 |-> in[n \div 4][(n % 4) + 1]]
    IN  Eager(LAMBDA w :
            Eager(LAMBDA s : [j \in 0 .. 3 |-> [k \in 1 .. 4 |-> RefAddKey(RefShiftedSub(s), w, rounds)[4 * j + k - 1]]],
                  Iterate(LAMBDA s, i : Eager(LAMBDA m : RefAddKey(m, w, i + 1),
                                              Eager(RefMixed, RefShiftedSub(s))),
                          RefAddKey(bytes, w, 0), rounds - 1)),
          RefKeys(key, rounds))

-----------------------------------------------------------------------------
\* RFC 4648: groups of 24 bits, the last filled with zeros and marked by pads.
RefBase64(bytes) ==
    LET at(k) == IF k <= Len(bytes) THEN bytes[k] ELSE 0
        bits(g) == at(3 * g + 1) * 65536 + at(3 * g + 2) * 256 + at(3 * g + 3)
        char(n) == LET g == (n - 1) \div 4
                       k == (n - 1) % 4
                   IN  IF 3 * g + k > Len(bytes) THEN Pad ELSE (bits(g) \div 64 ^ (3 - k)) % 64
    IN  [n \in 1 .. 4 * ((Len(bytes) + 2) \div 3) |-> char(n)]

\* The value of a string of digits of a base, or None if there is another character.
RefNumber(s, from, base, digit(_)) ==
    LET value[n \in from - 1 .. Len(s)] ==
            IF n = from - 1 THEN 0 ELSE value[n - 1] * base + digit(s[n])
    IN  value[Len(s)]
=============================================================================
