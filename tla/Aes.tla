-------------------------------- MODULE Aes ---------------------------------
(***************************************************************************)
(* aes.c, aes128.c and aes256.c: AES by tables.  A word of 32 bits is the  *)
(* tuple of its bytes, the lowest first.                                   *)
(***************************************************************************)
EXTENDS Sequences, Bitwise, Evaluation

\* aes_sboxTable
SBox == <<
    99, 124, 119, 123, 242, 107, 111, 197, 48, 1, 103, 43, 254, 215, 171, 118,
    202, 130, 201, 125, 250, 89, 71, 240, 173, 212, 162, 175, 156, 164, 114, 192,
    183, 253, 147, 38, 54, 63, 247, 204, 52, 165, 229, 241, 113, 216, 49, 21,
    4, 199, 35, 195, 24, 150, 5, 154, 7, 18, 128, 226, 235, 39, 178, 117,
    9, 131, 44, 26, 27, 110, 90, 160, 82, 59, 214, 179, 41, 227, 47, 132,
    83, 209, 0, 237, 32, 252, 177, 91, 106, 203, 190, 57, 74, 76, 88, 207,
    208, 239, 170, 251, 67, 77, 51, 133, 69, 249, 2, 127, 80, 60, 159, 168,
    81, 163, 64, 143, 146, 157, 56, 245, 188, 182, 218, 33, 16, 255, 243, 210,
    205, 12, 19, 236, 95, 151, 68, 23, 196, 167, 126, 61, 100, 93, 25, 115,
    96, 129, 79, 220, 34, 42, 144, 136, 70, 238, 184, 20, 222, 94, 11, 219,
    224, 50, 58, 10, 73, 6, 36, 92, 194, 211, 172, 98, 145, 149, 228, 121,
    231, 200, 55, 109, 141, 213, 78, 169, 108, 86, 244, 234, 101, 122, 174, 8,
    186, 120, 37, 46, 28, 166, 180, 198, 232, 221, 116, 31, 75, 189, 139, 138,
    112, 62, 181, 102, 72, 3, 246, 14, 97, 53, 87, 185, 134, 193, 29, 158,
    225, 248, 152, 17, 105, 217, 142, 148, 155, 30, 135, 233, 206, 85, 40, 223,
    140, 161, 137, 13, 191, 230, 66, 104, 65, 153, 45, 15, 176, 84, 187, 22>>

Sub1(b) == SBox[b + 1]

XorWords(v, w) == [k \in 1 .. 4 |-> v[k] ^^ w[k]]

Times2(b) == IF b < 128 THEN 2 * b ELSE (2 * b - 256) ^^ 27

\* The word of _aes_encTable for a byte: 2, 1, 1 and 3 times its sbox, computed; the numbers
\* of the source's table are not checked.
EncTable(b) == LET s == Sub1(b) IN <<Times2(s), s, s, Times2(s) ^^ s>>

\* hc_ROTR32 by 32 - 8 * m: byte k moves to k + m.
RotatedBy(w, m) == [k \in 1 .. 4 |-> w[((k - 1 - m) % 4) + 1]]

\* Byte m of the word m places after j.
Diagonal(x, j, m) == x[(j + m) % 4][m + 1]

\* A turn of the loop of aes_rounds; the four words of x have the indices 0 .. 3.
AesRound(x, keys, i) ==
    [j \in 0 .. 3 |->
        Iterate(LAMBDA y, m : XorWords(y, RotatedBy(EncTable(Diagonal(x, j, m)), m)), keys[i + j], 4)]

\* aes_rounds
AesRounds(in, keys, numRoundsX4) ==
    LET first == [j \in 0 .. 3 |-> XorWords(in[j], keys[j])]
        last  == Iterate(LAMBDA x, i : AesRound(x, keys, 4 * (i + 1)), first, (numRoundsX4 \div 4) - 1)
    IN  Eager(LAMBDA x : [j \in 0 .. 3 |->
                  XorWords(keys[numRoundsX4 + j], [k \in 1 .. 4 |-> Sub1(Diagonal(x, j, k - 1))])], last)

\* The word of the last one in the key schedule, rotated and substituted, with pow.
Scheduled(w, pow) == [k \in 1 .. 4 |-> Sub1(w[(k % 4) + 1]) ^^ (IF k = 1 THEN pow ELSE 0)]

SubWord(w) == [k \in 1 .. 4 |-> Sub1(w[k])]

\* The words temp1 .. temp3 follow temp0.
Follow(t0, t1, t2, t3) ==
    LET u1 == XorWords(t1, t0)
        u2 == XorWords(t2, u1)
    IN  <<t0, u1, u2, XorWords(t3, u2)>>

\* aes128_block: a turn of the loop of the key schedule.
Expand128(s, n) ==
    LET t == s.temp
        pow == s.pow
        new == Follow(XorWords(t[1], Scheduled(t[4], pow)), t[2], t[3], t[4])
    IN  [temp |-> new, keys |-> s.keys \o new,
         pow |-> IF 4 * (n + 1) = 32 THEN 27 ELSE 2 * pow]

Aes128Block(in, key) ==
    LET keys == Iterate(Expand128, [temp |-> key, keys |-> key, pow |-> 1], 10).keys
    IN  Eager(LAMBDA k : AesRounds(in, [i \in 0 .. 43 |-> k[i + 1]], 40), keys)

\* aes256_block: the first half of the last turn is the last.
Expand256(s, n) ==
    LET t == s.temp
        low == Follow(XorWords(t[1], Scheduled(t[8], s.pow)), t[2], t[3], t[4])
        high == Follow(XorWords(t[5], SubWord(low[4])), t[6], t[7], t[8])
    IN  IF 8 * (n + 1) = 56 THEN [s EXCEPT !.keys = @ \o low]
        ELSE [temp |-> low \o high, keys |-> (s.keys \o low) \o high, pow |-> 2 * s.pow]

Aes256Block(in, key) ==
    LET keys == Iterate(Expand256, [temp |-> key, keys |-> key, pow |-> 1], 7).keys
    IN  Eager(LAMBDA k : AesRounds(in, [i \in 0 .. 59 |-> k[i + 1]], 56), keys)
=============================================================================
