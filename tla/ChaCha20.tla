------------------------------ MODULE ChaCha20 ------------------------------
(***************************************************************************)
(* chacha20.c: the block function, for words of any size.                  *)
(***************************************************************************)
EXTENDS Sequences, Bitwise, Evaluation

CONSTANTS
    ChaBits,            \* 32
    ChaRotations,       \* <<16, 12, 8, 7>>
    ChaConstant         \* the first four words

ChaWord == 2 ^ ChaBits

ChaRotl(x, n) == ((x % 2 ^ (ChaBits - n)) * 2 ^ n) + x \div 2 ^ (ChaBits - n)

\* a += b; d ^= a; d = d <<< n
HalfQuarter(x, a, b, d, n) ==
    LET sum == (x[a] + x[b]) % ChaWord
    IN  [x EXCEPT ![a] = sum, ![d] = ChaRotl(x[d] ^^ sum, n)]

QuarterRound(x, q) ==
    LET rot == ChaRotations
        x1 == HalfQuarter(x, q[1], q[2], q[4], rot[1])
        x2 == HalfQuarter(x1, q[3], q[4], q[2], rot[2])
        x3 == HalfQuarter(x2, q[1], q[2], q[4], rot[3])
    IN  HalfQuarter(x3, q[3], q[4], q[2], rot[4])

\* The quarter rounds of a turn of the loop, by the indices of their words.
Quarters == <<<<0, 4, 8, 12>>, <<1, 5, 9, 13>>, <<2, 6, 10, 14>>, <<3, 7, 11, 15>>,
              <<0, 5, 10, 15>>, <<1, 6, 11, 12>>, <<2, 7, 8, 13>>, <<3, 4, 9, 14>>>>

\* chacha20_block
ChaBlock(self) ==
    Eager(LAMBDA local : [k \in 0 .. 15 |-> (local[k] + self[k]) % ChaWord],
          Iterate(LAMBDA x, i : QuarterRound(x, Quarters[(i % 8) + 1]), self, 80))

\* chacha20_initIetf: a counter of one word and a nonce of three; chacha20_initOrig: a
\* counter of two words and a nonce of two.  The key is a tuple of eight words.
InitIetf(key, blockCounter, nonceSender, nonce) ==
    [k \in 0 .. 15 |->
        CASE k < 4      -> ChaConstant[k + 1]
          [] k \in 4 .. 11 -> key[k - 3]
          [] k = 12     -> blockCounter
          [] k = 13     -> nonceSender
          [] k = 14     -> nonce % ChaWord
          [] OTHER      -> nonce \div ChaWord]

InitOrig(key, blockCounter, nonce) ==
    [k \in 0 .. 15 |->
        CASE k < 4      -> ChaConstant[k + 1]
          [] k \in 4 .. 11 -> key[k - 3]
          [] k = 12     -> blockCounter % ChaWord
          [] k = 13     -> blockCounter \div ChaWord
          [] k = 14     -> nonce % ChaWord
          [] OTHER      -> nonce \div ChaWord]
=============================================================================
