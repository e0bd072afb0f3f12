-------------------------------- MODULE Sha ---------------------------------
(***************************************************************************)
(* sha1.c, sha256.c and sha512.c: the compression functions, and the       *)
(* buffering, which is the same in the three files, for words of any size. *)
(* The 64 (128) bytes of a block are 16 words, the length at its end is    *)
(* two words.                                                              *)
(***************************************************************************)
EXTENDS Sequences, Bitwise, Evaluation

CONSTANTS
    ByteBits, WordBytes,    \* 8, and 4 or 8
    Rounds,                 \* of SHA-2: 64 or 80
    Rotations,              \* of the four sigmas of SHA-2
    RoundKeys,              \* _sha256_round
    Quarter,                \* rounds of SHA-1 with the same function: 20
    QuarterKeys, Rotl5, Rotl30,
    Initial                 \* the first states

Byte == 2 ^ ByteBits
WordBits == ByteBits * WordBytes
Word == 2 ^ WordBits
BlockSize == 16 * WordBytes
LengthSize == 2 * WordBytes

Shr(x, n) == x \div 2 ^ n
Rotr(x, n) == (x \div 2 ^ n) + ((x % 2 ^ n) * 2 ^ (WordBits - n))
Rotl(x, n) == Rotr(x, WordBits - n)

\* mem_loadU32BE of the i-th word of a block.
LoadBE(in, i) ==
    LET load[k \in 0 .. WordBytes] == IF k = 0 THEN 0 ELSE load[k - 1] * Byte + in[i * WordBytes + k]
    IN  load[WordBytes]

\* size bytes of x, the highest first: mem_storeU32BE and mem_storeU64BE.
StoreBE(x, size) == [k \in 1 .. size |-> (x \div Byte ^ (size - k)) % Byte]

-----------------------------------------------------------------------------
(***************************************************************************)
(* _sha256_blocks and _sha512_blocks: one block.  The registers a .. h are *)
(* a window that moves up in r.                                            *)
(***************************************************************************)

SigmaA(x, rot) == (Rotr(x, rot[1]) ^^ Rotr(x, rot[2])) ^^ Shr(x, rot[3])
SigmaB(x, rot) == (Rotr(x, rot[1]) ^^ Rotr(x, rot[2])) ^^ Rotr(x, rot[3])
Ch(x, y, z) == z ^^ (x & (y ^^ z))
Maj(x, y, z) == (x & (y ^^ z)) ^^ (y & z)

Sha2Round(s, i) ==
    LET r == s.r
        w == s.w
        x == r[i] + w[i] + RoundKeys[i] + SigmaB(r[i + 3], Rotations.b1) + Ch(r[i + 3], r[i + 2], r[i + 1])
    IN  [r |-> [r EXCEPT ![i + 4] = (@ + x) % Word,
                         ![i + 8] = (x + SigmaB(r[i + 7], Rotations.b0) + Maj(r[i + 7], r[i + 6], r[i + 5])) % Word],
         w |-> IF i >= Rounds - 16 THEN w
               ELSE [w EXCEPT ![i + 16] = (w[i] + w[i + 9] + SigmaA(w[i + 14], Rotations.a1)
                                           + SigmaA(w[i + 1], Rotations.a0)) % Word]]

Sha2Block(state, in) ==
    LET start == [r |-> [k \in 0 .. Rounds + 7 |-> IF k < 8 THEN state[8 - k] ELSE 0],
                  w |-> [k \in 0 .. Rounds - 1 |-> IF k < 16 THEN LoadBE(in, k) ELSE 0]]
        end   == Iterate(Sha2Round, start, Rounds).r
    IN  Eager(LAMBDA r : [k \in 1 .. 8 |-> (state[k] + r[Rounds + 8 - k]) % Word], end)

-----------------------------------------------------------------------------
(***************************************************************************)
(* _sha1_blocks: one block.                                                *)
(***************************************************************************)

Sha1Rounds == 4 * Quarter

Sha1Function(i, b, c, d) ==
    CASE i < Quarter                            -> (b & (c ^^ d)) ^^ d
      [] i \in 2 * Quarter .. (3 * Quarter - 1) -> ((b | c) & d) | (b & c)
      [] OTHER                                  -> (b ^^ c) ^^ d

Sha1Round(s, i) ==
    LET r == s.r
    IN  [r |-> [r EXCEPT ![i + 5] = (r[i] + s.w[i] + QuarterKeys[i \div Quarter] + Rotl(r[i + 4], Rotl5)
                                     + Sha1Function(i, r[i + 3], r[i + 2], r[i + 1])) % Word,
                         ![i + 3] = Rotl(@, Rotl30)],
         w |-> s.w]

Sha1Extend(w, i) == [w EXCEPT ![i + 16] = Rotl(((w[i + 13] ^^ w[i + 8]) ^^ w[i + 2]) ^^ w[i], 1)]

Sha1Block(state, in) ==
    LET w == Iterate(Sha1Extend, [k \in 0 .. Sha1Rounds - 1 |-> IF k < 16 THEN LoadBE(in, k) ELSE 0],
                     Sha1Rounds - 16)
        start == [r |-> [k \in 0 .. Sha1Rounds + 4 |-> IF k < 5 THEN state[5 - k] ELSE 0], w |-> w]
        end   == Iterate(Sha1Round, start, Sha1Rounds).r
    IN  Eager(LAMBDA r : [k \in 1 .. 5 |-> (state[k] + r[Sha1Rounds + 5 - k]) % Word], end)

-----------------------------------------------------------------------------
(***************************************************************************)
(* init, update and finish.                                                *)
(***************************************************************************)

Block(alg, state, in) == IF alg = "sha1" THEN Sha1Block(state, in) ELSE Sha2Block(state, in)

\* The blocks of in from its first byte on.
Blocks(alg, state, in, n) ==
    Iterate(LAMBDA s, k : Block(alg, s, SubSeq(in, k * BlockSize + 1, (k + 1) * BlockSize)), state, n)

\* What is in the buffer before the first update does not matter: here it is zeros.
ShaInit(alg) ==
    [state |-> Initial[alg], blockCounter |-> 0, buffer |-> [k \in 1 .. BlockSize |-> 0], bufferSize |-> 0]

\* hc_MEMCPY to the buffer at offset.
CopyTo(buffer, offset, in) ==
    [k \in DOMAIN buffer |-> IF k \in offset + 1 .. offset + Len(in) THEN in[k - offset] ELSE buffer[k]]

\* update with an empty buffer: whole blocks are hashed where they are.
UpdateBlocks(alg, self, in) ==
    LET n == Len(in) \div BlockSize
    IN  [state        |-> Blocks(alg, self.state, in, n),
         blockCounter |-> self.blockCounter + n,
         buffer       |-> CopyTo(self.buffer, 0, SubSeq(in, n * BlockSize + 1, Len(in))),
         bufferSize   |-> Len(in) % BlockSize]

ShaUpdate(alg, self, in) ==
    LET space  == BlockSize - self.bufferSize
        read   == IF space > Len(in) THEN Len(in) ELSE space
        filled == CopyTo(self.buffer, self.bufferSize, SubSeq(in, 1, read))
    IN  CASE self.bufferSize = 0 -> UpdateBlocks(alg, self, in)
          [] self.bufferSize > 0 /\ read < space ->
                [self EXCEPT !.buffer = filled, !.bufferSize = @ + read]
          [] OTHER ->
                UpdateBlocks(alg, [state |-> Block(alg, self.state, filled),
                                   blockCounter |-> self.blockCounter + 1, buffer |-> filled,
                                   bufferSize |-> BlockSize],
                             SubSeq(in, read + 1, Len(in)))

\* The buffer with zeros from size up to end.
Cleared(buffer, size, end) == [k \in DOMAIN buffer |-> IF k \in size + 1 .. end THEN 0 ELSE buffer[k]]

Mark == 2 ^ (ByteBits - 1)      \* 0x80

\* Mutated form of ShaFinish: a mark in the last byte before the length starts a block.
ShaFinishEarly(alg, self) ==
    LET numBits == ((self.blockCounter * BlockSize + self.bufferSize) * ByteBits) % Byte ^ LengthSize
        marked  == [self.buffer EXCEPT ![self.bufferSize + 1] = Mark]
        size    == self.bufferSize + 1
        last(buffer, n) == CopyTo(Cleared(buffer, n, BlockSize - LengthSize), BlockSize - LengthSize,
                                  StoreBE(numBits, LengthSize))
    IN  IF size > BlockSize - LengthSize + 1
        THEN LET full == Cleared(marked, size, BlockSize)
             IN  Block(alg, Block(alg, self.state, full), last(full, 0))
        ELSE Block(alg, self.state, last(marked, size))

ShaFinish(alg, self) ==
    LET numBits == ((self.blockCounter * BlockSize + self.bufferSize) * ByteBits) % Byte ^ LengthSize
        marked  == [self.buffer EXCEPT ![self.bufferSize + 1] = Mark]
        size    == self.bufferSize + 1
        last(buffer, n) == CopyTo(Cleared(buffer, n, BlockSize - LengthSize), BlockSize - LengthSize,
                                  StoreBE(numBits, LengthSize))
    IN  IF size > BlockSize - LengthSize
        THEN LET full == Cleared(marked, size, BlockSize)
             IN  Block(alg, Block(alg, self.state, full), last(full, 0))
        ELSE Block(alg, self.state, last(marked, size))
=============================================================================
