---------------------------- MODULE LibraryCalls ----------------------------
(***************************************************************************)
(* A program that calls the library: it hashes or authenticates a message  *)
(* in pieces of any size, resizes an allocation, or makes one call of a    *)
(* function without state.                                                 *)
(***************************************************************************)
EXTENDS LibraryReference, TLC

CONSTANTS
    Hashed, Algorithms,           \* hashed
    PolyMessages, PolyKeys,         \* authenticated
    Pieces,                         \* sizes of pieces
    Moves, Memory,                  \* calls of memmove and memset, and the memory they are made in
    Encoded,                        \* byte strings for base64
    Strings,                        \* parsed numbers
    AesCalls, ChaCalls,
    ReserveSize, Sizes              \* of the allocator

VARIABLES
    request,    \* what is called, with its arguments
    self,       \* struct sha256, poly1305 or allocator
    pos,        \* bytes of the message that were given to update
    returned    \* <<>> until the call returned, then <<what it returned>>

libraryVars == <<request, self, pos, returned>>

None == <<>>

\* The calls and the objects they work on.
LibraryInit ==
    /\ pos = 0
    /\ returned = None
    /\ \/ \E alg \in Algorithms, m \in Hashed :
             request = [op |-> "hash", alg |-> alg, message |-> m] /\ self = ShaInit(alg)
       \/ \E key \in PolyKeys, m \in PolyMessages :
             request = [op |-> "mac", key |-> key, message |-> m] /\ self = PolyInit(key)
       \/ request = [op |-> "allocator"] /\ self = allocator_init(ReserveSize)
       \/ \E move \in Moves, op \in {"memmove", "memset"} : request = [op |-> op] @@ move /\ self = None
       \/ \E bytes \in Encoded : request = [op |-> "base64", bytes |-> bytes] /\ self = None
       \/ \E s \in Strings : request = [op |-> "parse", string |-> s] /\ self = None
       \/ \E n \in 0 .. UintMax : request = [op |-> "print", number |-> n] /\ self = None
       \/ \E a \in AesCalls : request = [op |-> "aes"] @@ a /\ self = None
       \/ \E c \in ChaCalls : request = [op |-> "chacha20"] @@ c /\ self = None

Update(n) ==
    /\ request.op \in {"hash", "mac"} /\ returned = None
    /\ pos + n <= Len(request.message)
    /\ pos' = pos + n
    /\ self' = LET in == SubSeq(request.message, pos + 1, pos + n)
               IN  IF request.op = "hash" THEN ShaUpdate(request.alg, self, in) ELSE PolyUpdate(self, in)
    /\ UNCHANGED <<request, returned>>

Finish ==
    /\ request.op \in {"hash", "mac"} /\ returned = None
    /\ pos = Len(request.message)
    /\ returned' = <<IF request.op = "hash" THEN ShaFinish(request.alg, self) ELSE PolyFinish(self)>>
    /\ UNCHANGED <<request, self, pos>>

Resize(size, succeeds) ==
    /\ request.op = "allocator"
    /\ self' = allocator_resize(self, size, succeeds)
    /\ UNCHANGED <<request, pos, returned>>

\* The buffer of a base64_encode in place, with the input at its end.
InPlace(bytes) ==
    LET size == EncodeSize(Len(bytes))
    IN  [k \in 0 .. size - 1 |-> IF k < size - Len(bytes) THEN 0 ELSE bytes[k - (size - Len(bytes)) + 1]]

Return ==
    /\ request.op \notin {"hash", "mac", "allocator"} /\ returned = None
    /\ returned' = <<CASE request.op = "memmove" -> memmove(Memory, request.d, request.s, request.n)
                     [] request.op = "memset"  -> memset(Memory, request.d, request.s, request.n)
                     [] request.op = "base64"  -> base64_encode(InPlace(request.bytes), 0,
                                                  EncodeSize(Len(request.bytes)) - Len(request.bytes), Len(request.bytes))
                     [] request.op = "parse"   -> [uint |-> strToUint(request.string, Len(request.string)),
                                                int  |-> strToInt(request.string, Len(request.string)),
                                                hex  |-> hexToUint(request.string, Len(request.string))]
                     [] request.op = "print"   -> [uint |-> uintToStr(request.number),
                                                int  |-> intToStr(request.number - IntMax - 1),
                                                hex  |-> uintToHex(request.number)]
                     [] request.op = "aes"     -> IF Len(request.key) = 4 THEN Aes128Block(request.in, request.key)
                                               ELSE Aes256Block(request.in, request.key)
                     [] request.op = "chacha20" -> <<ChaBlock(InitIetf(request.key, request.low, request.high, request.nonce)),
                                                  ChaBlock(InitOrig(request.key, request.low + ChaWord * request.high, request.nonce))>>>>
    /\ UNCHANGED <<request, self, pos>>

\* No call at all.
LibraryIdle == request = [op |-> "none"] /\ self = None /\ pos = 0 /\ returned = <<None>>

LibraryNext ==
    \/ \E n \in Pieces : Update(n)
    \/ Finish
    \/ \E size \in Sizes, succeeds \in BOOLEAN : Resize(size, succeeds)
    \/ Return

-----------------------------------------------------------------------------
(***************************************************************************)
(* Properties.                                                             *)
(***************************************************************************)

\* poly1305_finish selects h - p when h is not below p.
MacReduced ==
    request.op = "mac" /\ returned # None => returned[1] = RefMac(request.key, request.message)

\* Whatever pieces a message comes in, sha1, sha256 and sha512 return the hash of FIPS
\* 180-4, for lengths around the ends of the block and of the padding, and poly1305 the
\* polynomial modulo p plus the pad, unless h is one of the five numbers from p to
\* 2^130 - 1.  The table driven aes_rounds, with the key schedules of 128 and 256 bits, is
\* the cipher of FIPS 197, aes_sboxTable is its substitution, and chacha20_block is the
\* block function of RFC 8439 on the matrix of either layout of counter and nonce.
PrimitivesExact ==
    /\ request.op = "hash" /\ returned # None => returned[1] = RefHash(request.alg, request.message)
    /\ request.op = "mac" /\ returned # None =>
          \/ returned[1] = RefMac(request.key, request.message)
          \/ RefPolynomial(request.key, request.message) < 5
    /\ request.op = "aes" /\ returned # None =>
          /\ returned[1] = RefAes(request.in, request.key, Len(request.key) + 6)
          /\ \A b \in request.bytes : Sub1(b) = RefSub(b)
    /\ request.op = "chacha20" /\ returned # None =>
          LET matrix == ChaConstant \o request.key \o <<request.low, request.high, request.nonce % ChaWord,
                                                     request.nonce \div ChaWord>>
          IN  \A i \in 1 .. 2 : returned[1][i] = RefChaBlock([k \in 0 .. 15 |-> matrix[k + 1]])

\* memmove copies as if through another buffer, however source and destination overlap;
\* memset writes its range and nothing else; base64_encode may run in place.  The
\* pages that hold an allocator's bytes are committed, also after a commit that failed or a
\* size that does not fit, and no others are, but for those a failed decommit left.
MemoryExact ==
    /\ request.op = "allocator" =>
          \A p \in DOMAIN self.committed :
             /\ p * PageSize < self.size => self.committed[p]
             /\ self.committed[p] /\ ~self.leaks => p * PageSize < self.size
    /\ request.op = "memmove" /\ returned # None =>
          returned[1] = [a \in DOMAIN Memory |-> IF a \in request.d .. request.d + request.n - 1
                                            THEN Memory[a - request.d + request.s] ELSE Memory[a]]
    /\ request.op = "memset" /\ returned # None =>
          returned[1] = [a \in DOMAIN Memory |-> IF a \in request.d .. request.d + request.n - 1 THEN request.s ELSE Memory[a]]
    /\ request.op = "base64" /\ returned # None =>
          [k \in 1 .. EncodeSize(Len(request.bytes)) |-> returned[1][k - 1]] = RefBase64(request.bytes)

\* The parsers read what the printers wrote, up to the least and the greatest number, and
\* report every number that does not fit, and only these.
NumbersExact ==
    /\ request.op = "print" /\ returned # None =>
          LET n == request.number
              int == n - IntMax - 1
          IN  /\ strToUint(returned[1].uint, Len(returned[1].uint)) = [chars |-> Len(returned[1].uint), number |-> n]
              /\ hexToUint(returned[1].hex, Len(returned[1].hex)) = [chars |-> Len(returned[1].hex), number |-> n]
              /\ strToInt(returned[1].int, Len(returned[1].int)) = [chars |-> Len(returned[1].int), number |-> int]
    /\ request.op = "parse" /\ returned # None =>
          LET s == request.string
              exact(p, from, base, digit(_), min, max, sign) ==
                LET end == IF \A k \in from .. Len(s) : digit(s[k]) < base THEN Len(s)
                           ELSE Min({k \in from .. Len(s) : digit(s[k]) >= base}) - 1
                    value == sign * RefNumber(SubSeq(s, 1, end), from, base, digit)
                IN  p = CASE end < from -> [chars |-> 0, number |-> NoNumber]
                          [] end >= from /\ value \in min .. max -> [chars |-> end, number |-> value]
                          [] OTHER -> [chars |-> -1, number |-> NoNumber]
              decimal(c) == IF c \in 48 .. 57 THEN c - 48 ELSE 10
              hex(c) == CASE c \in 48 .. 57 -> c - 48 [] c \in 65 .. 70 -> c - 55
                          [] c \in 97 .. 102 -> c - 87 [] OTHER -> 16
          IN  /\ exact(returned[1].uint, 1, 10, decimal, 0, UintMax, 1)
              /\ exact(returned[1].hex, 1, 16, hex, 0, UintMax, 1)
              /\ IF s # <<>> /\ s[1] = Minus THEN exact(returned[1].int, 2, 10, decimal, -IntMax - 1, 0, -1)
                 ELSE exact(returned[1].int, 1, 10, decimal, 0, IntMax, 1)

\* The utilities do what they say for every length, overlap and number.
UtilitiesExact == MemoryExact /\ NumbersExact
=============================================================================
