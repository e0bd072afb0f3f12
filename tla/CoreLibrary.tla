---------------------------- MODULE CoreLibrary -----------------------------
(***************************************************************************)
(* The parts of hc/core that every program is built on: memmove and memset *)
(* (compilerRt/mem.c), base64.c, the conversions of numbers (util.c) and   *)
(* the allocator on top of the heap of the system.                         *)
(***************************************************************************)
EXTENDS Integers, Sequences, Evaluation

CONSTANTS
    UintBits,       \* 64
    PageSize        \* allocator_PAGE_SIZE, a power of two

-----------------------------------------------------------------------------
(***************************************************************************)
(* compilerRt/mem.c.  Memory is a function from addresses to bytes.        *)
(***************************************************************************)

\* hc_MEMCPY of k bytes that were loaded from another address.
StoreAt(mem, address, bytes) ==
    [a \in DOMAIN mem |-> IF a \in address .. address + Len(bytes) - 1 THEN bytes[a - address + 1] ELSE mem[a]]

Loaded(mem, address, k) == [i \in 1 .. k |-> mem[address + i - 1]]

\* The word size for the n < 16 bytes that are left: two words of it cover them.
TailWord(n) == CASE n >= 8 -> 8 [] n \in 4 .. 7 -> 4 [] n \in 2 .. 3 -> 2 [] n = 1 -> 1

MoveTail(mem, d, s, n) ==
    IF n = 0 THEN mem
    ELSE LET w == TailWord(n)
         IN  StoreAt(StoreAt(mem, d, Loaded(mem, s, w)), d + n - w, Loaded(mem, s + n - w, w))

\* Mutated form of memmove: the blocks are always copied upwards.
memmoveUpwards(mem, d, s, n) ==
    LET end == n - (n % 16)
    IN  Eager(LAMBDA m : MoveTail(m, d + end, s + end, n % 16),
              Iterate(LAMBDA m, i : StoreAt(m, d + 16 * i, Loaded(m, s + 16 * i, 16)), mem, n \div 16))

\* Blocks of 16 bytes go up when d is below s, and down from the end otherwise; then the
\* bytes left at the other end.
memmove(mem, d, s, n) ==
    LET end == n - (n % 16)
        up(m, i)   == StoreAt(m, d + 16 * i, Loaded(m, s + 16 * i, 16))
        down(m, i) == StoreAt(m, d + n - 16 * (i + 1), Loaded(m, s + n - 16 * (i + 1), 16))
    IN  IF d < s THEN Eager(LAMBDA m : MoveTail(m, d + end, s + end, n % 16), Iterate(up, mem, n \div 16))
        ELSE Eager(LAMBDA m : MoveTail(m, d, s, n % 16), Iterate(down, mem, n \div 16))

memset(mem, dest, c, n) ==
    LET expanded(k) == [i \in 1 .. k |-> c]
        left  == n % 16
        block(m, i) == StoreAt(m, dest + n - 16 * (i + 1), expanded(16))
    IN  Eager(LAMBDA m : IF left = 0 THEN m
                         ELSE LET w == TailWord(left)
                              IN  StoreAt(StoreAt(m, dest, expanded(w)), dest + left - w, expanded(w)),
              Iterate(block, mem, n \div 16))

-----------------------------------------------------------------------------
(***************************************************************************)
(* base64.c: a character is its index in base64_table, and 64 is '='.      *)
(***************************************************************************)

Pad == 64

EncodeSize(inSize) == ((inSize + 2) \div 3) * 4

\* A turn of the loop: three bytes are read before four characters are written.
EncodeGroup(mem, out, in) ==
    StoreAt(mem, out, <<mem[in] \div 4, ((mem[in] % 4) * 16) + (mem[in + 1] \div 16),
                      ((mem[in + 1] % 16) * 4) + (mem[in + 2] \div 64), mem[in + 2] % 64>>)

\* The one or two bytes left: the second is read after the first character is written.
EncodeLast(mem, out, in, remaining) ==
    LET first == mem[in]
        mem0  == StoreAt(mem, out, <<first \div 4>>)
    IN  CASE remaining = 0 -> mem
          [] remaining = 1 -> StoreAt(mem0, out + 1, <<(first % 4) * 16, Pad, Pad>>)
          [] remaining = 2 -> StoreAt(mem0, out + 1, <<((first % 4) * 16) + (mem0[in + 1] \div 16),
                                                     (mem0[in + 1] % 16) * 4, Pad>>)

\* base64_encode
base64_encode(mem, out, in, inSize) ==
    Eager(LAMBDA m : EncodeLast(m, out + 4 * (inSize \div 3), in + 3 * (inSize \div 3), inSize % 3),
          Iterate(LAMBDA m, i : EncodeGroup(m, out + 4 * i, in + 3 * i), mem, inSize \div 3))

-----------------------------------------------------------------------------
(***************************************************************************)
(* util.c: numbers.  A character is its code, *number is NoNumber, which   *)
(* no word holds, when it was not stored.                                  *)
(***************************************************************************)

UintMax == 2 ^ UintBits - 1
IntMax == 2 ^ (UintBits - 1) - 1
NoNumber == 2 ^ UintBits
Minus == 45

\* A difference of characters in an unsigned word.
Less(c, d) == (c - d) % 2 ^ UintBits

\* util_uintToStr
uintToStr(number) ==
    LET digits[n \in 0 .. UintMax] ==
            IF n < 10 THEN <<48 + n>> ELSE Append(digits[n \div 10], 48 + (n % 10))
    IN  digits[number]

\* util_intToStr: the absolute value of the least number fits the unsigned word.
intToStr(number) ==
    IF number < 0 THEN <<Minus>> \o uintToStr((-number) % 2 ^ UintBits) ELSE uintToStr(number)

HexTable == <<48, 49, 50, 51, 52, 53, 54, 55, 56, 57, 65, 66, 67, 68, 69, 70>>

\* util_uintToHex: two characters for every byte.
uintToHex(number) ==
    LET byte(b) == <<HexTable[(b \div 16) + 1], HexTable[(b % 16) + 1]>>
        digits[n \in 0 .. UintMax] ==
            IF n < 256 THEN byte(n) ELSE digits[n \div 256] \o byte(n % 256)
    IN  digits[number]

\* The loop of the three parsers: base times the result plus a digit, until the first
\* character that is no digit or a result above max.
Parse(s, first, maxChars, base, max, digit(_)) ==
    LET scan[i \in first - 1 .. maxChars] ==
            IF i = first - 1 THEN [chars |-> i, result |-> 0, stop |-> FALSE]
            ELSE LET p == scan[i - 1]
                     d == digit(s[i])
                 IN  IF p.stop \/ d >= base THEN [p EXCEPT !.stop = TRUE]
                     ELSE IF p.result > (max - d) \div base
                     THEN [chars |-> -1, result |-> 0, stop |-> TRUE]
                     ELSE [chars |-> i, result |-> p.result * base + d, stop |-> FALSE]
    IN  scan[maxChars]

\* util_strToUint
strToUint(s, maxChars) ==
    LET p == Parse(s, 1, maxChars, 10, UintMax, LAMBDA c : Less(c, 48))
    IN  [chars |-> p.chars, number |-> IF p.chars > 0 THEN p.result ELSE NoNumber]

\* util_strToInt
strToInt(s, maxChars) ==
    LET negative == IF s[1] = Minus THEN 1 ELSE 0
        p == Parse(s, negative + 1, maxChars, 10, IntMax + negative, LAMBDA c : Less(c, 48))
    IN  IF maxChars > 0 /\ p.chars > negative
        THEN [chars |-> p.chars, number |-> p.result * (1 - 2 * negative)]
        ELSE [chars |-> IF maxChars > 0 /\ p.chars < 0 THEN -1 ELSE 0, number |-> NoNumber]

\* The value of a hex digit, or 16.
HexDigit(c) ==
    CASE Less(c, 48) <= 9 -> Less(c, 48)
      [] Less(c, 48) > 9 /\ Less(c, 65) <= 5 -> Less(c, 65) + 10
      [] Less(c, 48) > 9 /\ Less(c, 65) > 5 /\ Less(c, 97) <= 5 -> Less(c, 97) + 10
      [] OTHER -> 16

\* util_hexToUint: result > UINT_MAX >> 4 is an overflow whatever the digit.
hexToUint(s, maxChars) ==
    LET p == Parse(s, 1, maxChars, 16, UintMax, HexDigit)
    IN  [chars |-> p.chars, number |-> IF p.chars > 0 THEN p.result ELSE NoNumber]

-----------------------------------------------------------------------------
(***************************************************************************)
(* allocator.c on heap.c.  The heap is the state of every page of the      *)
(* reserved range: committed or not.                                       *)
(***************************************************************************)

AlignForward(x, align) == ((x + align - 1) \div align) * align

Pages(from, size) == (from \div PageSize) .. ((from + size) \div PageSize) - 1

\* leaks: a decommit failed (ghost).
allocator_init(reserve) ==
    LET size == AlignForward(reserve, PageSize)
    IN  [reserveSize |-> size, size |-> 0, committed |-> [p \in Pages(0, size) |-> FALSE], status |-> 0,
         leaks |-> FALSE]

HeapSet(self, from, size, to) ==
    [p \in DOMAIN self.committed |-> IF p \in Pages(from, size) THEN to ELSE self.committed[p]]

\* allocator_resize, when heap_commit or heap_decommit succeeds or fails.  Only a debug
\* build notices that a decommit failed.
allocator_resize(self, newSize, succeeds) ==
    LET commitSize    == AlignForward(self.size, PageSize)
        newCommitSize == AlignForward(newSize, PageSize)
        diff          == newCommitSize - commitSize
        resized       == [self EXCEPT !.size = newSize, !.status = 0]
    IN  CASE diff = 0 -> resized
          [] diff < 0 /\ succeeds -> [resized EXCEPT !.committed = HeapSet(self, newCommitSize, -diff, FALSE)]
          [] diff < 0 /\ ~succeeds -> [resized EXCEPT !.leaks = TRUE]
          [] diff > 0 /\ (newCommitSize > self.reserveSize \/ ~succeeds) -> [self EXCEPT !.status = -1]
          [] OTHER -> [resized EXCEPT !.committed = HeapSet(self, commitSize, diff, TRUE)]
=============================================================================
