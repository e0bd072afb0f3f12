--------------------------- MODULE ServicesProofs ----------------------------
(***************************************************************************)
(* Proofs about two services of the router.                                *)
(*                                                                         *)
(* TelnetServer: whatever a client sends and however it is cut, what has   *)
(* to be saved of a command fits the 12 bytes of `saved`, and what is done *)
(* is what the client meant.                                               *)
(*                                                                         *)
(* Ksmb: for any number of SMB clients and requests the router never reads *)
(* an empty netlink socket, loses at most every second request, and none   *)
(* unless requests overlap.                                                *)
(***************************************************************************)
EXTENDS TelnetServer, Ksmb, SequenceTheorems, TLAPS

-----------------------------------------------------------------------------
(***************************************************************************)
(* The parser.                                                             *)
(***************************************************************************)

\* A byte of a window size takes one or two bytes of the buffer, and when it is cut the
\* buffer ends at its first byte at the latest.
LEMMA NawsByteEnd ==
    ASSUME NEW b \in Seq(Bytes), NEW i \in Nat \ {0}
    PROVE  /\ NawsByte(b, i) \in {SAVE, KICK, i + 1, i + 2}
           /\ NawsByte(b, i) = SAVE => Len(b) <= i
           /\ NawsByte(b, i) > 0 => NawsByte(b, i) <= Len(b) + 1
BY DEF NawsByte, SAVE, KICK, Bytes

\* What came before is handed on.
LEMMA NawsByteKeeps ==
    ASSUME NEW b \in Seq(Bytes), NEW i \in {SAVE, KICK}
    PROVE  NawsByte(b, i) = i
BY DEF NawsByte, SAVE, KICK

\* A 16 bit number takes two to four bytes.
LEMMA NawsU16End ==
    ASSUME NEW b \in Seq(Bytes), NEW i \in Nat \ {0}
    PROVE  /\ NawsU16(b, i) \in {SAVE, KICK} \cup (i + 2 .. i + 4)
           /\ NawsU16(b, i) = SAVE => Len(b) <= i + 2
<1> DEFINE j == NawsByte(b, i)
<1>1. CASE j \in {SAVE, KICK}
  BY <1>1, NawsByteEnd, NawsByteKeeps DEF NawsU16, SAVE, KICK
<1>2. CASE j \in {i + 1, i + 2}
  <2>1. j \in Nat \ {0}
    BY <1>2
  <2>2. /\ NawsByte(b, j) \in {SAVE, KICK, j + 1, j + 2}
        /\ NawsByte(b, j) = SAVE => Len(b) <= j
    BY <2>1, NawsByteEnd
  <2> QED
    BY <1>2, <2>2 DEF NawsU16, SAVE, KICK
<1> QED
  BY <1>1, <1>2, NawsByteEnd

\* A window size that is cut ends within 12 bytes.
LEMMA NawsFits ==
    ASSUME NEW b \in Seq(Bytes)
    PROVE  NawsEnd(b) = SAVE => Len(b) <= 12
<1> DEFINE i == NawsU16(b, 4)
           j == NawsU16(b, i)
<1>1. /\ i \in {SAVE, KICK} \cup (6 .. 8)
      /\ i = SAVE => Len(b) <= 6
  BY NawsU16End
<1>2. CASE i \in {SAVE, KICK}
  BY <1>1, <1>2, NawsByteKeeps DEF NawsEnd, NawsU16, SAVE, KICK
<1>3. CASE i \in 6 .. 8
  <2>1. /\ j \in {SAVE, KICK} \cup (i + 2 .. i + 4)
        /\ j = SAVE => Len(b) <= i + 2
    BY <1>3, NawsU16End
  <2> QED
    BY <1>3, <2>1 DEF NawsEnd, SAVE, KICK
<1> QED
  BY <1>1, <1>2, <1>3

\* So does every other command.
LEMMA CommandFits ==
    ASSUME NEW b \in Seq(Bytes)
    PROVE  CommandEnd(b) = SAVE => Len(b) <= SavedSize
BY NawsFits DEF CommandEnd, SavedSize, SAVE, KICK

\* A complete command ends after its first byte.
LEMMA CommandEndType ==
    ASSUME NEW b \in Seq(Bytes)
    PROVE  CommandEnd(b) \in Int
<1>1. NawsEnd(b) \in Int
  <2> DEFINE i == NawsU16(b, 4)
             j == NawsU16(b, i)
  <2>1. i \in {SAVE, KICK} \cup (6 .. 8)
    BY NawsU16End
  <2>2. j \in Int
    <3>1. CASE i \in {SAVE, KICK}
      BY <3>1, NawsByteKeeps DEF NawsU16, SAVE, KICK
    <3>2. CASE i \in 6 .. 8
      BY <3>2, NawsU16End DEF SAVE, KICK
    <3> QED
      BY <2>1, <3>1, <3>2
  <2> QED
    BY <2>2 DEF NawsEnd, SAVE, KICK
<1> QED
  BY <1>1 DEF CommandEnd, SAVE, KICK

-----------------------------------------------------------------------------
(***************************************************************************)
(* What comes later does not change what was parsed.                       *)
(***************************************************************************)

\* b is the beginning of d.
Begins(b, d) == Len(b) <= Len(d) /\ \A i \in 1 .. Len(b) : d[i] = b[i]

\* What was parsed stays parsed when more bytes come.
LEMMA NawsByteStays ==
    ASSUME NEW b \in Seq(Bytes), NEW d \in Seq(Bytes), Begins(b, d),
           NEW i \in (Nat \ {0}) \cup {SAVE, KICK}, NawsByte(b, i) # SAVE
    PROVE  NawsByte(d, i) = NawsByte(b, i)
BY DEF NawsByte, SAVE, KICK, Begins

\* The places of the four bytes of a window size, and of what follows.
LEMMA NawsEndPlaces ==
    ASSUME NEW b \in Seq(Bytes), NawsEnd(b) # SAVE
    PROVE  LET i == NawsByte(b, 4)
               j == NawsByte(b, i)
               k == NawsByte(b, j)
               l == NawsByte(b, k)
           IN  /\ i # SAVE /\ j # SAVE /\ k # SAVE /\ l # SAVE
               /\ {i, j, k, l} \subseteq (Nat \ {0}) \cup {KICK}
               /\ NawsEnd(b) = KICK \/ NawsEnd(b) = l + 2
               /\ NawsEnd(b) # KICK =>
                    /\ i \in Nat \ {0} /\ j \in Nat \ {0} /\ k \in Nat \ {0} /\ l \in Nat \ {0}
                    /\ i <= Len(b) /\ j <= Len(b) /\ k <= Len(b) /\ l + 1 <= Len(b)
<1> DEFINE i == NawsByte(b, 4)
           j == NawsByte(b, i)
           k == NawsByte(b, j)
           l == NawsByte(b, k)
           S == (Nat \ {0}) \cup {SAVE, KICK}
<1>1. ASSUME NEW n \in S
      PROVE  /\ NawsByte(b, n) \in S
             /\ n \in {SAVE, KICK} => NawsByte(b, n) = n
             /\ NawsByte(b, n) \in Nat \ {0} => n \in Nat \ {0} /\ n < NawsByte(b, n)
             /\ NawsByte(b, n) \in Nat \ {0} => NawsByte(b, n) <= Len(b) + 1
  <2>1. CASE n \in {SAVE, KICK}
    BY <2>1, NawsByteKeeps DEF SAVE, KICK
  <2>2. CASE n \in Nat \ {0}
    BY <2>2, NawsByteEnd DEF SAVE, KICK
  <2> QED
    BY <2>1, <2>2
<1>2. NawsEnd(b) = IF l < 0 THEN l
                   ELSE IF l + 1 > Len(b) THEN SAVE
                   ELSE IF b[l] = "IAC" /\ b[l + 1] = "SE" THEN l + 2
                   ELSE KICK
  BY DEF NawsEnd, NawsU16
<1>3. i \in S
  BY <1>1
<1>4. j \in S
  BY <1>1, <1>3
<1>5. k \in S
  BY <1>1, <1>4
<1>6. l \in S
  BY <1>1, <1>5
<1> HIDE DEF i, j, k, l
<1>7. i # SAVE /\ j # SAVE /\ k # SAVE /\ l # SAVE
  <2>1. (i = SAVE => j = SAVE) /\ (j = SAVE => k = SAVE) /\ (k = SAVE => l = SAVE)
    BY <1>1, <1>3, <1>4, <1>5 DEF j, k, l
  <2> QED
    BY <1>2, <2>1 DEF SAVE
<1>8. NawsEnd(b) = KICK \/ NawsEnd(b) = l + 2
  BY <1>2, <1>6, <1>7 DEF SAVE, KICK
<1>9. ASSUME NawsEnd(b) # KICK
      PROVE  /\ i \in Nat \ {0} /\ j \in Nat \ {0} /\ k \in Nat \ {0} /\ l \in Nat \ {0}
             /\ i <= Len(b) /\ j <= Len(b) /\ k <= Len(b) /\ l + 1 <= Len(b)
  <2>1. l \in Nat \ {0} /\ l + 1 <= Len(b)
    BY <1>2, <1>6, <1>7, <1>9 DEF SAVE, KICK
  <2>2. k \in Nat \ {0} /\ k < l
    BY <1>1, <1>5, <2>1 DEF l
  <2>3. j \in Nat \ {0} /\ j < k
    BY <1>1, <1>4, <2>2 DEF k
  <2>4. i \in Nat \ {0} /\ i < j
    BY <1>1, <1>3, <2>3 DEF j
  <2> QED
    BY <2>1, <2>2, <2>3, <2>4
<1> QED
  BY <1>3, <1>4, <1>5, <1>6, <1>7, <1>8, <1>9 DEF i, j, k, l

\* A window size that was parsed stays parsed.
LEMMA NawsStays ==
    ASSUME NEW b \in Seq(Bytes), NEW d \in Seq(Bytes), Begins(b, d), NawsEnd(b) # SAVE
    PROVE  /\ NawsEnd(d) = NawsEnd(b)
           /\ NawsEnd(b) # KICK => Winsize(d) = Winsize(b)
<1> DEFINE i == NawsByte(b, 4)
           j == NawsByte(b, i)
           k == NawsByte(b, j)
           l == NawsByte(b, k)
<1>1. /\ i # SAVE /\ j # SAVE /\ k # SAVE /\ l # SAVE
      /\ {i, j, k, l} \subseteq (Nat \ {0}) \cup {KICK}
      /\ NawsEnd(b) = KICK \/ NawsEnd(b) = l + 2
      /\ NawsEnd(b) # KICK =>
           /\ i \in Nat \ {0} /\ j \in Nat \ {0} /\ k \in Nat \ {0} /\ l \in Nat \ {0}
           /\ i <= Len(b) /\ j <= Len(b) /\ k <= Len(b) /\ l + 1 <= Len(b)
  BY NawsEndPlaces
<1>2. i = NawsByte(b, 4) /\ j = NawsByte(b, i) /\ k = NawsByte(b, j) /\ l = NawsByte(b, k)
  OBVIOUS
<1>3. /\ NawsEnd(b) = IF l < 0 THEN l
                      ELSE IF l + 1 > Len(b) THEN SAVE
                      ELSE IF b[l] = "IAC" /\ b[l + 1] = "SE" THEN l + 2
                      ELSE KICK
      /\ Winsize(b) = <<b[4], b[i], b[j], b[k]>>
  BY DEF NawsEnd, NawsU16, Winsize
<1> HIDE DEF i, j, k, l
<1>s. ASSUME NEW n \in (Nat \ {0}) \cup {KICK}, NEW m, NawsByte(b, n) = m, m # SAVE
      PROVE  NawsByte(d, n) = m
  BY <1>s, NawsByteStays
<1>m. /\ i \in (Nat \ {0}) \cup {KICK} /\ j \in (Nat \ {0}) \cup {KICK}
      /\ k \in (Nat \ {0}) \cup {KICK} /\ l \in (Nat \ {0}) \cup {KICK}
  BY <1>1, Zenon
<1>4. NawsByte(d, 4) = i
  BY <1>1, <1>2, <1>s
<1>5. NawsByte(d, i) = j
  BY <1>1, <1>2, <1>s, <1>m, Zenon
<1>6. NawsByte(d, j) = k
  BY <1>1, <1>2, <1>s, <1>m, Zenon
<1>7. NawsByte(d, k) = l
  BY <1>1, <1>2, <1>s, <1>m, Zenon
<1>8. /\ NawsEnd(d) = IF l < 0 THEN l
                      ELSE IF l + 1 > Len(d) THEN SAVE
                      ELSE IF d[l] = "IAC" /\ d[l + 1] = "SE" THEN l + 2
                      ELSE KICK
      /\ Winsize(d) = <<d[4], d[i], d[j], d[k]>>
  BY <1>4, <1>5, <1>6, <1>7 DEF NawsEnd, NawsU16, Winsize
<1>9. NawsEnd(d) = NawsEnd(b)
  <2>1. CASE l = KICK
    BY <1>3, <1>8, <2>1 DEF KICK
  <2>2. CASE l # KICK
    <3>1. l \in Nat \ {0} /\ l + 1 <= Len(b) /\ Len(b) \in Nat /\ Len(d) \in Nat
      BY <1>1, <1>3, <1>m, <2>2 DEF SAVE, KICK
    <3>2. d[l] = b[l] /\ d[l + 1] = b[l + 1] /\ l + 1 <= Len(d)
      BY <3>1 DEF Begins
    <3> QED
      BY <1>3, <1>8, <3>1, <3>2
  <2> QED
    BY <2>1, <2>2
<1>10. ASSUME NawsEnd(b) # KICK PROVE Winsize(d) = Winsize(b)
  <2>0. NawsByte(b, 4) # SAVE
    BY <1>1, <1>2
  <2>1. 4 <= Len(b)
    BY <2>0 DEF NawsByte
  <2>2. d[4] = b[4] /\ d[i] = b[i] /\ d[j] = b[j] /\ d[k] = b[k]
    BY <1>1, <1>10, <2>1 DEF Begins
  <2> QED
    BY <1>3, <1>8, <2>2
<1> QED
  BY <1>9, <1>10

\* So does every command.
LEMMA CommandStays ==
    ASSUME NEW b \in Seq(Bytes), NEW d \in Seq(Bytes), Begins(b, d), CommandEnd(b) # SAVE
    PROVE  /\ CommandEnd(d) = CommandEnd(b)
           /\ CommandEnd(b) > 0 =>
                /\ CommandEffects(d) = CommandEffects(b)
                /\ CommandEnd(b) \in Nat /\ CommandEnd(b) <= Len(b) + 1
<1> DEFINE isNaws == Len(b) >= 3 /\ b[1] # "CR" /\ b[2] = "SB" /\ b[3] = "NAWS"
<1>1. CASE ~isNaws
  BY <1>1 DEF CommandEnd, CommandEffects, Begins, SAVE, KICK
<1>2. CASE isNaws
  <2>1. CommandEnd(b) = NawsEnd(b) /\ CommandEnd(d) = NawsEnd(d)
    BY <1>2 DEF CommandEnd, Begins
  <2>2. NawsEnd(d) = NawsEnd(b) /\ (NawsEnd(b) # KICK => Winsize(d) = Winsize(b))
    BY <2>1, NawsStays
  <2>3. NawsEnd(b) # KICK => NawsEnd(b) \in Nat /\ NawsEnd(b) <= Len(b) + 1
    BY <2>1, NawsEndPlaces
  <2>4. d[1] = b[1] /\ d[2] = b[2]
    BY <1>2 DEF Begins
  <2>5. CommandEnd(b) > 0 => NawsEnd(b) # KICK
    BY <2>1 DEF KICK
  <2> QED
    BY <2>1, <2>2, <2>3, <2>4, <2>5 DEF CommandEffects
<1> QED
  BY <1>1, <1>2

-----------------------------------------------------------------------------
(***************************************************************************)
(* The parser takes every command, and nothing else.                       *)
(***************************************************************************)

\* How many bytes a byte of a window size takes.
Width(byte) == IF byte = "IAC" THEN 2 ELSE 1

\* A sequence with one byte more, escaped.
LEMMA EscapedBehind ==
    ASSUME NEW s \in Seq(Bytes), NEW x \in Bytes
    PROVE  LET t == s \o Escaped(x)
           IN  /\ t \in Seq(Bytes) /\ Len(t) = Len(s) + Width(x)
               /\ \A i \in 1 .. Len(s) : t[i] = s[i]
               /\ t[Len(s) + 1] = x
               /\ x = "IAC" => t[Len(s) + 2] = "IAC"
<1>1. "IAC" \in Bytes
  BY DEF Bytes
<1>2. CASE x = "IAC"
  <2>1. Escaped(x) = <<"IAC", "IAC">> /\ Width(x) = 2
    BY <1>2 DEF Escaped, Width
  <2> DEFINE e == <<"IAC", "IAC">>
  <2>2. e \in Seq(Bytes) /\ Len(e) = 2 /\ e[1] = "IAC" /\ e[2] = "IAC"
    BY <1>1
  <2> HIDE DEF e
  <2>a. /\ s \o e \in Seq(Bytes) /\ Len(s \o e) = Len(s) + Len(e)
        /\ \A i \in 1 .. Len(s) + Len(e) : (s \o e)[i] = IF i <= Len(s) THEN s[i] ELSE e[i - Len(s)]
    <3>1. e \in Seq(Bytes)
      BY <2>2
    <3> QED
      BY <3>1, ConcatProperties, Zenon
  <2>3. /\ s \o e \in Seq(Bytes) /\ Len(s \o e) = Len(s) + 2
        /\ \A i \in 1 .. Len(s) + 2 : (s \o e)[i] = IF i <= Len(s) THEN s[i] ELSE e[i - Len(s)]
    BY <2>2, <2>a, Zenon
  <2>4. (s \o e)[Len(s) + 1] = "IAC" /\ (s \o e)[Len(s) + 2] = "IAC"
    BY <2>2, <2>3
  <2>5. Escaped(x) = e
    BY <2>1 DEF e
  <2> QED
    BY <1>2, <2>1, <2>3, <2>4, <2>5
<1>3. CASE x # "IAC"
  <2>1. Escaped(x) = <<x>> /\ Width(x) = 1
    BY <1>3 DEF Escaped, Width
  <2> QED
    BY <1>3, <2>1
<1> QED
  BY <1>2, <1>3

\* Byte x of a window size is at place p of s.
Stands(s, p, x) == s[p] = x /\ (x = "IAC" => s[p + 1] = "IAC")

\* Where the bytes of a window size are.
LEMMA NawsPlaces ==
    ASSUME NEW b \in Bytes, NEW c \in Bytes, NEW d \in Bytes, NEW e \in Bytes
    PROVE  LET s == Naws(<<b, c, d, e>>)
               p == 4 + Width(b)
               q == p + Width(c)
               r == q + Width(d)
               t == r + Width(e)
           IN  /\ s \in Seq(Bytes) /\ Len(s) = t + 1
               /\ s[1] = "IAC" /\ s[2] = "SB" /\ s[3] = "NAWS"
               /\ Stands(s, 4, b) /\ Stands(s, p, c) /\ Stands(s, q, d) /\ Stands(s, r, e)
               /\ s[t] = "IAC" /\ s[t + 1] = "SE"
<1> DEFINE p == 4 + Width(b)
           q == p + Width(c)
           r == q + Width(d)
           t == r + Width(e)
           s0 == <<"IAC", "SB", "NAWS">>
           s1 == s0 \o Escaped(b)
           s2 == s1 \o Escaped(c)
           s3 == s2 \o Escaped(d)
           s4 == s3 \o Escaped(e)
           s == s4 \o <<"IAC", "SE">>
<1>0. Naws(<<b, c, d, e>>) = s
  <2> DEFINE size == <<b, c, d, e>>
  <2>1. size[1] = b /\ size[2] = c /\ size[3] = d /\ size[4] = e
    OBVIOUS
  <2> HIDE DEF size
  <2>2. Naws(size) = s
    BY <2>1 DEF Naws
  <2> QED
    BY <2>2 DEF size
<1>1. s0 \in Seq(Bytes) /\ Len(s0) = 3 /\ s0[1] = "IAC" /\ s0[2] = "SB" /\ s0[3] = "NAWS"
  BY DEF Bytes
<1> HIDE DEF s0
<1>2. /\ s1 \in Seq(Bytes) /\ Len(s1) = Len(s0) + Width(b)
      /\ \A i \in 1 .. Len(s0) : s1[i] = s0[i]
      /\ s1[Len(s0) + 1] = b /\ (b = "IAC" => s1[Len(s0) + 2] = "IAC")
  BY <1>1, EscapedBehind
<1> HIDE DEF s1
<1>3. /\ s2 \in Seq(Bytes) /\ Len(s2) = Len(s1) + Width(c)
      /\ \A i \in 1 .. Len(s1) : s2[i] = s1[i]
      /\ s2[Len(s1) + 1] = c /\ (c = "IAC" => s2[Len(s1) + 2] = "IAC")
  BY <1>2, EscapedBehind
<1> HIDE DEF s2
<1>4. /\ s3 \in Seq(Bytes) /\ Len(s3) = Len(s2) + Width(d)
      /\ \A i \in 1 .. Len(s2) : s3[i] = s2[i]
      /\ s3[Len(s2) + 1] = d /\ (d = "IAC" => s3[Len(s2) + 2] = "IAC")
  BY <1>3, EscapedBehind
<1> HIDE DEF s3
<1>5. /\ s4 \in Seq(Bytes) /\ Len(s4) = Len(s3) + Width(e)
      /\ \A i \in 1 .. Len(s3) : s4[i] = s3[i]
      /\ s4[Len(s3) + 1] = e /\ (e = "IAC" => s4[Len(s3) + 2] = "IAC")
  BY <1>4, EscapedBehind
<1> HIDE DEF s4
<1>6. /\ s \in Seq(Bytes) /\ Len(s) = Len(s4) + 2
      /\ \A i \in 1 .. Len(s4) : s[i] = s4[i]
      /\ s[Len(s4) + 1] = "IAC" /\ s[Len(s4) + 2] = "SE"
  <2>1. <<"IAC", "SE">> \in Seq(Bytes)
    BY DEF Bytes
  <2> QED
    BY <1>5, <2>1
<1> HIDE DEF s
<1>7. /\ Len(s0) + 1 = 4 /\ Len(s1) + 1 = p /\ Len(s2) + 1 = q /\ Len(s3) + 1 = r /\ Len(s4) + 1 = t
      /\ p \in Nat /\ q \in Nat /\ r \in Nat /\ t \in Nat
      /\ p >= 5 /\ q >= p + 1 /\ r >= q + 1 /\ t >= r + 1
      /\ (b = "IAC" => p = 6) /\ (c = "IAC" => q = p + 2) /\ (d = "IAC" => r = q + 2)
      /\ (e = "IAC" => t = r + 2)
  <2>1. /\ Width(b) \in {1, 2} /\ Width(c) \in {1, 2} /\ Width(d) \in {1, 2} /\ Width(e) \in {1, 2}
        /\ (b = "IAC" => Width(b) = 2) /\ (c = "IAC" => Width(c) = 2)
        /\ (d = "IAC" => Width(d) = 2) /\ (e = "IAC" => Width(e) = 2)
    BY DEF Width
  <2>2. /\ Len(s0) = 3 /\ Len(s1) = Len(s0) + Width(b) /\ Len(s2) = Len(s1) + Width(c)
        /\ Len(s3) = Len(s2) + Width(d) /\ Len(s4) = Len(s3) + Width(e)
    BY <1>1, <1>2, <1>3, <1>4, <1>5
  <2> QED
    BY <2>1, <2>2
<1> HIDE DEF p, q, r, t
<1>a. \A i \in 1 .. t - 1 : s[i] = s4[i]
  BY <1>6, <1>7
<1>b. \A i \in 1 .. r - 1 : s[i] = s3[i]
  <2>1. \A i \in 1 .. r - 1 : i \in 1 .. t - 1 /\ i \in 1 .. Len(s3)
    BY <1>7
  <2> QED
    BY <1>5, <1>a, <2>1
<1>c. \A i \in 1 .. q - 1 : s[i] = s2[i]
  <2>1. \A i \in 1 .. q - 1 : i \in 1 .. r - 1 /\ i \in 1 .. Len(s2)
    BY <1>7
  <2> QED
    BY <1>4, <1>b, <2>1
<1>d. \A i \in 1 .. p - 1 : s[i] = s1[i]
  <2>1. \A i \in 1 .. p - 1 : i \in 1 .. q - 1 /\ i \in 1 .. Len(s1)
    BY <1>7
  <2> QED
    BY <1>3, <1>c, <2>1
<1>8. \A i \in 1 .. 3 : s[i] = s0[i]
  <2>1. \A i \in 1 .. 3 : i \in 1 .. p - 1 /\ i \in 1 .. Len(s0)
    BY <1>7
  <2> QED
    BY <1>2, <1>d, <2>1
<1>s. ASSUME NEW u, NEW x, NEW n \in Nat \ {0}, NEW m \in Nat, n <= m, u[n] = x,
             x = "IAC" => u[n + 1] = "IAC" /\ n + 1 <= m, \A i \in 1 .. m : s[i] = u[i]
      PROVE  Stands(s, n, x)
  BY <1>s DEF Stands
<1>9. Stands(s, 4, b)
  <2>1. 4 <= p - 1 /\ p - 1 \in Nat /\ s1[4] = b /\ (b = "IAC" => s1[4 + 1] = "IAC" /\ 4 + 1 <= p - 1)
    BY <1>2, <1>7
  <2> QED
    BY <1>d, <1>s, <2>1, 4 \in Nat \ {0}, ZenonT(80)
<1>10. Stands(s, p, c)
  <2>1. /\ p \in Nat \ {0} /\ p <= q - 1 /\ q - 1 \in Nat /\ Len(s1) + 1 = p /\ Len(s1) + 2 = p + 1
        /\ (c = "IAC" => p + 1 <= q - 1)
    BY <1>7
  <2>2. s2[p] = c /\ (c = "IAC" => s2[p + 1] = "IAC")
    BY <1>3, <2>1
  <2> QED
    BY <1>c, <1>s, <2>1, <2>2, ZenonT(80)
<1>11. Stands(s, q, d)
  <2>1. /\ q \in Nat \ {0} /\ q <= r - 1 /\ r - 1 \in Nat /\ Len(s2) + 1 = q /\ Len(s2) + 2 = q + 1
        /\ (d = "IAC" => q + 1 <= r - 1)
    BY <1>7
  <2>2. s3[q] = d /\ (d = "IAC" => s3[q + 1] = "IAC")
    BY <1>4, <2>1
  <2> QED
    BY <1>b, <1>s, <2>1, <2>2, ZenonT(80)
<1>12. Stands(s, r, e)
  <2>1. /\ r \in Nat \ {0} /\ r <= t - 1 /\ t - 1 \in Nat /\ Len(s3) + 1 = r /\ Len(s3) + 2 = r + 1
        /\ (e = "IAC" => r + 1 <= t - 1)
    BY <1>7
  <2>2. s4[r] = e /\ (e = "IAC" => s4[r + 1] = "IAC")
    BY <1>5, <2>1
  <2> QED
    BY <1>a, <1>s, <2>1, <2>2, ZenonT(80)
<1>13. s[t] = "IAC" /\ s[t + 1] = "SE" /\ Len(s) = t + 1
  BY <1>6, <1>7, SMTT(40)
<1> QED
  BY <1>0, <1>1, <1>6, <1>8, <1>9, <1>10, <1>11, <1>12, <1>13 DEF p, q, r, t

\* The parser takes a byte that stands where it looks.
LEMMA NawsByteTakes ==
    ASSUME NEW s \in Seq(Bytes), NEW p \in Nat \ {0}, NEW x \in Bytes, Stands(s, p, x),
           p + Width(x) <= Len(s) + 1
    PROVE  NawsByte(s, p) = p + Width(x)
<1>1. CASE x = "IAC"
  <2>1. Width(x) = 2 /\ s[p] = "IAC" /\ s[p + 1] = "IAC"
    BY <1>1 DEF Stands, Width
  <2>2. p + 1 <= Len(s) /\ Len(s) \in Nat /\ p \in Nat /\ ~(p < 0) /\ ~(p > Len(s)) /\ ~(p + 1 > Len(s))
    BY <2>1
  <2> QED
    BY <2>1, <2>2, Zenon DEF NawsByte
<1>2. CASE x # "IAC"
  <2>1. Width(x) = 1 /\ s[p] = x
    BY <1>2 DEF Stands, Width
  <2>2. p <= Len(s) /\ Len(s) \in Nat /\ p \in Nat /\ ~(p < 0) /\ ~(p > Len(s))
    BY <2>1
  <2> QED
    BY <1>2, <2>1, <2>2, Zenon DEF NawsByte
<1> QED
  BY <1>1, <1>2

\* And only such a byte.
LEMMA NawsByteTook ==
    ASSUME NEW s \in Seq(Bytes), NEW p \in Nat \ {0}, NawsByte(s, p) > 0
    PROVE  /\ s[p] \in Bytes /\ Stands(s, p, s[p]) /\ NawsByte(s, p) = p + Width(s[p])
           /\ p + Width(s[p]) <= Len(s) + 1
BY DEF NawsByte, Stands, Width, SAVE, KICK

\* What is parsed of a command is all of it, and is what the command means.
LEMMA CommandsParsed ==
    ASSUME NEW c \in Commands
    PROVE  /\ c.bytes \in Seq(Bytes) /\ Len(c.bytes) > 0 /\ c.bytes[1] \in {"CR", "IAC"}
           /\ CommandEnd(c.bytes) = Len(c.bytes) + 1
           /\ CommandEffects(c.bytes) = c.means
<1>1. CASE c \in Returns
  <2>1. PICK b \in {"NUL", "NL"} : c = [bytes |-> <<"CR", b>>, means |-> <<Write("CR")>>]
    BY <1>1 DEF Returns
  <2> QED
    BY <2>1 DEF CommandEnd, CommandEffects, Bytes
<1>2. CASE c \in Escapes
  <2>1. c = [bytes |-> <<"IAC", "IAC">>, means |-> <<Write("IAC")>>]
    BY <1>2, Zenon DEF Escapes
  <2> QED
    BY <2>1 DEF CommandEnd, CommandEffects, Bytes
<1>3. CASE c \in Nops
  <2>1. c = [bytes |-> <<"IAC", "NOP">>, means |-> <<>>]
    BY <1>3, Zenon DEF Nops
  <2> QED
    BY <2>1 DEF CommandEnd, CommandEffects, Bytes
<1>4. CASE c \in Wills
  <2>1. PICK b \in Bytes : c = [bytes |-> <<"IAC", "WILL", b>>, means |-> <<>>]
    BY <1>4 DEF Wills
  <2> QED
    BY <2>1 DEF CommandEnd, CommandEffects, Bytes
<1>5. CASE c \in Resizes
  <2> PICK size \in Bytes \X Bytes \X Bytes \X Bytes :
             c = [bytes |-> Naws(size), means |-> <<Resize(size)>>]
    BY <1>5 DEF Resizes
  <2> DEFINE b == size[1]
             f == size[2]
             d == size[3]
             e == size[4]
  <2>0. b \in Bytes /\ f \in Bytes /\ d \in Bytes /\ e \in Bytes /\ size = <<b, f, d, e>>
    OBVIOUS
  <2> HIDE DEF b, f, d, e
  <2> DEFINE s == Naws(<<b, f, d, e>>)
             p == 4 + Width(b)
             q == p + Width(f)
             r == q + Width(d)
             t == r + Width(e)
  <2>1. /\ s \in Seq(Bytes) /\ Len(s) = t + 1
        /\ s[1] = "IAC" /\ s[2] = "SB" /\ s[3] = "NAWS"
        /\ Stands(s, 4, b) /\ Stands(s, p, f) /\ Stands(s, q, d) /\ Stands(s, r, e)
        /\ s[t] = "IAC" /\ s[t + 1] = "SE"
    BY <2>0, NawsPlaces
  <2>2. c.bytes = s /\ c.means = <<Resize(<<b, f, d, e>>)>>
    BY <2>0
  <2>w. Width(b) \in {1, 2} /\ Width(f) \in {1, 2} /\ Width(d) \in {1, 2} /\ Width(e) \in {1, 2}
    BY DEF Width
  <2>3. /\ p \in Nat \ {0} /\ q \in Nat \ {0} /\ r \in Nat \ {0} /\ t \in Nat \ {0}
        /\ p >= 5 /\ p < q /\ q < r /\ r < t
        /\ p = 4 + Width(b) /\ q = p + Width(f) /\ r = q + Width(d) /\ t = r + Width(e)
    BY <2>w
  <2> HIDE DEF s, p, q, r, t
  <2>t. ASSUME NEW n \in Nat \ {0}, NEW x \in Bytes, NEW m, Stands(s, n, x), m = n + Width(x), m <= t
        PROVE  NawsByte(s, n) = m
    <3>1. s \in Seq(Bytes) /\ n + Width(x) <= Len(s) + 1
      BY <2>1, <2>3, <2>t
    <3> QED
      BY <2>t, <3>1, NawsByteTakes, Zenon
  <2>4. NawsByte(s, 4) = p
    BY <2>0, <2>1, <2>3, <2>t
  <2>5. NawsByte(s, p) = q
    BY <2>0, <2>1, <2>3, <2>t
  <2>6. NawsByte(s, q) = r
    BY <2>0, <2>1, <2>3, <2>t
  <2>7. NawsByte(s, r) = t
    BY <2>0, <2>1, <2>3, <2>t
  <2>8. NawsEnd(s) = t + 2
    BY <2>1, <2>3, <2>4, <2>5, <2>6, <2>7 DEF NawsEnd, NawsU16
  <2>9. Winsize(s) = <<b, f, d, e>>
    BY <2>1, <2>4, <2>5, <2>6 DEF Winsize, Stands
  <2>10. CommandEnd(s) = t + 2
    BY <2>1, <2>3, <2>8 DEF CommandEnd
  <2>11. CommandEffects(s) = <<Resize(<<b, f, d, e>>)>>
    BY <2>1, <2>9 DEF CommandEffects
  <2>12. /\ s \in Seq(Bytes) /\ Len(s) > 0 /\ s[1] \in {"CR", "IAC"}
         /\ CommandEnd(s) = Len(s) + 1 /\ CommandEffects(s) = c.means
    BY <2>1, <2>2, <2>3, <2>10, <2>11
  <2> QED
    BY <2>2, <2>12
<1> QED
  BY <1>1, <1>2, <1>3, <1>4, <1>5 DEF Commands

\* What the parser takes begins with a command.
LEMMA OnlyCommandsParsed ==
    ASSUME NEW d \in Seq(Bytes), Len(d) > 0, d[1] \in {"CR", "IAC"}, CommandEnd(d) > 0
    PROVE  \E c \in Commands : Begins(c.bytes, d)
<1>1. CASE d[1] = "CR"
  <2>1. Len(d) >= 2 /\ d[2] \in {"NUL", "NL"}
    BY <1>1 DEF CommandEnd, SAVE, KICK
  <2> DEFINE c == [bytes |-> <<"CR", d[2]>>, means |-> <<Write("CR")>>]
  <2>2. c \in Commands
    BY <2>1, Zenon DEF Commands, Returns
  <2>3. Begins(c.bytes, d)
    BY <1>1, <2>1 DEF Begins
  <2> QED
    BY <2>2, <2>3
<1>2. CASE d[1] = "IAC" /\ d[2] = "IAC"
  <2> DEFINE c == [bytes |-> <<"IAC", "IAC">>, means |-> <<Write("IAC")>>]
  <2>1. Len(d) >= 2
    BY <1>2 DEF CommandEnd, SAVE
  <2>2. c \in Commands
    BY DEF Commands, Escapes
  <2>3. Begins(c.bytes, d)
    BY <1>2, <2>1 DEF Begins
  <2> QED
    BY <2>2, <2>3
<1>3. CASE d[1] = "IAC" /\ d[2] = "NOP"
  <2> DEFINE c == [bytes |-> <<"IAC", "NOP">>, means |-> <<>>]
  <2>1. Len(d) >= 2
    BY <1>3 DEF CommandEnd, SAVE
  <2>2. c \in Commands
    BY DEF Commands, Nops
  <2>3. Begins(c.bytes, d)
    BY <1>3, <2>1 DEF Begins
  <2> QED
    BY <2>2, <2>3
<1>4. CASE d[1] = "IAC" /\ d[2] = "WILL"
  <2> DEFINE c == [bytes |-> <<"IAC", "WILL", d[3]>>, means |-> <<>>]
  <2>1. Len(d) >= 3
    BY <1>4 DEF CommandEnd, SAVE
  <2>4. d[3] \in Bytes
    BY <2>1
  <2>2. c \in Commands
    BY <2>4, Zenon DEF Commands, Wills
  <2>3. Begins(c.bytes, d)
    BY <1>4, <2>1 DEF Begins
  <2> QED
    BY <2>2, <2>3
<1>5. CASE d[1] = "IAC" /\ d[2] \notin {"IAC", "NOP", "WILL"}
  <2>1. /\ Len(d) >= 3 /\ d[2] = "SB" /\ d[3] = "NAWS" /\ NawsEnd(d) > 0
    BY <1>5 DEF CommandEnd, SAVE, KICK
  <2> DEFINE i == NawsByte(d, 4)
             j == NawsByte(d, i)
             k == NawsByte(d, j)
             l == NawsByte(d, k)
  <2>2. /\ i \in Nat \ {0} /\ j \in Nat \ {0} /\ k \in Nat \ {0} /\ l \in Nat \ {0}
        /\ NawsEnd(d) = l + 2 /\ l + 1 <= Len(d)
    BY <2>1, NawsEndPlaces DEF SAVE, KICK
  <2>3. d[l] = "IAC" /\ d[l + 1] = "SE"
    BY <2>1, <2>2 DEF NawsEnd, NawsU16, SAVE, KICK
  <2>4. i = NawsByte(d, 4) /\ j = NawsByte(d, i) /\ k = NawsByte(d, j) /\ l = NawsByte(d, k)
    OBVIOUS
  <2> HIDE DEF i, j, k, l
  <2>5. d[4] \in Bytes /\ Stands(d, 4, d[4]) /\ i = 4 + Width(d[4])
    BY <2>2, <2>4, NawsByteTook
  <2>6. d[i] \in Bytes /\ Stands(d, i, d[i]) /\ j = i + Width(d[i])
    BY <2>2, <2>4, NawsByteTook
  <2>7. d[j] \in Bytes /\ Stands(d, j, d[j]) /\ k = j + Width(d[j])
    BY <2>2, <2>4, NawsByteTook
  <2>8. d[k] \in Bytes /\ Stands(d, k, d[k]) /\ l = k + Width(d[k])
    BY <2>2, <2>4, NawsByteTook
  <2> DEFINE s == Naws(<<d[4], d[i], d[j], d[k]>>)
             c == [bytes |-> s, means |-> <<Resize(<<d[4], d[i], d[j], d[k]>>)>>]
  <2>9. c \in Commands /\ c.bytes = s
    <3>1. d[4] \in Bytes /\ d[i] \in Bytes /\ d[j] \in Bytes /\ d[k] \in Bytes
      BY <2>5, <2>6, <2>7, <2>8
    <3>2. c \in Commands
      BY <3>1 DEF Commands, Resizes
    <3> QED
      BY <3>2
  <2>10. /\ s \in Seq(Bytes) /\ Len(s) = l + 1
         /\ s[1] = "IAC" /\ s[2] = "SB" /\ s[3] = "NAWS"
         /\ Stands(s, 4, d[4]) /\ Stands(s, i, d[i]) /\ Stands(s, j, d[j]) /\ Stands(s, k, d[k])
         /\ s[l] = "IAC" /\ s[l + 1] = "SE"
    <3>1. d[4] \in Bytes /\ d[i] \in Bytes /\ d[j] \in Bytes /\ d[k] \in Bytes
      BY <2>5, <2>6, <2>7, <2>8
    <3> DEFINE p == 4 + Width(d[4])
               q == p + Width(d[i])
               r == q + Width(d[j])
               t == r + Width(d[k])
    <3>2. /\ s \in Seq(Bytes) /\ Len(s) = t + 1
          /\ s[1] = "IAC" /\ s[2] = "SB" /\ s[3] = "NAWS"
          /\ Stands(s, 4, d[4]) /\ Stands(s, p, d[i]) /\ Stands(s, q, d[j]) /\ Stands(s, r, d[k])
          /\ s[t] = "IAC" /\ s[t + 1] = "SE"
      BY <3>1, NawsPlaces, SMTT(40)
    <3>3. p = i /\ q = j /\ r = k /\ t = l
      BY <2>5, <2>6, <2>7, <2>8, Zenon
    <3> HIDE DEF p, q, r, t, s
    <3> QED
      BY <3>2, <3>3, Zenon
  <2> HIDE DEF s
  <2>11. ASSUME NEW n \in 1 .. l + 1 PROVE d[n] = s[n]
    <3>1. ASSUME NEW p \in Nat, NEW x, Stands(s, p, x), Stands(d, p, x), n \in p .. (p + Width(x) - 1)
          PROVE  d[n] = s[n]
      BY <3>1 DEF Stands, Width
    <3>w. \A x : Width(x) \in {1, 2}
      BY DEF Width
    <3>2. CASE n \in 1 .. 3
      BY <1>5, <2>1, <2>10, <3>2
    <3>3. CASE n \in 4 .. i - 1
      <4>1. n \in 4 .. (4 + Width(d[4]) - 1) /\ 4 \in Nat
        <5>1. Width(d[4]) \in Int /\ i = 4 + Width(d[4]) /\ 4 \in Nat
          BY <2>2, <2>5, <3>w
        <5> QED
          BY <3>3, <5>1
      <4>2. Stands(s, 4, d[4]) /\ Stands(d, 4, d[4])
        BY <2>5, <2>10
      <4> QED
        BY <3>1, <4>1, <4>2, Zenon
    <3>4. CASE n \in i .. j - 1
      <4>1. n \in i .. (i + Width(d[i]) - 1) /\ i \in Nat
        <5>1. Width(d[i]) \in Int /\ j = i + Width(d[i]) /\ i \in Nat
          BY <2>2, <2>6, <3>w
        <5> QED
          BY <3>4, <5>1
      <4>2. Stands(s, i, d[i]) /\ Stands(d, i, d[i])
        BY <2>6, <2>10
      <4> QED
        BY <3>1, <4>1, <4>2, Zenon
    <3>5. CASE n \in j .. k - 1
      <4>1. n \in j .. (j + Width(d[j]) - 1) /\ j \in Nat
        <5>1. Width(d[j]) \in Int /\ k = j + Width(d[j]) /\ j \in Nat
          BY <2>2, <2>7, <3>w
        <5> QED
          BY <3>5, <5>1
      <4>2. Stands(s, j, d[j]) /\ Stands(d, j, d[j])
        BY <2>7, <2>10
      <4> QED
        BY <3>1, <4>1, <4>2, Zenon
    <3>6. CASE n \in k .. l - 1
      <4>1. n \in k .. (k + Width(d[k]) - 1) /\ k \in Nat
        <5>1. Width(d[k]) \in Int /\ l = k + Width(d[k]) /\ k \in Nat
          BY <2>2, <2>8, <3>w
        <5> QED
          BY <3>6, <5>1
      <4>2. Stands(s, k, d[k]) /\ Stands(d, k, d[k])
        BY <2>8, <2>10
      <4> QED
        BY <3>1, <4>1, <4>2, Zenon
    <3>7. CASE n \in {l, l + 1}
      BY <2>3, <2>10, <3>7
    <3> QED
      BY <2>2, <3>2, <3>3, <3>4, <3>5, <3>6, <3>7
  <2>12. Begins(s, d)
    BY <2>2, <2>10, <2>11 DEF Begins
  <2> QED
    BY <2>9, <2>12
<1> QED
  BY <1>1, <1>2, <1>3, <1>4, <1>5

\* However garbage goes on, it is never taken.
LEMMA GarbageNeverParsed ==
    ASSUME NEW g \in Seq(Bytes), Garbage(g), NEW d \in Seq(Bytes), Begins(g, d)
    PROVE  ~(CommandEnd(d) > 0)
<1> SUFFICES ASSUME CommandEnd(d) > 0 PROVE FALSE
  OBVIOUS
<1>1. Len(g) > 0 /\ Len(d) > 0 /\ d[1] = g[1] /\ d[1] \in {"CR", "IAC"}
  BY DEF Garbage, Begins
<1>2. PICK c \in Commands : Begins(c.bytes, d)
  BY <1>1, OnlyCommandsParsed
<1>3. c.bytes \in Seq(Bytes)
  BY CommandsParsed
<1>4. Alike(g, c.bytes)
  BY <1>2, <1>3 DEF Alike, Begins
<1> QED
  BY <1>4 DEF Garbage

-----------------------------------------------------------------------------
(***************************************************************************)
(* What a client sends, as a stream of inputs.                             *)
(***************************************************************************)

\* What may be done for a client.
EffectSet ==
    {Write(b) : b \in Bytes} \cup {Kicked}
        \cup {Resize(size) : size \in Bytes \X Bytes \X Bytes \X Bytes}

\* An input is garbage if it means that the client is kicked.
Kicks(in) == in.means = <<Kicked>>

\* Kicking a client is no other effect.
LEMMA KickedApart ==
    /\ \A b : Write(b) # Kicked
    /\ \A size : Resize(size) # Kicked
BY DEF Write, Resize, Kicked

\* What an input is.
LEMMA InputFacts ==
    ASSUME NEW in \in Inputs
    PROVE  /\ in.bytes \in Seq(Bytes) /\ Len(in.bytes) > 0
           /\ in.means \in Seq(EffectSet) /\ Len(in.means) \in {0, 1}
           /\ Len(in.means) = 1 /\ in.means[1] = Kicked => Kicks(in)
           /\ \/ in \in Texts /\ ~Kicks(in)
              \/ in \in Commands /\ ~Kicks(in)
              \/ Garbage(in.bytes) /\ Kicks(in)
<1>1. CASE in \in Texts
  <2>1. PICK b \in Bytes \ {"CR", "IAC"} : in = [bytes |-> <<b>>, means |-> <<Write(b)>>]
    BY <1>1 DEF Texts
  <2>2. Write(b) \in EffectSet /\ Write(b) # Kicked
    BY KickedApart DEF EffectSet
  <2>3. in.bytes = <<b>> /\ in.means = <<Write(b)>>
    BY <2>1
  <2> HIDE DEF Write
  <2> QED
    BY <1>1, <2>2, <2>3 DEF Kicks
<1>2. CASE in \in Commands
  <2>1. in.bytes \in Seq(Bytes) /\ Len(in.bytes) > 0
    BY <1>2, CommandsParsed
  <2>2. \/ in.means = <<>>
        \/ \E w \in EffectSet : w # Kicked /\ in.means = <<w>>
    <3>1. CASE in \in Returns
      <4>1. in.means = <<Write("CR")>>
        BY <3>1 DEF Returns
      <4>2. Write("CR") \in EffectSet
        BY DEF EffectSet, Bytes
      <4> QED
        BY <4>1, <4>2, KickedApart
    <3>2. CASE in \in Escapes
      <4>1. in.means = <<Write("IAC")>>
        BY <3>2 DEF Escapes
      <4>2. Write("IAC") \in EffectSet
        BY DEF EffectSet, Bytes
      <4> QED
        BY <4>1, <4>2, KickedApart
    <3>3. CASE in \in Nops
      BY <3>3 DEF Nops
    <3>4. CASE in \in Wills
      BY <3>4 DEF Wills
    <3>5. CASE in \in Resizes
      <4>1. PICK size \in Bytes \X Bytes \X Bytes \X Bytes : in.means = <<Resize(size)>>
        BY <3>5 DEF Resizes
      <4>2. Resize(size) \in EffectSet
        BY DEF EffectSet
      <4> QED
        BY <4>1, <4>2, KickedApart
    <3> QED
      BY <1>2, <3>1, <3>2, <3>3, <3>4, <3>5 DEF Commands
  <2>3. CASE in.means = <<>>
    <3>1. Len(in.means) = 0 /\ in.means \in Seq(EffectSet) /\ ~Kicks(in)
      BY <2>3 DEF Kicks
    <3> QED
      BY <1>2, <2>1, <3>1
  <2>4. CASE \E w \in EffectSet : w # Kicked /\ in.means = <<w>>
    <3>1. PICK w \in EffectSet : w # Kicked /\ in.means = <<w>>
      BY <2>4
    <3>2. Len(in.means) = 1 /\ in.means[1] = w /\ in.means \in Seq(EffectSet)
      BY <3>1
    <3>3. ~Kicks(in)
      BY <3>1 DEF Kicks
    <3> QED
      BY <1>2, <2>1, <3>1, <3>2, <3>3
  <2> QED
    BY <2>2, <2>3, <2>4
<1>3. CASE in.bytes \in Seq(Bytes) /\ Garbage(in.bytes) /\ in.means = <<Kicked>>
  <2>1. Kicked \in EffectSet
    BY DEF EffectSet
  <2>2. Len(in.bytes) > 0
    BY <1>3 DEF Garbage
  <2>3. Len(in.means) = 1 /\ in.means \in Seq(EffectSet)
    BY <1>3, <2>1
  <2> QED
    BY <1>3, <2>2, <2>3 DEF Kicks
<1> QED
  BY <1>1, <1>2, <1>3, TelnetAssumption

\* Sequence t is found in s behind the first n.
Found(t, s, n) == \A j \in 1 .. Len(t) : s[n + j] = t[j]

\* Garbage was sent, after which nothing counts.
Ends(done) == done # <<>> /\ done[Len(done)] = Kicked

\* The stream s consists of the inputs q, of which the k-th ends at pos[k], and of which what
\* they mean is found in x from n on, ending at eff[k].  Behind garbage comes anything.
Split(s, x, n, q, pos, eff) ==
    /\ q \in Seq(Inputs) /\ pos \in [0 .. Len(q) -> Nat] /\ eff \in [0 .. Len(q) -> Nat]
    /\ pos[0] = 0 /\ eff[0] = n /\ eff[Len(q)] = Len(x)
    /\ \A k \in 0 .. Len(q) : pos[k] <= Len(s) /\ eff[k] <= Len(x)
    /\ \A k \in 1 .. Len(q) :
         /\ pos[k] = pos[k - 1] + Len(q[k].bytes) /\ Found(q[k].bytes, s, pos[k - 1])
         /\ eff[k] = eff[k - 1] + Len(q[k].means) /\ Found(q[k].means, x, eff[k - 1])
    /\ \A j, k \in 0 .. Len(q) : j <= k => pos[j] <= pos[k]
    /\ \A k \in 1 .. Len(q) - 1 : ~Kicks(q[k])
    /\ \/ ~Ends(x) /\ pos[Len(q)] = Len(s) /\ (Len(q) > 0 => ~Kicks(q[Len(q)]))
       \/ Ends(x) /\ Len(q) > 0 /\ Kicks(q[Len(q)])

\* Some inputs make up s and mean what x holds from n on.
Streams(s, x, n) == \E q, pos, eff : Split(s, x, n, q, pos, eff)

\* A place within a part that lies within a whole.
LEMMA Within ==
    ASSUME NEW a \in Nat, NEW l \in Nat, NEW m \in Nat, a + l <= m, NEW j \in 1 .. l
    PROVE  a + j \in 1 .. m
OBVIOUS

\* One sequence behind the other.
LEMMA Joined ==
    ASSUME NEW S, NEW s \in Seq(S), NEW e \in Seq(S)
    PROVE  /\ s \o e \in Seq(S) /\ Len(s \o e) = Len(s) + Len(e)
           /\ \A i \in 1 .. Len(s) : (s \o e)[i] = s[i]
           /\ \A i \in 1 .. Len(e) : (s \o e)[Len(s) + i] = e[i]
<1> DEFINE t == s \o e
<1>1. /\ t \in Seq(S) /\ Len(t) = Len(s) + Len(e)
      /\ \A i \in 1 .. Len(s) + Len(e) : t[i] = IF i <= Len(s) THEN s[i] ELSE e[i - Len(s)]
  BY ConcatProperties, Zenon
<1> HIDE DEF t
<1>2. Len(s) \in Nat /\ Len(e) \in Nat
  OBVIOUS
<1>3. ASSUME NEW i \in 1 .. Len(s) PROVE t[i] = s[i]
  <2>1. i \in 1 .. Len(s) + Len(e) /\ i <= Len(s)
    BY <1>2
  <2> QED
    BY <1>1, <2>1
<1>4. ASSUME NEW i \in 1 .. Len(e) PROVE t[Len(s) + i] = e[i]
  <2>1. Len(s) + i \in 1 .. Len(s) + Len(e) /\ ~(Len(s) + i <= Len(s)) /\ (Len(s) + i) - Len(s) = i
    BY <1>2
  <2>2. t[Len(s) + i] = IF Len(s) + i <= Len(s) THEN s[Len(s) + i] ELSE e[(Len(s) + i) - Len(s)]
    BY <1>1, <2>1, Zenon
  <2> QED
    BY <2>1, <2>2
<1> QED
  BY <1>1, <1>3, <1>4 DEF t

\* The first input of the stream.
LEMMA FirstInput ==
    ASSUME NEW s \in Seq(Bytes), NEW x \in Seq(EffectSet), NEW n \in Nat,
           NEW q, NEW pos, NEW eff, Split(s, x, n, q, pos, eff), Len(s) > 0
    PROVE  /\ Len(q) \in Nat \ {0} /\ q[1] \in Inputs /\ Begins(q[1].bytes, s)
           /\ n + Len(q[1].means) <= Len(x) /\ Found(q[1].means, x, n)
<1>1. /\ q \in Seq(Inputs) /\ Len(q) \in Nat /\ Len(s) \in Nat /\ Len(x) \in Nat
  BY DEF Split
<1>2. Len(q) # 0
  BY <1>1 DEF Split
<1>3. 1 \in 1 .. Len(q) /\ 1 \in 0 .. Len(q) /\ q[1] \in Inputs
  BY <1>1, <1>2
<1>4. /\ pos[1] <= Len(s) /\ eff[1] <= Len(x) /\ pos[0] = 0 /\ eff[0] = n
      /\ pos[1] = pos[1 - 1] + Len(q[1].bytes) /\ Found(q[1].bytes, s, pos[1 - 1])
      /\ eff[1] = eff[1 - 1] + Len(q[1].means) /\ Found(q[1].means, x, eff[1 - 1])
  BY <1>3 DEF Split
<1>5. Len(q[1].bytes) \in Nat /\ Len(q[1].means) \in Nat
  BY <1>3, InputFacts
<1>6. /\ Len(q[1].bytes) <= Len(s) /\ n + Len(q[1].means) <= Len(x)
      /\ Found(q[1].bytes, s, 0) /\ Found(q[1].means, x, n)
  BY <1>4, <1>5
<1>7. Begins(q[1].bytes, s)
  BY <1>5, <1>6 DEF Found, Begins
<1> QED
  BY <1>1, <1>2, <1>3, <1>6, <1>7

\* When it is done the others are left.
LEMMA FirstDone ==
    ASSUME NEW s \in Seq(Bytes), NEW x \in Seq(EffectSet), NEW n \in Nat,
           NEW q, NEW pos, NEW eff, Split(s, x, n, q, pos, eff), Len(q) > 0, ~Kicks(q[1]),
           NEW t \in Seq(Bytes), Len(t) = Len(s) - Len(q[1].bytes),
           \A i \in 1 .. Len(t) : t[i] = s[Len(q[1].bytes) + i]
    PROVE  Streams(t, x, n + Len(q[1].means))
<1> DEFINE L == Len(q[1].bytes)
           r == Tail(q)
           at == [k \in 0 .. Len(q) - 1 |-> pos[k + 1] - L]
           to == [k \in 0 .. Len(q) - 1 |-> eff[k + 1]]
<1>1. /\ q \in Seq(Inputs) /\ Len(q) \in Nat \ {0} /\ Len(s) \in Nat /\ Len(t) \in Nat /\ Len(x) \in Nat
      /\ 1 \in 1 .. Len(q) /\ 1 \in 0 .. Len(q) /\ q[1] \in Inputs
  BY DEF Split
<1>2. r \in Seq(Inputs) /\ Len(r) = Len(q) - 1 /\ \A k \in 1 .. Len(r) : r[k] = q[k + 1]
  BY <1>1
<1>3. L \in Nat /\ Len(q[1].means) \in Nat
  BY <1>1, InputFacts
<1>4. pos[1] = L /\ eff[1] = n + Len(q[1].means)
  <2>1. /\ pos[0] = 0 /\ eff[0] = n
        /\ pos[1] = pos[1 - 1] + L /\ eff[1] = eff[1 - 1] + Len(q[1].means)
    BY <1>1 DEF Split
  <2> QED
    BY <1>3, <2>1
<1> HIDE DEF L, r
<1>5. ASSUME NEW k \in 0 .. Len(r)
      PROVE  /\ k + 1 \in 0 .. Len(q) /\ at[k] = pos[k + 1] - L /\ to[k] = eff[k + 1]
             /\ at[k] \in Nat /\ to[k] \in Nat /\ at[k] <= Len(t) /\ to[k] <= Len(x)
  <2>1. k + 1 \in 0 .. Len(q) /\ k + 1 >= 1 /\ k \in 0 .. Len(q) - 1
    BY <1>1, <1>2
  <2>2. pos[k + 1] \in Nat /\ eff[k + 1] \in Nat /\ pos[k + 1] <= Len(s) /\ eff[k + 1] <= Len(x)
    BY <2>1 DEF Split
  <2>3. pos[1] <= pos[k + 1]
    BY <1>1, <2>1 DEF Split
  <2> QED
    BY <1>1, <1>3, <1>4, <2>1, <2>2, <2>3, SMTT(40) DEF L
<1>6. at \in [0 .. Len(r) -> Nat] /\ to \in [0 .. Len(r) -> Nat]
  BY <1>1, <1>2, <1>5
<1> HIDE DEF at, to
<1>7. at[0] = 0 /\ to[0] = n + Len(q[1].means) /\ to[Len(r)] = Len(x) /\ at[Len(r)] = pos[Len(q)] - L
  <2>1. 0 \in 0 .. Len(r) /\ Len(r) \in 0 .. Len(r) /\ Len(r) + 1 = Len(q)
    BY <1>1, <1>2
  <2>2. at[0] = pos[0 + 1] - L /\ to[0] = eff[0 + 1] /\ to[Len(r)] = eff[Len(r) + 1] /\ at[Len(r)] = pos[Len(r) + 1] - L
    BY <1>5, <2>1
  <2>3. eff[Len(q)] = Len(x)
    BY DEF Split
  <2> QED
    BY <1>3, <1>4, <2>1, <2>2, <2>3
<1>8. ASSUME NEW k \in 1 .. Len(r)
      PROVE  /\ at[k] = at[k - 1] + Len(r[k].bytes) /\ Found(r[k].bytes, t, at[k - 1])
             /\ to[k] = to[k - 1] + Len(r[k].means) /\ Found(r[k].means, x, to[k - 1])
  <2>1. k \in 0 .. Len(r) /\ k - 1 \in 0 .. Len(r) /\ k + 1 \in 1 .. Len(q) /\ (k - 1) + 1 = k /\ (k + 1) - 1 = k
    BY <1>1, <1>2, SMTT(40)
  <2>2. /\ at[k] = pos[k + 1] - L /\ at[k - 1] = pos[k] - L /\ to[k] = eff[k + 1] /\ to[k - 1] = eff[k]
        /\ at[k - 1] \in Nat /\ at[k] \in Nat /\ at[k] <= Len(t)
    BY <1>5, <2>1
  <2>3. /\ pos[k + 1] = pos[k] + Len(q[k + 1].bytes) /\ Found(q[k + 1].bytes, s, pos[k])
        /\ eff[k + 1] = eff[k] + Len(q[k + 1].means) /\ Found(q[k + 1].means, x, eff[k])
    BY <2>1 DEF Split
  <2>4. r[k] = q[k + 1] /\ q[k + 1] \in Inputs
    <3>1. r[k] = q[k + 1]
      BY <1>2, Zenon
    <3>2. q[k + 1] \in Inputs
      BY <1>1, <2>1, ElementOfSeq, Zenon
    <3> QED
      BY <3>1, <3>2
  <2>5. Len(r[k].bytes) \in Nat /\ pos[k] \in Nat
    <3>1. k \in 0 .. Len(q)
      BY <1>1, <1>2
    <3>2. pos[k] \in Nat
      BY <3>1 DEF Split
    <3>3. r[k].bytes \in Seq(Bytes)
      BY <2>4, InputFacts
    <3> QED
      BY <3>2, <3>3
  <2>6. at[k] = at[k - 1] + Len(r[k].bytes)
    BY <1>3, <2>2, <2>3, <2>4, <2>5, SMTT(40)
  <2>7. ASSUME NEW j \in 1 .. Len(r[k].bytes) PROVE t[at[k - 1] + j] = r[k].bytes[j]
    <3>4. j \in Nat /\ j >= 1 /\ j <= Len(r[k].bytes)
      BY <2>5
    <3>5. at[k - 1] + j \in 1 .. Len(t)
      <4>1. at[k - 1] + Len(r[k].bytes) <= Len(t) /\ Len(t) \in Nat /\ at[k - 1] \in Nat
        BY <1>1, <2>2, <2>6
      <4> QED
        BY <2>5, <4>1, Within, Zenon
    <3>6. L + (at[k - 1] + j) = pos[k] + j
      BY <1>3, <2>2, <2>5, <3>4
    <3>1. at[k - 1] + j \in 1 .. Len(t) /\ L + (at[k - 1] + j) = pos[k] + j
      BY <3>5, <3>6
    <3>2. t[at[k - 1] + j] = s[L + (at[k - 1] + j)]
      BY <3>1 DEF L
    <3>3. s[pos[k] + j] = r[k].bytes[j]
      BY <2>3, <2>4 DEF Found
    <3> QED
      BY <3>1, <3>2, <3>3
  <2> QED
    BY <2>2, <2>3, <2>4, <2>6, <2>7 DEF Found
<1>9. \A j, k \in 0 .. Len(r) : j <= k => at[j] <= at[k]
  <2> SUFFICES ASSUME NEW j \in 0 .. Len(r), NEW k \in 0 .. Len(r), j <= k PROVE at[j] <= at[k]
    OBVIOUS
  <2>1. j + 1 \in 0 .. Len(q) /\ k + 1 \in 0 .. Len(q) /\ j + 1 <= k + 1
    BY <1>1, <1>2
  <2>2. pos[j + 1] <= pos[k + 1] /\ pos[j + 1] \in Nat /\ pos[k + 1] \in Nat
    BY <2>1 DEF Split
  <2>3. at[j] = pos[j + 1] - L /\ at[k] = pos[k + 1] - L
    BY <1>5
  <2> QED
    BY <1>3, <2>2, <2>3
<1>10. \A k \in 1 .. Len(r) - 1 : ~Kicks(r[k])
  <2> SUFFICES ASSUME NEW k \in 1 .. Len(r) - 1 PROVE ~Kicks(r[k])
    OBVIOUS
  <2>1. k + 1 \in 1 .. Len(q) - 1 /\ k \in 1 .. Len(r)
    BY <1>1, <1>2
  <2> QED
    BY <1>2, <2>1 DEF Split
<1>11. \/ ~Ends(x) /\ at[Len(r)] = Len(t) /\ (Len(r) > 0 => ~Kicks(r[Len(r)]))
       \/ Ends(x) /\ Len(r) > 0 /\ Kicks(r[Len(r)])
  <2>0. \/ ~Ends(x) /\ pos[Len(q)] = Len(s) /\ (Len(q) > 0 => ~Kicks(q[Len(q)]))
        \/ Ends(x) /\ Len(q) > 0 /\ Kicks(q[Len(q)])
    BY DEF Split
  <2>1. Len(r) > 0 => r[Len(r)] = q[Len(q)]
    <3>1. Len(r) + 1 = Len(q) /\ Len(r) \in Nat
      BY <1>1, <1>2
    <3>2. Len(r) > 0 => r[Len(r)] = q[Len(r) + 1]
      BY <1>2, <3>1
    <3> QED
      BY <3>1, <3>2
  <2>2. Len(r) = 0 => Len(q) = 1
    BY <1>1, <1>2
  <2>3. Len(q) = 1 => ~Kicks(q[Len(q)])
    OBVIOUS
  <2>4. Len(r) \in Nat /\ Len(t) = Len(s) - L
    BY <1>1, <1>2 DEF L
  <2>5. CASE Ends(x)
    BY <2>0, <2>1, <2>2, <2>3, <2>4, <2>5
  <2>6. CASE ~Ends(x)
    BY <1>1, <1>7, <2>0, <2>1, <2>4, <2>6
  <2> QED
    BY <2>5, <2>6
<1>12. Split(t, x, n + Len(q[1].means), r, at, to)
  <2>1. \A k \in 0 .. Len(r) : at[k] <= Len(t) /\ to[k] <= Len(x)
    BY <1>5
  <2> QED
    BY <1>2, <1>6, <1>7, <1>8, <1>9, <1>10, <1>11, <2>1 DEF Split
<1> QED
  BY <1>12 DEF Streams

\* An input comes behind the others.
LEMMA InputSent ==
    ASSUME NEW s \in Seq(Bytes), NEW x \in Seq(EffectSet), NEW n \in Nat, Streams(s, x, n),
           ~Ends(x), NEW in \in Inputs
    PROVE  Streams(s \o in.bytes, x \o in.means, n)
<1>1. PICK q, pos, eff : Split(s, x, n, q, pos, eff)
  BY DEF Streams
<1> DEFINE t == s \o in.bytes
           y == x \o in.means
           r == Append(q, in)
           N == Len(q)
           at == [k \in 0 .. N + 1 |-> IF k = N + 1 THEN Len(t) ELSE pos[k]]
           to == [k \in 0 .. N + 1 |-> IF k = N + 1 THEN Len(y) ELSE eff[k]]
<1>2. /\ q \in Seq(Inputs) /\ N \in Nat /\ pos \in [0 .. N -> Nat] /\ eff \in [0 .. N -> Nat]
      /\ pos[0] = 0 /\ eff[0] = n /\ eff[N] = Len(x) /\ pos[N] = Len(s)
      /\ N > 0 => ~Kicks(q[N])
  BY <1>1 DEF Split
<1>b. in.bytes \in Seq(Bytes)
  BY InputFacts
<1>m. in.means \in Seq(EffectSet)
  BY InputFacts
<1>3. in.bytes \in Seq(Bytes) /\ in.means \in Seq(EffectSet)
  BY <1>b, <1>m
<1>4. /\ t \in Seq(Bytes) /\ Len(t) = Len(s) + Len(in.bytes)
      /\ \A i \in 1 .. Len(s) : t[i] = s[i]
      /\ \A i \in 1 .. Len(in.bytes) : t[Len(s) + i] = in.bytes[i]
  <2> DEFINE e == in.bytes
  <2>1. e \in Seq(Bytes)
    BY <1>b
  <2> HIDE DEF e
  <2>2. /\ s \o e \in Seq(Bytes) /\ Len(s \o e) = Len(s) + Len(e)
        /\ \A i \in 1 .. Len(s) : (s \o e)[i] = s[i]
        /\ \A i \in 1 .. Len(e) : (s \o e)[Len(s) + i] = e[i]
    BY <2>1, Joined
  <2> QED
    BY <2>2 DEF e
<1>5. /\ y \in Seq(EffectSet) /\ Len(y) = Len(x) + Len(in.means)
      /\ \A i \in 1 .. Len(x) : y[i] = x[i]
      /\ \A i \in 1 .. Len(in.means) : y[Len(x) + i] = in.means[i]
  <2> DEFINE e == in.means
  <2>1. e \in Seq(EffectSet)
    BY <1>m
  <2> HIDE DEF e
  <2>2. /\ x \o e \in Seq(EffectSet) /\ Len(x \o e) = Len(x) + Len(e)
        /\ \A i \in 1 .. Len(x) : (x \o e)[i] = x[i]
        /\ \A i \in 1 .. Len(e) : (x \o e)[Len(x) + i] = e[i]
    BY <2>1, Joined
  <2> QED
    BY <2>2 DEF e
<1>6. /\ r \in Seq(Inputs) /\ Len(r) = N + 1 /\ r[N + 1] = in /\ \A k \in 1 .. N : r[k] = q[k]
  BY <1>2
<1>7. Len(s) \in Nat /\ Len(x) \in Nat /\ Len(t) \in Nat /\ Len(y) \in Nat
      /\ Len(in.bytes) \in Nat /\ Len(in.means) \in Nat
  BY <1>3, <1>4, <1>5
<1> HIDE DEF t, y, r, N
<1>8. /\ at \in [0 .. N + 1 -> Nat] /\ to \in [0 .. N + 1 -> Nat]
      /\ at[N + 1] = Len(t) /\ to[N + 1] = Len(y)
      /\ \A k \in 0 .. N : at[k] = pos[k] /\ to[k] = eff[k]
  BY <1>2, <1>7
<1> HIDE DEF at, to
<1>9. \A k \in 0 .. N : pos[k] \in Nat /\ eff[k] \in Nat /\ pos[k] <= Len(s) /\ eff[k] <= Len(x)
  BY <1>1 DEF Split, N
<1>10. \A k \in 0 .. N + 1 : at[k] <= Len(t) /\ to[k] <= Len(y)
  <2> TAKE k \in 0 .. N + 1
  <2>1. CASE k = N + 1
    BY <1>7, <1>8, <2>1
  <2>2. CASE k # N + 1
    <3>1. k \in 0 .. N
      BY <1>2, <2>2
    <3>2. at[k] = pos[k] /\ to[k] = eff[k] /\ pos[k] \in Nat /\ eff[k] \in Nat
          /\ pos[k] <= Len(s) /\ eff[k] <= Len(x)
      BY <1>8, <1>9, <3>1
    <3> QED
      BY <1>4, <1>5, <1>7, <3>2
  <2> QED
    BY <2>1, <2>2
<1>11. ASSUME NEW k \in 1 .. N + 1
       PROVE  /\ at[k] = at[k - 1] + Len(r[k].bytes) /\ Found(r[k].bytes, t, at[k - 1])
              /\ to[k] = to[k - 1] + Len(r[k].means) /\ Found(r[k].means, y, to[k - 1])
  <2>1. CASE k = N + 1
    <3>1. k - 1 = N /\ N \in 0 .. N
      BY <1>2, <2>1
    <3>2. at[k - 1] = Len(s) /\ to[k - 1] = Len(x) /\ r[k] = in /\ at[k] = Len(t) /\ to[k] = Len(y)
      BY <1>2, <1>6, <1>8, <2>1, <3>1
    <3> QED
      BY <1>4, <1>5, <3>2 DEF Found
  <2>2. CASE k # N + 1
    <3>1. k \in 1 .. N /\ k \in 0 .. N /\ k - 1 \in 0 .. N
      BY <1>2, <2>2
    <3>2. /\ pos[k] = pos[k - 1] + Len(q[k].bytes) /\ Found(q[k].bytes, s, pos[k - 1])
          /\ eff[k] = eff[k - 1] + Len(q[k].means) /\ Found(q[k].means, x, eff[k - 1])
      BY <1>1, <3>1 DEF Split, N
    <3>3. at[k] = pos[k] /\ at[k - 1] = pos[k - 1] /\ to[k] = eff[k] /\ to[k - 1] = eff[k - 1] /\ r[k] = q[k]
      BY <1>6, <1>8, <3>1
    <3>4. /\ pos[k - 1] \in Nat /\ eff[k - 1] \in Nat /\ pos[k] <= Len(s) /\ eff[k] <= Len(x)
          /\ pos[k] \in Nat /\ eff[k] \in Nat
      BY <1>9, <3>1
    <3>5. Len(q[k].bytes) \in Nat /\ Len(q[k].means) \in Nat
      <4>1. q[k] \in Inputs
        BY <1>2, <3>1 DEF N
      <4>2. q[k].bytes \in Seq(Bytes) /\ q[k].means \in Seq(EffectSet)
        BY <4>1, InputFacts
      <4> QED
        BY <4>2
    <3>6. Found(q[k].bytes, t, pos[k - 1])
      <4> SUFFICES ASSUME NEW j \in 1 .. Len(q[k].bytes) PROVE t[pos[k - 1] + j] = q[k].bytes[j]
        BY DEF Found
      <4>3. pos[k - 1] + Len(q[k].bytes) <= Len(s)
        BY <3>2, <3>4
      <4>1. pos[k - 1] + j \in 1 .. Len(s)
        BY <1>7, <3>4, <3>5, <4>3, Within, Zenon
      <4>2. s[pos[k - 1] + j] = q[k].bytes[j]
        BY <3>2 DEF Found
      <4> QED
        BY <1>4, <4>1, <4>2
    <3>7. Found(q[k].means, y, eff[k - 1])
      <4> SUFFICES ASSUME NEW j \in 1 .. Len(q[k].means) PROVE y[eff[k - 1] + j] = q[k].means[j]
        BY DEF Found
      <4>3. eff[k - 1] + Len(q[k].means) <= Len(x)
        BY <3>2, <3>4
      <4>1. eff[k - 1] + j \in 1 .. Len(x)
        BY <1>7, <3>4, <3>5, <4>3, Within, Zenon
      <4>2. x[eff[k - 1] + j] = q[k].means[j]
        BY <3>2 DEF Found
      <4> QED
        BY <1>5, <4>1, <4>2
    <3> QED
      BY <3>2, <3>3, <3>6, <3>7
  <2> QED
    BY <2>1, <2>2
<1>12. \A j, k \in 0 .. N + 1 : j <= k => at[j] <= at[k]
  <2> SUFFICES ASSUME NEW j \in 0 .. N + 1, NEW k \in 0 .. N + 1, j <= k PROVE at[j] <= at[k]
    OBVIOUS
  <2>1. CASE k = N + 1
    BY <1>8, <1>10, <2>1
  <2>2. CASE k # N + 1
    <3>1. j \in 0 .. N /\ k \in 0 .. N
      BY <1>2, <2>2
    <3>2. pos[j] <= pos[k]
      BY <1>1, <3>1 DEF Split, N
    <3> QED
      BY <1>8, <3>1, <3>2
  <2> QED
    BY <2>1, <2>2
<1>13. \A k \in 1 .. N : ~Kicks(r[k])
  <2> TAKE k \in 1 .. N
  <2>1. CASE k = N
    BY <1>2, <1>6, <2>1 DEF N
  <2>2. CASE k # N
    <3>1. k \in 1 .. N - 1
      BY <1>2, <2>2
    <3> QED
      BY <1>1, <1>6, <3>1 DEF Split, N
  <2> QED
    BY <2>1, <2>2
<1>14. Ends(y) <=> Kicks(in)
  <2>1. CASE Len(in.means) = 0
    <3>a. Len(y) = Len(x)
      BY <1>5, <1>7, <2>1
    <3>b. ~Kicks(in)
      <4> SUFFICES ASSUME in.means = <<Kicked>> PROVE FALSE
        BY DEF Kicks
      <4> HIDE DEF Kicked
      <4> QED
        BY <2>1
    <3>1. Len(y) = Len(x) /\ ~Kicks(in)
      BY <3>a, <3>b
    <3>2. ~Ends(y)
      <4>1. CASE Len(x) = 0
        BY <1>5, <3>1, <4>1 DEF Ends
      <4>2. CASE Len(x) # 0
        <5>1. y[Len(y)] = x[Len(x)] /\ x # <<>>
          BY <1>5, <1>7, <3>1, <4>2
        <5> QED
          BY <5>1 DEF Ends
      <4> QED
        BY <4>1, <4>2
    <3> QED
      BY <3>1, <3>2
  <2>2. CASE Len(in.means) = 1
    <3>1. y[Len(y)] = in.means[1] /\ y # <<>>
      BY <1>5, <1>7, <2>2
    <3>2. in.means[1] = Kicked <=> Kicks(in)
      BY <2>2, InputFacts DEF Kicks
    <3> QED
      BY <3>1, <3>2 DEF Ends
  <2> QED
    BY <2>1, <2>2, InputFacts
<1>15. Split(t, y, n, r, at, to)
  <2>1. at[0] = 0 /\ to[0] = n
    BY <1>2, <1>8
  <2>2. N + 1 - 1 = N /\ N + 1 > 0
    BY <1>2
  <2>3. \/ ~Ends(y) /\ at[Len(r)] = Len(t) /\ (Len(r) > 0 => ~Kicks(r[Len(r)]))
        \/ Ends(y) /\ Len(r) > 0 /\ Kicks(r[Len(r)])
    BY <1>6, <1>8, <1>14, <2>2
  <2>4. /\ r \in Seq(Inputs) /\ at \in [0 .. Len(r) -> Nat] /\ to \in [0 .. Len(r) -> Nat]
        /\ to[Len(r)] = Len(y)
        /\ \A k \in 0 .. Len(r) : at[k] <= Len(t) /\ to[k] <= Len(y)
        /\ \A j, k \in 0 .. Len(r) : j <= k => at[j] <= at[k]
    BY <1>6, <1>8, <1>10, <1>12, Zenon
  <2>5. \A k \in 1 .. Len(r) :
          /\ at[k] = at[k - 1] + Len(r[k].bytes) /\ Found(r[k].bytes, t, at[k - 1])
          /\ to[k] = to[k - 1] + Len(r[k].means) /\ Found(r[k].means, y, to[k - 1])
    BY <1>6, <1>11, Zenon
  <2>6. \A k \in 1 .. Len(r) - 1 : ~Kicks(r[k])
    <3>1. Len(r) - 1 = N
      BY <1>2, <1>6
    <3> QED
      BY <1>13, <3>1, Zenon
  <2> QED
    BY <2>1, <2>3, <2>4, <2>5, <2>6, Zenon DEF Split
<1> QED
  BY <1>15 DEF Streams, t, y

\* Behind garbage comes anything.
LEMMA JunkSent ==
    ASSUME NEW s \in Seq(Bytes), NEW x \in Seq(EffectSet), NEW n \in Nat, Streams(s, x, n),
           Ends(x), NEW more \in Seq(Bytes)
    PROVE  Streams(s \o more, x, n)
<1>1. PICK q, pos, eff : Split(s, x, n, q, pos, eff)
  BY DEF Streams
<1> DEFINE t == s \o more
<1>2. Len(t) >= Len(s) /\ Len(t) \in Nat /\ Len(s) \in Nat /\ \A i \in 1 .. Len(s) : t[i] = s[i]
  OBVIOUS
<1> HIDE DEF t
<1>3. \A k \in 0 .. Len(q) : pos[k] \in Nat /\ pos[k] <= Len(s)
  BY <1>1 DEF Split
<1>4. \A k \in 0 .. Len(q) : pos[k] <= Len(t)
  BY <1>2, <1>3
<1>5. ASSUME NEW k \in 1 .. Len(q) PROVE Found(q[k].bytes, t, pos[k - 1])
  <2>1. q \in Seq(Inputs) /\ k \in 0 .. Len(q) /\ k - 1 \in 0 .. Len(q)
    BY <1>1 DEF Split
  <2>2. /\ pos[k] = pos[k - 1] + Len(q[k].bytes) /\ Found(q[k].bytes, s, pos[k - 1])
    BY <1>1 DEF Split
  <2>3. q[k].bytes \in Seq(Bytes)
    BY <2>1, InputFacts
  <2> SUFFICES ASSUME NEW j \in 1 .. Len(q[k].bytes) PROVE t[pos[k - 1] + j] = q[k].bytes[j]
    BY DEF Found
  <2>6. /\ pos[k - 1] + Len(q[k].bytes) <= Len(s) /\ pos[k - 1] \in Nat /\ Len(q[k].bytes) \in Nat
    BY <1>3, <2>1, <2>2, <2>3
  <2>4. pos[k - 1] + j \in 1 .. Len(s)
    BY <1>2, <2>6, Within, Zenon
  <2>5. s[pos[k - 1] + j] = q[k].bytes[j]
    BY <2>2 DEF Found
  <2> QED
    BY <1>2, <2>4, <2>5
<1>6. Split(t, x, n, q, pos, eff)
  BY <1>1, <1>4, <1>5 DEF Split
<1> QED
  BY <1>6 DEF Streams, t

\* A stream that was received and parsed to the end, or a new one.
LEMMA NothingSent == Streams(<<>>, <<>>, 0)
<1> DEFINE z == [k \in 0 .. 0 |-> 0]
<1>1. Split(<<>>, <<>>, 0, <<>>, z, z)
  BY DEF Split, Ends
<1> QED
  BY <1>1 DEF Streams

-----------------------------------------------------------------------------
(***************************************************************************)
(* The invariant.                                                          *)
(***************************************************************************)

\* The invariant is inductive as it stands: the bound on what is saved comes from the
\* parser, not from earlier steps.
IInv == TypeOK /\ SavedFits

\* What is loaded from `saved` is bytes.
LEMMA LoadSavedType ==
    ASSUME saved \in [1 .. SavedSize -> Bytes]
    PROVE  LoadSaved \in Seq(Bytes)
<1>1. \A i \in 1 .. 12 : saved[i] \in Bytes
  BY DEF SavedSize
<1>2. CASE saved = NoneSaved
  BY <1>2 DEF LoadSaved
<1>3. CASE saved # NoneSaved
  <2> DEFINE P(i) == saved[i] # "NUL" /\ \A j \in 1 .. i - 1 : saved[j] = "NUL"
             first == CHOOSE i \in 1 .. SavedSize : P(i)
  <2>1. \E i \in 1 .. SavedSize : P(i)
    <3>1. PICK k \in 1 .. 12 : saved[k] # "NUL"
      BY <1>3 DEF NoneSaved, SavedSize
    <3> QED
      BY <3>1 DEF SavedSize
  <2>2. first \in 1 .. 12
    BY <2>1 DEF SavedSize
  <2>3. SubSeq(saved, first, SavedSize) \in Seq(Bytes)
    <3> HIDE DEF first
    <3>1. \A i \in first .. 12 : saved[i] \in Bytes
      BY <1>1, <2>2
    <3> QED
      BY <2>2, <3>1, SubSeqProperties DEF SavedSize
  <2> QED
    BY <1>3, <2>3 DEF LoadSaved
<1> QED
  BY <1>2, <1>3

\* The cleared array (telnetServer.c:81) is an array of bytes.
LEMMA NoneSavedType == NoneSaved \in [1 .. SavedSize -> Bytes]
BY DEF NoneSaved, Bytes

\* telnetServer_init establishes the invariant.
LEMMA InitIInv == Init => IInv
<1> SUFFICES ASSUME Init PROVE IInv
  OBVIOUS
<1>2. buf \in Seq(Bytes) /\ wire \in Seq(Bytes)
  BY DEF Init
<1>3. inputsLeft \in 0 .. MaxInputs /\ sessionsLeft \in 0 .. MaxSessions
  BY TelnetAssumption DEF Init
<1>4. saved \in [1 .. SavedSize -> Bytes]
  BY NoneSavedType DEF Init
<1> QED
  BY <1>2, <1>3, <1>4 DEF Init, IInv, TypeOK, SavedFits

\* One step per action.
LEMMA NextIInv == IInv /\ [Next]_vars => IInv'
<1> SUFFICES ASSUME IInv, [Next]_vars PROVE IInv'
  OBVIOUS
<1> USE TelnetAssumption DEF IInv, TypeOK, SavedFits
<1>1. CASE OnListenFd
  BY <1>1, NoneSavedType DEF OnListenFd
<1>2. CASE OnPtMasterFdFails
  BY <1>2 DEF OnPtMasterFdFails, KickClient
<1>3. CASE Recv
  <2> PICK n \in 1 .. Len(wire) :
         /\ buf' = LoadSaved \o SubSeq(wire, 1, n)
         /\ wire' = SubSeq(wire, n + 1, Len(wire))
    BY <1>3 DEF Recv
  <2>1. SubSeq(wire, 1, n) \in Seq(Bytes) /\ SubSeq(wire, n + 1, Len(wire)) \in Seq(Bytes)
    OBVIOUS
  <2>2. LoadSaved \in Seq(Bytes)
    BY LoadSavedType
  <2>3. buf' \in Seq(Bytes) /\ wire' \in Seq(Bytes)
    BY <2>1, <2>2
  <2> QED
    BY <1>3, <2>3, NoneSavedType DEF Recv
<1>4. CASE RecvFails
  BY <1>4, NoneSavedType DEF RecvFails, KickClient
<1>5. CASE Text
  BY <1>5 DEF Text
<1>6. CASE Command
  <2>1. CommandEnd(buf) \in Nat \ {0}
    BY <1>6, CommandEndType DEF Command
  <2>2. \A i \in CommandEnd(buf) .. Len(buf) : buf[i] \in Bytes
    BY <2>1
  <2>3. SubSeq(buf, CommandEnd(buf), Len(buf)) \in Seq(Bytes)
    BY <2>1, <2>2, SubSeqProperties
  <2> QED
    BY <1>6, <2>3 DEF Command
<1>7. CASE CommandSaved
  <2>1. Len(buf) <= SavedSize
    BY <1>7, CommandFits DEF CommandSaved
  <2>2. pc' = "idle"
    BY <1>7, <2>1 DEF CommandSaved, SavedSize
  <2>3. saved' \in [1 .. SavedSize -> Bytes]
    <3> DEFINE e(i) == IF i > SavedSize - Len(buf) THEN buf[i - (SavedSize - Len(buf))]
                       ELSE saved[i]
    <3>1. ASSUME NEW i \in 1 .. SavedSize PROVE e(i) \in Bytes
      <4>1. CASE i > SavedSize - Len(buf)
        <5>1. i - (SavedSize - Len(buf)) \in 1 .. Len(buf)
          BY <2>1, <4>1 DEF SavedSize
        <5> QED
          BY <4>1, <5>1
      <4>2. CASE ~(i > SavedSize - Len(buf))
        BY <4>2
      <4> QED
        BY <4>1, <4>2
    <3>2. saved' = [i \in 1 .. SavedSize |-> e(i)]
      BY <1>7 DEF CommandSaved
    <3> HIDE DEF e
    <3> QED
      BY <3>1, <3>2
  <2> QED
    BY <1>7, <2>2, <2>3 DEF CommandSaved
<1>8. CASE CommandKicks
  BY <1>8 DEF CommandKicks, KickClient
<1>9. CASE WriteFails
  BY <1>9 DEF WriteFails, KickClient
<1>10. CASE Done
  BY <1>10 DEF Done
<1>11. CASE Send
  <2> PICK in \in Inputs : wire' = wire \o in.bytes
    BY <1>11 DEF Send
  <2>1. in.bytes \in Seq(Bytes)
    BY InputFacts
  <2>2. wire' \in Seq(Bytes)
    BY <2>1
  <2> QED
    BY <1>11, <2>2 DEF Send
<1>12. CASE UNCHANGED vars
  BY <1>12 DEF vars
<1> QED
  BY <1>1, <1>2, <1>3, <1>4, <1>5, <1>6, <1>7, <1>8, <1>9, <1>10, <1>11, <1>12
  DEF Next, OnClientFd, Parse

\* The invariant holds in every state of telnetServer.c.
THEOREM Invariance == Spec => []IInv
<1> QED
  BY InitIInv, NextIInv, PTL DEF Spec

\* For any number of inputs and sessions: saved, the buffer and the wire hold bytes.
THEOREM TypeCorrect == Spec => []TypeOK
<1>1. IInv => TypeOK
  BY DEF IInv
<1> QED
  BY <1>1, Invariance, PTL

\* No client makes _telnetServer_getByteOrSave (telnetServer.c:134-143) copy more than
\* the 12 bytes of `saved`.
THEOREM SavedNeverOverruns == Spec => []SavedFits
<1>1. IInv => SavedFits
  BY DEF IInv
<1> QED
  BY <1>1, Invariance, PTL

-----------------------------------------------------------------------------
(***************************************************************************)
(* The session is decoded.                                                 *)
(***************************************************************************)

\* What was done of x, and what it grows by.
LEMMA PrefixGrows ==
    ASSUME NEW x \in Seq(EffectSet), NEW e \in Seq(EffectSet), NEW m \in Seq(EffectSet),
           Len(e) <= Len(x), e = SubSeq(x, 1, Len(e)),
           Len(e) + Len(m) <= Len(x), Found(m, x, Len(e))
    PROVE  /\ e \o m \in Seq(EffectSet) /\ Len(e \o m) = Len(e) + Len(m)
           /\ e \o m = SubSeq(x, 1, Len(e \o m))
<1> DEFINE g == e \o m
           p == SubSeq(x, 1, Len(e) + Len(m))
<1>1. /\ g \in Seq(EffectSet) /\ Len(g) = Len(e) + Len(m)
      /\ \A i \in 1 .. Len(e) : g[i] = e[i]
      /\ \A i \in 1 .. Len(m) : g[Len(e) + i] = m[i]
  BY Joined
<1>2. Len(e) \in Nat /\ Len(m) \in Nat /\ Len(x) \in Nat
  OBVIOUS
<1>3. /\ p \in Seq(EffectSet) /\ Len(p) = Len(e) + Len(m)
      /\ \A i \in 1 .. Len(e) + Len(m) : p[i] = x[i]
  BY <1>2
<1>4. \A i \in 1 .. Len(e) : e[i] = x[i]
  <2>1. \A i \in 1 .. Len(e) : SubSeq(x, 1, Len(e))[i] = x[i]
    BY <1>2
  <2> QED
    BY <2>1
<1> HIDE DEF g, p
<1>5. ASSUME NEW i \in 1 .. Len(g) PROVE g[i] = p[i]
  <2>1. i \in 1 .. Len(e) + Len(m)
    BY <1>1
  <2>2. CASE i <= Len(e)
    <3>1. i \in 1 .. Len(e)
      BY <1>2, <2>1, <2>2
    <3> QED
      BY <1>1, <1>3, <1>4, <2>1, <3>1
  <2>3. CASE ~(i <= Len(e))
    <3>1. i - Len(e) \in 1 .. Len(m) /\ Len(e) + (i - Len(e)) = i
      BY <1>2, <2>1, <2>3
    <3>2. g[Len(e) + (i - Len(e))] = m[i - Len(e)] /\ x[Len(e) + (i - Len(e))] = m[i - Len(e)]
      BY <1>1, <3>1 DEF Found
    <3> QED
      BY <1>3, <2>1, <3>1, <3>2
  <2> QED
    BY <2>2, <2>3
<1>6. g = p
  BY <1>1, <1>3, <1>5, SeqEqual
<1> QED
  BY <1>1, <1>6 DEF g, p

\* What is left of b, followed by w.
LEMMA RestFollowed ==
    ASSUME NEW b \in Seq(Bytes), NEW w \in Seq(Bytes), NEW k \in 0 .. Len(b)
    PROVE  LET s == b \o w
               t == SubSeq(b, k + 1, Len(b)) \o w
           IN  /\ t \in Seq(Bytes) /\ Len(t) = Len(s) - k
               /\ \A i \in 1 .. Len(t) : t[i] = s[k + i]
<1> DEFINE r == SubSeq(b, k + 1, Len(b))
           s == b \o w
           t == r \o w
<1>1. Len(b) \in Nat /\ Len(w) \in Nat /\ k \in Nat /\ k <= Len(b)
  OBVIOUS
<1>2. r \in Seq(Bytes) /\ Len(r) = Len(b) - k /\ \A i \in 1 .. Len(r) : r[i] = b[k + i]
  BY <1>1
<1> HIDE DEF r
<1>3. /\ t \in Seq(Bytes) /\ Len(t) = Len(r) + Len(w)
      /\ \A i \in 1 .. Len(r) : t[i] = r[i]
      /\ \A i \in 1 .. Len(w) : t[Len(r) + i] = w[i]
  <2>1. r \in Seq(Bytes)
    BY <1>2
  <2> QED
    BY <2>1, Joined
<1>4. /\ s \in Seq(Bytes) /\ Len(s) = Len(b) + Len(w)
      /\ \A i \in 1 .. Len(b) : s[i] = b[i]
      /\ \A i \in 1 .. Len(w) : s[Len(b) + i] = w[i]
  BY Joined
<1> HIDE DEF s, t
<1>5. ASSUME NEW i \in 1 .. Len(t) PROVE t[i] = s[k + i]
  <2>1. i \in Nat /\ i >= 1 /\ i <= Len(r) + Len(w) /\ Len(r) \in Nat
    BY <1>1, <1>2, <1>3
  <2>2. CASE i <= Len(r)
    <3>1. i \in 1 .. Len(r) /\ k + i \in 1 .. Len(b)
      BY <1>1, <1>2, <2>1, <2>2
    <3> QED
      BY <1>2, <1>3, <1>4, <3>1
  <2>3. CASE ~(i <= Len(r))
    <3>1. i - Len(r) \in 1 .. Len(w) /\ Len(r) + (i - Len(r)) = i /\ Len(b) + (i - Len(r)) = k + i
      BY <1>1, <1>2, <2>1, <2>3
    <3>2. t[Len(r) + (i - Len(r))] = w[i - Len(r)] /\ s[Len(b) + (i - Len(r))] = w[i - Len(r)]
      BY <1>3, <1>4, <3>1
    <3> QED
      BY <3>1, <3>2
  <2> QED
    BY <2>2, <2>3
<1>6. Len(t) = Len(s) - k
  BY <1>1, <1>2, <1>3, <1>4
<1> QED
  BY <1>3, <1>5, <1>6 DEF s, t, r

\* What is saved of a command is what is loaded again.
LEMMA SavedLoaded ==
    ASSUME TypeOK, saved = NoneSaved, CommandSaved
    PROVE  LoadSaved' = buf
<1> DEFINE L == Len(buf)
           z == 12 - L
<1>1. L \in 1 .. 12 /\ buf[1] # "NUL" /\ buf \in Seq(Bytes)
  <2>1. L <= 12
    BY CommandFits DEF CommandSaved, SavedSize, TypeOK
  <2>2. L \in Nat /\ L # 0 /\ buf[1] \in {"CR", "IAC"}
    BY DEF CommandSaved, AtCommand, TypeOK
  <2>3. L \in 1 .. 12
    <3> HIDE DEF L
    <3> QED
      BY <2>1, <2>2
  <2>4. buf[1] # "NUL"
    BY <2>2
  <2> QED
    BY <2>3, <2>4 DEF TypeOK
<1>2. z \in 0 .. 11 /\ L = 12 - z
  <2>1. L \in 1 .. 12
    BY <1>1
  <2> HIDE DEF L
  <2> QED
    BY <2>1
<1>3. saved' = [i \in 1 .. 12 |-> IF i > z THEN buf[i - z] ELSE saved[i]]
  BY DEF CommandSaved, SavedSize
<1>4. \A i \in 1 .. 12 : saved[i] = "NUL"
  BY DEF NoneSaved, SavedSize
<1> HIDE DEF L, z
<1>5. /\ \A i \in 1 .. z : saved'[i] = "NUL"
      /\ \A i \in 1 .. L : saved'[z + i] = buf[i]
  <2>1. \A i \in 1 .. z : i \in 1 .. 12 /\ ~(i > z)
    BY <1>2
  <2>2. \A i \in 1 .. L : z + i \in 1 .. 12 /\ z + i > z /\ (z + i) - z = i
    BY <1>2
  <2>3. \A i \in 1 .. z : saved'[i] = saved[i]
    BY <1>3, <2>1
  <2> QED
    BY <1>3, <1>4, <2>1, <2>2, <2>3
<1>6. z + 1 \in 1 .. 12 /\ saved'[z + 1] # "NUL" /\ 1 \in 1 .. L
  BY <1>1, <1>2, <1>5
<1>7. saved' # NoneSaved
  BY <1>6 DEF NoneSaved, SavedSize
<1> DEFINE P(i) == saved'[i] # "NUL" /\ \A j \in 1 .. i - 1 : saved'[j] = "NUL"
           first == CHOOSE i \in 1 .. 12 : P(i)
<1>8. \A i \in 1 .. 12 : P(i) <=> i = z + 1
  <2> TAKE i \in 1 .. 12
  <2>1. CASE i = z + 1
    BY <1>2, <1>5, <1>6, <2>1
  <2>2. CASE i < z + 1
    BY <1>2, <1>5, <2>2
  <2>3. CASE i > z + 1
    <3>1. z + 1 \in 1 .. i - 1
      BY <1>2, <2>3
    <3> QED
      BY <1>6, <2>3, <3>1
  <2> QED
    BY <1>2, <2>1, <2>2, <2>3
<1>9. first = z + 1
  <2> HIDE DEF P
  <2> QED
    BY <1>6, <1>8
<1>10. LoadSaved' = SubSeq(saved', first, 12)
  BY <1>7 DEF LoadSaved, NoneSaved, SavedSize
<1> HIDE DEF first
<1>11. LoadSaved' = SubSeq(saved', z + 1, 12)
  BY <1>9, <1>10
<1> DEFINE t == SubSeq(saved', z + 1, 12)
<1>12. t \in Seq(Bytes) /\ Len(t) = L /\ \A i \in 1 .. L : t[i] = buf[i]
  <2>1. \A i \in z + 1 .. 12 : saved'[i] \in Bytes
    <3> TAKE i \in z + 1 .. 12
    <3>1. i - z \in 1 .. L /\ z + (i - z) = i
      BY <1>2
    <3>2. saved'[z + (i - z)] = buf[i - z] /\ buf[i - z] \in Bytes
      BY <1>1, <1>5, <3>1 DEF L
    <3> QED
      BY <3>1, <3>2
  <2>2. /\ t \in Seq(Bytes) /\ Len(t) = (IF z + 1 <= 12 THEN 12 - (z + 1) + 1 ELSE 0)
        /\ \A i \in 1 .. 12 - (z + 1) + 1 : t[i] = saved'[(z + 1) + i - 1]
    <3>1. z + 1 \in Int /\ 12 \in Int
      BY <1>2
    <3> QED
      BY <2>1, <3>1, SubSeqProperties
  <2>3. 12 - (z + 1) + 1 = L /\ z + 1 <= 12 /\ \A i \in 1 .. L : (z + 1) + i - 1 = z + i
    BY <1>2
  <2> HIDE DEF t
  <2>4. \A i \in 1 .. L : t[i] = saved'[z + i]
    BY <2>2, <2>3
  <2> QED
    BY <1>5, <2>2, <2>3, <2>4
<1> HIDE DEF t
<1>13. t = buf
  BY <1>1, <1>12, SeqEqual DEF L
<1> QED
  BY <1>11, <1>13 DEF t

\* The bytes that are not parsed yet: those in the buffer, or saved, and those on the wire.
Pending == (IF pc = "parse" THEN buf ELSE LoadSaved) \o wire

\* What is not parsed yet stands for what is expected and not done yet.  Without this
\* SessionDecoded is not inductive: it does not say what the next command should be.
Decoding ==
    /\ effects \in Seq(EffectSet) /\ expected \in Seq(EffectSet)
    /\ SessionDecoded
    /\ pc = "parse" => client = "open" /\ saved = NoneSaved
    /\ client = "open" => Streams(Pending, expected, Len(effects))

\* A new session has nothing to do.
LEMMA NewSession ==
    /\ <<>> \in Seq(EffectSet)
    /\ Len(<<>>) = 0 /\ SubSeq(<<>>, 1, 0) = <<>>
    /\ <<>> \o <<>> = <<>>
<1>1. <<>> \in Seq(EffectSet) /\ <<>> \in Seq(Bytes)
  OBVIOUS
<1>2. <<>> \o <<>> = <<>>
  BY <1>1, ConcatEmptySeq
<1>3. SubSeq(<<>>, 1, 0) = <<>>
  BY SubSeqEmpty
<1> QED
  BY <1>1, <1>2, <1>3

\* The first input of the stream starts where the buffer does, and what it means comes next.
LEMMA HeadParsed ==
    ASSUME TypeOK, Decoding, pc = "parse", buf # <<>>
    PROVE  \E q, pos, eff :
             LET s == buf \o wire
             IN  /\ Split(s, expected, Len(effects), q, pos, eff)
                 /\ s \in Seq(Bytes) /\ Begins(buf, s) /\ s[1] = Head(buf)
                 /\ Len(q) > 0 /\ q[1] \in Inputs /\ Begins(q[1].bytes, s)
                 /\ q[1].bytes[1] = Head(buf)
                 /\ Len(effects) + Len(q[1].means) <= Len(expected)
                 /\ Found(q[1].means, expected, Len(effects))
<1> DEFINE s == buf \o wire
<1>1. buf \in Seq(Bytes)
  BY DEF TypeOK
<1>2. wire \in Seq(Bytes)
  BY DEF TypeOK
<1>3. /\ s \in Seq(Bytes) /\ Len(s) = Len(buf) + Len(wire)
      /\ \A i \in 1 .. Len(buf) : s[i] = buf[i]
  BY <1>1, <1>2, Joined
<1>4. Len(buf) \in Nat /\ Len(buf) > 0 /\ Len(wire) \in Nat /\ Head(buf) = buf[1]
  BY <1>1, <1>2
<1>5. Streams(s, expected, Len(effects))
  BY DEF Decoding, Pending
<1> HIDE DEF s
<1>6. Begins(buf, s) /\ Len(s) > 0 /\ s[1] = Head(buf)
  BY <1>3, <1>4 DEF Begins
<1>7. PICK q, pos, eff : Split(s, expected, Len(effects), q, pos, eff)
  BY <1>5 DEF Streams
<1>8. Len(effects) \in Nat /\ expected \in Seq(EffectSet)
  BY DEF Decoding
<1>9. /\ Len(q) \in Nat \ {0} /\ q[1] \in Inputs /\ Begins(q[1].bytes, s)
      /\ Len(effects) + Len(q[1].means) <= Len(expected)
      /\ Found(q[1].means, expected, Len(effects))
  BY <1>3, <1>6, <1>7, <1>8, FirstInput
<1>10. q[1].bytes[1] = Head(buf)
  <2>1. Len(q[1].bytes) \in Nat /\ Len(q[1].bytes) > 0
    BY <1>9, InputFacts
  <2> QED
    BY <1>6, <1>9, <2>1 DEF Begins
<1>11. Len(q) > 0
  BY <1>9
<1> QED
  BY <1>3, <1>6, <1>7, <1>9, <1>10, <1>11 DEF s

\* An effect more.
LEMMA EffectAdded ==
    ASSUME Decoding, NEW m \in Seq(EffectSet),
           Len(effects) + Len(m) <= Len(expected), Found(m, expected, Len(effects)),
           effects' = effects \o m, expected' = expected
    PROVE  /\ effects' \in Seq(EffectSet) /\ expected' \in Seq(EffectSet) /\ SessionDecoded'
           /\ Len(effects') = Len(effects) + Len(m)
<1>1. /\ effects' \in Seq(EffectSet) /\ Len(effects') = Len(effects) + Len(m)
      /\ effects' = SubSeq(expected, 1, Len(effects'))
  BY PrefixGrows DEF Decoding, SessionDecoded
<1> QED
  BY <1>1 DEF Decoding, SessionDecoded

\* One effect.
LEMMA OneEffect ==
    ASSUME NEW e \in Seq(EffectSet), NEW w \in EffectSet
    PROVE  Append(e, w) = e \o <<w>> /\ <<w>> \in Seq(EffectSet)
<1>1. Append(e, w) = e \o <<w>>
  BY AppendIsConcat
<1> QED
  BY <1>1

\* Typing the next byte (telnetServer.c:182-188) is what the first input means.
LEMMA TextDecodes == TypeOK /\ Decoding /\ Text => Decoding'
<1> SUFFICES ASSUME TypeOK, Decoding, Text PROVE Decoding'
  OBVIOUS
<1> DEFINE s == buf \o wire
           t == SubSeq(buf, 2, Len(buf)) \o wire
<1>1. PICK q, pos, eff :
        /\ Split(s, expected, Len(effects), q, pos, eff)
        /\ s \in Seq(Bytes) /\ Len(q) > 0 /\ q[1] \in Inputs
        /\ q[1].bytes[1] = Head(buf)
        /\ Len(effects) + Len(q[1].means) <= Len(expected)
        /\ Found(q[1].means, expected, Len(effects))
  BY HeadParsed DEF Text
<1>2. q[1] \in Texts /\ ~Kicks(q[1]) /\ q[1].means \in Seq(EffectSet)
  <2>1. ~(q[1].bytes[1] \in {"CR", "IAC"})
    BY <1>1 DEF Text
  <2>2. q[1] \notin Commands
    BY <2>1, CommandsParsed
  <2>3. ~Garbage(q[1].bytes)
    BY <2>1 DEF Garbage
  <2> QED
    BY <1>1, <2>2, <2>3, InputFacts
<1>3. q[1].bytes = <<Head(buf)>> /\ q[1].means = <<Write(Head(buf))>> /\ Write(Head(buf)) \in EffectSet
  <2>1. PICK b \in Bytes \ {"CR", "IAC"} : q[1] = [bytes |-> <<b>>, means |-> <<Write(b)>>]
    BY <1>2 DEF Texts
  <2>2. q[1].bytes = <<b>> /\ q[1].means = <<Write(b)>> /\ <<b>>[1] = b
    BY <2>1
  <2>3. b = Head(buf)
    BY <1>1, <2>2
  <2>4. Write(b) \in EffectSet
    BY DEF EffectSet
  <2> QED
    BY <2>2, <2>3, <2>4
<1>4. effects \in Seq(EffectSet) /\ expected \in Seq(EffectSet) /\ Len(effects) \in Nat
  BY DEF Decoding
<1>5. effects' = effects \o q[1].means /\ expected' = expected
  <2>1. effects' = Append(effects, Write(Head(buf))) /\ expected' = expected
    BY DEF Text
  <2> QED
    BY <1>3, <1>4, <2>1, OneEffect, Zenon
<1>6. /\ effects' \in Seq(EffectSet) /\ expected' \in Seq(EffectSet) /\ SessionDecoded'
      /\ Len(effects') = Len(effects) + Len(q[1].means)
  BY <1>1, <1>2, <1>5, EffectAdded
<1>7. /\ t \in Seq(Bytes) /\ Len(t) = Len(s) - 1 /\ \A i \in 1 .. Len(t) : t[i] = s[1 + i]
  <2>1. buf \in Seq(Bytes) /\ wire \in Seq(Bytes) /\ 1 \in 0 .. Len(buf)
    BY DEF TypeOK, Text
  <2>2. 1 + 1 = 2
    OBVIOUS
  <2> QED
    BY <2>1, <2>2, RestFollowed
<1>8. Len(q[1].bytes) = 1
  BY <1>3
<1>9. Streams(t, expected, Len(effects) + Len(q[1].means))
  <2> HIDE DEF s, t
  <2> QED
    BY <1>1, <1>2, <1>4, <1>7, <1>8, FirstDone
<1>10. Pending' = t
  <2>1. Tail(buf) = SubSeq(buf, 2, Len(buf))
    BY TailIsSubSeq DEF TypeOK, Text
  <2> QED
    BY <2>1 DEF Pending, Text
<1> HIDE DEF s, t
<1>11. Streams(Pending', expected', Len(effects'))
  BY <1>5, <1>6, <1>9, <1>10
<1> QED
  BY <1>6, <1>11 DEF Decoding, Text

\* Doing a complete command (telnetServer.c:190-251) is what the first input means.
LEMMA CommandDecodes == TypeOK /\ Decoding /\ Command => Decoding'
<1> SUFFICES ASSUME TypeOK, Decoding, Command PROVE Decoding'
  OBVIOUS
<1> DEFINE s == buf \o wire
           k == CommandEnd(buf) - 1
           t == SubSeq(buf, k + 1, Len(buf)) \o wire
<1>0. pc = "parse" /\ buf # <<>> /\ Head(buf) \in {"CR", "IAC"} /\ CommandEnd(buf) > 0
  BY DEF Command, AtCommand
<1>1. PICK q, pos, eff :
        /\ Split(s, expected, Len(effects), q, pos, eff)
        /\ s \in Seq(Bytes) /\ Begins(buf, s) /\ Len(q) > 0 /\ q[1] \in Inputs
        /\ Begins(q[1].bytes, s) /\ q[1].bytes[1] = Head(buf)
        /\ Len(effects) + Len(q[1].means) <= Len(expected)
        /\ Found(q[1].means, expected, Len(effects))
  BY <1>0, HeadParsed
<1> HIDE DEF s
<1>2. /\ CommandEnd(s) = CommandEnd(buf) /\ CommandEffects(s) = CommandEffects(buf)
      /\ CommandEnd(buf) \in Nat /\ CommandEnd(buf) <= Len(buf) + 1
  <2>1. buf \in Seq(Bytes) /\ CommandEnd(buf) # SAVE
    BY <1>0 DEF TypeOK, SAVE
  <2> QED
    BY <1>0, <1>1, <2>1, CommandStays
<1>3. q[1].bytes \in Seq(Bytes) /\ Len(q[1].bytes) \in Nat /\ q[1].means \in Seq(EffectSet)
  BY <1>1, InputFacts
<1>4. q[1] \in Commands /\ ~Kicks(q[1])
  <2>1. q[1] \notin Texts
    <3> SUFFICES ASSUME q[1] \in Texts PROVE FALSE
      OBVIOUS
    <3>1. PICK b \in Bytes \ {"CR", "IAC"} : q[1] = [bytes |-> <<b>>, means |-> <<Write(b)>>]
      BY DEF Texts
    <3>2. q[1].bytes[1] = b
      BY <3>1
    <3> QED
      BY <1>0, <1>1, <3>2
  <2>2. ~Garbage(q[1].bytes)
    BY <1>0, <1>1, <1>2, <1>3, GarbageNeverParsed
  <2> QED
    BY <1>1, <2>1, <2>2, InputFacts
<1>5. CommandEnd(q[1].bytes) = Len(q[1].bytes) + 1 /\ CommandEffects(q[1].bytes) = q[1].means
  BY <1>4, CommandsParsed
<1>6. CommandEnd(buf) = Len(q[1].bytes) + 1 /\ CommandEffects(buf) = q[1].means
  <2>1. CommandEnd(q[1].bytes) # SAVE /\ CommandEnd(q[1].bytes) > 0
    BY <1>3, <1>5 DEF SAVE
  <2>2. CommandEnd(s) = CommandEnd(q[1].bytes) /\ CommandEffects(s) = CommandEffects(q[1].bytes)
    BY <1>1, <1>3, <2>1, CommandStays
  <2> QED
    BY <1>2, <1>5, <2>2
<1>7. k = Len(q[1].bytes) /\ k \in 0 .. Len(buf) /\ k + 1 = CommandEnd(buf)
  <2>1. Len(buf) \in Nat
    BY DEF TypeOK
  <2> QED
    BY <1>2, <1>3, <1>6, <2>1
<1>8. effects' = effects \o q[1].means /\ expected' = expected
  BY <1>6 DEF Command
<1>9. /\ effects' \in Seq(EffectSet) /\ expected' \in Seq(EffectSet) /\ SessionDecoded'
      /\ Len(effects') = Len(effects) + Len(q[1].means)
  BY <1>1, <1>3, <1>8, EffectAdded
<1>10. /\ t \in Seq(Bytes) /\ Len(t) = Len(s) - k /\ \A i \in 1 .. Len(t) : t[i] = s[k + i]
  <2> HIDE DEF k
  <2>1. buf \in Seq(Bytes) /\ wire \in Seq(Bytes) /\ k \in 0 .. Len(buf)
    BY <1>7 DEF TypeOK
  <2> QED
    BY <2>1, RestFollowed DEF s
<1>11. Pending' = t
  BY <1>0, <1>7 DEF Pending, Command
<1> HIDE DEF t, k
<1>12. Streams(t, expected, Len(effects) + Len(q[1].means))
  <2>1. expected \in Seq(EffectSet) /\ Len(effects) \in Nat
    BY DEF Decoding
  <2> QED
    BY <1>1, <1>4, <1>7, <1>10, <2>1, FirstDone
<1>13. Streams(Pending', expected', Len(effects'))
  BY <1>8, <1>9, <1>11, <1>12
<1> QED
  BY <1>9, <1>13 DEF Decoding, Command

\* Saving a command that is not complete (telnetServer.c:135-139) loses none of its bytes.
LEMMA CommandSavedDecodes == IInv /\ Decoding /\ CommandSaved => Decoding'
<1> SUFFICES ASSUME IInv, Decoding, CommandSaved PROVE Decoding'
  OBVIOUS
<1>1. pc = "parse" /\ TypeOK
  BY DEF CommandSaved, AtCommand, IInv
<1>2. saved = NoneSaved /\ client = "open"
  BY <1>1 DEF Decoding
<1>3. LoadSaved' = buf
  BY <1>1, <1>2, SavedLoaded
<1>4. pc' # "parse" /\ wire' = wire /\ effects' = effects /\ expected' = expected /\ client' = client
  BY DEF CommandSaved
<1>5. Pending' = Pending
  BY <1>1, <1>3, <1>4 DEF Pending
<1> QED
  BY <1>4, <1>5 DEF Decoding, SessionDecoded

\* A command that the parser does not know was garbage when it was sent.
LEMMA KickDecodes == TypeOK /\ Decoding /\ CommandKicks => Decoding'
<1> SUFFICES ASSUME TypeOK, Decoding, CommandKicks PROVE Decoding'
  OBVIOUS
<1> DEFINE s == buf \o wire
<1>0. pc = "parse" /\ buf # <<>> /\ Head(buf) \in {"CR", "IAC"} /\ CommandEnd(buf) = KICK
  BY DEF CommandKicks, AtCommand
<1>1. PICK q, pos, eff :
        /\ Split(s, expected, Len(effects), q, pos, eff)
        /\ s \in Seq(Bytes) /\ Begins(buf, s) /\ Len(q) > 0 /\ q[1] \in Inputs
        /\ Begins(q[1].bytes, s) /\ q[1].bytes[1] = Head(buf)
        /\ Len(effects) + Len(q[1].means) <= Len(expected)
        /\ Found(q[1].means, expected, Len(effects))
  BY <1>0, HeadParsed
<1> HIDE DEF s
<1>2. CommandEnd(s) = KICK
  <2>1. buf \in Seq(Bytes) /\ CommandEnd(buf) # SAVE
    BY <1>0 DEF TypeOK, SAVE, KICK
  <2> QED
    BY <1>0, <1>1, <2>1, CommandStays
<1>3. q[1].bytes \in Seq(Bytes) /\ Len(q[1].bytes) \in Nat /\ q[1].means \in Seq(EffectSet)
  BY <1>1, InputFacts
<1>4. q[1].means = <<Kicked>>
  <2>1. q[1] \notin Texts
    <3> SUFFICES ASSUME q[1] \in Texts PROVE FALSE
      OBVIOUS
    <3>1. PICK b \in Bytes \ {"CR", "IAC"} : q[1] = [bytes |-> <<b>>, means |-> <<Write(b)>>]
      BY DEF Texts
    <3>2. q[1].bytes[1] = b
      BY <3>1
    <3> QED
      BY <1>0, <1>1, <3>2
  <2>2. q[1] \notin Commands
    <3> SUFFICES ASSUME q[1] \in Commands PROVE FALSE
      OBVIOUS
    <3>1. CommandEnd(q[1].bytes) = Len(q[1].bytes) + 1
      BY CommandsParsed
    <3>2. CommandEnd(q[1].bytes) # SAVE
      BY <1>3, <3>1 DEF SAVE
    <3>3. CommandEnd(s) = CommandEnd(q[1].bytes)
      BY <1>1, <1>3, <3>2, CommandStays
    <3> QED
      BY <1>2, <1>3, <3>1, <3>3 DEF KICK
  <2>3. Kicks(q[1])
    BY <1>1, <2>1, <2>2, InputFacts
  <2> QED
    BY <2>3 DEF Kicks
<1>5. Kicked \in EffectSet /\ effects \in Seq(EffectSet)
  BY DEF EffectSet, Decoding
<1>6. effects' = effects \o q[1].means /\ expected' = expected /\ client' = "none" /\ pc' = "idle"
  <2>1. effects' = Append(effects, Kicked) /\ expected' = expected /\ client' = "none" /\ pc' = "idle"
    BY DEF CommandKicks, KickClient
  <2>2. Append(effects, Kicked) = effects \o <<Kicked>>
    BY <1>5, OneEffect, Zenon
  <2> QED
    BY <1>4, <2>1, <2>2
<1>7. effects' \in Seq(EffectSet) /\ expected' \in Seq(EffectSet) /\ SessionDecoded'
  BY <1>1, <1>3, <1>6, EffectAdded
<1> QED
  BY <1>6, <1>7 DEF Decoding

\* Receiving moves bytes, saved ones and some of the wire, to the buffer.
LEMMA RecvDecodes == TypeOK /\ Decoding /\ Recv => Decoding'
<1> SUFFICES ASSUME TypeOK, Decoding, Recv PROVE Decoding'
  OBVIOUS
<1>1. PICK n \in 1 .. Len(wire) :
         /\ buf' = LoadSaved \o SubSeq(wire, 1, n)
         /\ wire' = SubSeq(wire, n + 1, Len(wire))
  BY DEF Recv
<1>2. /\ pc = "idle" /\ pc' = "parse" /\ client = "open" /\ client' = client /\ saved' = NoneSaved
      /\ effects' = effects /\ expected' = expected
  BY DEF Recv
<1>3. LoadSaved \in Seq(Bytes)
  BY LoadSavedType DEF TypeOK
<1>4. wire \in Seq(Bytes)
  BY DEF TypeOK
<1>5. SubSeq(wire, 1, n) \in Seq(Bytes)
  BY <1>4
<1>6. SubSeq(wire, n + 1, Len(wire)) \in Seq(Bytes)
  BY <1>4
<1>7. SubSeq(wire, 1, n) \o SubSeq(wire, n + 1, Len(wire)) = wire
  <2>1. 1 \in 1 .. Len(wire) + 1 /\ n \in 1 - 1 .. Len(wire) /\ Len(wire) \in n .. Len(wire)
    BY <1>4
  <2>2. SubSeq(wire, 1, n) \o SubSeq(wire, n + 1, Len(wire)) = SubSeq(wire, 1, Len(wire))
    BY <1>4, <2>1, ConcatAdjacentSubSeq
  <2> QED
    BY <1>4, <2>2, SubSeqFull
<1>8. (LoadSaved \o SubSeq(wire, 1, n)) \o SubSeq(wire, n + 1, Len(wire)) = LoadSaved \o wire
  <2> DEFINE l == LoadSaved
             v == SubSeq(wire, 1, n)
             w == SubSeq(wire, n + 1, Len(wire))
  <2>1. l \in Seq(Bytes)
    BY <1>3
  <2>2. v \in Seq(Bytes)
    BY <1>5
  <2>3. w \in Seq(Bytes)
    BY <1>6
  <2> HIDE DEF l, v, w
  <2>4. (l \o v) \o w = l \o (v \o w)
    BY <2>1, <2>2, <2>3, ConcatAssociative
  <2> QED
    BY <1>7, <2>4 DEF l, v, w
<1>9. Pending' = Pending
  BY <1>1, <1>2, <1>8 DEF Pending
<1> QED
  BY <1>2, <1>9 DEF Decoding, SessionDecoded

\* What the client sends comes last, in the bytes and in what is expected.
LEMMA SendDecodes == TypeOK /\ Decoding /\ Send => Decoding'
<1> SUFFICES ASSUME TypeOK, Decoding, Send PROVE Decoding'
  OBVIOUS
<1>1. PICK in \in Inputs :
         /\ wire' = wire \o in.bytes
         /\ expected' = IF Doomed THEN expected ELSE expected \o in.means
  BY DEF Send
<1>2. /\ client = "open" /\ client' = client /\ pc' = pc /\ saved' = saved /\ buf' = buf
      /\ effects' = effects
  BY DEF Send
<1> DEFINE p == IF pc = "parse" THEN buf ELSE LoadSaved
<1>3. p \in Seq(Bytes)
  BY LoadSavedType DEF TypeOK
<1>4. wire \in Seq(Bytes)
  BY DEF TypeOK
<1>5. in.bytes \in Seq(Bytes) /\ in.means \in Seq(EffectSet)
  BY InputFacts
<1>6. Pending = p \o wire
  BY DEF Pending
<1>7. Pending' = p \o (wire \o in.bytes)
  BY <1>1, <1>2 DEF Pending, LoadSaved
<1> HIDE DEF p
<1>8. Pending' = Pending \o in.bytes /\ Pending \in Seq(Bytes)
  <2>1. in.bytes \in Seq(Bytes)
    BY <1>5
  <2>2. (p \o wire) \o in.bytes = p \o (wire \o in.bytes)
    <3> DEFINE b == in.bytes
    <3>1. b \in Seq(Bytes)
      BY <2>1
    <3> HIDE DEF b
    <3>2. (p \o wire) \o b = p \o (wire \o b)
      BY <1>3, <1>4, <3>1, ConcatAssociative
    <3> QED
      BY <3>2 DEF b
  <2> QED
    BY <1>3, <1>4, <1>6, <1>7, <2>2
<1>9. /\ effects \in Seq(EffectSet) /\ expected \in Seq(EffectSet) /\ Len(effects) \in Nat
      /\ Streams(Pending, expected, Len(effects))
      /\ Len(effects) <= Len(expected) /\ effects = SubSeq(expected, 1, Len(effects))
  BY <1>2 DEF Decoding, SessionDecoded
<1>10. Doomed <=> Ends(expected)
  BY DEF Doomed, Ends
<1>11. CASE Doomed
  <2>1. expected' = expected
    BY <1>1, <1>11
  <2>2. Streams(Pending \o in.bytes, expected, Len(effects))
    BY <1>5, <1>8, <1>9, <1>10, <1>11, JunkSent
  <2>3. Streams(Pending', expected', Len(effects'))
    BY <1>2, <1>8, <2>1, <2>2
  <2> QED
    BY <1>2, <2>1, <2>3 DEF Decoding, SessionDecoded
<1>12. CASE ~Doomed
  <2>1. expected' = expected \o in.means
    BY <1>1, <1>12
  <2>2. Streams(Pending \o in.bytes, expected \o in.means, Len(effects))
    BY <1>8, <1>9, <1>10, <1>12, InputSent
  <2>3. Streams(Pending', expected', Len(effects'))
    BY <1>2, <1>8, <2>1, <2>2
  <2>4. /\ expected' \in Seq(EffectSet) /\ Len(expected') = Len(expected) + Len(in.means)
        /\ \A i \in 1 .. Len(expected) : expected'[i] = expected[i]
    <3> DEFINE m == in.means
    <3>1. m \in Seq(EffectSet)
      BY <1>5
    <3> HIDE DEF m
    <3>2. /\ expected \o m \in Seq(EffectSet) /\ Len(expected \o m) = Len(expected) + Len(m)
          /\ \A i \in 1 .. Len(expected) : (expected \o m)[i] = expected[i]
      BY <1>9, <3>1, Joined
    <3> QED
      BY <2>1, <3>2 DEF m
  <2>5. SubSeq(expected', 1, Len(effects)) = SubSeq(expected, 1, Len(effects))
    <3>1. Len(effects) \in Nat /\ Len(expected) \in Nat /\ Len(in.means) \in Nat
      BY <1>5, <1>9
    <3>2. Len(effects) <= Len(expected') /\ \A i \in 1 .. Len(effects) : expected'[i] = expected[i]
      BY <1>9, <2>4, <3>1
    <3>3. expected \in Seq(EffectSet) /\ expected' \in Seq(EffectSet)
      BY <1>9, <2>4
    <3> QED
      BY <1>9, <3>1, <3>2, <3>3
  <2>6. SessionDecoded'
    <3>1. Len(in.means) \in Nat /\ Len(expected) \in Nat
      BY <1>5, <1>9
    <3>2. Len(effects') <= Len(expected')
      BY <1>2, <1>9, <2>4, <3>1
    <3> QED
      BY <1>2, <1>9, <2>5, <3>2 DEF SessionDecoded
  <2> QED
    BY <1>2, <1>9, <2>3, <2>4, <2>6 DEF Decoding
<1> QED
  BY <1>11, <1>12

\* The invariant holds initially.
LEMMA InitDecodes == Init => Decoding
BY NewSession DEF Init, Decoding, SessionDecoded

\* Every step keeps the invariant.
LEMMA NextDecodes == IInv /\ Decoding /\ [Next]_vars => Decoding'
<1> SUFFICES ASSUME IInv, Decoding, [Next]_vars PROVE Decoding'
  OBVIOUS
<1>t. TypeOK
  BY DEF IInv
<1>1. CASE OnListenFd
  <2>1. /\ effects' = <<>> /\ expected' = <<>> /\ wire' = <<>> /\ pc' = "idle"
        /\ client' = "open" => saved' = NoneSaved
    BY <1>1 DEF OnListenFd
  <2>2. client' = "open" => Pending' = <<>>
    BY <2>1, NewSession DEF Pending, LoadSaved
  <2>3. client' = "open" => Streams(Pending', expected', Len(effects'))
    BY <2>1, <2>2, NewSession, NothingSent
  <2>4. SessionDecoded' /\ effects' \in Seq(EffectSet) /\ expected' \in Seq(EffectSet)
    BY <2>1, NewSession DEF SessionDecoded
  <2> QED
    BY <2>1, <2>3, <2>4 DEF Decoding
<1>2. CASE OnPtMasterFdFails \/ RecvFails \/ WriteFails
  BY <1>2 DEF OnPtMasterFdFails, RecvFails, WriteFails, KickClient, Decoding, SessionDecoded
<1>3. CASE Done
  <2>1. /\ pc = "parse" /\ buf = <<>> /\ pc' = "idle" /\ client' = client /\ saved' = saved
        /\ effects' = effects /\ wire' = wire /\ expected' = expected
    BY <1>3 DEF Done
  <2>2. saved = NoneSaved
    BY <2>1 DEF Decoding
  <2>3. Pending' = Pending
    BY <2>1, <2>2 DEF Pending, LoadSaved
  <2> QED
    BY <2>1, <2>3 DEF Decoding, SessionDecoded
<1>4. CASE UNCHANGED vars
  BY <1>4 DEF vars, Decoding, SessionDecoded, Pending, LoadSaved
<1> QED
  BY <1>t, <1>1, <1>2, <1>3, <1>4, RecvDecodes, TextDecodes, CommandDecodes,
     CommandSavedDecodes, KickDecodes, SendDecodes
  DEF Next, OnClientFd, Parse

\* For any number of inputs and sessions, and however the bytes are cut between two calls of
\* telnetServer_onClientFd: what was typed, resized and kicked is a beginning of what the
\* client meant.
THEOREM DecodedAsSent == Spec => []SessionDecoded
<1>1. Decoding => SessionDecoded
  BY DEF Decoding
<1> QED
  BY <1>1, InitDecodes, NextDecodes, Invariance, PTL DEF Spec

-----------------------------------------------------------------------------
(***************************************************************************)
(* The kernel's SMB server (ksmb.c over netlink.c).                        *)
(***************************************************************************)

Datagrams == Requests \cup Notifications \cup {Ack}

\* A response that was acknowledged leaves something to receive.
AckQueued == stage = "talk" => queue # <<>>

\* While the acknowledgement is outstanding the answer is not paid for with a loss.
LossBounded ==
    /\ lost <= answered
    /\ stage \in {"acknowledge", "talk"} => lost < answered

\* Without overlap there is at most one request, either in the queue or in hand.
Alone ==
    ~crowded =>
        /\ lost = 0
        /\ stage # "wait" => \A i \in 1 .. Len(queue) : queue[i] \notin Requests
        /\ \A i, j \in 1 .. Len(queue) : queue[i] \in Requests /\ queue[j] \in Requests => i = j

KsmbInv == KsmbTypeOK /\ NeverReceivesNothing /\ AckQueued /\ LossBounded /\ Alone

\* Taking the first datagram from a queue.
LEMMA TailOfQueue ==
    ASSUME NEW S, NEW s \in Seq(S), s # <<>>
    PROVE  /\ Tail(s) \in Seq(S) /\ Head(s) \in S
           /\ Len(Tail(s)) = Len(s) - 1 /\ Len(s) \in Nat /\ Len(s) > 0
           /\ Head(s) = s[1]
           /\ \A i \in 1 .. Len(Tail(s)) : Tail(s)[i] = s[i + 1]
  OBVIOUS

\* Adding a datagram to a queue.
LEMMA AppendToQueue ==
    ASSUME NEW S, NEW s \in Seq(S), NEW e \in S
    PROVE  /\ Append(s, e) \in Seq(S) /\ Append(s, e) # <<>>
           /\ Len(s) \in Nat /\ Len(Append(s, e)) = Len(s) + 1
           /\ Append(s, e)[Len(s) + 1] = e
           /\ \A i \in 1 .. Len(s) : Append(s, e)[i] = s[i]
  OBVIOUS

\* The kinds tell the datagrams apart.
LEMMA Kinds ==
    /\ Ack \notin Requests
    /\ \A n \in Notifications : n \notin Requests
  BY DEF Ack, Requests, Notifications, RequestKinds, NotificationKinds

\* The invariant holds initially.
LEMMA InitInv == KsmbInit => KsmbInv
<1> SUFFICES ASSUME KsmbInit PROVE KsmbInv
  OBVIOUS
<1>1. KsmbTypeOK
  <2>1. queue \in Seq(Requests \cup Notifications \cup {Ack})
    BY DEF KsmbInit
  <2>2. posted \in 0 .. MaxRequests /\ answered \in Nat /\ lost \in Nat
    BY KsmbAssumption DEF KsmbInit
  <2>3. /\ stage \in {"wait", "send", "acknowledge", "talk", "aborted"}
        /\ current \in Requests \cup {NoRequest} /\ waiting \subseteq Clients
    BY Zenon DEF KsmbInit
  <2>4. crowded \in BOOLEAN
    BY Zenon DEF KsmbInit
  <2> QED BY <2>1, <2>2, <2>3, <2>4, Zenon DEF KsmbTypeOK
<1>2. NeverReceivesNothing /\ AckQueued /\ LossBounded
  BY DEF KsmbInit, NeverReceivesNothing, AckQueued, LossBounded
<1>3. Alone
  BY DEF KsmbInit, Alone
<1> QED BY <1>1, <1>2, <1>3 DEF KsmbInv

\* Every step keeps the invariant.
LEMMA StepInv == KsmbInv /\ [KsmbNext]_ksmbVars => KsmbInv'
<1> SUFFICES ASSUME KsmbInv, [KsmbNext]_ksmbVars PROVE KsmbInv'
  OBVIOUS
<1> USE DEF KsmbInv, NeverReceivesNothing, AckQueued, LossBounded
<1>q. queue \in Seq(Datagrams) /\ Len(queue) \in Nat
  BY DEF KsmbTypeOK, Datagrams
<1>1. CASE Post
  <2>1. PICK c \in Clients, k \in RequestKinds :
            queue' = Append(queue, [kind |-> k, handle |-> c]) /\ waiting' = waiting \cup {c}
    BY <1>1 DEF Post
  <2> DEFINE r == [kind |-> k, handle |-> c]
  <2>2. r \in Requests /\ r \in Datagrams
    BY DEF Requests, Datagrams
  <2> HIDE DEF r
  <2>3. queue' = Append(queue, r)
    BY <2>1 DEF r
  <2>4. /\ queue' \in Seq(Datagrams) /\ queue' # <<>>
        /\ Len(queue') = Len(queue) + 1
        /\ queue'[Len(queue) + 1] = r /\ \A i \in 1 .. Len(queue) : queue'[i] = queue[i]
    BY <2>2, <2>3, <1>q, AppendToQueue
  <2>5. KsmbTypeOK'
    BY <1>1, <2>1, <2>4, KsmbAssumption DEF Post, KsmbTypeOK, Datagrams
  <2>6. Alone'
    <3> SUFFICES ASSUME ~crowded' PROVE Alone!2'
      BY DEF Alone
    <3>1. ~crowded /\ ~Busy
      BY <1>1 DEF Post
    <3>2. stage = "wait" /\ \A i \in 1 .. Len(queue) : queue[i] \notin Requests
      BY <3>1 DEF Busy, Queued
    <3>3. \A i \in 1 .. Len(queue') : queue'[i] \in Requests => i = Len(queue) + 1
      BY <2>4, <3>2, <1>q
    <3> QED BY <1>1, <3>1, <3>2, <3>3 DEF Post, Alone
  <2> QED BY <1>1, <2>4, <2>5, <2>6 DEF Post
<1>2. CASE Notify
  <2>1. PICK n \in Notifications : queue' = Append(queue, n)
    BY <1>2 DEF Notify
  <2>2. n \in Datagrams /\ n \notin Requests
    BY Kinds DEF Datagrams
  <2>4. /\ queue' \in Seq(Datagrams) /\ queue' # <<>>
        /\ Len(queue') = Len(queue) + 1
        /\ queue'[Len(queue) + 1] = n /\ \A i \in 1 .. Len(queue) : queue'[i] = queue[i]
    BY <2>1, <2>2, <1>q, AppendToQueue
  <2>5. KsmbTypeOK'
    BY <1>2, <2>4, KsmbAssumption DEF Notify, KsmbTypeOK, Datagrams
  <2>6. Alone'
    <3> SUFFICES ASSUME ~crowded' PROVE Alone!2'
      BY DEF Alone
    <3>1. ~crowded
      BY <1>2 DEF Notify
    <3>3. \A i \in 1 .. Len(queue') : queue'[i] \in Requests => i \in 1 .. Len(queue) /\ queue'[i] = queue[i]
      BY <2>2, <2>4, <1>q
    <3> QED BY <1>2, <3>1, <3>3 DEF Notify, Alone
  <2> QED BY <1>2, <2>4, <2>5, <2>6 DEF Notify
<1>3. CASE GiveUp
  BY <1>3 DEF GiveUp, KsmbTypeOK, Alone
<1>4. CASE Acknowledge
  <2>2. Ack \in Datagrams /\ Ack \notin Requests
    BY Kinds DEF Datagrams
  <2>4. /\ queue' \in Seq(Datagrams) /\ queue' # <<>>
        /\ Len(queue') = Len(queue) + 1
        /\ queue'[Len(queue) + 1] = Ack /\ \A i \in 1 .. Len(queue) : queue'[i] = queue[i]
    BY <1>4, <2>2, <1>q, AppendToQueue DEF Acknowledge
  <2>5. KsmbTypeOK'
    BY <1>4, <2>4 DEF Acknowledge, KsmbTypeOK, Datagrams
  <2>6. Alone'
    <3> SUFFICES ASSUME ~crowded' PROVE Alone!2'
      BY DEF Alone
    <3>1. ~crowded /\ stage = "acknowledge"
      BY <1>4 DEF Acknowledge
    <3>3. \A i \in 1 .. Len(queue') : queue'[i] \notin Requests
      <4>1. \A i \in 1 .. Len(queue) : queue[i] \notin Requests
        BY <3>1 DEF Alone
      <4> QED BY <2>2, <2>4, <1>q, <4>1
    <3> QED BY <1>4, <3>1, <3>3 DEF Acknowledge, Alone
  <2> QED BY <1>4, <2>4, <2>5, <2>6 DEF Acknowledge
<1>5. CASE OnNetlinkFd
  <2>1. /\ queue' \in Seq(Datagrams) /\ Head(queue) \in Datagrams
        /\ Len(queue') = Len(queue) - 1 /\ Len(queue) > 0
        /\ Head(queue) = queue[1]
        /\ \A i \in 1 .. Len(queue') : queue'[i] = queue[i + 1]
    BY <1>5, <1>q, TailOfQueue DEF OnNetlinkFd
  <2>2. KsmbTypeOK'
    BY <1>5, <2>1 DEF OnNetlinkFd, KsmbTypeOK, Datagrams
  <2>3. Alone'
    <3> SUFFICES ASSUME ~crowded' PROVE Alone!2'
      BY DEF Alone
    <3>1. ~crowded /\ lost = 0
      BY <1>5 DEF OnNetlinkFd, Alone
    <3>2. \A i, j \in 1 .. Len(queue) : queue[i] \in Requests /\ queue[j] \in Requests => i = j
      BY <3>1 DEF Alone
    <3>3. \A i, j \in 1 .. Len(queue') : queue'[i] \in Requests /\ queue'[j] \in Requests => i = j
      <4> TAKE i, j \in 1 .. Len(queue')
      <4>1. i + 1 \in 1 .. Len(queue) /\ j + 1 \in 1 .. Len(queue) /\ i \in Nat /\ j \in Nat
        BY <2>1, <1>q
      <4>2. queue'[i] = queue[i + 1] /\ queue'[j] = queue[j + 1]
        BY <2>1
      <4>3. queue'[i] \in Requests /\ queue'[j] \in Requests => i + 1 = j + 1
        BY <3>2, <4>1, <4>2
      <4> QED BY <4>1, <4>3
    <3>4. stage' # "wait" => \A i \in 1 .. Len(queue') : queue'[i] \notin Requests
      <4> SUFFICES ASSUME stage' # "wait", NEW i \in 1 .. Len(queue') PROVE queue'[i] \notin Requests
        OBVIOUS
      <4>1. queue[1] \in Requests
        BY <1>5, <2>1 DEF OnNetlinkFd
      <4>2. i + 1 \in 1 .. Len(queue) /\ 1 \in 1 .. Len(queue) /\ i + 1 # 1
        BY <2>1, <1>q
      <4> QED BY <3>2, <4>1, <4>2, <2>1
    <3> QED BY <1>5, <3>1, <3>3, <3>4 DEF OnNetlinkFd, Alone
  <2> QED BY <1>5, <2>2, <2>3 DEF OnNetlinkFd
<1>6. CASE SendResponse
  <2>1. KsmbTypeOK'
    BY <1>6 DEF SendResponse, KsmbTypeOK
  <2>2. lost' < answered'
    BY <1>6 DEF SendResponse, KsmbTypeOK
  <2>3. lost' <= answered'
    BY <1>6 DEF SendResponse, KsmbTypeOK
  <2> QED BY <1>6, <2>1, <2>2, <2>3 DEF SendResponse, Alone
<1>7. CASE TalkReceive
  <2>0. queue # <<>> /\ stage = "talk"
    BY <1>7 DEF TalkReceive
  <2>1. /\ queue' \in Seq(Datagrams) /\ Head(queue) \in Datagrams
        /\ Len(queue') = Len(queue) - 1 /\ Len(queue) > 0
        /\ Head(queue) = queue[1]
        /\ \A i \in 1 .. Len(queue') : queue'[i] = queue[i + 1]
    BY <1>7, <2>0, <1>q, TailOfQueue DEF TalkReceive
  <2>2. KsmbTypeOK'
    BY <1>7, <2>0, <2>1 DEF TalkReceive, KsmbTypeOK, Datagrams
  <2>3. lost' <= answered'
    BY <1>7, <2>0 DEF TalkReceive, KsmbTypeOK
  <2>4. Alone'
    <3> SUFFICES ASSUME ~crowded' PROVE Alone!2'
      BY DEF Alone
    <3>1. ~crowded /\ lost = 0 /\ \A i \in 1 .. Len(queue) : queue[i] \notin Requests
      BY <1>7, <2>0 DEF TalkReceive, Alone
    <3>2. Head(queue) \notin Requests
      BY <3>1, <2>1, <1>q
    <3>3. \A i \in 1 .. Len(queue') : queue'[i] \notin Requests
      <4> TAKE i \in 1 .. Len(queue')
      <4>1. i + 1 \in 1 .. Len(queue)
        BY <2>1, <1>q
      <4> QED BY <2>1, <3>1, <4>1
    <3>4. lost' = 0
      BY <1>7, <2>0, <3>1, <3>2 DEF TalkReceive
    <3> QED BY <3>3, <3>4 DEF Alone
  <2> QED BY <1>7, <2>0, <2>2, <2>3, <2>4 DEF TalkReceive
<1>8. CASE UNCHANGED ksmbVars
  BY <1>8 DEF ksmbVars, KsmbTypeOK, Alone
<1> QED BY <1>1, <1>2, <1>3, <1>4, <1>5, <1>6, <1>7, <1>8 DEF KsmbNext

\* The inductive invariant holds throughout.
THEOREM KsmbInvariance == KsmbSpec => []KsmbInv
<1>1. KsmbInit => KsmbInv
  BY InitInv
<1>2. KsmbInv /\ [KsmbNext]_ksmbVars => KsmbInv'
  BY StepInv
<1> QED BY <1>1, <1>2, PTL DEF KsmbSpec

\* ksmb_onNetlinkFd answers requests only.
THEOREM KsmbTypeCorrect == KsmbSpec => []KsmbTypeOK
<1>1. KsmbInv => KsmbTypeOK
  BY DEF KsmbInv
<1> QED BY <1>1, KsmbInvariance, PTL

\* The CHECK in netlink_receive (netlink.c:8) does not end the router.
THEOREM TalkFindsADatagram == KsmbSpec => []NeverReceivesNothing
<1>1. KsmbInv => NeverReceivesNothing
  BY DEF KsmbInv
<1> QED BY <1>1, KsmbInvariance, PTL

\* netlink_talk loses at most one request per answer.
THEOREM HalfAreAnswered == KsmbSpec => []LostAtMostHalf
<1>1. KsmbInv => LostAtMostHalf
  BY DEF KsmbInv, LossBounded, LostAtMostHalf
<1> QED BY <1>1, KsmbInvariance, PTL

\* Requests that do not overlap are all answered.
THEOREM LossNeedsOverlap == KsmbSpec => []NoLossUncrowded
<1>1. KsmbInv => NoLossUncrowded
  BY DEF KsmbInv, KsmbTypeOK, Alone, NoLossUncrowded
<1> QED BY <1>1, KsmbInvariance, PTL

(***************************************************************************)
(* netlink_talk loses at most one request for each that it answers, and    *)
(* none that does not overlap another.                                     *)
(***************************************************************************)
THEOREM LossIsBounded == KsmbSpec => []LossAccounted
<1>1. LostAtMostHalf /\ NoLossUncrowded => LossAccounted
  BY DEF LossAccounted
<1> QED BY <1>1, HalfAreAnswered, LossNeedsOverlap, PTL
=============================================================================
