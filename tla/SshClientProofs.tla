--------------------------- MODULE SshClientProofs --------------------------
(***************************************************************************)
(* What SshClient promises, for every size of the buffer, of the packets   *)
(* and of the identification line, and for every server.                   *)
(*                                                                         *)
(* The argument: as long as the identification line came in one read, the  *)
(* buffer holds the end of the stream from the start of a packet on, so    *)
(* the packet that is framed is the next one; when it came in several, the *)
(* line that was hashed is not the server's, and its signature is refused. *)
(***************************************************************************)
EXTENDS SshClient, NaturalsInduction, WellFoundedInduction, SequenceTheorems, TLAPS

-----------------------------------------------------------------------------
(***************************************************************************)
(* Remainders.                                                             *)
(***************************************************************************)

\* A number is a multiple of n and its remainder.
LEMMA Division ==
    ASSUME NEW x \in Int, NEW n \in Nat \ {0}
    PROVE  \E q \in Int : x = n * q + (x % n)
<1>1. x = n * (x \div n) + (x % n) /\ x \div n \in Int
  OBVIOUS
<1>2. QED
  BY <1>1

\* The remainder is the only one.
LEMMA Remainder ==
    ASSUME NEW n \in Nat \ {0}, NEW q \in Int, NEW r \in 0 .. n - 1
    PROVE  (n * q + r) % n = r
OBVIOUS

\* A multiple of n makes no difference to it.
LEMMA ModPlusMultiple ==
    ASSUME NEW x \in Int, NEW n \in Nat \ {0}, NEW q \in Int
    PROVE  (x + n * q) % n = x % n
<1>1. PICK p \in Int : x = n * p + (x % n)
  BY Division
<1>2. x + n * q = n * (p + q) + (x % n)
  BY <1>1
<1>3. (n * (p + q) + (x % n)) % n = x % n
  BY Remainder
<1>4. QED
  BY <1>2, <1>3

\* Nor does it whether a summand is reduced first.
LEMMA ModOfMod ==
    ASSUME NEW x \in Int, NEW y \in Int, NEW n \in Nat \ {0}
    PROVE  ((x % n) + y) % n = (x + y) % n
<1> DEFINE r == x % n
<1>1. PICK p \in Int : x = n * p + r
  BY Division
<1>2. r \in Int
  OBVIOUS
<1> HIDE DEF r
<1> DEFINE z == n * p
<1>3. z \in Int /\ x = z + r
  BY <1>1
<1> HIDE DEF z
<1>4. x + y = (r + y) + z /\ r + y \in Int
  BY <1>2, <1>3
<1>5. ((r + y) + n * p) % n = (r + y) % n
  BY <1>4, ModPlusMultiple
<1>6. QED
  BY <1>4, <1>5 DEF r, z

\* The sum and the difference of multiples of n are multiples.
LEMMA MultiplesAdd ==
    ASSUME NEW x \in Int, NEW y \in Int, NEW n \in Nat \ {0}, x % n = 0
    PROVE  (x + y) % n = y % n
<1>1. ((x % n) + y) % n = (x + y) % n
  BY ModOfMod
<1>2. (x % n) + y = y
  OBVIOUS
<1>3. QED
  BY <1>1, <1>2

\* Reducing modulo a multiple of n first makes no difference modulo n.
LEMMA ModOfMultiple ==
    ASSUME NEW x \in Int, NEW n \in Nat \ {0}, NEW m \in Nat \ {0}, m % n = 0
    PROVE  (x % m) % n = x % n
<1> DEFINE r == x % m
<1>1. PICK q \in Int : x = m * q + r
  BY Division
<1>2. PICK p \in Int : m = n * p + (m % n)
  <2>1. m \in Int
    OBVIOUS
  <2>2. QED
    BY <2>1, Division, Zenon
<1>3. r \in Int
  OBVIOUS
<1> HIDE DEF r
<1>4. m = n * p
  <2>1. n * p \in Int
    OBVIOUS
  <2>2. QED
    BY <1>2, <2>1
<1>5. (n * p) * q = n * (p * q) /\ p * q \in Int
  OBVIOUS
<1>6. x = r + n * (p * q)
  <2>1. x = m * q + r /\ m * q = n * (p * q) /\ m * q \in Int
    BY <1>1, <1>4, <1>5
  <2>2. QED
    BY <1>3, <2>1
<1>7. (r + n * (p * q)) % n = r % n
  BY <1>3, <1>5, ModPlusMultiple
<1>8. QED
  BY <1>6, <1>7 DEF r

\* AlignForward gives the next multiple of Align, which is no more than a multiple above.
LEMMA AlignForwardFact ==
    ASSUME NEW x \in Nat, Align \in Nat \ {0}
    PROVE  AlignForward(x) \in Nat /\ AlignForward(x) % Align = 0
<1> DEFINE q == (x + Align - 1) \div Align
<1>1. q \in Nat
  OBVIOUS
<1> HIDE DEF q
<1>2. q * Align \in Nat /\ q * Align = Align * q + 0
  BY <1>1
<1>3. (Align * q + 0) % Align = 0
  BY <1>1, Remainder
<1>4. QED
  BY <1>2, <1>3 DEF AlignForward, q

\* A place of the circular buffer, seen from another one.
LEMMA RingDistance ==
    ASSUME NEW n \in Nat \ {0}, NEW p \in Int, NEW i \in Int, NEW j \in Int
    PROVE  /\ (p + i) % n \in 0 .. n - 1
           /\ (((p + i) % n) - (p + j)) % n = (i - j) % n
           /\ i - j \in 0 .. n - 1 => (i - j) % n = i - j
           /\ i - j \in -n .. -1 => (i - j) % n = i - j + n
<1>1. (p + i) % n \in 0 .. n - 1
  OBVIOUS
<1>2. (((p + i) % n) + -(p + j)) % n = ((p + i) + -(p + j)) % n
  <2>1. p + i \in Int /\ -(p + j) \in Int
    OBVIOUS
  <2>2. QED
    BY <2>1, ModOfMod
<1>3. ((p + i) % n) + -(p + j) = ((p + i) % n) - (p + j)
  BY <1>1
<1>4. (p + i) + -(p + j) = i - j
  OBVIOUS
<1>5. i - j \in 0 .. n - 1 => (i - j) % n = i - j
  OBVIOUS
<1>6. ASSUME i - j \in -n .. -1 PROVE (i - j) % n = i - j + n
  <2>1. i - j = n * (-1) + (i - j + n) /\ i - j + n \in 0 .. n - 1
    BY <1>6
  <2>2. (n * (-1) + (i - j + n)) % n = i - j + n
    BY <2>1, Remainder
  <2>3. QED
    BY <2>1, <2>2
<1>7. QED
  BY <1>1, <1>2, <1>3, <1>4, <1>5, <1>6

\* A sequence written out, appended to and continued.
LEMMA AppendTuple ==
    ASSUME NEW a, NEW b, NEW c, NEW d
    PROVE  Append(<<a, b, c>>, d) = <<a, b, c, d>>
<1> DEFINE S == {a, b, c, d}
           s == <<a, b, c>>
           t == <<a, b, c, d>>
           u == Append(s, d)
<1>1. s \in Seq(S) /\ Len(s) = 3 /\ s[1] = a /\ s[2] = b /\ s[3] = c /\ d \in S
  OBVIOUS
<1>2. t \in Seq(S) /\ Len(t) = 4 /\ t[1] = a /\ t[2] = b /\ t[3] = c /\ t[4] = d
  OBVIOUS
<1> HIDE DEF S, s, t
<1>3. /\ u \in Seq(S) /\ Len(u) = Len(s) + 1
      /\ \A i \in 1 .. Len(s) : u[i] = s[i]
      /\ u[Len(s) + 1] = d
  <2>1. ASSUME NEW x \in Seq(S), NEW e \in S
        PROVE  /\ Append(x, e) \in Seq(S) /\ Len(Append(x, e)) = Len(x) + 1
               /\ \A i \in 1 .. Len(x) : Append(x, e)[i] = x[i]
               /\ Append(x, e)[Len(x) + 1] = e
    BY AppendProperties
  <2>2. QED
    BY <1>1, <2>1
<1> HIDE DEF u
<1>4. Len(u) = 4 /\ u[1] = a /\ u[2] = b /\ u[3] = c /\ u[4] = d
  BY <1>1, <1>3
<1>5. \A i \in 1 .. 4 : i = 1 \/ i = 2 \/ i = 3 \/ i = 4
  OBVIOUS
<1>6. \A i \in 1 .. Len(u) : u[i] = t[i]
  BY <1>2, <1>4, <1>5
<1>7. u = t
  BY <1>2, <1>3, <1>4, <1>6, SeqEqual
<1>8. QED
  BY <1>7 DEF s, t, u

LEMMA ConcatTuple ==
    ASSUME NEW a, NEW b, NEW c
    PROVE  <<a>> \o <<b, c>> = <<a, b, c>>
<1> DEFINE S == {a, b, c}
           s == <<a>>
           r == <<b, c>>
           t == <<a, b, c>>
           u == s \o r
<1>1. s \in Seq(S) /\ Len(s) = 1 /\ s[1] = a
  OBVIOUS
<1>2. r \in Seq(S) /\ Len(r) = 2 /\ r[1] = b /\ r[2] = c
  OBVIOUS
<1>3. t \in Seq(S) /\ Len(t) = 3 /\ t[1] = a /\ t[2] = b /\ t[3] = c
  OBVIOUS
<1> HIDE DEF S, s, r, t
<1>4. /\ u \in Seq(S) /\ Len(u) = Len(s) + Len(r)
      /\ \A i \in 1 .. Len(s) + Len(r) : u[i] = IF i <= Len(s) THEN s[i] ELSE r[i - Len(s)]
  BY <1>1, <1>2, ConcatProperties, Zenon
<1> HIDE DEF u
<1>5. Len(u) = 3 /\ u[1] = a /\ u[2] = b /\ u[3] = c
  <2>1. \A i \in 1 .. 3 : u[i] = IF i <= 1 THEN s[i] ELSE r[i - 1]
    BY <1>1, <1>2, <1>4
  <2>2. u[1] = s[1] /\ u[2] = r[2 - 1] /\ u[3] = r[3 - 1]
    BY <2>1
  <2>3. QED
    BY <1>1, <1>2, <1>4, <2>2
<1>6. \A i \in 1 .. 3 : i = 1 \/ i = 2 \/ i = 3
  OBVIOUS
<1>7. \A i \in 1 .. Len(u) : u[i] = t[i]
  BY <1>3, <1>5, <1>6
<1>8. u = t
  BY <1>3, <1>4, <1>5, <1>7, SeqEqual
<1>9. QED
  BY <1>8 DEF s, r, t, u

-----------------------------------------------------------------------------
(***************************************************************************)
(* The inductive invariant.                                                *)
(***************************************************************************)

Connecting == phase \in {"kexinit", "reply", "newkeys", "request", "accept", "done"}

Line == [i \in 1 .. HelloSize - 2 |-> Byte(0, i)]

\* How many packets were handled, and messages sent, when client_connect has come this far.
Handled ==
    IF phase = "kexinit" THEN 0 ELSE IF phase = "reply" THEN 1 ELSE IF phase = "newkeys" THEN 2
    ELSE IF phase = "done" THEN 4 ELSE 3

Messages ==
    IF phase = "kexinit" THEN 1 ELSE IF phase = "reply" THEN 2 ELSE IF phase \in {"newkeys", "request"} THEN 3
    ELSE 4

\* Where the stream goes on after its first n packets.
Start(n) == IF n = 0 THEN HelloSize ELSE End(script[n])

Sendings ==
    [message : {"kexinit", "ecdhInit", "newkeys", "serviceRequest"}, encrypted : BOOLEAN, nonce : Nat]

\* Types, as far as they matter.
Typing ==
    /\ phase \in {"init", "initFailed", "hello", "failed", "ended"} \/ Connecting
    /\ script \in Scripts
    /\ arrived \in Nat /\ reads \in Nat /\ helloPos \in Nat
    /\ bufferPos \in Nat /\ nextSize \in Nat
    /\ receivedSize \in 0 .. BufferSize
    /\ buffer = [a \in 0 .. BufferSize - 1 |-> buffer[a]]
    /\ encryption \in BOOLEAN
    /\ sendSequenceNumber \in Nat
    /\ sent \in Seq(Sendings)
    /\ delivered \in Seq(Nat)

\* Up to the end of the identification line; a second read is stored over bytes of the first.
Greeting ==
    phase \in {"init", "hello"} =>
        /\ receivedSize = arrived /\ bufferPos = 0 /\ nextSize = 0
        /\ encryption = FALSE /\ sent = <<>> /\ delivered = <<>>
        /\ reads = 0 => arrived = 0 /\ helloPos = 0
        /\ reads > 0 => helloPos < arrived
        /\ phase = "init" => reads = 0
        /\ phase = "hello" => exchange = <<"clientLine">>

\* The place and the size of a packet are aligned, and one that is waited for fits the buffer.
Framing ==
    Connecting =>
        /\ bufferPos % Align = 0 /\ nextSize % Align = 0
        /\ nextSize > 0 => Align + nextSize + macSize <= MaxPacket

\* The buffer holds the end of the stream, from the start of the next packet on.
StreamTail ==
    Connecting /\ reads = 1 =>
        /\ \A n \in Nat : n = Handled => arrived - receivedSize = Start(n)
        /\ \A i \in Nat, m \in Nat :
              i < receivedSize /\ m = arrived - receivedSize + i + 1 =>
                  buffer[(bufferPos + i) % BufferSize] = StreamByte(m)

\* Both sides hash the same from the reply on, which a line read in pieces prevents.
Hashing ==
    /\ phase = "kexinit" => exchange = <<"clientLine", exchange[2], "clientKexInit">>
    /\ phase = "reply" => exchange = <<"clientLine", exchange[2], "clientKexInit", "serverKexInit">>
    /\ phase \in {"kexinit", "reply"} => reads > 0 /\ (exchange[2] = Line => reads = 1)
    /\ Connecting /\ phase \notin {"kexinit", "reply"} =>
          reads = 1 /\ exchange = ServerHash /\ sessionId = ServerHash

\* The packets were handled in order, and what follows NEWKEYS is encrypted.
Ordering ==
    /\ Connecting =>
          /\ encryption <=> phase \in {"request", "accept", "done"}
          /\ Len(sent) = Messages
          /\ \A k \in DOMAIN sent : sent[k].encrypted <=> k = 4
    /\ Connecting /\ reads = 1 =>
          /\ Len(delivered) = Handled
          /\ \A k \in 1 .. Handled :
                delivered[k] = k /\ k \in DOMAIN script /\ (script[k].encrypted <=> k = 4)
    /\ phase = "done" => script[4].macValid

Invariant ==
    /\ Typing /\ Greeting /\ Framing /\ StreamTail /\ Hashing /\ Ordering

-----------------------------------------------------------------------------
(***************************************************************************)
(* The stream.                                                             *)
(***************************************************************************)

\* A set of numbers has a least one.
LEMMA LeastNatural ==
    ASSUME NEW T, T \subseteq Nat, T # {}
    PROVE  \E x \in T : \A y \in T : x <= y
<1>1. PICK x \in T : \A y \in T : ~(<<y, x>> \in OpToRel(<, Nat))
  BY WFMin, NatLessThanWellFounded
<1>2. ASSUME NEW y \in T PROVE x <= y
  <2>1. x \in Nat /\ y \in Nat
    OBVIOUS
  <2>2. ~(y < x)
    BY <1>1, <2>1 DEF OpToRel
  <2>3. QED
    BY <2>1, <2>2
<1>3. QED
  BY <1>2

\* The constants and the packets of a server, taken apart.
LEMMA Sizes ==
    /\ BufferSize \in Nat \ {0} /\ Align \in Nat \ {0}
    /\ MaxPacket \in Nat /\ MacSize \in Nat /\ HelloSize \in Nat /\ HelloLimit \in Nat /\ PrefixSize \in Nat
    /\ MaxPacket <= BufferSize /\ BufferSize % Align = 0 /\ MacSize % Align = 0
    /\ PrefixSize + 2 <= HelloSize /\ HelloSize <= HelloLimit
BY SshAssumption

LEMMA PacketFacts ==
    ASSUME script \in Scripts
    PROVE  /\ DOMAIN script \subseteq Nat \ {0}
           /\ \A k \in DOMAIN script : 1 .. k \subseteq DOMAIN script
           /\ \A k \in DOMAIN script :
                 /\ script[k].size \in Nat \ {0} /\ script[k].padding \in Nat /\ script[k].at \in Nat
                 /\ script[k].encrypted \in BOOLEAN /\ script[k].macValid \in BOOLEAN
<1> DEFINE Packets == [message : STRING, size : Nat \ {0}, padding : Nat, encrypted : BOOLEAN,
                       macValid : BOOLEAN, after : Nat, at : Nat]
<1>1. script \in Seq(Packets)
  BY SshAssumption
<1>2. \A x \in Packets :
         /\ x.size \in Nat \ {0} /\ x.padding \in Nat /\ x.at \in Nat
         /\ x.encrypted \in BOOLEAN /\ x.macValid \in BOOLEAN
  OBVIOUS
<1> HIDE DEF Packets
<1>3. Len(script) \in Nat /\ DOMAIN script = 1 .. Len(script)
  BY <1>1
<1>4. \A k \in DOMAIN script : script[k] \in Packets
  BY <1>1
<1>5. QED
  BY <1>2, <1>3, <1>4

\* Where packets are: one behind the other.
LEMMA PacketPlaces ==
    ASSUME script \in Scripts, NEW k \in DOMAIN script
    PROVE  /\ PacketSize(script[k]) \in Nat \ {0}
           /\ End(script[k]) = script[k].at + PacketSize(script[k]) /\ End(script[k]) \in Nat
           /\ HelloSize <= script[k].at
           /\ script[k].at = Start(k - 1)
           /\ \A j \in DOMAIN script : j < k => End(script[j]) <= script[k].at
<1>1. PacketSize(script[k]) \in Nat \ {0}
  <2>1. script[k].size \in Nat \ {0} /\ Align \in Nat \ {0} /\ MacSize \in Nat
    BY PacketFacts, Sizes
  <2>2. QED
    BY <2>1 DEF PacketSize
<1>2. End(script[k]) = script[k].at + PacketSize(script[k]) /\ End(script[k]) \in Nat
  BY <1>1, PacketFacts DEF End
<1>3. \A j \in DOMAIN script : j < k => End(script[j]) <= script[k].at
  BY SshAssumption
<1>4. script[k].at = IF k = 1 THEN HelloSize ELSE End(script[k - 1])
  BY SshAssumption
<1>5. k \in Nat \ {0} /\ 1 \in DOMAIN script
  BY PacketFacts
<1>6. script[k].at = Start(k - 1)
  BY <1>4, <1>5 DEF Start
<1>7. HelloSize <= script[k].at
  <2>1. CASE k = 1
    BY <1>4, <2>1, PacketFacts, Sizes
  <2>2. CASE k > 1
    <3>1. script[1].at = HelloSize
      BY <1>5, SshAssumption
    <3>2. End(script[1]) <= script[k].at
      BY <1>3, <1>5, <2>2
    <3>3. script[1].size \in Nat \ {0} /\ Align \in Nat \ {0} /\ MacSize \in Nat /\ HelloSize \in Nat
      BY <1>5, PacketFacts, Sizes
    <3>4. End(script[1]) \in Nat /\ HelloSize <= End(script[1])
      BY <3>1, <3>3 DEF End, PacketSize
    <3>5. script[k].at \in Nat
      BY PacketFacts
    <3>6. QED
      BY <3>2, <3>3, <3>4, <3>5
  <2>3. QED
    BY <1>5, <2>1, <2>2
<1>8. QED
  BY <1>1, <1>2, <1>3, <1>6, <1>7

\* The packet that starts behind the first n packets is the next one.
LEMMA NextPacket ==
    ASSUME script \in Scripts, NEW n \in Nat, n = 0 \/ n \in DOMAIN script,
           NEW k \in DOMAIN script, script[k].at = Start(n)
    PROVE  k = n + 1
<1>1. k \in Nat \ {0} /\ script[k].at \in Nat /\ 1 .. k \subseteq DOMAIN script
  BY PacketFacts
<1>2. SUFFICES ASSUME k # n + 1 PROVE FALSE
  OBVIOUS
<1>3. CASE k > n + 1
  <2>1. n + 1 \in DOMAIN script
    BY <1>1, <1>3
  <2>2. End(script[n + 1]) <= script[k].at
    BY <1>3, <2>1, PacketPlaces
  <2>3. script[n + 1].at = Start((n + 1) - 1)
    BY <2>1, PacketPlaces
  <2>4. /\ End(script[n + 1]) = script[n + 1].at + PacketSize(script[n + 1])
        /\ PacketSize(script[n + 1]) \in Nat \ {0} /\ script[n + 1].at \in Nat
    BY <2>1, PacketPlaces, PacketFacts
  <2>5. (n + 1) - 1 = n
    OBVIOUS
  <2>6. QED
    BY <1>1, <2>2, <2>3, <2>4, <2>5
<1>4. CASE k <= n
  <2>1. n \in DOMAIN script /\ Start(n) = End(script[n])
    BY <1>1, <1>4 DEF Start
  <2>2. /\ End(script[n]) = script[n].at + PacketSize(script[n])
        /\ PacketSize(script[n]) \in Nat \ {0} /\ script[n].at \in Nat
    BY <2>1, PacketPlaces, PacketFacts
  <2>3. CASE k = n
    BY <2>1, <2>2, <2>3
  <2>4. CASE k < n
    <3>1. End(script[k]) <= script[n].at
      BY <2>1, <2>4, PacketPlaces
    <3>2. /\ End(script[k]) = script[k].at + PacketSize(script[k])
          /\ PacketSize(script[k]) \in Nat \ {0}
      BY PacketPlaces
    <3>3. QED
      BY <1>1, <2>1, <2>2, <3>1, <3>2
  <2>5. QED
    BY <1>1, <1>4, <2>3, <2>4
<1>5. QED
  BY <1>1, <1>2, <1>3, <1>4

\* A byte behind the line that the server has sent belongs to a packet.
LEMMA BehindLine ==
    ASSUME script \in Scripts, NEW m \in Nat, m > HelloSize,
           NEW l \in DOMAIN script, m <= End(script[l])
    PROVE  StreamByte(m).packet \in DOMAIN script
<1> DEFINE T == {k \in DOMAIN script : m <= End(script[k])}
<1>1. PICK k \in T : \A j \in T : k <= j
  <2>1. T \subseteq Nat /\ T # {}
    BY PacketFacts
  <2>2. QED
    BY <2>1, LeastNatural
<1>2. k \in DOMAIN script /\ m <= End(script[k]) /\ k \in Nat \ {0} /\ 1 .. k \subseteq DOMAIN script
  BY PacketFacts
<1>3. script[k].at < m
  <2>1. script[k].at = Start(k - 1) /\ script[k].at \in Nat
    BY <1>2, PacketPlaces, PacketFacts
  <2>2. CASE k = 1
    <3>1. Start(k - 1) = HelloSize
      BY <2>2 DEF Start
    <3>2. QED
      BY <2>1, <3>1
  <2>3. CASE k # 1
    <3>1. k - 1 \in DOMAIN script /\ Start(k - 1) = End(script[k - 1])
      BY <1>2, <2>3 DEF Start
    <3>2. ~(m <= End(script[k - 1]))
      <4>1. SUFFICES ASSUME m <= End(script[k - 1]) PROVE FALSE
        OBVIOUS
      <4>2. k - 1 \in T
        BY <3>1, <4>1
      <4>3. k <= k - 1
        BY <1>1, <4>2
      <4>4. QED
        BY <1>2, <4>3
    <3>3. QED
      BY <2>1, <3>1, <3>2
  <2>4. QED
    BY <2>2, <2>3
<1>4. ~(m <= HelloSize)
  BY Sizes
<1>5. \E j \in DOMAIN script : script[j].at < m /\ m <= End(script[j])
  BY <1>2, <1>3
<1>6. QED
  BY <1>4, <1>5 DEF StreamByte, Byte

\* It does not change.
LEMMA SameStream ==
    ASSUME script' = script
    PROVE  /\ \A n : StreamByte(n)' = StreamByte(n)
           /\ \A n : Start(n)' = Start(n)
<1>1. ASSUME NEW n PROVE StreamByte(n)' = StreamByte(n)
  BY DEF StreamByte, Byte
<1>2. ASSUME NEW n PROVE Start(n)' = Start(n)
  BY DEF Start
<1>3. QED
  BY <1>1, <1>2

-----------------------------------------------------------------------------
(***************************************************************************)
(* Steps that leave the buffer alone.                                      *)
(***************************************************************************)

LEMMA InitInvariant == Init => Invariant
<1> SUFFICES ASSUME Init PROVE Invariant
  OBVIOUS
<1>1. Typing
  <2>1. buffer = [a \in 0 .. BufferSize - 1 |-> buffer[a]]
    BY DEF Init
  <2>2. \A S : <<>> \in Seq(S)
    OBVIOUS
  <2>3. receivedSize \in 0 .. BufferSize
    BY Sizes DEF Init
  <2>4. QED
    BY <2>1, <2>2, <2>3 DEF Init, Typing
<1>2. Greeting
  BY DEF Init, Greeting
<1>3. Framing /\ StreamTail /\ Hashing /\ Ordering
  BY DEF Init, Framing, StreamTail, Hashing, Ordering, Connecting
<1>4. QED
  BY <1>1, <1>2, <1>3 DEF Invariant

\* Nothing is promised of a client that failed.
LEMMA FailedInvariant ==
    ASSUME Typing', phase' = "failed"
    PROVE  Invariant'
<1>1. Greeting'
  BY DEF Greeting
<1>2. Framing' /\ StreamTail' /\ Hashing' /\ Ordering'
  BY DEF Framing, StreamTail, Hashing, Ordering, Connecting
<1>3. QED
  BY <1>1, <1>2 DEF Invariant

LEMMA StutterInvariant ==
    ASSUME Invariant, UNCHANGED vars
    PROVE  Invariant'
<1> USE DEF vars, initVars, bufferVars, sendVars
<1>1. Typing' /\ Greeting'
  BY DEF Invariant, Typing, Greeting, Connecting
<1>2. Framing' /\ Hashing' /\ Ordering'
  BY DEF Invariant, Framing, Hashing, Ordering, Connecting, macSize, Handled, Messages, ServerHash, Line, Byte
<1>3. StreamTail'
  BY SameStream DEF Invariant, StreamTail, Connecting, Handled
<1>4. QED
  BY <1>1, <1>2, <1>3 DEF Invariant

LEMMA AcquireInvariant ==
    ASSUME Invariant, Acquire
    PROVE  Invariant'
<1> USE DEF bufferVars, sendVars
<1>1. Typing'
  BY DEF Invariant, Acquire, Typing, Connecting
<1>2. Greeting'
  BY DEF Invariant, Acquire, Greeting
<1>3. Framing' /\ StreamTail' /\ Hashing' /\ Ordering'
  BY DEF Acquire, Framing, StreamTail, Hashing, Ordering, Connecting
<1>4. QED
  BY <1>1, <1>2, <1>3 DEF Invariant

LEMMA ConnectInvariant ==
    ASSUME Invariant, Connect
    PROVE  Invariant'
<1> USE DEF bufferVars, sendVars
<1>1. Typing'
  BY DEF Invariant, Connect, Typing, Connecting
<1>2. Greeting'
  BY DEF Invariant, Connect, Greeting
<1>3. Framing' /\ StreamTail' /\ Hashing' /\ Ordering'
  BY DEF Connect, Framing, StreamTail, Hashing, Ordering, Connecting
<1>4. QED
  BY <1>1, <1>2, <1>3 DEF Invariant

LEMMA InputOutputFailsInvariant ==
    ASSUME Invariant, InputOutputFails
    PROVE  Invariant'
<1>1. Typing'
  BY DEF Invariant, InputOutputFails, Fail, Typing, Connecting, bufferVars, sendVars
<1>2. phase' = "failed"
  BY DEF InputOutputFails, Fail
<1>3. QED
  BY <1>1, <1>2, FailedInvariant

LEMMA ReleaseInvariant ==
    ASSUME Invariant, Release \/ Exit
    PROVE  Invariant'
<1> USE DEF bufferVars, sendVars, keyVars, Release, Exit
<1>1. Typing' /\ Greeting'
  BY DEF Invariant, Typing, Greeting, Connecting
<1>2. Framing' /\ Hashing' /\ Ordering'
  BY DEF Invariant, Framing, Hashing, Ordering, Connecting, macSize, Handled, Messages, ServerHash, Line, Byte
<1>3. StreamTail'
  BY SameStream DEF Invariant, StreamTail, Connecting, Handled
<1>4. QED
  BY <1>1, <1>2, <1>3 DEF Invariant

LEMMA DeinitInvariant ==
    ASSUME Invariant, Deinit
    PROVE  Invariant'
<1> USE DEF bufferVars, sendVars, keyVars
<1>1. Typing' /\ Greeting'
  BY DEF Invariant, Deinit, Typing, Greeting, Connecting
<1>2. Framing' /\ StreamTail' /\ Hashing' /\ Ordering'
  BY DEF Deinit, Framing, StreamTail, Hashing, Ordering, Connecting
<1>3. QED
  BY <1>1, <1>2 DEF Invariant

\* A size that is accepted is aligned, and its packet fits the buffer.
LEMMA PeekSizeInvariant ==
    ASSUME Invariant, PeekSize
    PROVE  Invariant'
<1> USE DEF bufferVars, sendVars
<1>1. PICK size : /\ size \in IF ReadsSizeOf(Framed) THEN {script[Framed].size} ELSE {Align, MaxPacket}
                  /\ IF SizeAccepted(size) THEN nextSize' = size /\ UNCHANGED phase
                     ELSE Fail /\ UNCHANGED nextSize
  BY DEF PeekSize
<1>2. Framed = 0 \/ Framed \in DOMAIN script
  BY DEF Framed
<1>3. size \in Nat
  BY <1>1, <1>2, Sizes, PacketFacts DEF ReadsSizeOf, Invariant, Typing
<1>4. UNCHANGED <<script, reads, initVars, bufferVars, receiveSequenceNumber, sendVars, encryption, exchange,
                  sessionId, delivered, failures>>
  BY DEF PeekSize
<1>5. Typing'
  BY <1>1, <1>3, <1>4 DEF Invariant, Typing, Connecting, Fail
<1>6. CASE ~SizeAccepted(size)
  BY <1>1, <1>5, <1>6, FailedInvariant DEF Fail
<1>7. CASE SizeAccepted(size)
  <2>1. nextSize' = size /\ phase' = phase
    BY <1>1, <1>7
  <2>2. Framing'
    <3>1. macSize' = macSize /\ macSize \in Nat
      BY <1>4, Sizes DEF macSize
    <3>2. size % Align = 0 /\ size <= MaxPacket - Align - macSize
      BY <1>7 DEF SizeAccepted
    <3>3. Align + size + macSize <= MaxPacket
      BY <1>3, <3>1, <3>2, Sizes
    <3>4. QED
      BY <1>4, <2>1, <3>1, <3>2, <3>3 DEF Invariant, Framing, Connecting
  <2>3. StreamTail'
    BY <1>4, <2>1, SameStream DEF Invariant, StreamTail, Connecting, Handled
  <2>4. Greeting'
    BY <1>4, <2>1 DEF PeekSize, Waiting, Greeting
  <2>5. Hashing' /\ Ordering'
    BY <1>4, <2>1 DEF Invariant, Hashing, Ordering, Connecting, Handled, Messages, ServerHash, Line, Byte
  <2>6. QED
    BY <1>5, <2>2, <2>3, <2>4, <2>5 DEF Invariant
<1>8. QED
  BY <1>6, <1>7

\* A message that was sent, or not.
LEMMA SendFacts ==
    ASSUME Typing, NEW message \in {"kexinit", "ecdhInit", "newkeys", "serviceRequest"}, NEW next, SendThen(message, next)
    PROVE  /\ phase' = "failed" \/ phase' = next
           /\ sendSequenceNumber' \in Nat
           /\ sent' \in Seq(Sendings)
           /\ phase' # "failed" =>
                 /\ Len(sent') = Len(sent) + 1
                 /\ /\ encryption <=> Len(sent) = 3
                    /\ \A k \in DOMAIN sent : sent[k].encrypted <=> k = 4
                    => \A k \in DOMAIN sent' : sent'[k].encrypted <=> k = 4
<1> DEFINE m == [message |-> message, encrypted |-> encryption, nonce |-> sendSequenceNumber]
<1>1. sent \in Seq(Sendings) /\ m \in Sendings /\ sendSequenceNumber \in Nat /\ m.encrypted = encryption
  BY DEF Typing, Sendings
<1>2. CASE phase' = next /\ SendMessage(message)
  <2>1. sent' = Append(sent, m) /\ sendSequenceNumber' = sendSequenceNumber + 1
    BY <1>2 DEF SendMessage
  <2> HIDE DEF m
  <2>2. sent' \in Seq(Sendings)
    BY <1>1, <2>1
  <2>3. /\ Len(sent') = Len(sent) + 1
        /\ \A k \in DOMAIN sent : sent'[k] = sent[k]
        /\ sent'[Len(sent) + 1] = m
        /\ DOMAIN sent = 1 .. Len(sent) /\ DOMAIN sent' = 1 .. Len(sent) + 1 /\ Len(sent) \in Nat
    BY <1>1, <2>1
  <2>4. ASSUME encryption <=> Len(sent) = 3, \A k \in DOMAIN sent : sent[k].encrypted <=> k = 4
        PROVE  \A k \in DOMAIN sent' : sent'[k].encrypted <=> k = 4
    <3>1. ASSUME NEW k \in DOMAIN sent' PROVE sent'[k].encrypted <=> k = 4
      <4>1. CASE k \in DOMAIN sent
        BY <2>3, <2>4, <4>1
      <4>2. CASE k = Len(sent) + 1
        <5>1. sent'[k].encrypted = encryption
          BY <1>1, <2>3, <4>2
        <5>2. k = 4 <=> Len(sent) = 3
          BY <2>3, <4>2
        <5>3. QED
          BY <2>4, <5>1, <5>2
      <4>3. QED
        BY <2>3, <3>1, <4>1, <4>2
    <3>2. QED
      BY <3>1
  <2>5. QED
    BY <1>1, <1>2, <2>1, <2>2, <2>3, <2>4
<1>3. CASE Fail /\ UNCHANGED sendVars
  BY <1>1, <1>3 DEF Fail, sendVars
<1>4. QED
  BY <1>2, <1>3 DEF SendThen

\* The service request is the first message that is encrypted.
LEMMA ServiceRequestInvariant ==
    ASSUME Invariant, ServiceRequest
    PROVE  Invariant'
<1> USE DEF bufferVars, keyVars
<1>1. /\ phase = "request" /\ SendThen("serviceRequest", "accept")
      /\ UNCHANGED <<script, reads, initVars, bufferVars, nextSize, receiveSequenceNumber, keyVars, delivered>>
  BY DEF ServiceRequest
<1>2. /\ phase' = "failed" \/ phase' = "accept"
      /\ sendSequenceNumber' \in Nat
      /\ sent' \in Seq(Sendings)
      /\ phase' # "failed" =>
            /\ Len(sent') = Len(sent) + 1
            /\ /\ encryption <=> Len(sent) = 3
               /\ \A k \in DOMAIN sent : sent[k].encrypted <=> k = 4
               => \A k \in DOMAIN sent' : sent'[k].encrypted <=> k = 4
  BY <1>1, SendFacts DEF Invariant
<1>3. Typing'
  BY <1>1, <1>2 DEF Invariant, Typing, Connecting
<1>4. CASE phase' = "failed"
  BY <1>3, <1>4, FailedInvariant
<1>5. CASE phase' = "accept"
  <2>1. Framing' /\ Greeting'
    BY <1>1, <1>5 DEF Invariant, Framing, Greeting, Connecting, macSize
  <2>2. StreamTail'
    <3>1. Handled = 3 /\ Handled' = 3
      BY <1>1, <1>5 DEF Handled
    <3>2. QED
      BY <1>1, <1>5, <3>1, SameStream DEF Invariant, StreamTail, Connecting
  <2>3. Hashing'
    BY <1>1, <1>5 DEF Invariant, Hashing, Connecting, ServerHash, Line, Byte
  <2>4. Ordering'
    <3>1. Handled = 3 /\ Handled' = 3 /\ Messages = 3 /\ Messages' = 4
      BY <1>1, <1>5 DEF Handled, Messages
    <3>2. encryption /\ encryption' = encryption /\ Len(sent) = 3
      BY <1>1, <3>1 DEF Invariant, Ordering, Connecting
    <3>3. \A k \in DOMAIN sent' : sent'[k].encrypted <=> k = 4
      BY <1>1, <1>2, <1>5, <3>2 DEF Invariant, Ordering, Connecting
    <3>4. Len(sent') = 4
      BY <1>2, <1>5, <3>2
    <3>5. QED
      BY <1>1, <1>5, <3>1, <3>2, <3>3, <3>4 DEF Invariant, Ordering, Connecting
  <2>5. QED
    BY <1>3, <2>1, <2>2, <2>3, <2>4 DEF Invariant
<1>6. QED
  BY <1>2, <1>4, <1>5

-----------------------------------------------------------------------------
(***************************************************************************)
(* client_receive                                                          *)
(***************************************************************************)

\* What is read is stored from the address on, and nothing else is written.
LEMMA StoredBytes ==
    ASSUME NEW address \in Nat, NEW n \in 1 .. BufferSize, NEW i \in (n - BufferSize) .. (BufferSize - 1)
    PROVE  /\ i >= 0 /\ i < n =>
                 Stored(address, n)[(address + i) % BufferSize] = StreamByte(arrived + i + 1)
           /\ i < 0 \/ i >= n =>
                 Stored(address, n)[(address + i) % BufferSize] = buffer[(address + i) % BufferSize]
<1> DEFINE a == (address + i) % BufferSize
           d == (a - address) % BufferSize
<1>1. BufferSize \in Nat \ {0}
  BY Sizes
<1>2. /\ a \in 0 .. BufferSize - 1
      /\ (a - (address + 0)) % BufferSize = (i - 0) % BufferSize
      /\ i - 0 \in 0 .. BufferSize - 1 => (i - 0) % BufferSize = i - 0
      /\ i - 0 \in -BufferSize .. -1 => (i - 0) % BufferSize = i - 0 + BufferSize
  <2>1. address \in Int /\ i \in Int /\ 0 \in Int
    BY <1>1
  <2>2. QED
    BY <1>1, <2>1, RingDistance, Zenon
<1>3. address + 0 = address /\ i - 0 = i
  OBVIOUS
<1>4. Stored(address, n)[a] = IF d < n THEN StreamByte(arrived + d + 1) ELSE buffer[a]
  BY <1>2 DEF Stored
<1> HIDE DEF a
<1>5. i >= 0 => d = i
  BY <1>1, <1>2, <1>3
<1>6. i < 0 => d = i + BufferSize
  BY <1>1, <1>2, <1>3
<1> HIDE DEF d
<1>7. QED
  BY <1>1, <1>4, <1>5, <1>6 DEF a

\* A buffer stays one.
LEMMA StoredBuffer ==
    ASSUME NEW address, NEW n
    PROVE  Stored(address, n) = [a \in 0 .. BufferSize - 1 |-> Stored(address, n)[a]]
BY DEF Stored

LEMMA ReceiveInvariant ==
    ASSUME Invariant, NEW n \in 1 .. BufferSize, Receive(n)
    PROVE  Invariant'
<1> USE DEF sendVars
<1>1. /\ Waiting /\ n <= BufferSize - receivedSize
      /\ arrived' = arrived + n
      /\ buffer' = Stored(bufferPos + receivedSize, n)
      /\ receivedSize' = receivedSize + n
      /\ UNCHANGED <<phase, script, reads, initVars, bufferPos, helloPos, nextSize, receiveSequenceNumber, sendVars,
                     encryption, exchange, sessionId, delivered, failures>>
  BY DEF Receive
<1>2. /\ Typing /\ arrived \in Nat /\ bufferPos \in Nat /\ receivedSize \in Nat /\ n \in Nat
      /\ receivedSize <= BufferSize /\ BufferSize \in Nat \ {0}
  BY Sizes, SMTT(30) DEF Invariant, Typing
<1>3. Typing'
  <2>1. buffer' = [a \in 0 .. BufferSize - 1 |-> buffer'[a]]
    BY <1>1, StoredBuffer
  <2>2. arrived' \in Nat /\ receivedSize' \in 0 .. BufferSize
    BY <1>1, <1>2
  <2>3. QED
    BY <1>1, <1>2, <2>1, <2>2 DEF Typing, Connecting
<1>4. StreamTail'
  <2>1. SUFFICES ASSUME Connecting, reads = 1
                 PROVE  /\ \A m \in Nat : m = Handled => arrived' - receivedSize' = Start(m)
                        /\ \A i \in Nat, m \in Nat :
                              i < receivedSize' /\ m = arrived' - receivedSize' + i + 1 =>
                                  buffer'[(bufferPos + i) % BufferSize] = StreamByte(m)
    BY <1>1, SameStream DEF StreamTail, Connecting, Handled
  <2>2. arrived' - receivedSize' = arrived - receivedSize
    BY <1>1, <1>2
  <2>3. ASSUME NEW i \in Nat, NEW m \in Nat, i < receivedSize', m = arrived' - receivedSize' + i + 1
        PROVE  buffer'[(bufferPos + i) % BufferSize] = StreamByte(m)
    <3> DEFINE address == bufferPos + receivedSize
               j == i - receivedSize
    <3>1. /\ address \in Nat /\ j \in (n - BufferSize) .. (BufferSize - 1)
          /\ address + j = bufferPos + i
      BY <1>1, <1>2, <2>3
    <3>2. /\ j >= 0 /\ j < n => buffer'[(bufferPos + i) % BufferSize] = StreamByte(arrived + j + 1)
          /\ j < 0 \/ j >= n =>
                buffer'[(bufferPos + i) % BufferSize] = buffer[(bufferPos + i) % BufferSize]
      BY <1>1, <3>1, StoredBytes
    <3>3. CASE i < receivedSize
      <4>1. buffer[(bufferPos + i) % BufferSize] = StreamByte(m)
        BY <2>1, <2>2, <2>3, <3>3 DEF Invariant, StreamTail
      <4>2. j < 0
        BY <1>2, <3>3
      <4>3. QED
        BY <3>2, <4>1, <4>2
    <3>4. CASE i >= receivedSize
      <4>1. j >= 0 /\ j < n /\ arrived + j + 1 = m
        BY <1>1, <1>2, <2>3, <3>4
      <4>2. QED
        BY <3>2, <4>1
    <3>5. QED
      BY <1>2, <3>3, <3>4
  <2>4. QED
    BY <2>1, <2>2, <2>3 DEF Invariant, StreamTail
<1>5. Greeting' /\ Framing'
  BY <1>1 DEF Invariant, Waiting, Greeting, Framing, Connecting, macSize
<1>6. Hashing' /\ Ordering'
  BY <1>1 DEF Invariant, Hashing, Ordering, Connecting, Handled, Messages, ServerHash, Line, Byte
<1>7. QED
  BY <1>3, <1>4, <1>5, <1>6 DEF Invariant

-----------------------------------------------------------------------------
(***************************************************************************)
(* client_nextMessage, client_ackMessage and what is done with a message   *)
(***************************************************************************)

\* The packet that is framed is the next one of the stream.
LEMMA FramedIsNext ==
    ASSUME Invariant, Waiting, reads = 1, receivedSize >= Align, Framed # 0
    PROVE  Framed \in DOMAIN script /\ Framed = Handled + 1 /\ arrived - receivedSize = script[Framed].at
<1> DEFINE k == Framed
           m == arrived - receivedSize + 1
<1>1. /\ k \in DOMAIN script
      /\ \A i \in 0 .. Align - 1 : At(bufferPos + i) = Byte(k, i + 1)
  BY DEF Framed
<1> HIDE DEF k
<1>2. /\ Connecting /\ Typing /\ script \in Scripts /\ arrived \in Nat /\ receivedSize \in Nat /\ bufferPos \in Nat
      /\ HelloSize \in Nat /\ Align \in Nat \ {0}
  BY Sizes DEF Invariant, Typing, Waiting, Connecting
<1>3. /\ Handled \in Nat
      /\ arrived - receivedSize = Start(Handled)
      /\ \A i \in Nat, z \in Nat :
            i < receivedSize /\ z = arrived - receivedSize + i + 1 =>
                buffer[(bufferPos + i) % BufferSize] = StreamByte(z)
  <2>1. Handled \in Nat
    BY DEF Handled
  <2>2. QED
    BY <1>2, <2>1 DEF Invariant, StreamTail
<1>4. Handled = 0 \/ Handled \in DOMAIN script
  <2>1. Handled \in {0, 1, 2, 3}
    BY DEF Waiting, Handled
  <2>2. QED
    BY <1>2, <2>1 DEF Invariant, Ordering
<1>5. Start(Handled) \in Nat /\ Start(Handled) >= HelloSize
  <2>1. CASE Handled = 0
    BY <1>2, <2>1 DEF Start
  <2>2. CASE Handled # 0
    <3>1. Handled \in DOMAIN script /\ Start(Handled) = End(script[Handled])
      BY <1>4, <2>2 DEF Start
    <3>2. /\ PacketSize(script[Handled]) \in Nat \ {0} /\ script[Handled].at \in Nat
          /\ End(script[Handled]) = script[Handled].at + PacketSize(script[Handled])
          /\ HelloSize <= script[Handled].at
      BY <1>2, <3>1, PacketPlaces, PacketFacts
    <3>3. QED
      BY <1>2, <3>1, <3>2
  <2>3. QED
    BY <2>1, <2>2
<1>6. m \in Nat /\ ~(m <= HelloSize)
  BY <1>2, <1>3, <1>5
<1>7. buffer[(bufferPos + 0) % BufferSize] = StreamByte(m)
  <2>1. 0 < receivedSize /\ m = arrived - receivedSize + 0 + 1
    BY <1>2
  <2>2. QED
    BY <1>3, <1>6, <2>1
<1>8. StreamByte(m) = Byte(k, 1)
  <2>1. 0 \in 0 .. Align - 1 /\ 0 + 1 = 1
    BY <1>2
  <2>2. QED
    BY <1>1, <1>7, <2>1 DEF At
<1>9. script[k].at = Start(Handled)
  <2> DEFINE c == CHOOSE j \in DOMAIN script : script[j].at < m /\ m <= End(script[j])
  <2>1. StreamByte(m) = Byte(c, m - script[c].at)
    BY <1>6 DEF StreamByte
  <2> HIDE DEF c
  <2>2. c = k /\ m - script[c].at = 1
    BY <1>8, <2>1 DEF Byte
  <2>3. script[k].at \in Nat
    BY <1>1, <1>2, PacketFacts
  <2>4. QED
    BY <1>2, <1>3, <2>2, <2>3
<1>10. k = Handled + 1
  BY <1>1, <1>2, <1>3, <1>4, <1>9, NextPacket
<1>11. QED
  BY <1>1, <1>3, <1>9, <1>10 DEF k

\* What a packet takes is given back, and the bytes behind it are as they were.
LEMMA AckFacts ==
    ASSUME Typing, Framing, Connecting, nextSize > 0, NEW total, total = nextSize + Align + macSize,
           receivedSize >= total, AckMessage, buffer' = Decrypted
    PROVE  /\ receivedSize' \in 0 .. BufferSize /\ receivedSize' = receivedSize - total /\ nextSize' = 0
           /\ bufferPos' \in Nat /\ bufferPos' % Align = 0
           /\ buffer' = [a \in 0 .. BufferSize - 1 |-> buffer'[a]]
           /\ \A i \in Nat : i < receivedSize' =>
                 buffer'[(bufferPos' + i) % BufferSize] = buffer[(bufferPos + (total + i)) % BufferSize]
<1>1. /\ bufferPos' = (bufferPos + total) % BufferSize
      /\ receivedSize' = receivedSize - total
      /\ nextSize' = 0
  BY DEF AckMessage
<1>2. /\ nextSize \in Nat /\ macSize \in Nat /\ Align \in Nat \ {0} /\ bufferPos \in Nat
      /\ receivedSize \in 0 .. BufferSize /\ BufferSize \in Nat \ {0} /\ BufferSize % Align = 0
      /\ macSize % Align = 0
  <2>1. macSize \in Nat /\ macSize % Align = 0
    <3>1. 0 % Align = 0
      BY Sizes
    <3>2. QED
      BY <3>1, Sizes DEF macSize
  <2>2. QED
    BY <2>1, Sizes DEF Typing
<1>3. total \in Nat /\ receivedSize' \in 0 .. BufferSize
  BY <1>1, <1>2
<1>4. bufferPos' \in Nat /\ bufferPos' % Align = 0
  <2>1. bufferPos % Align = 0 /\ nextSize % Align = 0
    BY DEF Framing
  <2>2. Align % Align = 0
    BY <1>2
  <2> DEFINE fixed == Align + macSize
  <2>3. /\ bufferPos \in Int /\ nextSize \in Int /\ Align \in Int /\ macSize \in Int /\ fixed \in Int
        /\ total \in Int
    BY <1>2, <1>3
  <2>4. fixed % Align = macSize % Align
    BY <1>2, <2>2, <2>3, MultiplesAdd, Zenon
  <2> HIDE DEF fixed
  <2>5. (nextSize + fixed) % Align = fixed % Align
    BY <1>2, <2>1, <2>3, MultiplesAdd, Zenon
  <2>6. total = nextSize + fixed
    BY <1>2 DEF fixed
  <2>7. (bufferPos + total) % Align = total % Align
    BY <1>2, <2>1, <2>3, MultiplesAdd, Zenon
  <2>8. ((bufferPos + total) % BufferSize) % Align = (bufferPos + total) % Align
    <3>1. bufferPos + total \in Int
      BY <1>2, <1>3
    <3>2. QED
      BY <1>2, <3>1, ModOfMultiple
  <2>9. (bufferPos + total) % BufferSize \in Nat
    BY <1>2, <1>3
  <2>10. QED
    BY <1>1, <1>2, <2>4, <2>5, <2>6, <2>7, <2>8, <2>9
<1>5. DOMAIN buffer = 0 .. BufferSize - 1
  BY DEF Typing
<1>6. buffer' = [a \in 0 .. BufferSize - 1 |-> buffer'[a]]
  BY <1>5 DEF Decrypted
<1>7. ASSUME NEW i \in Nat, i < receivedSize'
      PROVE  buffer'[(bufferPos' + i) % BufferSize] = buffer[(bufferPos + (total + i)) % BufferSize]
  <2> DEFINE j == total + i
             a == (bufferPos + j) % BufferSize
             d == (a - bufferPos) % BufferSize
  <2>1. j \in 0 .. BufferSize - 1 /\ j >= Align + nextSize
    BY <1>1, <1>2, <1>3, <1>7
  <2>2. (bufferPos' + i) % BufferSize = a
    <3>1. bufferPos + total \in Int /\ i \in Int
      BY <1>2, <1>3
    <3>2. (((bufferPos + total) % BufferSize) + i) % BufferSize = ((bufferPos + total) + i) % BufferSize
      BY <1>2, <3>1, ModOfMod
    <3>3. (bufferPos + total) + i = bufferPos + j
      BY <1>2, <1>3
    <3>4. QED
      BY <1>1, <3>2, <3>3
  <2>3. a \in 0 .. BufferSize - 1 /\ d = j
    <3>1. bufferPos \in Int /\ j \in Int /\ 0 \in Int
      BY <1>2, <2>1
    <3>2. /\ a \in 0 .. BufferSize - 1
          /\ (a - (bufferPos + 0)) % BufferSize = (j - 0) % BufferSize
          /\ j - 0 \in 0 .. BufferSize - 1 => (j - 0) % BufferSize = j - 0
      <4>1. BufferSize \in Nat \ {0}
        BY <1>2
      <4> HIDE DEF j
      <4>2. QED
        BY <3>1, <4>1, RingDistance, ZenonT(60)
    <3> HIDE DEF j, a
    <3>3. bufferPos + 0 = bufferPos /\ j - 0 = j
      BY <3>1
    <3>4. QED
      BY <2>1, <3>2, <3>3
  <2> HIDE DEF j
  <2>4. Decrypted[a] = IF encryption /\ d >= Align /\ d < Align + nextSize
                       THEN [buffer[a] EXCEPT !.plain = TRUE] ELSE buffer[a]
    BY <1>5, <2>3 DEF Decrypted
  <2>5. ~(d < Align + nextSize)
    BY <1>2, <2>1, <2>3
  <2>6. QED
    BY <2>2, <2>4, <2>5 DEF j
<1>8. QED
  BY <1>1, <1>3, <1>4, <1>6, <1>7

\* What the callers of client_nextMessage make of a message, whichever it is.
Handling(k) ==
    CASE phase = "kexinit" -> DoKexInit(k)
      [] phase = "reply"   -> DoReply(k)
      [] phase = "newkeys" -> DoNewKeys(k)
      [] phase = "accept"  -> DoAccept(k)

\* The step after a phase.
FollowedBy(next) ==
    \/ phase = "kexinit" /\ next = "reply"
    \/ phase = "reply" /\ next = "newkeys"
    \/ phase = "newkeys" /\ next = "request"
    \/ phase = "accept" /\ next = "done"

\* The hash is the server's only when every part of it is.
LEMMA HashParts ==
    ASSUME NEW line, Finished(<<"clientLine", line, "clientKexInit", "serverKexInit">>) = ServerHash
    PROVE  line = Line
<1> DEFINE hash == <<"clientLine", line, "clientKexInit", "serverKexInit">>
           rest == <<"hostKey", "clientPublic", "serverPublic", "sharedSecret">>
<1>1. Finished(hash)[2] = line
  BY DEF Finished
<1>2. ServerHash[2] = Line
  BY DEF ServerHash, Line
<1>3. QED
  BY <1>1, <1>2

LEMMA HandlingFacts ==
    ASSUME Invariant, Waiting, NEW k, Handling(k), reads' = reads
    PROVE  /\ phase' = "failed" \/ FollowedBy(phase')
           /\ sendSequenceNumber' \in Nat /\ sent' \in Seq(Sendings) /\ encryption' \in BOOLEAN
           /\ phase' # "failed" =>
                 /\ Len(sent') = Messages' /\ \A j \in DOMAIN sent' : sent'[j].encrypted <=> j = 4
                 /\ encryption' <=> phase' \in {"request", "accept", "done"}
           /\ Hashing'
<1>1. /\ Typing /\ Connecting /\ Len(sent) = Messages /\ \A j \in DOMAIN sent : sent[j].encrypted <=> j = 4
      /\ encryption <=> phase \in {"request", "accept", "done"}
      /\ sendSequenceNumber \in Nat /\ sent \in Seq(Sendings) /\ encryption \in BOOLEAN
  BY DEF Invariant, Typing, Ordering, Waiting, Connecting
<1>2. phase' = "failed" => Hashing'
  BY DEF Hashing, Connecting
<1>3. CASE phase = "kexinit"
  <2>1. DoKexInit(k)
    BY <1>3 DEF Handling
  <2>2. CASE Fail /\ UNCHANGED <<keyVars, sendVars, failures>>
    BY <1>1, <1>2, <2>2 DEF Fail, keyVars, sendVars
  <2>3. CASE /\ exchange' = Append(exchange, "serverKexInit") /\ SendThen("ecdhInit", "reply")
             /\ UNCHANGED <<sessionId, encryption>>
    <3>1. /\ phase' = "failed" \/ phase' = "reply"
          /\ sendSequenceNumber' \in Nat /\ sent' \in Seq(Sendings)
          /\ phase' # "failed" =>
                /\ Len(sent') = Len(sent) + 1
                /\ /\ encryption <=> Len(sent) = 3
                   /\ \A j \in DOMAIN sent : sent[j].encrypted <=> j = 4
                   => \A j \in DOMAIN sent' : sent'[j].encrypted <=> j = 4
      BY <1>1, <2>3, SendFacts
    <3>2. Len(sent) = 1 /\ ~encryption
      BY <1>1, <1>3 DEF Messages
    <3>3. CASE phase' = "reply"
      <4>1. exchange = <<"clientLine", exchange[2], "clientKexInit">> /\ (exchange[2] = Line => reads = 1) /\ reads > 0
        BY <1>3 DEF Invariant, Hashing
      <4> DEFINE line == exchange[2]
      <4> HIDE DEF line
      <4>2. exchange = <<"clientLine", line, "clientKexInit">>
        BY <4>1 DEF line
      <4>3. exchange' = <<"clientLine", line, "clientKexInit", "serverKexInit">> /\ exchange'[2] = line
        <5>1. exchange' = Append(<<"clientLine", line, "clientKexInit">>, "serverKexInit")
          BY <2>3, <4>2
        <5>2. QED
          BY <5>1, AppendTuple
      <4>4. Line' = Line
        BY DEF Line, Byte
      <4>5. Hashing'
        BY <3>3, <4>1, <4>3, <4>4 DEF Hashing, Connecting, line
      <4>6. Len(sent') = Messages'
        BY <3>1, <3>2, <3>3 DEF Messages
      <4>7. QED
        BY <1>1, <1>3, <2>3, <3>1, <3>2, <3>3, <4>5, <4>6 DEF FollowedBy
    <3>4. QED
      BY <1>1, <1>2, <2>3, <3>1, <3>3
  <2>4. QED
    BY <2>1, <2>2, <2>3 DEF DoKexInit
<1>4. CASE phase = "reply"
  <2>1. DoReply(k)
    BY <1>4 DEF Handling
  <2>2. CASE Fail /\ UNCHANGED <<keyVars, sendVars, failures>>
    BY <1>1, <1>2, <2>2 DEF Fail, keyVars, sendVars
  <2>3. CASE /\ Finished(exchange) = ServerHash
             /\ exchange' = Finished(exchange)
             /\ sessionId' = IF encryption THEN sessionId ELSE Finished(exchange)
             /\ SendThen("newkeys", "newkeys")
             /\ UNCHANGED encryption
    <3>1. /\ phase' = "failed" \/ phase' = "newkeys"
          /\ sendSequenceNumber' \in Nat /\ sent' \in Seq(Sendings)
          /\ phase' # "failed" =>
                /\ Len(sent') = Len(sent) + 1
                /\ /\ encryption <=> Len(sent) = 3
                   /\ \A j \in DOMAIN sent : sent[j].encrypted <=> j = 4
                   => \A j \in DOMAIN sent' : sent'[j].encrypted <=> j = 4
      BY <1>1, <2>3, SendFacts
    <3>2. Len(sent) = 2 /\ ~encryption
      BY <1>1, <1>4 DEF Messages
    <3>3. CASE phase' = "newkeys"
      <4>1. /\ exchange = <<"clientLine", exchange[2], "clientKexInit", "serverKexInit">>
            /\ exchange[2] = Line => reads = 1
        BY <1>4 DEF Invariant, Hashing
      <4>2. exchange[2] = Line
        BY <2>3, <4>1, HashParts
      <4>3. ServerHash' = ServerHash
        BY DEF ServerHash, Byte
      <4>4. exchange' = ServerHash /\ sessionId' = ServerHash
        BY <2>3, <3>2
      <4>5. Hashing'
        BY <3>3, <4>1, <4>2, <4>3, <4>4 DEF Hashing, Connecting
      <4>6. Len(sent') = Messages'
        BY <3>1, <3>2, <3>3 DEF Messages
      <4>7. QED
        BY <1>1, <1>4, <2>3, <3>1, <3>2, <3>3, <4>5, <4>6 DEF FollowedBy
    <3>4. QED
      BY <1>1, <1>2, <2>3, <3>1, <3>3
  <2>4. QED
    BY <2>1, <2>2, <2>3 DEF DoReply
<1>5. ASSUME phase \in {"newkeys", "accept"}, UNCHANGED <<exchange, sendVars, sessionId>>, phase' # "failed", FollowedBy(phase')
      PROVE  Hashing' /\ Len(sent') = Messages' /\ \A j \in DOMAIN sent' : sent'[j].encrypted <=> j = 4
  <2>1. ServerHash' = ServerHash
    BY DEF ServerHash, Byte
  <2>2. reads = 1 /\ exchange = ServerHash /\ sessionId = ServerHash
    BY <1>5 DEF Invariant, Hashing, Connecting
  <2>3. phase' \in {"request", "done"}
    BY <1>5 DEF FollowedBy
  <2>4. Hashing'
    BY <1>5, <2>1, <2>2, <2>3 DEF Hashing, Connecting
  <2>5. Messages' = Messages
    BY <1>5 DEF Messages, FollowedBy
  <2>6. QED
    BY <1>1, <1>5, <2>4, <2>5 DEF sendVars
<1>6. CASE phase = "newkeys"
  <2>1. DoNewKeys(k)
    BY <1>6 DEF Handling
  <2>2. UNCHANGED <<exchange, sendVars, sessionId>>
    BY <2>1 DEF DoNewKeys
  <2>3. \/ phase' = "failed" /\ encryption' = encryption
        \/ phase' = "request" /\ encryption' = TRUE
    BY <2>1 DEF DoNewKeys, Fail
  <2>4. QED
    BY <1>1, <1>2, <1>5, <1>6, <2>2, <2>3 DEF FollowedBy, sendVars
<1>7. CASE phase = "accept"
  <2>1. DoAccept(k)
    BY <1>7 DEF Handling
  <2>2. UNCHANGED <<exchange, sendVars, sessionId, encryption>> /\ phase' \in {"failed", "done"}
    BY <2>1 DEF DoAccept, keyVars
  <2>3. QED
    BY <1>1, <1>2, <1>5, <1>7, <2>2 DEF FollowedBy, sendVars
<1>8. QED
  BY <1>3, <1>4, <1>6, <1>7 DEF Waiting

LEMMA NextMessageInvariant ==
    ASSUME Invariant, NextMessage
    PROVE  Invariant'
<1> DEFINE k == Framed
           total == nextSize + Align + macSize
<1>1. /\ Waiting /\ nextSize > 0 /\ ~NeedsMore /\ UNCHANGED <<script, reads, initVars>>
      /\ Typing /\ Connecting /\ script \in Scripts /\ Framing
  BY DEF NextMessage, Invariant, Typing, Waiting, Connecting
<1>2. CASE ~PacketAccepted(k)
  <2>1. Fail /\ UNCHANGED <<bufferVars, nextSize, receiveSequenceNumber, delivered, keyVars, sendVars, failures>>
    BY <1>2 DEF NextMessage
  <2>2. Typing'
    BY <1>1, <2>1 DEF Typing, Fail, Connecting, bufferVars, keyVars, sendVars
  <2>3. QED
    BY <2>1, <2>2, FailedInvariant DEF Fail
<1>3. CASE PacketAccepted(k)
  <2>1. /\ delivered' = Append(delivered, k) /\ buffer' = Decrypted /\ AckMessage /\ UNCHANGED <<arrived, helloPos>>
        /\ Handling(k)
    BY <1>3 DEF NextMessage, Handling
  <2>2. /\ k \in DOMAIN script /\ k \in Nat /\ script[k].size = nextSize /\ script[k].encrypted = encryption
        /\ encryption => script[k].macValid
    <3>1. k \in DOMAIN script
      BY <1>3 DEF PacketAccepted, Framed
    <3>2. QED
      BY <1>1, <1>3, <3>1, PacketFacts DEF PacketAccepted
  <2>3. /\ total \in Nat /\ total >= Align /\ receivedSize >= total /\ receivedSize \in Nat /\ arrived \in Nat
        /\ Align \in Nat \ {0} /\ PacketSize(script[k]) = total
    <3>1. nextSize \in Nat /\ macSize \in Nat /\ Align \in Nat \ {0} /\ receivedSize \in Nat /\ arrived \in Nat
      BY <1>1, Sizes DEF Typing, macSize
    <3>2. receivedSize >= Align + nextSize + macSize
      BY <1>1, <3>1 DEF NeedsMore
    <3>3. PacketSize(script[k]) = Align + nextSize + macSize
      BY <2>2 DEF PacketSize, macSize
    <3>4. QED
      BY <3>1, <3>2, <3>3
  <2>4. /\ receivedSize' \in 0 .. BufferSize /\ receivedSize' = receivedSize - total /\ nextSize' = 0
        /\ bufferPos' \in Nat /\ bufferPos' % Align = 0
        /\ buffer' = [a \in 0 .. BufferSize - 1 |-> buffer'[a]]
        /\ \A i \in Nat : i < receivedSize' =>
              buffer'[(bufferPos' + i) % BufferSize] = buffer[(bufferPos + (total + i)) % BufferSize]
    BY <1>1, <2>1, <2>3, AckFacts
  <2> HIDE DEF k, total
  <2>5. /\ phase' = "failed" \/ FollowedBy(phase')
        /\ sendSequenceNumber' \in Nat /\ sent' \in Seq(Sendings) /\ encryption' \in BOOLEAN
        /\ phase' # "failed" =>
              /\ Len(sent') = Messages' /\ \A j \in DOMAIN sent' : sent'[j].encrypted <=> j = 4
              /\ encryption' <=> phase' \in {"request", "accept", "done"}
        /\ Hashing'
    BY <1>1, <2>1, HandlingFacts
  <2>6. Typing'
    <3>1. delivered' \in Seq(Nat)
      BY <1>1, <2>1, <2>2 DEF Typing
    <3>2. phase' \in {"init", "initFailed", "hello", "failed", "ended"} \/ Connecting'
      BY <2>5 DEF FollowedBy, Connecting
    <3>3. QED
      BY <1>1, <2>1, <2>4, <2>5, <3>1, <3>2 DEF Typing
  <2>7. CASE phase' = "failed"
    BY <2>6, <2>7, FailedInvariant
  <2>8. CASE phase' # "failed"
    <3>1. FollowedBy(phase') /\ Handled \in Nat /\ Handled' = Handled + 1
      <4>1. FollowedBy(phase')
        BY <2>5, <2>8
      <4>2. QED
        BY <4>1 DEF FollowedBy, Handled
    <3>2. ASSUME reads = 1
          PROVE  k = Handled + 1 /\ arrived - receivedSize = script[k].at
      <4>1. receivedSize >= Align
        BY <2>3
      <4>2. Framed # 0
        BY <1>3 DEF PacketAccepted, k
      <4>3. QED
        BY <1>1, <3>2, <4>1, <4>2, FramedIsNext DEF k
    <3>3. Greeting'
      BY <3>1 DEF FollowedBy, Greeting
    <3>4. Framing'
      <4>1. 0 % Align = 0
        BY <2>3
      <4>2. QED
        BY <2>4, <4>1 DEF Framing
    <3>5. StreamTail'
      <4>1. SUFFICES ASSUME reads = 1
                     PROVE  /\ arrived' - receivedSize' = Start(Handled + 1)
                            /\ \A i \in Nat, m \in Nat :
                                  i < receivedSize' /\ m = arrived' - receivedSize' + i + 1 =>
                                      buffer'[(bufferPos' + i) % BufferSize] = StreamByte(m)
        BY <1>1, <3>1, SameStream DEF StreamTail
      <4>2. arrived' - receivedSize' = (arrived - receivedSize) + total
        BY <2>1, <2>3, <2>4
      <4>3. Start(Handled + 1) = arrived - receivedSize + total
        <5>1. End(script[k]) = script[k].at + PacketSize(script[k])
          BY DEF End
        <5>2. Start(Handled + 1) = End(script[Handled + 1])
          BY <3>1 DEF Start
        <5>3. QED
          BY <2>3, <3>2, <4>1, <5>1, <5>2
      <4>4. ASSUME NEW i \in Nat, NEW m \in Nat, i < receivedSize', m = arrived' - receivedSize' + i + 1
            PROVE  buffer'[(bufferPos' + i) % BufferSize] = StreamByte(m)
        <5>1. total + i \in Nat /\ total + i < receivedSize /\ m = arrived - receivedSize + (total + i) + 1
          BY <2>1, <2>3, <2>4, <4>4, SMTT(30)
        <5>2. buffer[(bufferPos + (total + i)) % BufferSize] = StreamByte(m)
          BY <1>1, <4>1, <5>1 DEF Invariant, StreamTail
        <5>3. QED
          BY <2>4, <4>4, <5>2
      <4>5. QED
        BY <4>2, <4>3, <4>4
    <3>6. Ordering'
      <4>1. ASSUME reads = 1
            PROVE  /\ Len(delivered') = Handled'
                   /\ \A j \in 1 .. Handled' :
                         delivered'[j] = j /\ j \in DOMAIN script' /\ (script'[j].encrypted <=> j = 4)
        <5>1. /\ Len(delivered) = Handled /\ delivered \in Seq(Nat)
              /\ \A j \in 1 .. Handled : delivered[j] = j /\ j \in DOMAIN script /\ (script[j].encrypted <=> j = 4)
          BY <1>1, <4>1 DEF Invariant, Typing, Ordering
        <5>2. /\ Len(delivered') = Handled + 1
              /\ \A j \in 1 .. Handled : delivered'[j] = delivered[j]
              /\ delivered'[Handled + 1] = k
          BY <2>1, <2>2, <5>1
        <5>3. script[k].encrypted <=> k = 4
          <6>1. encryption <=> phase = "accept"
            BY <1>1 DEF Invariant, Ordering, Waiting
          <6>2. k = 4 <=> phase = "accept"
            BY <3>1, <3>2, <4>1 DEF FollowedBy, Handled
          <6>3. QED
            BY <2>2, <6>1, <6>2
        <5>4. \A j \in 1 .. Handled + 1 : j \in 1 .. Handled \/ j = Handled + 1
          BY <3>1
        <5>5. QED
          BY <1>1, <2>2, <3>1, <3>2, <4>1, <5>1, <5>2, <5>3, <5>4, SMTT(30)
      <4>2. phase' = "done" => script'[4].macValid
        <5>1. ASSUME phase' = "done" PROVE script'[4].macValid
          <6>1. phase = "accept" /\ Handled = 3
            BY <3>1, <5>1 DEF FollowedBy, Handled
          <6>2. encryption /\ reads = 1
            BY <1>1, <6>1 DEF Invariant, Ordering, Hashing
          <6>3. k = 4
            BY <3>2, <6>1, <6>2
          <6>4. QED
            BY <1>1, <2>2, <6>2, <6>3
        <5>2. QED
          BY <5>1
      <4>3. QED
        BY <1>1, <2>5, <2>8, <4>1, <4>2 DEF Ordering
    <3>7. QED
      BY <2>5, <2>6, <3>3, <3>4, <3>5, <3>6 DEF Invariant
  <2>9. QED
    BY <2>7, <2>8
<1>4. QED
  BY <1>2, <1>3

-----------------------------------------------------------------------------
(***************************************************************************)
(* _client_doHello                                                         *)
(***************************************************************************)

LEMMA LeastIsIn ==
    ASSUME NEW T, T \subseteq Nat, T # {}
    PROVE  Min(T) \in T
BY LeastNatural DEF Min

LEMMA MinMaxOfTwo ==
    ASSUME NEW x \in Int, NEW y \in Int
    PROVE  Min({x, y}) \in {x, y} /\ Min({x, y}) <= x /\ Max({x, y}) \in {x, y}
<1>1. \E z \in {x, y} : \A w \in {x, y} : z <= w
  OBVIOUS
<1>2. \E z \in {x, y} : \A w \in {x, y} : z >= w
  OBVIOUS
<1>3. QED
  BY <1>1, <1>2 DEF Min, Max

\* A \r that was found has a byte behind it.
LEMMA LineEndFacts ==
    ASSUME NEW buf, NEW received \in Nat, helloPos \in Nat, NEW q, q = LineEnd(buf, received), q # -1
    PROVE  q \in Nat /\ q >= helloPos /\ q + 2 <= received /\ buf[q] = CR
<1> DEFINE end == IF received > HelloLimit THEN HelloLimit ELSE received
           found == {z \in helloPos .. end - 2 : buf[z] = CR}
<1>1. end \in Nat /\ end <= received
  BY Sizes
<1>2. found # {} /\ q = Min(found)
  BY DEF LineEnd
<1> HIDE DEF end
<1>3. found \subseteq Nat
  BY <1>1
<1>4. q \in found
  BY <1>2, <1>3, LeastIsIn
<1>5. QED
  BY <1>1, <1>4

\* A byte of the stream is a byte of the line only at its own place.
LEMMA LineByte ==
    ASSUME script \in Scripts, NEW z \in Nat, Available(z), NEW m \in 1 .. z, NEW j, StreamByte(m) = Byte(0, j)
    PROVE  m = j
<1>1. HelloSize \in Nat /\ m \in Nat
  BY Sizes
<1>2. CASE m <= HelloSize
  BY <1>2 DEF StreamByte, Byte
<1>3. CASE m > HelloSize
  <2>1. PICK l \in DOMAIN script : z <= End(script[l])
    <3>1. ~(z <= HelloSize)
      BY <1>1, <1>3
    <3>2. QED
      BY <3>1 DEF Available, Released
  <2>2. m <= End(script[l])
    <3>1. End(script[l]) \in Nat
      BY <2>1, PacketPlaces
    <3>2. QED
      BY <1>1, <2>1, <3>1
  <2>3. StreamByte(m).packet \in DOMAIN script
    BY <1>1, <1>3, <2>2, BehindLine
  <2>4. 0 \in DOMAIN script
    BY <2>3 DEF Byte
  <2>5. QED
    BY <2>4, PacketFacts
<1>4. QED
  BY <1>1, <1>2, <1>3

\* The rest of the buffer is moved up as it is.
LEMMA AlignedBytes ==
    ASSUME NEW buf, DOMAIN buf = 0 .. BufferSize - 1, NEW from \in Nat, NEW size \in 0 .. BufferSize,
           NEW i \in Nat, i < size
    PROVE  Aligned(buf, from, size)[(AlignForward(from) + i) % BufferSize] = buf[(from + i) % BufferSize]
<1> DEFINE to == AlignForward(from)
           a == (to + i) % BufferSize
           d == (a - to) % BufferSize
<1>1. BufferSize \in Nat \ {0} /\ Align \in Nat \ {0}
  BY Sizes
<1>2. to \in Nat
  BY <1>1, AlignForwardFact
<1> HIDE DEF to
<1>3. /\ a \in 0 .. BufferSize - 1
      /\ (a - (to + 0)) % BufferSize = (i - 0) % BufferSize
      /\ i - 0 \in 0 .. BufferSize - 1 => (i - 0) % BufferSize = i - 0
  <2>1. to \in Int /\ i \in Int /\ 0 \in Int
    BY <1>2
  <2>2. BufferSize \in Nat \ {0}
    BY <1>1
  <2>3. QED
    BY <2>1, <2>2, RingDistance, ZenonT(60)
<1> HIDE DEF a
<1>4. to + 0 = to /\ i - 0 = i /\ i \in 0 .. BufferSize - 1
  BY <1>1, <1>2
<1>5. d = i
  BY <1>3, <1>4
<1> HIDE DEF d
<1>6. Aligned(buf, from, size)[a] = IF d < size THEN buf[(from + d) % BufferSize] ELSE buf[a]
  BY <1>3 DEF Aligned, to, d
<1>7. QED
  BY <1>5, <1>6 DEF a, to

\* A second read leaves a byte of the line out, which the hash then shows.
LEMMA PiecesShow ==
    ASSUME Typing, NEW n \in 1 .. BufferSize, Available(arrived + n), helloPos < arrived, arrived <= BufferSize,
           NEW q \in Nat, q >= helloPos, Stored(helloPos, n)[q] = CR
    PROVE  [i \in 1 .. q |-> Stored(helloPos, n)[i - 1]] # Line
<1> DEFINE buf == Stored(helloPos, n)
           hashed == [i \in 1 .. q |-> buf[i - 1]]
<1>1. /\ script \in Scripts /\ helloPos \in Nat /\ arrived \in Nat /\ HelloSize \in Nat /\ HelloSize >= 2
      /\ BufferSize \in Nat \ {0}
  <2>1. HelloSize \in Nat /\ PrefixSize \in Nat /\ PrefixSize + 2 <= HelloSize /\ BufferSize \in Nat \ {0}
    BY Sizes
  <2>2. HelloSize >= 2
    BY <2>1
  <2>3. QED
    BY <2>1, <2>2 DEF Typing
<1>2. buf[helloPos] = StreamByte(arrived + 1)
  <2>1. 0 \in (n - BufferSize) .. (BufferSize - 1) /\ 0 >= 0 /\ 0 < n
    BY <1>1
  <2>2. buf[(helloPos + 0) % BufferSize] = StreamByte(arrived + 0 + 1)
    BY <1>1, <2>1, StoredBytes
  <2>3. (helloPos + 0) % BufferSize = helloPos /\ arrived + 0 + 1 = arrived + 1
    BY <1>1
  <2>4. QED
    BY <2>2, <2>3
<1> HIDE DEF buf
<1>3. SUFFICES ASSUME hashed = Line PROVE FALSE
  BY DEF buf
<1>4. q = HelloSize - 2
  <2>1. 1 .. q = 1 .. HelloSize - 2
    BY <1>3 DEF Line
  <2>2. HelloSize - 2 \in Nat
    BY <1>1
  <2>3. QED
    BY <2>1, <2>2
<1>5. arrived + n \in Nat /\ arrived + 1 \in 1 .. arrived + n
  BY <1>1
<1>6. CASE q = helloPos
  <2>1. StreamByte(arrived + 1) = Byte(0, HelloSize - 1)
    BY <1>2, <1>6 DEF CR, buf
  <2>2. arrived + 1 = HelloSize - 1
    BY <1>1, <1>5, <2>1, LineByte
  <2>3. QED
    BY <1>1, <1>4, <1>6, <2>2
<1>7. CASE q > helloPos
  <2>1. helloPos + 1 \in 1 .. q /\ (helloPos + 1) - 1 = helloPos
    BY <1>1, <1>7
  <2>2. hashed[helloPos + 1] = buf[helloPos]
    BY <2>1
  <2>3. hashed[helloPos + 1] = Byte(0, helloPos + 1)
    BY <1>3, <1>4, <2>1 DEF Line
  <2>4. arrived + 1 = helloPos + 1
    BY <1>1, <1>2, <1>5, <2>2, <2>3, LineByte
  <2>5. QED
    BY <1>1, <2>4
<1>8. QED
  BY <1>1, <1>6, <1>7

\* The line was read at once: what is behind it is the start of the first packet.
LEMMA LineAtOnce ==
    ASSUME Typing, NEW n \in 1 .. BufferSize, Available(n), helloPos = 0, arrived = 0,
           NEW q \in Nat, q + 2 <= n, Stored(0, n)[q] = CR
    PROVE  /\ q + 2 = HelloSize
           /\ \A i \in Nat : i < n - HelloSize =>
                 Aligned(Stored(0, n), HelloSize, n - HelloSize)[(AlignForward(HelloSize) + i) % BufferSize]
                     = StreamByte(HelloSize + i + 1)
<1> DEFINE buf == Stored(0, n)
<1>1. script \in Scripts /\ HelloSize \in Nat /\ BufferSize \in Nat \ {0} /\ n \in Nat /\ n <= BufferSize
  BY Sizes, SMTT(30) DEF Typing
<1>2. ASSUME NEW i \in Nat, i < n
      PROVE  buf[i] = StreamByte(i + 1)
  <2>1. i \in (n - BufferSize) .. (BufferSize - 1) /\ i >= 0 /\ 0 \in Nat
    BY <1>1, <1>2
  <2>2. buf[(0 + i) % BufferSize] = StreamByte(arrived + i + 1)
    BY <1>2, <2>1, StoredBytes
  <2>3. (0 + i) % BufferSize = i /\ arrived + i + 1 = i + 1
    BY <1>1, <2>1
  <2>4. QED
    BY <2>2, <2>3
<1>3. DOMAIN buf = 0 .. BufferSize - 1
  BY DEF Stored
<1> HIDE DEF buf
<1>4. q + 2 = HelloSize
  <2>1. q < n /\ q + 1 \in 1 .. n
    BY <1>1
  <2>2. StreamByte(q + 1) = Byte(0, HelloSize - 1)
    BY <1>2, <2>1 DEF CR, buf
  <2>3. q + 1 = HelloSize - 1
    BY <1>1, <2>1, <2>2, LineByte
  <2>4. QED
    BY <1>1, <2>3
<1>5. ASSUME NEW i \in Nat, i < n - HelloSize
      PROVE  Aligned(buf, HelloSize, n - HelloSize)[(AlignForward(HelloSize) + i) % BufferSize]
                 = StreamByte(HelloSize + i + 1)
  <2>1. n - HelloSize \in 0 .. BufferSize /\ HelloSize + i \in Nat /\ HelloSize + i < n
    BY <1>1, <1>4, <1>5
  <2>2. Aligned(buf, HelloSize, n - HelloSize)[(AlignForward(HelloSize) + i) % BufferSize]
            = buf[(HelloSize + i) % BufferSize]
    BY <1>1, <1>3, <1>5, <2>1, AlignedBytes, ZenonT(60)
  <2>3. (HelloSize + i) % BufferSize = HelloSize + i
    BY <1>1, <2>1
  <2>4. buf[HelloSize + i] = StreamByte(HelloSize + i + 1)
    BY <1>2, <2>1
  <2>5. QED
    BY <2>2, <2>3, <2>4
<1>6. QED
  BY <1>4, <1>5 DEF buf

LEMMA HelloReceiveInvariant ==
    ASSUME Invariant, NEW n \in 1 .. BufferSize, HelloReceive(n)
    PROVE  Invariant'
<1> DEFINE buf == Stored(helloPos, n)
           received == receivedSize + n
           q == LineEnd(buf, received)
<1>1. /\ phase = "hello" /\ Available(arrived + n) /\ n <= BufferSize - receivedSize
      /\ arrived' = arrived + n /\ reads' = reads + 1
      /\ IF q >= 0 THEN HelloDone(buf, received, q)
         ELSE /\ buffer' = buf /\ receivedSize' = received
              /\ helloPos' = Max({helloPos, Min({received, HelloLimit}) - 1})
              /\ UNCHANGED <<phase, bufferPos, exchange, sendVars, failures>>
      /\ UNCHANGED <<script, initVars, nextSize, receiveSequenceNumber, encryption, sessionId, delivered>>
  BY DEF HelloReceive
<1>2. /\ Typing /\ script \in Scripts /\ arrived \in Nat /\ reads \in Nat /\ helloPos \in Nat
      /\ receivedSize \in Nat /\ n \in Nat /\ BufferSize \in Nat \ {0} /\ Align \in Nat \ {0} /\ HelloSize \in Nat
      /\ HelloLimit \in Nat /\ HelloLimit >= 1
  <2>1. HelloLimit \in Nat /\ HelloSize \in Nat /\ PrefixSize \in Nat /\ PrefixSize + 2 <= HelloSize
        /\ HelloSize <= HelloLimit /\ BufferSize \in Nat \ {0} /\ Align \in Nat \ {0}
    BY Sizes
  <2>2. HelloLimit >= 1
    BY <2>1
  <2>3. QED
    BY <2>1, <2>2 DEF Invariant, Typing
<1>3. /\ receivedSize = arrived /\ bufferPos = 0 /\ nextSize = 0
      /\ encryption = FALSE /\ sent = <<>> /\ delivered = <<>>
      /\ reads = 0 => arrived = 0 /\ helloPos = 0
      /\ reads > 0 => helloPos < arrived
      /\ exchange = <<"clientLine">>
  BY <1>1 DEF Invariant, Greeting
<1>4. received \in Nat /\ received \in 0 .. BufferSize /\ received >= 1 /\ helloPos < received
      /\ received = arrived + n
  BY <1>1, <1>2, <1>3
<1>5. buf = [a \in 0 .. BufferSize - 1 |-> buf[a]] /\ DOMAIN buf = 0 .. BufferSize - 1
  BY DEF Stored
<1> HIDE DEF buf, received
<1>6. CASE q >= 0
  <2>1. HelloDone(buf, received, q)
    BY <1>1, <1>6
  <2>2. q \in Nat /\ q >= helloPos /\ q + 2 <= received /\ buf[q] = CR
    <3>1. q # -1
      BY <1>6
    <3>2. QED
      BY <1>2, <1>4, <3>1, LineEndFacts
  <2> HIDE DEF q
  <2>3. CASE /\ Fail /\ buffer' = buf /\ receivedSize' = received
             /\ UNCHANGED <<bufferPos, helloPos, exchange, sendVars, failures>>
    <3>1. Typing'
      BY <1>1, <1>2, <1>4, <1>5, <2>3, SMTT(30) DEF Typing, Fail, Connecting, sendVars
    <3>2. QED
      BY <2>3, <3>1, FailedInvariant DEF Fail
  <2>4. CASE /\ exchange' = exchange \o <<[i \in 1 .. q |-> buf[i - 1]], "clientKexInit">>
             /\ receivedSize' = received - (q + 2)
             /\ bufferPos' = AlignForward(q + 2)
             /\ buffer' = Aligned(buf, q + 2, received - (q + 2))
             /\ helloPos' = q
             /\ SendThen("kexinit", "kexinit")
    <3>1. /\ phase' = "failed" \/ phase' = "kexinit"
          /\ sendSequenceNumber' \in Nat /\ sent' \in Seq(Sendings)
          /\ phase' # "failed" =>
                /\ Len(sent') = Len(sent) + 1
                /\ /\ encryption <=> Len(sent) = 3
                   /\ \A j \in DOMAIN sent : sent[j].encrypted <=> j = 4
                   => \A j \in DOMAIN sent' : sent'[j].encrypted <=> j = 4
      BY <1>2, <2>4, SendFacts
    <3>2. bufferPos' \in Nat /\ bufferPos' % Align = 0
      <4>1. q + 2 \in Nat
        BY <2>2
      <4>2. QED
        BY <1>2, <2>4, <4>1, AlignForwardFact
    <3>3. Typing'
      <4>1. buffer' = [a \in 0 .. BufferSize - 1 |-> buffer'[a]]
        BY <1>5, <2>4 DEF Aligned
      <4>2. receivedSize' \in 0 .. BufferSize
        BY <1>2, <1>4, <2>2, <2>4
      <4>3. phase' \in {"init", "initFailed", "hello", "failed", "ended"} \/ Connecting'
        BY <3>1 DEF Connecting
      <4>4. arrived' \in Nat /\ reads' \in Nat
        BY <1>1, <1>2
      <4>5. QED
        BY <1>1, <1>2, <2>2, <2>4, <3>1, <3>2, <4>1, <4>2, <4>3, <4>4 DEF Typing
    <3>4. CASE phase' = "failed"
      BY <3>3, <3>4, FailedInvariant
    <3>5. CASE phase' = "kexinit"
      <4>1. Greeting'
        BY <3>5 DEF Greeting
      <4>2. Framing'
        <5>1. 0 % Align = 0
          BY <1>2
        <5>2. QED
          BY <1>1, <1>3, <3>2, <5>1 DEF Framing
      <4>3. StreamTail'
        <5>1. SUFFICES ASSUME reads' = 1
                       PROVE  /\ arrived' - receivedSize' = HelloSize
                              /\ \A i \in Nat, m \in Nat :
                                    i < receivedSize' /\ m = arrived' - receivedSize' + i + 1 =>
                                        buffer'[(bufferPos' + i) % BufferSize] = StreamByte(m)
          <6>1. Handled' = 0 /\ Start(0)' = HelloSize
            BY <3>5 DEF Handled, Start
          <6>2. QED
            BY <1>1, <6>1, SameStream DEF StreamTail
        <5>2. reads = 0 /\ arrived = 0 /\ helloPos = 0 /\ arrived + n = n /\ received = n
          BY <1>1, <1>2, <1>3, <1>4, <5>1
        <5>3. /\ q + 2 = HelloSize
              /\ \A i \in Nat : i < n - HelloSize =>
                    Aligned(buf, HelloSize, n - HelloSize)[(AlignForward(HelloSize) + i) % BufferSize]
                        = StreamByte(HelloSize + i + 1)
          <6>1. buf = Stored(0, n)
            BY <5>2 DEF buf
          <6>2. q + 2 <= n /\ Available(n)
            BY <1>1, <2>2, <5>2
          <6>3. QED
            BY <1>2, <2>2, <5>2, <6>1, <6>2, LineAtOnce
        <5>4. /\ receivedSize' = n - HelloSize /\ bufferPos' = AlignForward(HelloSize)
              /\ buffer' = Aligned(buf, HelloSize, n - HelloSize)
          BY <2>4, <5>2, <5>3
        <5>5. arrived' - receivedSize' = HelloSize
          BY <1>1, <1>2, <5>2, <5>4
        <5>6. ASSUME NEW i \in Nat, NEW m \in Nat, i < receivedSize', m = arrived' - receivedSize' + i + 1
              PROVE  buffer'[(bufferPos' + i) % BufferSize] = StreamByte(m)
          <6>1. m = HelloSize + i + 1 /\ i < n - HelloSize
            BY <5>4, <5>5, <5>6
          <6>2. QED
            BY <5>3, <5>4, <6>1
        <5>7. QED
          BY <5>5, <5>6
      <4>4. Hashing'
        <5> DEFINE line == [i \in 1 .. q |-> buf[i - 1]]
        <5>1. line = Line => reads' = 1
          <6>1. SUFFICES ASSUME reads' # 1 PROVE line # Line
            OBVIOUS
          <6>2. reads > 0 /\ helloPos < arrived /\ arrived <= BufferSize
            BY <1>1, <1>2, <1>3, <6>1
          <6>3. QED
            BY <1>1, <1>2, <2>2, <6>2, PiecesShow DEF buf
        <5> HIDE DEF line
        <5>2. exchange' = <<"clientLine">> \o <<line, "clientKexInit">>
          BY <1>3, <2>4 DEF line
        <5>3. exchange' = <<"clientLine", line, "clientKexInit">> /\ exchange'[2] = line
          BY <5>2, ConcatTuple
        <5>4. Line' = Line /\ reads' > 0
          BY <1>1, <1>2 DEF Line, Byte
        <5>5. QED
          BY <3>5, <5>1, <5>3, <5>4 DEF Hashing, Connecting
      <4>5. Ordering'
        <5>1. Handled' = 0 /\ Messages' = 1 /\ Len(sent) = 0 /\ Len(delivered) = 0 /\ DOMAIN sent = {}
          BY <1>3, <3>5 DEF Handled, Messages
        <5>2. Len(sent') = 1 /\ \A j \in DOMAIN sent' : sent'[j].encrypted <=> j = 4
          BY <1>3, <3>1, <3>5, <5>1
        <5>3. QED
          BY <1>1, <1>3, <3>5, <5>1, <5>2 DEF Ordering
      <4>6. QED
        BY <3>3, <4>1, <4>2, <4>3, <4>4, <4>5 DEF Invariant
    <3>6. QED
      BY <3>1, <3>4, <3>5
  <2>5. QED
    BY <2>1, <2>3, <2>4 DEF HelloDone
<1>7. CASE ~(q >= 0)
  <2>1. /\ buffer' = buf /\ receivedSize' = received
        /\ helloPos' = Max({helloPos, Min({received, HelloLimit}) - 1})
        /\ UNCHANGED <<phase, bufferPos, exchange, sendVars, failures>>
    BY <1>1, <1>7
  <2>2. helloPos' \in Nat /\ helloPos' < received
    <3> DEFINE x == Min({received, HelloLimit})
    <3>1. x \in {received, HelloLimit} /\ x <= received
      BY <1>2, <1>4, MinMaxOfTwo
    <3> HIDE DEF x
    <3>2. x - 1 \in Nat /\ x - 1 < received
      BY <1>2, <1>4, <3>1
    <3>3. Max({helloPos, x - 1}) \in {helloPos, x - 1}
      <4>1. helloPos \in Int /\ x - 1 \in Int
        BY <1>2, <3>2
      <4>2. QED
        BY <4>1, MinMaxOfTwo, Zenon
    <3>4. QED
      BY <1>2, <1>4, <2>1, <3>2, <3>3 DEF x
  <2>3. Typing'
    BY <1>1, <1>2, <1>4, <1>5, <2>1, <2>2, SMTT(30) DEF Typing, Connecting, sendVars
  <2>4. Greeting'
    BY <1>1, <1>2, <1>3, <1>4, <2>1, <2>2 DEF Greeting, sendVars
  <2>5. Framing' /\ StreamTail' /\ Hashing' /\ Ordering'
    BY <1>1, <2>1 DEF Framing, StreamTail, Hashing, Ordering, Connecting
  <2>6. QED
    BY <2>3, <2>4, <2>5 DEF Invariant
<1>8. QED
  BY <1>6, <1>7

-----------------------------------------------------------------------------
(***************************************************************************)
(* The theorems.                                                           *)
(***************************************************************************)

\* The invariant holds in every state of the client, for every server and all sizes.
THEOREM Invariance == Spec => []Invariant
<1>1. Invariant /\ [Next]_vars => Invariant'
  <2> SUFFICES ASSUME Invariant, [Next]_vars PROVE Invariant'
    OBVIOUS
  <2>1. CASE Acquire
    BY <2>1, AcquireInvariant
  <2>2. CASE Connect
    BY <2>2, ConnectInvariant
  <2>3. CASE InputOutputFails
    BY <2>3, InputOutputFailsInvariant
  <2>4. ASSUME NEW n \in 1 .. BufferSize, HelloReceive(n)
        PROVE  Invariant'
    BY <2>4, HelloReceiveInvariant
  <2>5. ASSUME NEW n \in 1 .. BufferSize, Receive(n)
        PROVE  Invariant'
    BY <2>5, ReceiveInvariant
  <2>6. CASE PeekSize
    BY <2>6, PeekSizeInvariant
  <2>7. CASE NextMessage
    BY <2>7, NextMessageInvariant
  <2>8. CASE ServiceRequest
    BY <2>8, ServiceRequestInvariant
  <2>9. CASE Deinit \/ Release \/ Exit
    BY <2>9, DeinitInvariant, ReleaseInvariant
  <2>10. CASE UNCHANGED vars
    BY <2>10, StutterInvariant
  <2>11. QED
    BY <2>1, <2>2, <2>3, <2>4, <2>5, <2>6, <2>7, <2>8, <2>9, <2>10 DEF Next
<1>2. QED
  BY <1>1, InitInvariant, PTL DEF Spec

\* However the reads are cut and however often the buffer wraps, client_peekMessage looks at
\* the bytes of the server in order and once, at aligned places, and a read that is needed
\* has room.
THEOREM BytesInOrder == Spec => []BufferIsTail
<1>1. Invariant => BufferIsTail
  <2> SUFFICES ASSUME Invariant, Waiting, reads = 1
               PROVE  /\ bufferPos % Align = 0
                      /\ NeedsMore => receivedSize < BufferSize
                      /\ \A i \in 0 .. receivedSize - 1 :
                            At(bufferPos + i) = StreamByte(arrived - receivedSize + i + 1)
    BY DEF BufferIsTail
  <2>1. /\ Connecting /\ Typing /\ receivedSize \in Nat /\ nextSize \in Nat /\ macSize \in Nat /\ arrived \in Nat
        /\ Align \in Nat \ {0} /\ BufferSize \in Nat \ {0} /\ MaxPacket \in Nat /\ MaxPacket <= BufferSize
    BY Sizes DEF Invariant, Typing, Waiting, Connecting, macSize
  <2>2. bufferPos % Align = 0 /\ (nextSize > 0 => Align + nextSize + macSize <= MaxPacket)
    BY <2>1 DEF Invariant, Framing
  <2>3. ASSUME NeedsMore PROVE receivedSize < BufferSize
    <3>1. CASE nextSize = 0 /\ receivedSize < Align
      <4>1. Align <= BufferSize
        <5>1. BufferSize % Align = 0
          BY Sizes
        <5>2. SUFFICES ASSUME BufferSize < Align PROVE FALSE
          BY <2>1
        <5>3. BufferSize \in 0 .. Align - 1
          BY <2>1, <5>2
        <5>4. BufferSize % Align = BufferSize
          BY <2>1, <5>3
        <5>5. QED
          BY <2>1, <5>1, <5>4
      <4>2. QED
        BY <2>1, <3>1, <4>1
    <3>2. CASE nextSize > 0 /\ receivedSize < Align + nextSize + macSize
      BY <2>1, <2>2, <3>2
    <3>3. QED
      BY <2>3, <3>1, <3>2 DEF NeedsMore
  <2>4. ASSUME NEW i \in 0 .. receivedSize - 1
        PROVE  At(bufferPos + i) = StreamByte(arrived - receivedSize + i + 1)
    <3> DEFINE m == arrived - receivedSize + i + 1
    <3>1. Handled \in Nat /\ Start(Handled) \in Nat
      <4>1. Handled \in {0, 1, 2, 3}
        BY DEF Waiting, Handled
      <4>2. Handled = 0 \/ Handled \in DOMAIN script
        BY <2>1, <4>1 DEF Invariant, Ordering
      <4>3. script \in Scripts /\ HelloSize \in Nat
        BY <2>1, Sizes DEF Typing
      <4>4. QED
        BY <4>1, <4>2, <4>3, PacketPlaces DEF Start
    <3>2. arrived - receivedSize = Start(Handled)
      BY <2>1, <3>1 DEF Invariant, StreamTail
    <3>3. m \in Nat /\ i \in Nat /\ i < receivedSize
      BY <2>1, <3>1, <3>2
    <3>4. buffer[(bufferPos + i) % BufferSize] = StreamByte(m)
      BY <2>1, <3>3 DEF Invariant, StreamTail
    <3>5. QED
      BY <3>4 DEF At
  <2>5. QED
    BY <2>2, <2>3, <2>4
<1>2. QED
  BY <1>1, Invariance, PTL

\* client_connect succeeds only when the server's four messages were handled in order, the
\* ones that must be encrypted were, and both sides hashed the same exchange.
THEOREM ConnectionAgreed == Spec => []ConnectedMeansAgreed
<1>1. Invariant => ConnectedMeansAgreed
  <2> SUFFICES ASSUME Invariant, phase = "done"
               PROVE  /\ delivered = <<1, 2, 3, 4>>
                      /\ \A k \in 1 .. 4 : script[k].encrypted <=> k = 4
                      /\ script[4].macValid
                      /\ exchange = ServerHash /\ sessionId = ServerHash
                      /\ \A k \in DOMAIN sent : sent[k].encrypted <=> k = 4
    BY DEF ConnectedMeansAgreed
  <2>1. reads = 1 /\ exchange = ServerHash /\ sessionId = ServerHash
    BY DEF Invariant, Hashing, Connecting
  <2>2. /\ Len(delivered) = 4 /\ delivered \in Seq(Nat)
        /\ \A k \in 1 .. 4 : delivered[k] = k /\ (script[k].encrypted <=> k = 4)
    <3>1. Handled = 4
      BY DEF Handled
    <3>2. QED
      BY <2>1, <3>1 DEF Invariant, Typing, Ordering, Connecting
  <2>3. delivered = <<1, 2, 3, 4>>
    <3> DEFINE t == <<1, 2, 3, 4>>
    <3>1. t \in Seq(Nat) /\ Len(t) = 4 /\ t[1] = 1 /\ t[2] = 2 /\ t[3] = 3 /\ t[4] = 4
      OBVIOUS
    <3> HIDE DEF t
    <3>2. \A i \in 1 .. 4 : i = 1 \/ i = 2 \/ i = 3 \/ i = 4
      OBVIOUS
    <3>3. \A i \in 1 .. Len(delivered) : delivered[i] = t[i]
      BY <2>2, <3>1, <3>2
    <3>4. delivered = t
      BY <2>2, <3>1, <3>3, SeqEqual
    <3>5. QED
      BY <3>4 DEF t
  <2>4. script[4].macValid /\ \A k \in DOMAIN sent : sent[k].encrypted <=> k = 4
    BY DEF Invariant, Ordering, Connecting
  <2>5. QED
    BY <2>1, <2>2, <2>3, <2>4
<1>2. QED
  BY <1>1, Invariance, PTL

-----------------------------------------------------------------------------
(***************************************************************************)
(* The resources.                                                          *)
(***************************************************************************)

All == {"memfd", "mapping", "socket"}

\* What the first n calls of client_init have acquired.
Acquired(n) ==
    IF n = 0 THEN {} ELSE IF n <= 2 THEN {"memfd"} ELSE IF n <= 5 THEN {"memfd", "mapping"} ELSE All

\* From each place of the cleanup the rest of it gives back what is held.
CleaningUp ==
    \/ undo = <<>> /\ held = {}
    \/ undo = <<"memfd">> /\ held = {"memfd"}
    \/ undo = <<"mapping", "memfd">> /\ held = {"memfd", "mapping"}
    \/ undo = <<"socket", "mapping", "memfd">> /\ held = All

Resources ==
    /\ phase = "init" => inited \in 0 .. 6 /\ held = Acquired(inited)
    /\ phase \notin {"init", "initFailed", "ended", "failed"} => held = All
    /\ IF phase \in {"initFailed", "ended"} THEN CleaningUp ELSE undo = <<>>

\* The calls of client_init and the labels.
LEMMA InitCallsAre ==
    /\ Len(InitCalls) = 6
    /\ InitCalls[1] = [gets |-> {"memfd"}, label |-> <<>>]
    /\ InitCalls[2] = [gets |-> {}, label |-> <<"memfd">>]
    /\ InitCalls[3] = [gets |-> {"mapping"}, label |-> <<"memfd">>]
    /\ InitCalls[4] = [gets |-> {}, label |-> <<"mapping", "memfd">>]
    /\ InitCalls[5] = [gets |-> {}, label |-> <<"mapping", "memfd">>]
    /\ InitCalls[6] = [gets |-> {"socket"}, label |-> <<"mapping", "memfd">>]
<1>1. cleanup_buffer = <<"mapping", "memfd">>
  BY DEF cleanup_buffer, cleanup_bufferMemFd
<1>2. cleanup_bufferMemFd = <<"memfd">>
  BY DEF cleanup_bufferMemFd
<1>3. QED
  BY <1>1, <1>2 DEF InitCalls, Call

\* A call of client_init acquires what the place behind it has, or jumps to the label that
\* gives back what the place before it had.
LEMMA AcquireResources ==
    ASSUME Resources, Acquire
    PROVE  Resources'
<1>1. phase = "init" /\ inited \in 0 .. 5 /\ held = Acquired(inited) /\ undo = <<>>
  BY InitCallsAre DEF Acquire, Resources, Initialised
<1> DEFINE call == InitCalls[inited + 1]
<1>2. CASE held' = held \cup call.gets /\ inited' = inited + 1 /\ UNCHANGED <<phase, undo>>
  <2>1. Acquired(inited + 1) = Acquired(inited) \cup call.gets
    BY <1>1, InitCallsAre DEF Acquired, All
  <2>2. QED
    BY <1>1, <1>2, <2>1 DEF Resources
<1>3. CASE phase' = "initFailed" /\ undo' = call.label /\ UNCHANGED <<held, inited>>
  <2>1. \/ call.label = <<>> /\ held = {}
        \/ call.label = <<"memfd">> /\ held = {"memfd"}
        \/ call.label = <<"mapping", "memfd">> /\ held = {"memfd", "mapping"}
    BY <1>1, InitCallsAre DEF Acquired
  <2>2. CleaningUp'
    BY <1>3, <2>1 DEF CleaningUp
  <2>3. QED
    BY <1>3, <2>2 DEF Resources
<1>4. QED
  BY <1>2, <1>3 DEF Acquire

\* Each of the labels gives back the next of what is held.
LEMMA ReleaseResources ==
    ASSUME Resources, Release
    PROVE  Resources'
<1>1. undo # <<>> /\ held' = held \ {Head(undo)} /\ undo' = Tail(undo) /\ phase' = phase
  BY DEF Release
<1>2. phase \in {"initFailed", "ended"} /\ CleaningUp
  BY <1>1 DEF Resources
<1>3. CASE undo = <<"memfd">> /\ held = {"memfd"}
  <2>1. undo' = <<>> /\ held' = {}
    BY <1>1, <1>3
  <2>2. QED
    BY <1>1, <1>2, <2>1 DEF Resources, CleaningUp
<1>4. CASE undo = <<"mapping", "memfd">> /\ held = {"memfd", "mapping"}
  <2>1. undo' = <<"memfd">> /\ held' = {"memfd"}
    BY <1>1, <1>4
  <2>2. QED
    BY <1>1, <1>2, <2>1 DEF Resources, CleaningUp
<1>5. CASE undo = <<"socket", "mapping", "memfd">> /\ held = All
  <2>1. undo' = <<"mapping", "memfd">> /\ held' = {"memfd", "mapping"}
    BY <1>1, <1>5 DEF All
  <2>2. QED
    BY <1>1, <1>2, <2>1 DEF Resources, CleaningUp
<1>6. QED
  BY <1>1, <1>2, <1>3, <1>4, <1>5 DEF CleaningUp

\* The steps of client_connect leave the resources alone.
LEMMA ConnectingResources ==
    ASSUME Resources, UNCHANGED initVars,
           \/ phase' = phase
           \/ phase = "init" /\ Initialised /\ phase' = "hello"
           \/ phase \notin {"initFailed", "ended"} /\ phase' = "failed"
           \/ /\ phase \notin {"init", "initFailed", "ended", "failed"}
              /\ phase' \notin {"init", "initFailed", "ended"}
    PROVE  Resources'
<1>1. UNCHANGED <<held, inited, undo>>
  BY DEF initVars
<1>2. phase = "init" /\ Initialised => held = All
  BY InitCallsAre DEF Resources, Initialised, Acquired
<1>3. QED
  BY <1>1, <1>2 DEF Resources, CleaningUp

\* The phase that a message is handled in, and those that follow.
LEMMA MessagePhases ==
    ASSUME NextMessage \/ ServiceRequest
    PROVE  /\ phase \in {"kexinit", "reply", "newkeys", "accept", "request"}
           /\ phase' \in {"failed", "reply", "newkeys", "request", "accept", "done"}
<1>1. CASE ServiceRequest
  BY <1>1 DEF ServiceRequest, SendThen, Fail
<1>2. CASE NextMessage
  <2>1. phase \in {"kexinit", "reply", "newkeys", "accept"}
    BY <1>2 DEF NextMessage, Waiting
  <2>2. CASE ~PacketAccepted(Framed)
    BY <1>2, <2>1, <2>2 DEF NextMessage, Fail
  <2>3. CASE PacketAccepted(Framed)
    <3>1. /\ phase = "kexinit" => DoKexInit(Framed)
          /\ phase = "reply" => DoReply(Framed)
          /\ phase = "newkeys" => DoNewKeys(Framed)
          /\ phase = "accept" => DoAccept(Framed)
      BY <1>2, <2>3 DEF NextMessage
    <3>2. QED
      BY <2>1, <3>1 DEF DoKexInit, DoReply, DoNewKeys, DoAccept, SendThen, Fail
  <2>4. QED
    BY <2>2, <2>3
<1>3. QED
  BY <1>1, <1>2

LEMMA HelloPhases ==
    ASSUME NEW n, HelloReceive(n)
    PROVE  phase = "hello" /\ phase' \in {"hello", "failed", "kexinit"}
BY DEF HelloReceive, HelloDone, SendThen, Fail

\* At every point of a failed client_init and of client_deinit, what is held is what the
\* rest of the labels or calls give back, each once.
THEOREM InitGivesBack == Spec => []GivesBackWhatItHolds
<1>1. Init => Resources
  BY DEF Init, Resources, Acquired
<1>2. Resources /\ [Next]_vars => Resources'
  <2> SUFFICES ASSUME Resources, [Next]_vars PROVE Resources'
    OBVIOUS
  <2>1. CASE Acquire
    BY <2>1, AcquireResources
  <2>2. CASE Release
    BY <2>2, ReleaseResources
  <2>3. CASE Connect
    BY <2>3, ConnectingResources DEF Connect
  <2>4. CASE InputOutputFails
    BY <2>4, ConnectingResources DEF InputOutputFails, Waiting, Fail
  <2>5. ASSUME NEW n, HelloReceive(n)
        PROVE  Resources'
    <3>1. UNCHANGED initVars
      BY <2>5 DEF HelloReceive
    <3>2. QED
      BY <2>5, <3>1, HelloPhases, ConnectingResources
  <2>6. ASSUME NEW n, Receive(n)
        PROVE  Resources'
    BY <2>6, ConnectingResources DEF Receive
  <2>7. CASE PeekSize
    BY <2>7, ConnectingResources DEF PeekSize, Waiting, Fail
  <2>8. CASE NextMessage \/ ServiceRequest
    <3>1. UNCHANGED initVars
      BY <2>8 DEF NextMessage, ServiceRequest
    <3>2. QED
      BY <2>8, <3>1, MessagePhases, ConnectingResources
  <2>9. CASE Deinit
    <3>1. phase = "done" /\ phase' = "ended" /\ undo' = <<"socket", "mapping", "memfd">> /\ held' = held
      BY <2>9 DEF Deinit
    <3>2. held = All
      BY <3>1 DEF Resources
    <3>3. QED
      BY <3>1, <3>2 DEF Resources, CleaningUp
  <2>10. CASE Exit
    BY <2>10 DEF Exit, Resources
  <2>11. CASE UNCHANGED vars
    BY <2>11, ConnectingResources DEF vars
  <2>12. QED
    BY <2>1, <2>2, <2>3, <2>4, <2>5, <2>6, <2>7, <2>8, <2>9, <2>10, <2>11 DEF Next
<1>3. Resources => GivesBackWhatItHolds
  <2> SUFFICES ASSUME CleaningUp
               PROVE  /\ held = {undo[i] : i \in DOMAIN undo}
                      /\ \A i, j \in DOMAIN undo : undo[i] = undo[j] => i = j
    BY DEF Resources, GivesBackWhatItHolds
  <2>1. QED
    BY DEF CleaningUp, All
<1>4. QED
  BY <1>1, <1>2, <1>3, PTL DEF Spec
=============================================================================
