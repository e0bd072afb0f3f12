---------------------------- MODULE SystemProofs -----------------------------
(***************************************************************************)
(* Proofs about Router and System: for any dumpers, any limit on           *)
(* descriptors and any faults, no descriptor is lost, closed twice or      *)
(* mistaken for another, the boot finds at every step what it needs, and   *)
(* the machine is only powered off after everything was taken down.        *)
(***************************************************************************)
EXTENDS System, FiniteSetTheorems, WellFoundedInduction, TLAPS

\* The components that can have a descriptor, and the descriptor of each.
Components == {Packet(d) : d \in Dumpers} \cup {Client(d) : d \in Dumpers} \cup {Modem, Telnet}

\* (Table is Field with the fields as parameters.)
Table(telnet, modem, client, packet) ==
    [c \in Components |->
        IF c.what = "packet" THEN packet[c.dumper]
        ELSE IF c.what = "client" THEN client[c.dumper]
        ELSE IF c.what = "modem" THEN modem
        ELSE telnet]

Held == Table(telnetFd, modemFd, clientFd, packetFd)

\* A table of descriptors, as a value: the holders, what they hold, and its bookkeeping in
\* the kernel.  n descriptors at most are open and forgotten.
HoldersIn(held) == {c \in Components : held[c] # None}
FdsIn(held) == {held[c] : c \in HoldersIn(held)}
Watched(held) == {Watch(held[c], c) : c \in HoldersIn(held)}

\* What the components S hold, and the table without it.
FdsOf(held, S) == {held[c] : c \in S} \ {None}
Without(held, S) == [c \in Components |-> IF c \in S THEN None ELSE held[c]]

\* A function that gets another value at one place.
With(f, x, value) == [f EXCEPT ![x] = value]

Balanced(held, fds, watch, n) ==
    /\ held \in [Components -> Fds \cup {None}]
    /\ \A b, c \in HoldersIn(held) : held[b] = held[c] => b = c
    /\ FdsIn(held) \subseteq fds /\ fds \subseteq Fds
    /\ watch = Watched(held)
    /\ n \in Nat /\ Cardinality(fds \ FdsIn(held)) <= n

\* The statuses of the process that a run of it goes through.
Statuses == {"absent", "starting", "running", "stopping", "exited", "aborted"}

FieldsOK ==
    /\ telnetFd \in Fds \cup {None} /\ modemFd \in Fds \cup {None}
    /\ clientFd \in [Dumpers -> Fds \cup {None}] /\ packetFd \in [Dumpers -> Fds \cup {None}]

TypeOK ==
    /\ status \in Statuses /\ listening \subseteq Dumpers
    /\ FieldsOK
    /\ misled \in BOOLEAN /\ badClose \in BOOLEAN /\ failures \in Nat
    /\ machine \in {"up", "halted", "off"} /\ reaped \in BOOLEAN
    /\ booted \in 0 .. Len(InitSteps) /\ step \in Nat /\ faults \in Nat
    /\ holds \subseteq Users

\* Nothing is lost or closed twice, and a dump has both of its descriptors or none.
Steady ==
    /\ FieldsOK
    /\ Balanced(Held, open, epoll, failures)
    /\ badClose = FALSE
    /\ \A d \in Dumpers : packetFd[d] = None <=> clientFd[d] = None

\* Only a dumper that listens has a client.
OnlyListeners == \A d \in Dumpers : clientFd[d] # None => d \in listening

\* The loop: no event is mistaken, and one that was fetched is still watched for.
LoopInv ==
    /\ Steady /\ OnlyListeners
    /\ misled = FALSE
    /\ events = <<>> \/ (status = "running" /\ \E e \in epoll : events = <<e>>)

\* What the first k steps of start() have brought about for certain.
Base == {InitSteps[i] : i \in 1 .. Len(InitSteps)} \cup {Link("eth0"), Link("eth4")}
Established(k) == Base \cup UNION {BootSteps[j].adds : j \in {i \in 1 .. k : ~BootSteps[i].optional}}

BootInv ==
    /\ status = "absent" <=> booted < Len(InitSteps)
    /\ status = "absent" => /\ step = 0
                            /\ {Link("eth0"), Link("eth4")} \cup {InitSteps[i] : i \in 1 .. booted} \subseteq facts
    /\ status = "starting" => step \in 0 .. Len(BootSteps) /\ Established(step) \subseteq facts
    /\ <<"sysctl", "ip_forward">> \in facts => <<"masquerade">> \in facts
    /\ status = "aborted" /\ step > 0 => faults > 0

\* What the first calls after the loop have taken down.
ShutdownInv ==
    /\ listening \subseteq {"wan", "usb"}
    /\ status = "running" => step = 0
    /\ status = "stopping" => step \in 0 .. 13
    /\ status = "exited" => step = 14
    /\ status \in {"stopping", "exited"} =>
         /\ step >= 1 => telnetFd = None
         /\ step >= 2 => modemFd = None
         /\ step >= 4 => "wan" \notin listening
         /\ step >= 5 => "usb" \notin listening
         /\ step >= 10 => <<"smb">> \notin facts \/ faults > 0
         /\ step >= 13 => Disk \notin facts
    /\ machine = "off" => status = "exited"

IInv == TypeOK /\ LoopInv /\ BootInv /\ ShutdownInv

-----------------------------------------------------------------------------
(***************************************************************************)
(* The kernel's table of descriptors.                                      *)
(***************************************************************************)

\* A non-empty set of natural numbers has a least element.
LEMMA LeastNat ==
    ASSUME NEW S \in SUBSET Nat, S # {}
    PROVE  \E i \in S : \A j \in S : i <= j
<1> DEFINE Less == {p \in Nat \X Nat : p[1] < p[2]}
<1>1. IsWellFoundedOn(Less, Nat)
  BY NatLessThanWellFounded, Zenon DEF OpToRel
<1>2. \E i \in S : \A j \in S : ~(<<j, i>> \in Less)
  BY <1>1, WFMin, Zenon
<1>3. \A i, j \in S : ~(<<j, i>> \in Less) => i <= j
  OBVIOUS
<1> QED
  BY <1>2, <1>3

\* The kernel gives out a descriptor that is not open.
LEMMA LowestFreeIsFree ==
    ASSUME NEW used, ~Full(used)
    PROVE  LowestFree(used) \in Fds \ used
<1>1. Fds \ used \in SUBSET Nat /\ Fds \ used # {}
  BY RouterAssumption DEF Full, Fds
<1>2. \E fd \in Fds \ used : \A other \in Fds \ used : fd <= other
  BY <1>1, LeastNat
<1> QED
  BY <1>2, Zenon DEF LowestFree

\* No descriptor is -1, and the table is finite.
LEMMA FdsFinite ==
    /\ None \notin Fds
    /\ \A S \in SUBSET Fds : IsFiniteSet(S)
<1>1. IsFiniteSet(Fds)
  BY RouterAssumption, FS_Interval DEF Fds
<1>2. None \notin Fds
  BY RouterAssumption DEF Fds, None
<1>3. \A S \in SUBSET Fds : IsFiniteSet(S)
  BY <1>1, FS_Subset
<1> QED
  BY <1>2, <1>3

\* Nobody holds anything.
LEMMA BalancedEmpty ==
    ASSUME NEW held, held \in [Components -> {None}], NEW n \in Nat
    PROVE  Balanced(held, {}, {}, n)
<1>1. HoldersIn(held) = {}
  BY DEF HoldersIn
<1>2. FdsIn(held) = {} /\ Watched(held) = {}
  BY <1>1 DEF FdsIn, Watched
<1>3. {} \ FdsIn(held) = {}
  OBVIOUS
<1> QED
  BY <1>1, <1>2, <1>3, FS_EmptySet DEF Balanced

\* Components that give up what they hold, close it and take it out of epoll, close what is
\* open and leave the table balanced.
LEMMA BalancedRelease ==
    ASSUME NEW held, NEW fds, NEW watch, NEW n, Balanced(held, fds, watch, n),
           NEW S \in SUBSET Components
    PROVE  /\ FdsOf(held, S) \subseteq fds
           /\ Balanced(Without(held, S), fds \ FdsOf(held, S), {e \in watch : e.fd \notin FdsOf(held, S)}, n)
<1> DEFINE new == Without(held, S)
           gone == FdsOf(held, S)
<1>0. new = [c \in Components |-> IF c \in S THEN None ELSE held[c]]
  BY DEF Without
<1>1. HoldersIn(new) = HoldersIn(held) \ S
  BY <1>0 DEF HoldersIn
<1>2. gone = {held[c] : c \in HoldersIn(held) \cap S}
  BY DEF HoldersIn, FdsOf
<1> HIDE DEF new, gone
<1>3. FdsIn(new) = FdsIn(held) \ gone
  BY <1>0, <1>1, <1>2 DEF FdsIn, Balanced, HoldersIn
<1>4. gone \subseteq FdsIn(held)
  BY <1>2 DEF FdsIn
<1>5. Watched(new) = {e \in watch : e.fd \notin gone}
  <2>1. ASSUME NEW c \in HoldersIn(new)
        PROVE  Watch(new[c], c) \in watch /\ Watch(new[c], c).fd \notin gone
    <3>1. c \in HoldersIn(held) /\ c \notin S /\ new[c] = held[c]
      BY <1>0, <1>1 DEF HoldersIn
    <3>2. held[c] \notin gone
      BY <3>1, <1>2 DEF Balanced
    <3>3. Watch(new[c], c) \in watch
      BY <3>1 DEF Balanced, Watched
    <3>4. Watch(new[c], c).fd = held[c]
      BY <3>1 DEF Watch
    <3> QED
      BY <3>2, <3>3, <3>4
  <2>2. ASSUME NEW c \in HoldersIn(held), held[c] \notin gone
        PROVE  c \in HoldersIn(new) /\ new[c] = held[c]
    BY <2>2, <1>0, <1>1, <1>2 DEF HoldersIn
  <2>3. watch = {Watch(held[c], c) : c \in HoldersIn(held)}
    BY DEF Balanced, Watched
  <2>4. ASSUME NEW e \in watch, e.fd \notin gone
        PROVE  e \in Watched(new)
    <3>1. PICK c \in HoldersIn(held) : e = Watch(held[c], c)
      BY <2>3
    <3>2. held[c] \notin gone
      BY <2>4, <3>1 DEF Watch
    <3> QED
      BY <3>1, <3>2, <2>2 DEF Watched
  <2> QED
    BY <2>1, <2>4 DEF Watched
<1>6. (fds \ gone) \ FdsIn(new) = fds \ FdsIn(held)
  BY <1>3, <1>4
<1>7. \A b, c \in HoldersIn(new) : new[b] = new[c] => b = c
  BY <1>0, <1>1 DEF Balanced, HoldersIn
<1>8. new \in [Components -> Fds \cup {None}]
  BY <1>0 DEF Balanced
<1> QED
  BY <1>3, <1>4, <1>5, <1>6, <1>7, <1>8 DEF Balanced, new, gone

\* A component that holds nothing is given a free descriptor, which epoll watches for it.
LEMMA BalancedAcquire ==
    ASSUME NEW held, NEW fds, NEW watch, NEW n, Balanced(held, fds, watch, n),
           NEW c \in Components, held[c] = None, NEW fd \in Fds \ fds
    PROVE  Balanced(With(held, c, fd), fds \cup {fd}, watch \cup {Watch(fd, c)}, n)
<1> DEFINE new == With(held, c, fd)
<1> USE DEF With
<1>0. fd # None
  BY FdsFinite
<1>1. HoldersIn(new) = HoldersIn(held) \cup {c} /\ c \notin HoldersIn(held)
  BY <1>0 DEF HoldersIn, Balanced
<1>2. new[c] = fd /\ \A b \in HoldersIn(held) : new[b] = held[b]
  BY <1>1 DEF Balanced, HoldersIn
<1>3. FdsIn(new) = FdsIn(held) \cup {fd}
  BY <1>1, <1>2 DEF FdsIn
<1>4. Watched(new) = watch \cup {Watch(fd, c)}
  <2>1. watch = {Watch(held[b], b) : b \in HoldersIn(held)}
    BY DEF Balanced, Watched
  <2>2. \A b \in HoldersIn(held) : Watch(new[b], b) = Watch(held[b], b)
    BY <1>2
  <2>3. Watched(new) = {Watch(new[b], b) : b \in HoldersIn(held) \cup {c}}
    BY <1>1 DEF Watched
  <2>4. Watched(new) \subseteq watch \cup {Watch(fd, c)}
    BY <1>2, <2>1, <2>2, <2>3
  <2>5. watch \cup {Watch(fd, c)} \subseteq Watched(new)
    BY <1>2, <2>1, <2>2, <2>3
  <2> QED
    BY <2>4, <2>5
<1>5. fd \notin FdsIn(held)
  BY DEF Balanced
<1>6. (fds \cup {fd}) \ FdsIn(new) = fds \ FdsIn(held)
  BY <1>3, <1>5
<1>7. \A a, b \in HoldersIn(new) : new[a] = new[b] => a = b
  <2>1. \A b \in HoldersIn(held) : held[b] # fd
    BY <1>5 DEF FdsIn
  <2>2. \A a, b \in HoldersIn(held) : held[a] = held[b] => a = b
    BY DEF Balanced
  <2> QED
    BY <1>1, <1>2, <2>1, <2>2
<1>8. new \in [Components -> Fds \cup {None}]
  BY DEF Balanced
<1> QED
  BY <1>3, <1>4, <1>6, <1>7, <1>8 DEF Balanced

\* A descriptor that is opened and forgotten is one more of those.
LEMMA BalancedForget ==
    ASSUME NEW held, NEW fds, NEW watch, NEW n, Balanced(held, fds, watch, n), NEW fd \in Fds \ fds
    PROVE  Balanced(held, fds \cup {fd}, watch, n + 1)
<1> DEFINE rest == fds \ FdsIn(held)
<1>1. (fds \cup {fd}) \ FdsIn(held) = rest \cup {fd} /\ fd \notin rest
  BY DEF Balanced
<1>2. IsFiniteSet(rest) /\ Cardinality(rest) \in Nat
  BY FdsFinite, FS_CardinalityType DEF Balanced
<1>3. Cardinality(rest \cup {fd}) = Cardinality(rest) + 1
  BY <1>1, <1>2, FS_AddElement
<1>4. Cardinality(rest) <= n /\ n \in Nat
  BY DEF Balanced
<1>5. Cardinality((fds \cup {fd}) \ FdsIn(held)) <= n + 1
  BY <1>1, <1>2, <1>3, <1>4
<1> QED
  BY <1>5 DEF Balanced

-----------------------------------------------------------------------------
(***************************************************************************)
(* The components and their fields.                                        *)
(***************************************************************************)

\* What kind a component is tells it from the others.
LEMMA Kinds ==
    /\ \A d \in Dumpers : Packet(d) \in Components /\ Packet(d).what = "packet" /\ Packet(d).dumper = d
    /\ \A d \in Dumpers : Client(d) \in Components /\ Client(d).what = "client" /\ Client(d).dumper = d
    /\ Modem \in Components /\ Modem.what = "modem"
    /\ Telnet \in Components /\ Telnet.what = "telnet"
BY DEF Packet, Client, Modem, Telnet, Components

\* Every component is one of the four kinds.
LEMMA KindsCover ==
    ASSUME NEW c \in Components
    PROVE  \/ \E d \in Dumpers : c = Packet(d)
           \/ \E d \in Dumpers : c = Client(d)
           \/ c = Modem
           \/ c = Telnet
BY DEF Components

\* The descriptor of each component is in its field.
LEMMA TableAt ==
    ASSUME NEW t, NEW m, NEW cl, NEW pk
    PROVE  /\ DOMAIN Table(t, m, cl, pk) = Components
           /\ Table(t, m, cl, pk)[Telnet] = t /\ Table(t, m, cl, pk)[Modem] = m
           /\ \A d \in Dumpers : Table(t, m, cl, pk)[Packet(d)] = pk[d]
           /\ \A d \in Dumpers : Table(t, m, cl, pk)[Client(d)] = cl[d]
BY Kinds DEF Table

\* Tables are equal when their fields are.
LEMMA TableEqual ==
    ASSUME NEW t, NEW m, NEW cl, NEW pk, NEW f, f = [c \in Components |-> f[c]],
           f[Telnet] = t, f[Modem] = m,
           \A d \in Dumpers : f[Packet(d)] = pk[d] /\ f[Client(d)] = cl[d]
    PROVE  Table(t, m, cl, pk) = f
<1> DEFINE g == Table(t, m, cl, pk)
<1>1. g = [c \in Components |-> g[c]]
  BY DEF Table
<1>2. \A c \in Components : g[c] = f[c]
  <2> TAKE c \in Components
  <2>1. CASE \E d \in Dumpers : c = Packet(d)
    BY <2>1, TableAt
  <2>2. CASE \E d \in Dumpers : c = Client(d)
    BY <2>2, TableAt
  <2>3. CASE c \in {Modem, Telnet}
    BY <2>3, TableAt
  <2> QED
    BY <2>1, <2>2, <2>3, KindsCover
<1> HIDE DEF g
<1>3. g = f
  BY <1>1, <1>2
<1> QED
  BY <1>3 DEF g

\* Field looks up the table.
LEMMA FieldIsHeld ==
    ASSUME NEW c \in Components
    PROVE  Field(c) = Held[c]
<1>1. ASSUME NEW d \in Dumpers, c = Packet(d)
      PROVE  Field(c) = Held[c]
  BY <1>1, Kinds DEF Field, Held, Table
<1>2. ASSUME NEW d \in Dumpers, c = Client(d)
      PROVE  Field(c) = Held[c]
  BY <1>2, Kinds DEF Field, Held, Table
<1>3. CASE c = Modem
  BY <1>3, Kinds DEF Field, Held, Table
<1>4. CASE c = Telnet
  BY <1>4, Kinds DEF Field, Held, Table
<1> QED
  BY <1>1, <1>2, <1>3, <1>4, KindsCover

\* Two components are the same only if they are of one kind and one dumper.
LEMMA KindsDiffer ==
    /\ Modem # Telnet
    /\ \A d \in Dumpers : Packet(d) \notin {Modem, Telnet} /\ Client(d) \notin {Modem, Telnet}
    /\ \A d, e \in Dumpers : Packet(d) # Client(e)
    /\ \A d, e \in Dumpers : Packet(d) = Packet(e) => d = e
    /\ \A d, e \in Dumpers : Client(d) = Client(e) => d = e
<1>1. Modem # Telnet
  BY Kinds
<1>2. ASSUME NEW d \in Dumpers
      PROVE  Packet(d) \notin {Modem, Telnet} /\ Client(d) \notin {Modem, Telnet}
  BY Kinds
<1>3. ASSUME NEW d \in Dumpers, NEW e \in Dumpers
      PROVE  Packet(d) # Client(e) /\ (Packet(d) = Packet(e) => d = e) /\ (Client(d) = Client(e) => d = e)
  BY Kinds
<1> QED
  BY <1>1, <1>2, <1>3

\* The comparisons of the loop ask every component, each once.
LEMMA ChainAsksAll ==
    /\ Len(Chain) = 2 * Len(DumperSeq) + 2
    /\ {Chain[i] : i \in 1 .. Len(Chain)} = Components
    /\ \A i, j \in 1 .. Len(Chain) : Chain[i] = Chain[j] => i = j
<1> DEFINE n == Len(DumperSeq)
           Of(i) == DumperSeq[(i + 1) \div 2]
           pairs == [i \in 1 .. 2 * n |-> IF i % 2 = 1 THEN Packet(Of(i)) ELSE Client(Of(i))]
<1>1. n \in Nat
  BY RouterAssumption
<1>2. pairs \in Seq({pairs[i] : i \in 1 .. 2 * n}) /\ Len(pairs) = 2 * n
  BY <1>1
<1>3. Chain = pairs \o <<Modem, Telnet>>
  BY DEF Chain
<1>4. /\ Len(Chain) = 2 * n + 2
      /\ \A i \in 1 .. 2 * n : Chain[i] = pairs[i]
      /\ Chain[2 * n + 1] = Modem /\ Chain[2 * n + 2] = Telnet
  BY <1>1, <1>2, <1>3
<1>5. \A i \in 1 .. 2 * n : (i + 1) \div 2 \in 1 .. n
  BY <1>1
<1>6. ASSUME NEW i \in 1 .. 2 * n
      PROVE  /\ Of(i) \in Dumpers
             /\ i % 2 = 1 => Chain[i] = Packet(Of(i))
             /\ i % 2 # 1 => Chain[i] = Client(Of(i))
  <2>1. Of(i) \in Dumpers
    BY <1>5 DEF Dumpers
  <2>2. Chain[i] = IF i % 2 = 1 THEN Packet(Of(i)) ELSE Client(Of(i))
    BY <1>4
  <2> QED
    BY <2>1, <2>2
<1> HIDE DEF pairs
<1>7. ASSUME NEW e \in Dumpers
      PROVE  \E i, j \in 1 .. Len(Chain) : Chain[i] = Packet(e) /\ Chain[j] = Client(e)
  <2>1. PICK k \in 1 .. n : DumperSeq[k] = e
    BY DEF Dumpers
  <2>2. /\ 2 * k - 1 \in 1 .. 2 * n /\ (2 * k - 1 + 1) \div 2 = k /\ (2 * k - 1) % 2 = 1
        /\ 2 * k \in 1 .. 2 * n /\ (2 * k + 1) \div 2 = k /\ (2 * k) % 2 # 1
    BY <1>1
  <2>3. Of(2 * k - 1) = e /\ Of(2 * k) = e
    BY <2>1, <2>2
  <2>4. Chain[2 * k - 1] = Packet(e) /\ Chain[2 * k] = Client(e)
    BY <1>6, <2>2, <2>3
  <2> QED
    BY <1>1, <1>4, <2>2, <2>4
<1>8. \A i \in 1 .. Len(Chain) : i \in 1 .. 2 * n \/ i = 2 * n + 1 \/ i = 2 * n + 2
  BY <1>1, <1>4
<1>9. \A i \in 1 .. Len(Chain) : Chain[i] \in Components
  <2>1. \A i \in 1 .. 2 * n : Chain[i] \in Components
    BY <1>6, Kinds
  <2> QED
    BY <1>4, <1>8, <2>1, Kinds
<1>10. \A c \in Components : \E i \in 1 .. Len(Chain) : Chain[i] = c
  BY <1>1, <1>4, <1>7, KindsCover
<1>11. ASSUME NEW i \in 1 .. Len(Chain), NEW j \in 1 .. Len(Chain), Chain[i] = Chain[j]
       PROVE  i = j
  <2>1. CASE i \in 1 .. 2 * n /\ j \in 1 .. 2 * n
    <3>1. (i % 2 = 1 <=> j % 2 = 1) /\ Of(i) = Of(j)
      <4>1. PICK a \in Dumpers : /\ a = Of(i)
                                 /\ (i % 2 = 1 => Chain[i] = Packet(a)) /\ (i % 2 # 1 => Chain[i] = Client(a))
        BY <1>6, <2>1
      <4>2. PICK b \in Dumpers : /\ b = Of(j)
                                 /\ (j % 2 = 1 => Chain[j] = Packet(b)) /\ (j % 2 # 1 => Chain[j] = Client(b))
        BY <1>6, <2>1
      <4>3. Packet(a) # Client(b) /\ Client(a) # Packet(b)
        BY KindsDiffer
      <4>4. (Packet(a) = Packet(b) => a = b) /\ (Client(a) = Client(b) => a = b)
        BY KindsDiffer
      <4> QED
        BY <4>1, <4>2, <4>3, <4>4, <1>11
    <3>2. (i + 1) \div 2 = (j + 1) \div 2
      BY <1>5, <2>1, <3>1, RouterAssumption
    <3> QED
      BY <1>1, <2>1, <3>1, <3>2
  <2>2. ASSUME NEW k \in 1 .. 2 * n
        PROVE  Chain[k] \notin {Modem, Telnet}
    BY <1>6, KindsDiffer
  <2> QED
    BY <1>4, <1>8, <1>11, <2>1, <2>2, KindsDiffer
<1> QED
  BY <1>4, <1>9, <1>10, <1>11

\* What the properties say of the components with a descriptor.
LEMMA HoldersAre ==
    /\ Holders = HoldersIn(Held)
    /\ InUse = FdsIn(Held)
    /\ {Watch(Field(c), c) : c \in Holders} = Watched(Held)
<1>1. Holders = {c \in Components : Field(c) # None}
  BY ChainAsksAll DEF Holders
<1>2. Holders = HoldersIn(Held)
  BY <1>1, FieldIsHeld DEF HoldersIn
<1>3. \A c \in Holders : c \in Components /\ Field(c) = Held[c]
  BY <1>1, FieldIsHeld
<1>4. InUse = FdsIn(Held)
  BY <1>2, <1>3 DEF InUse, FdsIn
<1>5. \A c \in Holders : Watch(Field(c), c) = Watch(Held[c], c)
  BY <1>3
<1> QED
  BY <1>2, <1>4, <1>5 DEF Watched

\* The comparisons find the component that holds a descriptor.
LEMMA DispatchFindsHolder ==
    ASSUME Balanced(Held, open, epoll, failures), NEW e \in epoll
    PROVE  Dispatch(e.fd) \in Components /\ Dispatch(e.fd) = e.for
<1>1. PICK c \in HoldersIn(Held) : e = Watch(Held[c], c)
  BY DEF Balanced, Watched
<1>2. e.fd = Held[c] /\ e.for = c /\ c \in Components /\ Held[c] # None
  BY <1>1 DEF Watch, HoldersIn
<1> DEFINE hits == {i \in 1 .. Len(Chain) : Field(Chain[i]) = e.fd}
<1>3. PICK k \in 1 .. Len(Chain) : Chain[k] = c
  BY <1>2, ChainAsksAll
<1>4. k \in hits
  BY <1>2, <1>3, FieldIsHeld
<1>5. ASSUME NEW i \in hits
      PROVE  i = k
  <2>1. Chain[i] \in Components /\ Held[Chain[i]] = Held[c]
    BY <1>2, <1>5, ChainAsksAll, FieldIsHeld
  <2>2. Chain[i] = c
    BY <1>2, <2>1 DEF Balanced, HoldersIn
  <2> QED
    BY <1>3, <2>2, ChainAsksAll
<1>6. hits = {k}
  BY <1>4, <1>5
<1>7. k <= k
  BY ChainAsksAll
<1>8. (CHOOSE i \in hits : \A j \in hits : i <= j) = k
  BY <1>6, <1>7
<1> QED
  BY <1>2, <1>3, <1>4, <1>8 DEF Dispatch

-----------------------------------------------------------------------------
(***************************************************************************)
(* What the handlers do to the table.                                      *)
(***************************************************************************)

\* What a handler leaves behind: only a dumper that listened has a client, and the process
\* goes on or is aborted.
Handled ==
    /\ Steady'
    /\ \A d \in Dumpers : clientFd'[d] # None => d \in listening
    /\ status' \in {status, "aborted"}

\* A handler that does nothing.
LEMMA NothingHappensSteady ==
    ASSUME Steady, OnlyListeners, NothingHappens
    PROVE  Handled /\ clientFd' = clientFd
BY DEF Steady, OnlyListeners, NothingHappens, Handled, FieldsOK, Held, fields

\* A handler that closes what the components S hold and forgets it.
LEMMA ReleaseBalanced ==
    ASSUME Steady, NEW S \in SUBSET Components
    PROVE  /\ FdsOf(Held, S) \subseteq open
           /\ Balanced(Without(Held, S), open \ FdsOf(Held, S), EpollWithout(FdsOf(Held, S)), failures)
<1>1. Balanced(Held, open, epoll, failures)
  BY DEF Steady
<1> QED
  BY <1>1, BalancedRelease DEF EpollWithout

\* The same in one step.
LEMMA ReleaseSteady ==
    ASSUME Steady, NEW S \in SUBSET Components, NEW gone, gone = FdsOf(Held, S),
           Held' = Without(Held, S),
           open' = open \ gone, epoll' = EpollWithout(gone), ClosesOpen(gone), UNCHANGED failures
    PROVE  Balanced(Held', open', epoll', failures') /\ badClose' = FALSE
BY ReleaseBalanced DEF ClosesOpen, Steady

\* What the telnet client is, and the table without it.
LEMMA TelnetIsHeld ==
    /\ Owned(telnetFd) = FdsOf(Held, {Telnet})
    /\ Without(Held, {Telnet}) = Table(None, modemFd, clientFd, packetFd)
<1> DEFINE new == Without(Held, {Telnet})
<1>1. Owned(telnetFd) = FdsOf(Held, {Telnet})
  BY TableAt DEF Owned, Held, FdsOf
<1>2. new[Telnet] = None /\ new[Modem] = modemFd
  BY TableAt, Kinds, KindsDiffer DEF Held, Without
<1>3. \A d \in Dumpers : new[Packet(d)] = packetFd[d] /\ new[Client(d)] = clientFd[d]
  BY TableAt, Kinds, KindsDiffer DEF Held, Without
<1>4. Table(None, modemFd, clientFd, packetFd) = new
  BY <1>2, <1>3, TableEqual DEF Without
<1> QED
  BY <1>1, <1>4

\* _telnetServer_kickClient
LEMMA KickTelnetSteady ==
    ASSUME Steady, OnlyListeners, KickTelnet
    PROVE  Handled
<1>1. Held' = Without(Held, {Telnet})
  BY TelnetIsHeld DEF KickTelnet, Held
<1>2. {Telnet} \in SUBSET Components
  BY Kinds
<1>3. Balanced(Held', open', epoll', failures') /\ badClose' = FALSE
  BY <1>1, <1>2, TelnetIsHeld, ReleaseSteady DEF KickTelnet
<1> QED
  BY <1>3 DEF KickTelnet, Handled, Steady, FieldsOK, OnlyListeners

\* modemClient_disconnect
LEMMA DisconnectModemSteady ==
    ASSUME Steady, OnlyListeners, DisconnectModem
    PROVE  Handled
<1> DEFINE gone == Owned(modemFd)
           new == Without(Held, {Modem})
<1>1. gone = FdsOf(Held, {Modem})
  BY TableAt DEF Owned, Held, FdsOf
<1>2. Held' = new
  <2>1. new[Telnet] = telnetFd /\ new[Modem] = None
    BY TableAt, Kinds, KindsDiffer DEF Held, Without
  <2>2. \A d \in Dumpers : new[Packet(d)] = packetFd[d] /\ new[Client(d)] = clientFd[d]
    BY TableAt, Kinds, KindsDiffer DEF Held, Without
  <2>3. Table(telnetFd, None, clientFd, packetFd) = new
    BY <2>1, <2>2, TableEqual DEF Without
  <2> QED
    BY <2>3 DEF DisconnectModem, Held
<1>3. {Modem} \in SUBSET Components
  BY Kinds
<1>4. Balanced(Held', open', epoll', failures') /\ badClose' = FALSE
  BY <1>1, <1>2, <1>3, ReleaseSteady DEF DisconnectModem
<1> QED
  BY <1>4 DEF DisconnectModem, Handled, Steady, FieldsOK, OnlyListeners

\* What a dumper has and packetDumper_stop closes, and the table without it.
LEMMA DumpIsHeld ==
    ASSUME Steady, NEW d \in Dumpers
    PROVE  /\ DumpFds(d) = FdsOf(Held, {Packet(d), Client(d)})
           /\ Without(Held, {Packet(d), Client(d)}) =
                Table(telnetFd, modemFd, [clientFd EXCEPT ![d] = None], [packetFd EXCEPT ![d] = None])
<1> DEFINE new == Without(Held, {Packet(d), Client(d)})
<1>0. new = [c \in Components |-> IF c \in {Packet(d), Client(d)} THEN None ELSE Held[c]]
  BY DEF Without
<1>1. Held[Packet(d)] = packetFd[d] /\ Held[Client(d)] = clientFd[d]
  BY TableAt DEF Held
<1>2. packetFd[d] = None <=> clientFd[d] = None
  BY DEF Steady
<1>3. DumpFds(d) = FdsOf(Held, {Packet(d), Client(d)})
  BY <1>1, <1>2 DEF DumpFds, FdsOf
<1> HIDE DEF new
<1>4. new[Telnet] = telnetFd /\ new[Modem] = modemFd
  BY <1>0, TableAt, Kinds, KindsDiffer DEF Held
<1>5. ASSUME NEW e \in Dumpers
      PROVE  /\ new[Packet(e)] = [packetFd EXCEPT ![d] = None][e]
             /\ new[Client(e)] = [clientFd EXCEPT ![d] = None][e]
  <2>1. Held[Packet(e)] = packetFd[e] /\ Held[Client(e)] = clientFd[e]
    BY TableAt DEF Held
  <2>2. Packet(e) \in {Packet(d), Client(d)} <=> e = d
    BY KindsDiffer
  <2>3. Client(e) \in {Packet(d), Client(d)} <=> e = d
    BY KindsDiffer
  <2>4. packetFd \in [Dumpers -> Fds \cup {None}] /\ clientFd \in [Dumpers -> Fds \cup {None}]
    BY DEF Steady, FieldsOK
  <2> QED
    BY <1>0, <2>1, <2>2, <2>3, <2>4, Kinds
<1>6. new = [c \in Components |-> new[c]]
  BY <1>0
<1> DEFINE cl == [clientFd EXCEPT ![d] = None]
           pk == [packetFd EXCEPT ![d] = None]
<1>7. \A e \in Dumpers : new[Packet(e)] = pk[e] /\ new[Client(e)] = cl[e]
  BY <1>5
<1> HIDE DEF cl, pk
<1>8. Table(telnetFd, modemFd, cl, pk) = new
  BY <1>4, <1>6, <1>7, TableEqual
<1> QED
  BY <1>3, <1>8 DEF new, cl, pk

\* packetDumper_stop
LEMMA StopDumperSteady ==
    ASSUME Steady, OnlyListeners, NEW d \in Dumpers, StopDumper(d)
    PROVE  Handled /\ clientFd'[d] = None
<1> DEFINE S == {Packet(d), Client(d)}
<1>1. clientFd' = [clientFd EXCEPT ![d] = None] /\ packetFd' = [packetFd EXCEPT ![d] = None]
  BY DEF StopDumper, Steady, FieldsOK
<1>2. Held' = Without(Held, S)
  BY <1>1, DumpIsHeld DEF StopDumper, Held
<1>3. S \in SUBSET Components
  BY Kinds
<1>4. DumpFds(d) = FdsOf(Held, S)
  BY DumpIsHeld
<1>5. Balanced(Held', open', epoll', failures') /\ badClose' = FALSE
  BY <1>2, <1>3, <1>4, ReleaseSteady DEF StopDumper
<1> QED
  BY <1>1, <1>5 DEF StopDumper, Handled, Steady, FieldsOK, OnlyListeners

\* An abort closes and forgets everything.
LEMMA AbortSteady ==
    ASSUME Steady, Abort
    PROVE  Handled /\ clientFd' = [d \in Dumpers |-> None] /\ status' = "aborted"
<1>1. Held' \in [Components -> {None}]
  <2> DEFINE f == [c \in Components |-> None]
  <2>1. Table(None, None, [d \in Dumpers |-> None], [d \in Dumpers |-> None]) = f
    BY TableEqual, Kinds
  <2> QED
    BY <2>1 DEF Abort, Held
<1>2. Balanced(Held', open', epoll', failures')
  BY <1>1, BalancedEmpty DEF Abort, Steady, Balanced
<1> QED
  BY <1>2 DEF Abort, Handled, Steady, FieldsOK

\* Giving the telnet server or the modem a descriptor changes its field and no other.
LEMMA TableSet ==
    ASSUME NEW t, NEW m, NEW cl, NEW pk, NEW fd
    PROVE  /\ With(Table(t, m, cl, pk), Telnet, fd) = Table(fd, m, cl, pk)
           /\ With(Table(t, m, cl, pk), Modem, fd) = Table(t, fd, cl, pk)
<1> DEFINE T == Table(t, m, cl, pk)
<1>0. T = [c \in Components |-> T[c]]
  BY DEF Table
<1>1. /\ T = [c \in Components |-> T[c]] /\ T[Telnet] = t /\ T[Modem] = m
      /\ \A e \in Dumpers : T[Packet(e)] = pk[e] /\ T[Client(e)] = cl[e]
  BY <1>0, TableAt
<1> HIDE DEF T
<1>2. With(T, Telnet, fd) = Table(fd, m, cl, pk)
  <2> DEFINE f == With(T, Telnet, fd)
  <2>1. f = [c \in Components |-> f[c]] /\ f[Telnet] = fd /\ f[Modem] = m
    BY <1>1, Kinds, KindsDiffer DEF With
  <2>2. ASSUME NEW e \in Dumpers
        PROVE  f[Packet(e)] = pk[e] /\ f[Client(e)] = cl[e]
    BY <1>1, Kinds, KindsDiffer DEF With
  <2> HIDE DEF f
  <2>3. Table(fd, m, cl, pk) = f
    BY <2>1, <2>2, TableEqual
  <2> QED
    BY <2>3 DEF f
<1>3. With(T, Modem, fd) = Table(t, fd, cl, pk)
  <2> DEFINE f == With(T, Modem, fd)
  <2>1. f = [c \in Components |-> f[c]] /\ f[Telnet] = t /\ f[Modem] = fd
    BY <1>1, Kinds, KindsDiffer DEF With
  <2>2. ASSUME NEW e \in Dumpers
        PROVE  f[Packet(e)] = pk[e] /\ f[Client(e)] = cl[e]
    BY <1>1, Kinds, KindsDiffer DEF With
  <2> HIDE DEF f
  <2>3. Table(t, fd, cl, pk) = f
    BY <2>1, <2>2, TableEqual
  <2> QED
    BY <2>3 DEF f
<1> QED
  BY <1>2, <1>3 DEF T

\* The same for the client and the packet socket of a dumper.
LEMMA TableSetDump ==
    ASSUME NEW t, NEW m, NEW cl, NEW pk, NEW fd,
           cl = [e \in Dumpers |-> cl[e]], pk = [e \in Dumpers |-> pk[e]], NEW d \in Dumpers
    PROVE  /\ With(Table(t, m, cl, pk), Client(d), fd) = Table(t, m, With(cl, d, fd), pk)
           /\ With(Table(t, m, cl, pk), Packet(d), fd) = Table(t, m, cl, With(pk, d, fd))
<1> DEFINE T == Table(t, m, cl, pk)
<1>0. T = [c \in Components |-> T[c]]
  BY DEF Table
<1>1. /\ T = [c \in Components |-> T[c]] /\ T[Telnet] = t /\ T[Modem] = m
      /\ \A e \in Dumpers : T[Packet(e)] = pk[e] /\ T[Client(e)] = cl[e]
  BY <1>0, TableAt
<1> HIDE DEF T
<1>2. With(T, Client(d), fd) = Table(t, m, With(cl, d, fd), pk)
  <2> DEFINE f == With(T, Client(d), fd)
  <2>1. f = [c \in Components |-> f[c]] /\ f[Telnet] = t /\ f[Modem] = m
    BY <1>1, Kinds, KindsDiffer DEF With
  <2>2. ASSUME NEW e \in Dumpers
        PROVE  f[Packet(e)] = pk[e] /\ f[Client(e)] = With(cl, d, fd)[e]
    BY <1>1, Kinds, KindsDiffer DEF With
  <2> DEFINE g == With(cl, d, fd)
  <2>3. \A e \in Dumpers : f[Packet(e)] = pk[e] /\ f[Client(e)] = g[e]
    BY <2>2
  <2> HIDE DEF f, g
  <2>4. Table(t, m, g, pk) = f
    BY <2>1, <2>3, TableEqual, SMTT(60)
  <2> QED
    BY <2>4 DEF f, g
<1>3. With(T, Packet(d), fd) = Table(t, m, cl, With(pk, d, fd))
  <2> DEFINE f == With(T, Packet(d), fd)
  <2>1. f = [c \in Components |-> f[c]] /\ f[Telnet] = t /\ f[Modem] = m
    BY <1>1, Kinds, KindsDiffer DEF With
  <2>2. ASSUME NEW e \in Dumpers
        PROVE  f[Packet(e)] = With(pk, d, fd)[e] /\ f[Client(e)] = cl[e]
    BY <1>1, Kinds, KindsDiffer DEF With
  <2> DEFINE g == With(pk, d, fd)
  <2>3. \A e \in Dumpers : f[Packet(e)] = g[e] /\ f[Client(e)] = cl[e]
    BY <2>2
  <2> HIDE DEF f, g
  <2>4. Table(t, m, cl, g) = f
    BY <2>1, <2>3, TableEqual
  <2> QED
    BY <2>4 DEF f, g
<1> QED
  BY <1>2, <1>3 DEF T

\* telnetServer_onListenFd
LEMMA TelnetAcceptsSteady ==
    ASSUME Steady, OnlyListeners, TelnetAccepts
    PROVE  Handled
<1>1. CASE Full(open)
  BY <1>1, NothingHappensSteady DEF TelnetAccepts
<1>2. CASE ~Full(open)
  <2> DEFINE fd == LowestFree(open)
             gone == Owned(telnetFd)
             less == Without(Held, {Telnet})
  <2>1. fd \in Fds \ open
    BY <1>2, LowestFreeIsFree
  <2>2. {Telnet} \in SUBSET Components /\ gone = FdsOf(Held, {Telnet})
    BY Kinds, TelnetIsHeld
  <2>3. /\ gone \subseteq open
        /\ Balanced(less, open \ gone, EpollWithout(gone), failures)
    BY <2>2, ReleaseBalanced
  <2>4. less = Table(None, modemFd, clientFd, packetFd)
    BY TelnetIsHeld
  <2> HIDE DEF fd, gone, less
  <2>5. open' = (open \cup {fd}) \ gone /\ badClose' = FALSE
    BY <1>2, <2>3 DEF TelnetAccepts, ClosesOpen, Steady, fd, gone
  <2>6. open' = (open \ gone) \cup {fd} /\ fd \in Fds \ (open \ gone)
    BY <2>1, <2>3, <2>5
  <2>7. UNCHANGED <<status, modemFd, clientFd, packetFd>>
    BY <1>2 DEF TelnetAccepts
  <2>8. less[Telnet] = None /\ Telnet \in Components
    BY <2>4, TableAt, Kinds
  <2>9. CASE telnetFd' = fd /\ epoll' = EpollWithout(gone) \cup {Watch(fd, Telnet)} /\ UNCHANGED failures
    <3>1. Balanced(With(less, Telnet, fd), (open \ gone) \cup {fd},
                   EpollWithout(gone) \cup {Watch(fd, Telnet)}, failures)
      BY <2>3, <2>6, <2>8, BalancedAcquire
    <3>2. Held' = With(less, Telnet, fd)
      BY <2>4, <2>7, <2>9, TableSet DEF Held
    <3>3. Balanced(Held', open', epoll', failures')
      BY <2>6, <2>9, <3>1, <3>2
    <3> QED
      BY <2>1, <2>5, <2>7, <2>9, <3>3 DEF Handled, Steady, FieldsOK, OnlyListeners
  <2>10. CASE telnetFd' = None /\ epoll' = EpollWithout(gone) /\ failures' = failures + 1
    <3>1. Balanced(less, (open \ gone) \cup {fd}, EpollWithout(gone), failures + 1)
      BY <2>3, <2>6, BalancedForget
    <3>2. Held' = less
      BY <2>4, <2>7, <2>10 DEF Held
    <3>3. Balanced(Held', open', epoll', failures')
      BY <2>6, <2>10, <3>1, <3>2
    <3> QED
      BY <2>5, <2>7, <2>10, <3>3 DEF Handled, Steady, FieldsOK, OnlyListeners
  <2> QED
    BY <1>2, <2>9, <2>10 DEF TelnetAccepts, fd, gone
<1> QED
  BY <1>1, <1>2

\* packetDumper_onListenFd
LEMMA DumperAcceptsSteady ==
    ASSUME Steady, OnlyListeners, NEW d \in Dumpers \cap listening, DumperAccepts(d)
    PROVE  Handled
<1> DEFINE new == LowestFree(open)
           gone == DumpFds(d)
           rest == (open \cup {new}) \ gone
           S == {Packet(d), Client(d)}
           less == Without(Held, S)
           noClient == [clientFd EXCEPT ![d] = None]
           noPacket == [packetFd EXCEPT ![d] = None]
<1>1. CASE Full(open)
  BY <1>1, NothingHappensSteady DEF DumperAccepts
<1>2. CASE Abort
  BY <1>2, AbortSteady
<1>3. CASE ~Full(open) /\ ~Full(rest) /\ ~Abort
  <2> DEFINE packet == LowestFree(rest)
  <2>1. new \in Fds \ open /\ packet \in Fds \ rest
    BY <1>3, LowestFreeIsFree
  <2>2. S \in SUBSET Components /\ gone = FdsOf(Held, S)
    BY Kinds, DumpIsHeld
  <2>3. /\ gone \subseteq open
        /\ Balanced(less, open \ gone, EpollWithout(gone), failures)
    BY <2>2, ReleaseBalanced
  <2>4. less = Table(telnetFd, modemFd, noClient, noPacket)
    BY DumpIsHeld
  <2>5. /\ noClient[d] = None /\ noPacket[d] = None
        /\ noClient = [e \in Dumpers |-> noClient[e]] /\ noPacket = [e \in Dumpers |-> noPacket[e]]
        /\ noClient \in [Dumpers -> Fds \cup {None}] /\ noPacket \in [Dumpers -> Fds \cup {None}]
        /\ \A e \in Dumpers : noPacket[e] = None <=> noClient[e] = None
    BY DEF Steady, FieldsOK
  <2>6. /\ UNCHANGED <<status, telnetFd, modemFd, failures>> /\ ClosesOpen(gone)
        /\ \/ /\ clientFd' = [clientFd EXCEPT ![d] = new] /\ packetFd' = [packetFd EXCEPT ![d] = packet]
              /\ open' = rest \cup {packet}
              /\ epoll' = EpollWithout(gone) \cup {Watch(new, Client(d)), Watch(packet, Packet(d))}
           \/ /\ clientFd' = noClient /\ packetFd' = noPacket
              /\ open' = rest \ {new} /\ epoll' = EpollWithout(gone)
    BY <1>3, Zenon DEF DumperAccepts
  <2>7. badClose' = FALSE
    BY <2>3, <2>6 DEF ClosesOpen, Steady
  <2>8. rest = (open \ gone) \cup {new} /\ new \in Fds \ (open \ gone) /\ rest \ {new} = open \ gone
    BY <2>1, <2>3
  <2>9. CASE /\ clientFd' = [clientFd EXCEPT ![d] = new] /\ packetFd' = [packetFd EXCEPT ![d] = packet]
             /\ open' = rest \cup {packet}
             /\ epoll' = EpollWithout(gone) \cup {Watch(new, Client(d)), Watch(packet, Packet(d))}
    <3> HIDE DEF new, gone, rest, less, noClient, noPacket, packet
    <3> DEFINE one == With(less, Client(d), new)
               two == With(one, Packet(d), packet)
               client == With(noClient, d, new)
    <3>1. less[Client(d)] = None
      BY <2>4, <2>5, TableAt
    <3>2. one = Table(telnetFd, modemFd, client, noPacket)
      BY <2>4, <2>5, TableSetDump
    <3>3. one[Packet(d)] = None
      BY <3>2, <2>5, TableAt
    <3>4. two = Table(telnetFd, modemFd, client, With(noPacket, d, packet))
      <4>1. client = [e \in Dumpers |-> client[e]]
        BY <2>5 DEF With
      <4> HIDE DEF client, one
      <4> QED
        BY <2>5, <3>2, <4>1, TableSetDump
    <3>5. clientFd' = client /\ packetFd' = With(noPacket, d, packet)
      BY <2>9 DEF noClient, noPacket, With, Steady, FieldsOK
    <3>6. Held' = two
      BY <3>4, <3>5, <2>6 DEF Held
    <3> HIDE DEF one, two
    <3>7. Balanced(one, rest, EpollWithout(gone) \cup {Watch(new, Client(d))}, failures)
      BY <2>3, <2>8, <3>1, Kinds, BalancedAcquire DEF one
    <3>8. Balanced(two, rest \cup {packet},
                   (EpollWithout(gone) \cup {Watch(new, Client(d))}) \cup {Watch(packet, Packet(d))}, failures)
      BY <2>1, <3>3, <3>7, Kinds, BalancedAcquire DEF two
    <3>9. epoll' = (EpollWithout(gone) \cup {Watch(new, Client(d))}) \cup {Watch(packet, Packet(d))}
      BY <2>9
    <3>10. Balanced(Held', open', epoll', failures')
      BY <2>6, <2>9, <3>6, <3>8, <3>9
    <3>11. new # None /\ packet # None /\ new \in Fds /\ packet \in Fds
      BY <2>1, FdsFinite
    <3>12. \A e \in Dumpers : packetFd'[e] = None <=> clientFd'[e] = None
      BY <2>5, <3>5, <3>11 DEF With
    <3>13. FieldsOK'
      BY <2>5, <2>6, <3>5, <3>11 DEF FieldsOK, Steady, With
    <3>14. \A e \in Dumpers : clientFd'[e] # None => e \in listening
      BY <2>9 DEF OnlyListeners, Steady, FieldsOK
    <3> QED
      BY <2>6, <2>7, <3>10, <3>12, <3>13, <3>14 DEF Handled, Steady
  <2>10. CASE /\ clientFd' = noClient /\ packetFd' = noPacket
              /\ open' = rest \ {new} /\ epoll' = EpollWithout(gone)
    <3>1. Balanced(Held', open', epoll', failures')
      BY <2>3, <2>4, <2>6, <2>8, <2>10 DEF Held
    <3>2. FieldsOK' /\ \A e \in Dumpers : packetFd'[e] = None <=> clientFd'[e] = None
      BY <2>5, <2>6, <2>10 DEF FieldsOK, Steady
    <3>3. \A e \in Dumpers : clientFd'[e] # None => e \in listening
      BY <2>10 DEF OnlyListeners, Steady, FieldsOK
    <3> QED
      BY <2>6, <2>7, <3>1, <3>2, <3>3 DEF Handled, Steady
  <2> QED
    BY <2>6, <2>9, <2>10
<1>4. Full(open) \/ Abort \/ ~Full(rest)
  BY Zenon DEF DumperAccepts
<1> QED
  BY <1>1, <1>2, <1>3, <1>4

\* modemClient_onTimerFd
LEMMA ModemTimerSteady ==
    ASSUME Steady, OnlyListeners, ModemTimer
    PROVE  Handled
<1>1. CASE NothingHappens
  BY <1>1, NothingHappensSteady
<1>2. CASE modemFd # None /\ DisconnectModem
  BY <1>2, DisconnectModemSteady
<1>3. CASE /\ modemFd = None /\ ~Full(open) /\ modemFd' = LowestFree(open)
           /\ open' = open \cup {modemFd'} /\ epoll' = epoll \cup {Watch(modemFd', Modem)}
           /\ UNCHANGED <<status, telnetFd, clientFd, packetFd, badClose, failures>>
  <2>1. modemFd' \in Fds \ open
    BY <1>3, LowestFreeIsFree
  <2>2. Held[Modem] = None /\ Modem \in Components
    BY <1>3, TableAt, Kinds DEF Held
  <2>3. Balanced(With(Held, Modem, modemFd'), open \cup {modemFd'}, epoll \cup {Watch(modemFd', Modem)}, failures)
    BY <2>1, <2>2, BalancedAcquire DEF Steady
  <2>4. Held' = With(Held, Modem, modemFd')
    BY <1>3, TableSet DEF Held
  <2>5. Balanced(Held', open', epoll', failures')
    BY <1>3, <2>3, <2>4
  <2> QED
    BY <1>3, <2>1, <2>5 DEF Handled, Steady, FieldsOK, OnlyListeners
<1> QED
  BY <1>1, <1>2, <1>3 DEF ModemTimer

-----------------------------------------------------------------------------
(***************************************************************************)
(* The order of the steps of start().                                      *)
(***************************************************************************)

\* The steps of init.
LEMMA InitStepsAre ==
    /\ Len(InitSteps) = 8 /\ InitSteps[1] = <<"mounted", "/proc">> /\ InitSteps[4] = <<"mounted", "/sys">>
    /\ InitSteps[5] = <<"mounted", "/dev">> /\ InitSteps[6] = <<"mounted", "/devpts">>
    /\ \A i \in 1 .. 8 : InitSteps[i] # <<"sysctl", "ip_forward">>
<1>1. Len(InitSteps) = 8 /\ InitSteps[1] = <<"mounted", "/proc">> /\ InitSteps[2] = <<"sysctl", "overcommit_memory">>
  BY DEF InitSteps
<1>2. InitSteps[3] = <<"sysctl", "panic_on_oom">> /\ InitSteps[4] = <<"mounted", "/sys">> /\ InitSteps[5] = <<"mounted", "/dev">>
  BY DEF InitSteps
<1>3. InitSteps[6] = <<"mounted", "/devpts">> /\ InitSteps[7] = <<"run", "/shell">> /\ InitSteps[8] = <<"run", "/router">>
  BY DEF InitSteps
<1> QED
  BY <1>1, <1>2, <1>3

\* The steps of start().
LEMMA BootStepsAre ==
    /\ Len(BootSteps) = 25
    /\ BootSteps[1] = disk_mount /\ BootSteps[2] = genetlink_init /\ BootSteps[3] = acpi_init
    /\ BootSteps[4] = ksmb_init /\ BootSteps[5] = config_init /\ BootSteps[6] = iptables_configure
    /\ BootSteps[7] = Sysctl("arp_ignore") /\ BootSteps[8] = Sysctl("ignore_routes_with_linkdown")
    /\ BootSteps[9] = config_addIf("wan") /\ BootSteps[10] = config_setMaster("eth0", "wan")
    /\ BootSteps[11] = config_addIf("lan") /\ BootSteps[12] = config_addIpv4("lan")
    /\ BootSteps[13] = config_setMaster("eth4", "lan") /\ BootSteps[14] = config_addIf("wg0")
    /\ BootSteps[15] = config_addWgRoute /\ BootSteps[16] = config_setWgDevice
    /\ BootSteps[17] = Sysctl("ip_forward") /\ BootSteps[18] = hostapd_init
    /\ BootSteps[19] = dhcpClient_init("wanDhcp", "wan") /\ BootSteps[20] = UsbInit
    /\ BootSteps[21] = packetDumper_init("wan") /\ BootSteps[22] = dhcpServer_init
    /\ BootSteps[23] = modemClient_init /\ BootSteps[24] = telnetServer_init /\ BootSteps[25] = EpollSetup
<1> DEFINE first == <<disk_mount, genetlink_init, acpi_init, ksmb_init, config_init, iptables_configure>>
           last == <<hostapd_init, dhcpClient_init("wanDhcp", "wan"), UsbInit, packetDumper_init("wan"),
                     dhcpServer_init, modemClient_init, telnetServer_init, EpollSetup>>
           all == {first[i] : i \in 1 .. 6} \cup {config_configure[i] : i \in 1 .. 11} \cup {last[i] : i \in 1 .. 8}
<1>1. first \in Seq(all) /\ config_configure \in Seq(all) /\ last \in Seq(all)
  BY DEF config_configure
<1>2. Len(first) = 6 /\ Len(config_configure) = 11 /\ Len(last) = 8
  BY DEF config_configure
<1>3. BootSteps = (first \o config_configure) \o last
  BY DEF BootSteps
<1>4. /\ first[1] = disk_mount /\ first[2] = genetlink_init /\ first[3] = acpi_init
      /\ first[4] = ksmb_init /\ first[5] = config_init /\ first[6] = iptables_configure
  OBVIOUS
<1>5. /\ last[1] = hostapd_init /\ last[2] = dhcpClient_init("wanDhcp", "wan") /\ last[3] = UsbInit
      /\ last[4] = packetDumper_init("wan") /\ last[5] = dhcpServer_init
      /\ last[6] = modemClient_init /\ last[7] = telnetServer_init /\ last[8] = EpollSetup
  OBVIOUS
<1> HIDE DEF first, last, all
<1> DEFINE both == first \o config_configure
<1>6. /\ both \in Seq(all) /\ Len(both) = Len(first) + Len(config_configure)
      /\ \A i \in 1 .. Len(first) : both[i] = first[i]
      /\ \A i \in Len(first) + 1 .. Len(first) + Len(config_configure) : both[i] = config_configure[i - Len(first)]
  BY <1>1
<1>7. BootSteps = both \o last /\ both \in Seq(all)
  BY <1>3, <1>6
<1> HIDE DEF both
<1>8. /\ Len(BootSteps) = Len(both) + Len(last)
      /\ \A i \in 1 .. Len(both) : BootSteps[i] = both[i]
      /\ \A i \in Len(both) + 1 .. Len(both) + Len(last) : BootSteps[i] = last[i - Len(both)]
  BY <1>1, <1>7
<1>9. /\ config_configure[1] = Sysctl("arp_ignore")
      /\ config_configure[2] = Sysctl("ignore_routes_with_linkdown")
      /\ config_configure[3] = config_addIf("wan") /\ config_configure[4] = config_setMaster("eth0", "wan")
      /\ config_configure[5] = config_addIf("lan") /\ config_configure[6] = config_addIpv4("lan")
      /\ config_configure[7] = config_setMaster("eth4", "lan") /\ config_configure[8] = config_addIf("wg0")
      /\ config_configure[9] = config_addWgRoute /\ config_configure[10] = config_setWgDevice
      /\ config_configure[11] = Sysctl("ip_forward")
  BY DEF config_configure
<1>10. /\ Len(both) = 17 /\ Len(BootSteps) = 25
       /\ \A i \in 1 .. 6 : BootSteps[i] = first[i]
       /\ \A i \in 7 .. 17 : BootSteps[i] = config_configure[i - 6]
       /\ \A i \in 18 .. 25 : BootSteps[i] = last[i - 17]
  BY <1>2, <1>6, <1>8
<1> QED
  BY <1>4, <1>5, <1>9, <1>10

\* What a step that is not optional adds is there after it.
LEMMA AddsAreEstablished ==
    ASSUME NEW k \in 0 .. Len(BootSteps), NEW j \in 1 .. k, ~BootSteps[j].optional, NEW f \in BootSteps[j].adds
    PROVE  f \in Established(k)
BY DEF Established

\* What later steps need, and the step that adds it.
LEMMA Providers ==
    ASSUME NEW k \in 0 .. Len(BootSteps)
    PROVE  /\ {<<"mounted", "/dev">>, <<"mounted", "/sys">>, <<"mounted", "/proc">>, <<"mounted", "/devpts">>,
                 Link("eth0"), Link("eth4")} \subseteq Established(k)
           /\ k >= 1 => Disk \in Established(k)
           /\ k >= 2 => Fd("genetlink") \in Established(k)
           /\ k >= 3 => Fd("acpi") \in Established(k)
           /\ k >= 4 => Fd("ksmb") \in Established(k)
           /\ k >= 5 => Fd("rtnetlink") \in Established(k)
           /\ k >= 6 => <<"masquerade">> \in Established(k)
           /\ k >= 9 => Link("wan") \in Established(k)
           /\ k >= 11 => Link("lan") \in Established(k)
           /\ k >= 12 => <<"address", "lan">> \in Established(k)
           /\ k >= 14 => Link("wg0") \in Established(k) /\ Up("wg0") \in Established(k)
           /\ k >= 19 => Fd("wanDhcp") \in Established(k)
           /\ k >= 21 => Fd("wan") \in Established(k)
           /\ k >= 22 => Fd("dhcpServer") \in Established(k)
           /\ k >= 23 => Fd("modemTimer") \in Established(k)
           /\ k >= 24 => Fd("telnet") \in Established(k)
<1> USE BootStepsAre, AddsAreEstablished DEF Step
<1>0. {<<"mounted", "/dev">>, <<"mounted", "/sys">>, <<"mounted", "/proc">>, <<"mounted", "/devpts">>,
        Link("eth0"), Link("eth4")} \subseteq Established(k)
  <2>1. {<<"mounted", "/dev">>, <<"mounted", "/sys">>, <<"mounted", "/proc">>, <<"mounted", "/devpts">>,
          Link("eth0"), Link("eth4")} \subseteq Base
    <3>1. \A i \in 1 .. Len(InitSteps) : InitSteps[i] \in Base
      BY DEF Base
    <3>2. 1 \in 1 .. Len(InitSteps) /\ 4 \in 1 .. Len(InitSteps) /\ 5 \in 1 .. Len(InitSteps) /\ 6 \in 1 .. Len(InitSteps)
      BY InitStepsAre
    <3>3. InitSteps[1] \in Base /\ InitSteps[4] \in Base /\ InitSteps[5] \in Base /\ InitSteps[6] \in Base
      BY <3>1, <3>2, Zenon
    <3>4. Link("eth0") \in Base /\ Link("eth4") \in Base
      BY DEF Base
    <3> QED
      BY <3>3, <3>4, InitStepsAre, Zenon
  <2> QED
    BY <2>1 DEF Established
<1>1. k >= 1 => Disk \in Established(k)
  BY DEF disk_mount
<1>2. k >= 2 => Fd("genetlink") \in Established(k)
  BY DEF genetlink_init
<1>3. k >= 3 => Fd("acpi") \in Established(k)
  BY DEF acpi_init
<1>4. k >= 4 => Fd("ksmb") \in Established(k)
  BY DEF ksmb_init
<1>5. k >= 5 => Fd("rtnetlink") \in Established(k)
  BY DEF config_init
<1>6. k >= 6 => <<"masquerade">> \in Established(k)
  BY DEF iptables_configure
<1>9. k >= 9 => Link("wan") \in Established(k)
  BY DEF config_addIf
<1>11. k >= 11 => Link("lan") \in Established(k)
  BY DEF config_addIf
<1>12. k >= 12 => <<"address", "lan">> \in Established(k)
  BY DEF config_addIpv4
<1>14. k >= 14 => Link("wg0") \in Established(k) /\ Up("wg0") \in Established(k)
  BY DEF config_addIf
<1>19. k >= 19 => Fd("wanDhcp") \in Established(k)
  BY DEF dhcpClient_init
<1>21. k >= 21 => Fd("wan") \in Established(k)
  BY DEF packetDumper_init
<1>22. k >= 22 => Fd("dhcpServer") \in Established(k)
  BY DEF dhcpServer_init
<1>23. k >= 23 => Fd("modemTimer") \in Established(k)
  BY DEF modemClient_init
<1>24. k >= 24 => Fd("telnet") \in Established(k)
  BY DEF telnetServer_init
<1> QED
  BY <1>0, <1>1, <1>2, <1>3, <1>4, <1>5, <1>6, <1>9, <1>11, <1>12, <1>14, <1>19, <1>21, <1>22, <1>23, <1>24

\* Every step finds what it needs of the earlier ones.
LEMMA NeedsAreMet ==
    ASSUME NEW k \in 0 .. Len(BootSteps) - 1
    PROVE  BootSteps[k + 1].needs \subseteq Established(k)
<1>0. k \in 0 .. 24 /\ k \in 0 .. Len(BootSteps)
  BY BootStepsAre
<1> USE <1>0, Providers, BootStepsAre DEF Step, Optional
<1>1. CASE k \in {0, 1, 2, 3, 4, 5}
  BY <1>1 DEF disk_mount, genetlink_init, acpi_init, ksmb_init, config_init, iptables_configure
<1>2. CASE k \in {6, 7, 16}
  BY <1>2 DEF Sysctl
<1>3. CASE k \in {8, 10, 13}
  BY <1>3 DEF config_addIf
<1>4. CASE k \in {9, 12}
  BY <1>4 DEF config_setMaster
<1>5. CASE k \in {11, 14, 15}
  BY <1>5 DEF config_addIpv4, config_addWgRoute, config_setWgDevice
<1>6. CASE k \in {17, 18, 19}
  BY <1>6 DEF hostapd_init, dhcpClient_init, UsbInit
<1>7. CASE k \in {20, 21, 22}
  BY <1>7 DEF packetDumper_init, dhcpServer_init, modemClient_init
<1>8. CASE k = 23
  BY <1>8 DEF telnetServer_init
<1>9. CASE k = 24
  BY <1>9 DEF EpollSetup
<1> QED
  BY <1>0, <1>1, <1>2, <1>3, <1>4, <1>5, <1>6, <1>7, <1>8, <1>9

\* Forwarding is enabled after the packet filter is there, and only two dumpers are started.
LEMMA AddsAndListeners ==
    ASSUME NEW k \in 1 .. Len(BootSteps)
    PROVE  /\ <<"sysctl", "ip_forward">> \in BootSteps[k].adds => k > 6
           /\ BootSteps[k].listen \subseteq {"wan", "usb"}
<1>0. k \in 1 .. 25
  BY BootStepsAre
<1> USE BootStepsAre DEF Step, Optional, Fd, Link, Up, Disk
<1>1. CASE k \in {1, 2, 3, 4, 5, 6}
  BY <1>1 DEF disk_mount, genetlink_init, acpi_init, ksmb_init, config_init, iptables_configure
<1>2. CASE k \in {7, 8, 17}
  BY <1>2 DEF Sysctl
<1>3. CASE k \in {9, 11, 14}
  BY <1>3 DEF config_addIf
<1>4. CASE k \in {10, 13}
  BY <1>4 DEF config_setMaster
<1>5. CASE k \in {12, 15, 16}
  BY <1>5 DEF config_addIpv4, config_addWgRoute, config_setWgDevice
<1>6. CASE k \in {18, 19, 20}
  BY <1>6 DEF hostapd_init, dhcpClient_init, UsbInit
<1>7. CASE k \in {21, 22, 23}
  BY <1>7 DEF packetDumper_init, dhcpServer_init, modemClient_init
<1>8. CASE k \in {24, 25}
  BY <1>8 DEF telnetServer_init, EpollSetup
<1> QED
  BY <1>0, <1>1, <1>2, <1>3, <1>4, <1>5, <1>6, <1>7, <1>8

\* A step that is not optional adds to what is established.
LEMMA EstablishedGrows ==
    ASSUME NEW k \in 0 .. Len(BootSteps) - 1, NEW F, Established(k) \subseteq F,
           NEW G, F \subseteq G, BootSteps[k + 1].adds \subseteq G \/ BootSteps[k + 1].optional
    PROVE  Established(k + 1) \subseteq G
<1> SUFFICES ASSUME NEW f \in Established(k + 1)
             PROVE  f \in G
  OBVIOUS
<1>1. CASE f \in Base
  BY <1>1 DEF Established
<1>2. ASSUME NEW j \in 1 .. k + 1, ~BootSteps[j].optional, f \in BootSteps[j].adds
      PROVE  f \in G
  <2>1. CASE j = k + 1
    BY <1>2, <2>1
  <2>2. CASE j \in 1 .. k
    <3>1. f \in Established(k)
      BY <1>2, <2>2 DEF Established
    <3> QED
      BY <3>1
  <2> QED
    BY <2>1, <2>2, BootStepsAre
<1> QED
  BY <1>1, <1>2 DEF Established

-----------------------------------------------------------------------------
(***************************************************************************)
(* The steps of the loop and of the shut down.                             *)
(***************************************************************************)

\* The handler of an event.
LEMMA HandleSteady ==
    ASSUME Steady, OnlyListeners, NEW c \in Components, Handle(c)
    PROVE  Handled
<1>1. ASSUME NEW d \in Dumpers, c = Packet(d)
      PROVE  Handled
  <2>1. c.what = "packet" /\ c.dumper = d
    BY <1>1, Kinds
  <2>2. NothingHappens \/ Abort \/ StopDumper(d)
    BY <2>1 DEF Handle
  <2> QED
    BY <2>2, NothingHappensSteady, AbortSteady, StopDumperSteady
<1>2. ASSUME NEW d \in Dumpers, c = Client(d)
      PROVE  Handled
  <2>1. c.what = "client" /\ c.dumper = d
    BY <1>2, Kinds
  <2>2. StopDumper(d)
    BY <2>1 DEF Handle
  <2> QED
    BY <2>2, StopDumperSteady
<1>3. CASE c = Modem
  <2>1. c.what = "modem"
    BY <1>3, Kinds
  <2>2. NothingHappens \/ DisconnectModem
    BY <2>1 DEF Handle
  <2> QED
    BY <2>2, NothingHappensSteady, DisconnectModemSteady
<1>4. CASE c = Telnet
  <2>1. c.what = "telnet"
    BY <1>4, Kinds
  <2>2. NothingHappens \/ KickTelnet
    BY <2>1 DEF Handle
  <2> QED
    BY <2>2, NothingHappensSteady, KickTelnetSteady
<1> QED
  BY <1>1, <1>2, <1>3, <1>4, KindsCover

\* An iteration of the loop.
LEMMA LoopStep ==
    ASSUME TypeOK, LoopInv, LoopNext, UNCHANGED listening
    PROVE  /\ LoopInv' /\ status = "running"
           /\ status' \in {"running", "stopping", "aborted"}
<1>0. Steady /\ OnlyListeners /\ misled = FALSE
  BY DEF LoopInv
<1>1. CASE Wait
  <2>1. Steady' /\ OnlyListeners' /\ misled' = FALSE /\ status = "running" /\ status' = "running"
    BY <1>0, <1>1 DEF Wait, Steady, OnlyListeners, FieldsOK, Held, fields, ghosts
  <2>2. \E e \in epoll' : events' = <<e>>
    BY <1>1 DEF Wait
  <2> QED
    BY <2>1, <2>2 DEF LoopInv
<1>2. CASE HandleEvent
  <2>1. PICK e \in epoll : events = <<e>>
    BY <1>2 DEF HandleEvent, LoopInv
  <2> DEFINE c == Dispatch(e.fd)
  <2>2. c \in Components /\ c = e.for
    BY <1>0, DispatchFindsHolder DEF Steady
  <2>3. Head(events) = e /\ Tail(events) = <<>>
    BY <2>1
  <2>4. Handle(c) /\ misled' = (misled \/ c # e.for) /\ events' = <<>> /\ status = "running"
    BY <1>2, <2>3 DEF HandleEvent
  <2> HIDE DEF c
  <2>5. Handled
    BY <1>0, <2>2, <2>4, HandleSteady
  <2>6. misled' = FALSE
    BY <1>0, <2>2, <2>4
  <2> QED
    BY <2>4, <2>5, <2>6 DEF LoopInv, Handled, OnlyListeners
<1>3. CASE HandleFixedEvent
  <2>1. Handled
    <3>1. CASE TelnetListenFd
      BY <1>0, <3>1, TelnetAcceptsSteady DEF TelnetListenFd
    <3>2. CASE TelnetPtMasterFd
      BY <1>0, <3>2, KickTelnetSteady DEF TelnetPtMasterFd
    <3>3. CASE DumperListenFd
      <4>1. PICK d \in listening : DumperAccepts(d)
        BY <3>3 DEF DumperListenFd
      <4>2. d \in Dumpers \cap listening
        BY DEF TypeOK
      <4> QED
        BY <1>0, <4>1, <4>2, DumperAcceptsSteady
    <3>4. CASE ModemTimerFd
      BY <1>0, <3>4, ModemTimerSteady DEF ModemTimerFd
    <3> QED
      BY <1>3, <3>1, <3>2, <3>3, <3>4 DEF HandleFixedEvent
  <2>2. status = "running" /\ events = <<>> /\ UNCHANGED <<events, misled>>
    BY <1>3 DEF HandleFixedEvent, TelnetListenFd, TelnetPtMasterFd, DumperListenFd, ModemTimerFd
  <2> QED
    BY <1>0, <2>1, <2>2 DEF LoopInv, Handled, OnlyListeners
<1>4. CASE ChildEnds
  <2>1. Handled
    BY <1>0, <1>4, AbortSteady DEF ChildEnds
  <2> QED
    BY <1>0, <1>4, <2>1 DEF LoopInv, Handled, OnlyListeners, ChildEnds
<1>5. CASE PowerButton
  BY <1>0, <1>5 DEF PowerButton, LoopInv, Steady, OnlyListeners, FieldsOK, Held, fields, ghosts
<1> QED
  BY <1>1, <1>2, <1>3, <1>4, <1>5 DEF LoopNext

\* A deinit function.
LEMMA DeinitSteady ==
    ASSUME Steady, OnlyListeners, NEW name, Deinit(name)
    PROVE  /\ Handled /\ status' = status
           /\ name = "telnet" => telnetFd' = None
           /\ name = "modemTimer" => modemFd' = None
           /\ name \in Dumpers => clientFd'[name] = None
           /\ telnetFd = None => telnetFd' = None
           /\ modemFd = None => modemFd' = None
<1>0. Dumpers \subseteq {"wan", "lan", "usb"}
  BY RouterAssumption DEF Dumpers
<1>1. CASE name = "telnet"
  <2>1. KickTelnet /\ name \notin Dumpers /\ name # "modemTimer"
    BY <1>0, <1>1 DEF Deinit
  <2> QED
    BY <1>1, <2>1, KickTelnetSteady DEF KickTelnet
<1>2. CASE name = "modemTimer"
  <2>1. DisconnectModem /\ name \notin Dumpers /\ name # "telnet"
    BY <1>0, <1>2 DEF Deinit
  <2> QED
    BY <1>2, <2>1, DisconnectModemSteady DEF DisconnectModem
<1>3. CASE name \in Dumpers
  <2>1. StopDumper(name) /\ name # "telnet" /\ name # "modemTimer"
    BY <1>0, <1>3 DEF Deinit
  <2> QED
    BY <1>3, <2>1, StopDumperSteady DEF StopDumper
<1>4. CASE name \notin Dumpers /\ name # "telnet" /\ name # "modemTimer"
  <2>1. NothingHappens
    BY <1>4 DEF Deinit
  <2> QED
    BY <1>4, <2>1, NothingHappensSteady DEF NothingHappens, fields
<1> QED
  BY <1>1, <1>2, <1>3, <1>4

\* A call after the loop that closes something.
LEMMA CloseStepKeeps ==
    ASSUME LoopInv, status = "stopping", NEW name, CloseStep(name), UNCHANGED <<events, misled>>
    PROVE  /\ LoopInv' /\ status' = status
           /\ name = "telnet" => telnetFd' = None
           /\ name = "modemTimer" => modemFd' = None
           /\ telnetFd = None => telnetFd' = None
           /\ modemFd = None => modemFd' = None
<1>1. Steady /\ OnlyListeners /\ events = <<>> /\ misled = FALSE
  BY DEF LoopInv
<1>2. Deinit(name) /\ listening' = listening \ {name}
  BY DEF CloseStep
<1>3. /\ Handled /\ status' = status
      /\ name = "telnet" => telnetFd' = None
      /\ name = "modemTimer" => modemFd' = None
      /\ name \in Dumpers => clientFd'[name] = None
      /\ telnetFd = None => telnetFd' = None
      /\ modemFd = None => modemFd' = None
  BY <1>1, <1>2, DeinitSteady
<1>4. OnlyListeners'
  BY <1>2, <1>3 DEF Handled, OnlyListeners
<1> QED
  BY <1>1, <1>3, <1>4 DEF LoopInv, Handled

\* What can be taken away from the facts without those two about forwarding.
LEMMA ForwardingKept ==
    ASSUME BootInv, NEW F, F = {f \in facts : f[1] # "fd"}
    PROVE  <<"sysctl", "ip_forward">> \in F => <<"masquerade">> \in F
<1>1. <<"masquerade">>[1] # "fd"
  OBVIOUS
<1> QED
  BY <1>1 DEF BootInv

\* A CHECK that fails before the loop.
LEMMA DiesKeeps ==
    ASSUME TypeOK, LoopInv, BootInv, ShutdownInv, Dies, status = "starting", machine = "up", faults' \in Nat,
           step > 0 => faults' > 0
    PROVE  IInv'
<1>1. Handled /\ clientFd' = [d \in Dumpers |-> None] /\ status' = "aborted"
  BY AbortSteady DEF Dies, LoopInv
<1>2. UNCHANGED <<events, misled, listening, machine, booted, reaped, step, holds>>
  BY DEF Dies
<1>3. LoopInv'
  BY <1>1, <1>2 DEF LoopInv, Handled, OnlyListeners
<1>4. failures' \in Nat /\ badClose' \in BOOLEAN
  BY <1>1 DEF Handled, Steady, Balanced
<1>5. TypeOK'
  BY <1>1, <1>2, <1>4 DEF TypeOK, Statuses, Handled, Steady
<1>6. BootInv'
  BY <1>1, <1>2, ForwardingKept DEF BootInv, Dies
<1>7. ShutdownInv'
  BY <1>1, <1>2 DEF ShutdownInv
<1> QED
  BY <1>3, <1>5, <1>6, <1>7 DEF IInv

\* Steps that leave the descriptors alone.
LEMMA LoopUnchanged ==
    ASSUME LoopInv, UNCHANGED <<fields, open, epoll, events, ghosts, listening>>,
           status' = status \/ status # "running"
    PROVE  LoopInv' /\ FieldsOK'
BY DEF LoopInv, Steady, OnlyListeners, FieldsOK, Held, fields, ghosts

-----------------------------------------------------------------------------
(***************************************************************************)
(* The invariant.                                                          *)
(***************************************************************************)

\* It holds before init does anything.
LEMMA InitIInv == Init => IInv
<1> SUFFICES ASSUME Init
             PROVE  IInv
  OBVIOUS
<1> USE DEF Init, LoopInit
<1>1. Held \in [Components -> {None}]
  <2> DEFINE f == [c \in Components |-> None]
  <2>1. Table(None, None, [d \in Dumpers |-> None], [d \in Dumpers |-> None]) = f
    BY TableEqual, Kinds
  <2> QED
    BY <2>1 DEF Held
<1>2. Balanced(Held, open, epoll, failures)
  BY <1>1, BalancedEmpty
<1>3. FieldsOK
  BY DEF FieldsOK
<1>4. LoopInv
  BY <1>2, <1>3 DEF LoopInv, Steady, OnlyListeners
<1>5. TypeOK
  <2>1. booted \in 0 .. Len(InitSteps) /\ step \in Nat /\ faults \in Nat /\ failures \in Nat
    BY InitStepsAre
  <2>2. /\ status \in Statuses /\ listening \subseteq Dumpers /\ machine \in {"up", "halted", "off"}
        /\ misled \in BOOLEAN /\ badClose \in BOOLEAN /\ reaped \in BOOLEAN
    BY DEF Statuses
  <2>3. holds \subseteq Users
    OBVIOUS
  <2> QED
    BY <1>3, <2>1, <2>2, <2>3 DEF TypeOK
<1>6. BootInv
  BY InitStepsAre DEF BootInv, Link
<1>7. ShutdownInv
  BY DEF ShutdownInv
<1> QED
  BY <1>4, <1>5, <1>6, <1>7 DEF IInv

\* It is kept by init.
LEMMA InitStepKeeps ==
    ASSUME IInv, InitStep
    PROVE  IInv'
<1>1. TypeOK /\ LoopInv /\ BootInv /\ ShutdownInv
  BY DEF IInv
<1>2. /\ machine = "up" /\ booted < 8 /\ booted' = booted + 1 /\ facts' = facts \cup {InitSteps[booted + 1]}
      /\ status' = IF booted + 1 = 8 THEN "starting" ELSE status
      /\ UNCHANGED <<fields, open, epoll, events, ghosts, listening, machine, reaped, step, holds, faults>>
  BY InitStepsAre DEF InitStep, Initialising
<1>3. status = "absent" /\ booted \in 0 .. 7 /\ step = 0
  BY <1>1, <1>2, InitStepsAre DEF BootInv, TypeOK
<1>4. LoopInv' /\ FieldsOK'
  BY <1>1, <1>2, <1>3, LoopUnchanged
<1>5. TypeOK'
  BY <1>1, <1>2, <1>3, <1>4, InitStepsAre DEF TypeOK, Statuses, ghosts
<1>6. {Link("eth0"), Link("eth4")} \cup {InitSteps[i] : i \in 1 .. booted'} \subseteq facts'
  BY <1>1, <1>2, <1>3 DEF BootInv
<1>9. BootInv'
  <2>1. <<"sysctl", "ip_forward">> \in facts' => <<"masquerade">> \in facts'
    BY <1>1, <1>2, <1>3, InitStepsAre DEF BootInv
  <2>2. CASE booted' < 8
    BY <1>1, <1>2, <1>3, <1>6, <2>1, <2>2, InitStepsAre DEF BootInv
  <2>3. CASE booted' = 8
    <3>1. Established(0) = Base
      BY DEF Established
    <3>2. Base \subseteq facts'
      BY <1>6, <2>3, InitStepsAre DEF Base
    <3>3. status' = "starting" /\ step' = 0
      BY <1>2, <1>3, <2>3
    <3> QED
      BY <2>1, <2>3, <3>1, <3>2, <3>3, InitStepsAre, BootStepsAre DEF BootInv
  <2> QED
    BY <1>2, <1>3, <2>2, <2>3
<1>10. ShutdownInv'
  BY <1>1, <1>2, <1>3 DEF ShutdownInv
<1> QED
  BY <1>4, <1>5, <1>9, <1>10 DEF IInv

\* It is kept when the machine stops.
LEMMA StopKeeps ==
    ASSUME IInv, InitFails \/ Reap
    PROVE  IInv'
<1>1. TypeOK /\ LoopInv /\ BootInv /\ ShutdownInv
  BY DEF IInv
<1>2. UNCHANGED <<loopVars, listening, booted, step, facts, holds>>
  BY DEF InitFails, Reap, Reboot
<1>3. UNCHANGED <<status, fields, open, epoll, events, ghosts, listening>>
  BY <1>2 DEF loopVars
<1>4. LoopInv' /\ FieldsOK'
  BY <1>1, <1>3, LoopUnchanged
<1>5. /\ machine' \in {"up", "halted", "off"} /\ reaped' \in BOOLEAN
      /\ faults' \in Nat /\ faults' >= faults
      /\ machine' = "off" => status = "exited"
  <2>1. CASE InitFails
    BY <1>1, <2>1 DEF InitFails, Reboot, Fault, TypeOK
  <2>2. CASE Reap
    BY <1>1, <2>2 DEF Reap, Reboot, TypeOK
  <2> QED
    BY <2>1, <2>2
<1>6. TypeOK'
  BY <1>1, <1>2, <1>3, <1>4, <1>5 DEF TypeOK, ghosts
<1>7. BootInv'
  BY <1>1, <1>2, <1>3, <1>5 DEF BootInv, TypeOK
<1>8. ShutdownInv'
  BY <1>1, <1>2, <1>3, <1>5 DEF ShutdownInv, fields, TypeOK
<1> QED
  BY <1>4, <1>6, <1>7, <1>8 DEF IInv

\* It is kept by the steps of start() before the loop.
LEMMA BootStepKeeps ==
    ASSUME IInv, BootStep
    PROVE  IInv'
<1>1. TypeOK /\ LoopInv /\ BootInv /\ ShutdownInv
  BY DEF IInv
<1> DEFINE s == BootSteps[step + 1]
<1>2. machine = "up" /\ status = "starting" /\ step < Len(BootSteps) /\ step \in 0 .. Len(BootSteps) - 1
  BY <1>1, BootStepsAre DEF BootStep, BootInv
<1>3. s.needs \subseteq facts /\ Established(step) \subseteq facts
  BY <1>1, <1>2, NeedsAreMet DEF BootInv
<1>4. CASE /\ step' = step + 1
           /\ Performs(s) \/ (s.optional /\ UNCHANGED <<facts, listening>>)
           /\ UNCHANGED <<loopVars, machine, booted, reaped, holds, faults>>
  <2>1. UNCHANGED <<status, fields, open, epoll, events, ghosts>>
    BY <1>4 DEF loopVars
  <2>2. /\ facts \subseteq facts' /\ facts' \subseteq facts \cup s.adds
        /\ listening \subseteq listening' /\ listening' \subseteq listening \cup (s.listen \cap Dumpers)
        /\ s.adds \subseteq facts' \/ s.optional
    BY <1>4 DEF Performs
  <2>3. step + 1 \in 1 .. Len(BootSteps)
    BY <1>2, BootStepsAre
  <2>4. (<<"sysctl", "ip_forward">> \in s.adds => step + 1 > 6) /\ s.listen \subseteq {"wan", "usb"}
    BY <2>3, AddsAndListeners
  <2> HIDE DEF s
  <2>5. LoopInv' /\ FieldsOK'
    BY <1>1, <2>1, <2>2 DEF LoopInv, Steady, OnlyListeners, FieldsOK, Held, fields, ghosts
  <2>6. TypeOK'
    BY <1>1, <1>2, <1>4, <2>1, <2>2, <2>5 DEF TypeOK, ghosts
  <2>7. Established(step + 1) \subseteq facts'
    BY <1>2, <1>3, <2>2, EstablishedGrows DEF s
  <2>8. <<"sysctl", "ip_forward">> \in facts' => <<"masquerade">> \in facts'
    <3>1. CASE <<"sysctl", "ip_forward">> \in s.adds
      <4>1. step + 1 >= 6 /\ step + 1 \in 0 .. Len(BootSteps)
        BY <2>3, <2>4, <3>1, BootStepsAre
      <4> QED
        BY <2>7, <4>1, Providers
    <3>2. CASE <<"sysctl", "ip_forward">> \notin s.adds
      BY <1>1, <2>2, <3>2 DEF BootInv
    <3> QED
      BY <3>1, <3>2
  <2>9. BootInv'
    <3>1. status' = "starting" /\ booted' = booted /\ step' = step + 1
      BY <1>2, <1>4, <2>1
    <3>2. step' \in 0 .. Len(BootSteps) /\ Established(step') \subseteq facts'
      BY <2>3, <2>7, <3>1, BootStepsAre
    <3>3. status # "absent" /\ ~(booted < Len(InitSteps))
      BY <1>1, <1>2 DEF BootInv
    <3> QED
      BY <2>8, <3>1, <3>2, <3>3 DEF BootInv
  <2>10. ShutdownInv'
    BY <1>1, <1>2, <1>4, <2>1, <2>2, <2>4 DEF ShutdownInv
  <2> QED
    BY <2>5, <2>6, <2>9, <2>10 DEF IInv
<1>5. CASE Fault /\ Dies
  BY <1>1, <1>2, <1>5, DiesKeeps DEF Fault, TypeOK
<1> QED
  BY <1>3, <1>4, <1>5 DEF BootStep

\* It is kept by the steps of the loop.
LEMMA LoopKeeps ==
    ASSUME IInv, EnterLoop \/ Loop
    PROVE  IInv'
<1>1. TypeOK /\ LoopInv /\ BootInv /\ ShutdownInv
  BY DEF IInv
<1>2. CASE EnterLoop
  <2>1. /\ machine = "up" /\ status = "starting" /\ status' = "running" /\ step' = 0
        /\ UNCHANGED <<fields, open, epoll, events, ghosts, listening, machine, booted, reaped, facts, holds, faults>>
    BY <1>2 DEF EnterLoop
  <2>2. LoopInv' /\ FieldsOK'
    BY <1>1, <2>1, LoopUnchanged
  <2>3. TypeOK'
    BY <1>1, <2>1, <2>2 DEF TypeOK, Statuses, ghosts
  <2>4. BootInv' /\ ShutdownInv'
    BY <1>1, <2>1 DEF BootInv, ShutdownInv
  <2> QED
    BY <2>2, <2>3, <2>4 DEF IInv
<1>3. CASE Loop
  <2>1. /\ machine = "up" /\ LoopNext /\ UNCHANGED <<listening, machine, booted, reaped, step, holds, faults>>
        /\ facts' = facts \/ facts' = {f \in facts : f[1] # "fd"}
    BY <1>3 DEF Loop
  <2>2. LoopInv' /\ status = "running" /\ status' \in {"running", "stopping", "aborted"}
    BY <1>1, <2>1, LoopStep
  <2>3. TypeOK'
    BY <1>1, <2>1, <2>2 DEF TypeOK, Statuses, LoopInv, Steady, Balanced
  <2>4. <<"sysctl", "ip_forward">> \in facts' => <<"masquerade">> \in facts'
    BY <1>1, <2>1, ForwardingKept DEF BootInv
  <2>5. step = 0
    BY <1>1, <2>2 DEF ShutdownInv
  <2>6. BootInv'
    BY <1>1, <2>1, <2>2, <2>4, <2>5 DEF BootInv
  <2>7. ShutdownInv'
    BY <1>1, <2>1, <2>2, <2>5 DEF ShutdownInv
  <2> QED
    BY <2>2, <2>3, <2>6, <2>7 DEF IInv
<1> QED
  BY <1>2, <1>3

\* The calls after the loop.
LEMMA ShutdownStepsAre ==
    /\ \A i \in 1 .. 12 : ShutdownSteps[i] \notin {"unmount", "exit"}
    /\ ShutdownSteps[1] = "telnet" /\ ShutdownSteps[2] = "modemTimer" /\ ShutdownSteps[4] = "wan"
    /\ ShutdownSteps[5] = "usb" /\ ShutdownSteps[10] = "ksmb"
    /\ ShutdownSteps[13] = "unmount" /\ ShutdownSteps[14] = "exit"
<1>1. /\ ShutdownSteps[1] = "telnet" /\ ShutdownSteps[2] = "modemTimer" /\ ShutdownSteps[3] = "dhcpServer"
      /\ ShutdownSteps[4] = "wan" /\ ShutdownSteps[5] = "usb" /\ ShutdownSteps[6] = "usbDhcp"
      /\ ShutdownSteps[7] = "wanDhcp" /\ ShutdownSteps[8] = "hostapd" /\ ShutdownSteps[9] = "rtnetlink"
      /\ ShutdownSteps[10] = "ksmb" /\ ShutdownSteps[11] = "acpi" /\ ShutdownSteps[12] = "genetlink"
      /\ ShutdownSteps[13] = "unmount" /\ ShutdownSteps[14] = "exit"
  BY DEF ShutdownSteps
<1> QED
  BY <1>1

\* It is kept by them.
LEMMA ShutdownStepKeeps ==
    ASSUME IInv, ShutdownStep
    PROVE  IInv'
<1>1. TypeOK /\ LoopInv /\ BootInv /\ ShutdownInv
  BY DEF IInv
<1> DEFINE name == ShutdownSteps[step + 1]
<1>2. /\ machine = "up" /\ status = "stopping" /\ step' = step + 1
      /\ UNCHANGED <<machine, booted, reaped, holds>>
  BY DEF ShutdownStep, ShutdownCall
<1>3. step \in 0 .. 13
  BY <1>1, <1>2 DEF ShutdownInv
<1>4. CASE step \in 0 .. 11
  <2>1. name \notin {"unmount", "exit"}
    BY <1>4, ShutdownStepsAre
  <2>2. CloseStep(name) /\ UNCHANGED <<events, misled>>
    BY <2>1 DEF ShutdownStep, ShutdownCall
  <2>3. /\ step = 0 => name = "telnet"
        /\ step = 1 => name = "modemTimer"
        /\ step = 3 => name = "wan"
        /\ step = 4 => name = "usb"
        /\ step = 9 => name = "ksmb"
    BY <1>4, ShutdownStepsAre
  <2> HIDE DEF name
  <2>4. /\ LoopInv' /\ status' = "stopping"
        /\ name = "telnet" => telnetFd' = None
        /\ name = "modemTimer" => modemFd' = None
        /\ telnetFd = None => telnetFd' = None
        /\ modemFd = None => modemFd' = None
    BY <1>1, <1>2, <2>2, CloseStepKeeps
  <2>5. /\ (facts \ {Fd(name)}) \ {<<"smb">>} \subseteq facts'
        /\ faults' \in Nat /\ faults' >= faults
    BY <1>1, <2>2 DEF CloseStep, Fault, TypeOK
  <2>6. /\ listening' \subseteq listening /\ name \notin listening'
        /\ facts' \subseteq facts /\ (name = "ksmb" => <<"smb">> \notin facts' \/ faults' > 0)
    BY <1>1, <2>2 DEF CloseStep, Fault, TypeOK
  <2>7. <<"masquerade">> # Fd(name) /\ <<"masquerade">> # <<"smb">>
    BY DEF Fd
  <2>8. TypeOK'
    <3>1. FieldsOK' /\ failures' \in Nat /\ misled' = FALSE /\ badClose' = FALSE
      BY <2>4 DEF LoopInv, Steady, Balanced
    <3>2. step' \in Nat
      BY <1>2, <1>3
    <3> QED
      BY <1>1, <1>2, <2>4, <2>5, <2>6, <3>1, <3>2 DEF TypeOK, Statuses
  <2>9. <<"sysctl", "ip_forward">> \in facts' => <<"masquerade">> \in facts'
    BY <1>1, <2>5, <2>6, <2>7 DEF BootInv
  <2>10. BootInv'
    BY <1>1, <1>2, <2>4, <2>5, <2>9 DEF BootInv, TypeOK
  <2>11. ShutdownInv'
    <3>1. /\ listening' \subseteq {"wan", "usb"} /\ step' \in 1 .. 12
      BY <1>1, <1>2, <1>4, <2>6 DEF ShutdownInv
    <3>2. telnetFd' = None /\ (step' >= 2 => modemFd' = None)
      BY <1>1, <1>2, <1>4, <2>3, <2>4 DEF ShutdownInv
    <3>3. (step' >= 4 => "wan" \notin listening') /\ (step' >= 5 => "usb" \notin listening')
      BY <1>1, <1>2, <1>4, <2>3, <2>6 DEF ShutdownInv
    <3>4. step' >= 10 => <<"smb">> \notin facts' \/ faults' > 0
      BY <1>1, <1>2, <1>4, <2>3, <2>5, <2>6 DEF ShutdownInv, TypeOK
    <3> QED
      BY <1>2, <2>4, <3>1, <3>2, <3>3, <3>4 DEF ShutdownInv
  <2> QED
    BY <2>4, <2>8, <2>10, <2>11 DEF IInv
<1>5. CASE step = 12
  <2>1. name = "unmount"
    BY <1>5, ShutdownStepsAre
  <2>2. facts' = facts \ {Disk} /\ UNCHANGED <<loopVars, listening, faults>>
    BY <2>1 DEF ShutdownStep, ShutdownCall
  <2>3. UNCHANGED <<status, fields, open, epoll, events, ghosts, listening>>
    BY <2>2 DEF loopVars
  <2>4. LoopInv' /\ FieldsOK'
    BY <1>1, <2>3, LoopUnchanged
  <2>5. TypeOK'
    BY <1>1, <1>2, <1>5, <2>2, <2>3, <2>4 DEF TypeOK, ghosts
  <2>6. <<"masquerade">> # Disk
    BY DEF Disk
  <2>7. BootInv'
    BY <1>1, <1>2, <2>2, <2>3, <2>6 DEF BootInv
  <2>8. ShutdownInv'
    BY <1>1, <1>2, <1>5, <2>2, <2>3 DEF ShutdownInv, fields
  <2> QED
    BY <2>4, <2>5, <2>7, <2>8 DEF IInv
<1>6. CASE step = 13
  <2>1. name = "exit"
    BY <1>6, ShutdownStepsAre
  <2>2. /\ status' = "exited" /\ facts' = {f \in facts : f[1] # "fd"}
        /\ UNCHANGED <<fields, open, epoll, events, ghosts, listening, faults>>
    BY <2>1 DEF ShutdownStep, ShutdownCall
  <2>3. LoopInv' /\ FieldsOK'
    BY <1>1, <1>2, <2>2, LoopUnchanged
  <2>4. TypeOK'
    BY <1>1, <1>2, <1>6, <2>2, <2>3 DEF TypeOK, Statuses, ghosts
  <2>5. BootInv'
    BY <1>1, <1>2, <2>2, ForwardingKept DEF BootInv
  <2>6. ShutdownInv'
    BY <1>1, <1>2, <1>6, <2>2 DEF ShutdownInv, fields
  <2> QED
    BY <2>3, <2>4, <2>5, <2>6 DEF IInv
<1> QED
  BY <1>3, <1>4, <1>5, <1>6

\* It is kept by the users of the disk.
LEMMA UseDiskKeeps ==
    ASSUME IInv, UseDisk
    PROVE  IInv'
<1>1. TypeOK /\ LoopInv /\ BootInv /\ ShutdownInv
  BY DEF IInv
<1>2. /\ UNCHANGED <<status, fields, open, epoll, events, ghosts, listening>>
      /\ UNCHANGED <<listening, machine, booted, reaped, step, facts, faults>>
  BY DEF UseDisk, loopVars
<1>3. holds' \subseteq Users
  BY <1>1 DEF UseDisk, TypeOK
<1>4. LoopInv' /\ FieldsOK'
  BY <1>1, <1>2, LoopUnchanged
<1>5. TypeOK' /\ BootInv' /\ ShutdownInv'
  BY <1>1, <1>2, <1>3, <1>4 DEF TypeOK, BootInv, ShutdownInv, fields, ghosts
<1> QED
  BY <1>4, <1>5 DEF IInv

\* The invariant holds from boot to power off, for any of the dumpers in any order, any
\* number of descriptors, lost handshakes and faults.
THEOREM Invariance == Spec => []IInv
<1>1. IInv /\ [Next]_vars => IInv'
  <2> SUFFICES ASSUME IInv, [Next]_vars
               PROVE  IInv'
    OBVIOUS
  <2>1. CASE UNCHANGED vars
    <3>1. UNCHANGED <<status, fields, open, epoll, events, ghosts, listening>>
      BY <2>1 DEF vars, loopVars
    <3>2. UNCHANGED <<listening, machine, booted, reaped, step, facts, holds, faults>>
      BY <2>1 DEF vars
    <3>3. LoopInv' /\ FieldsOK'
      BY <3>1, LoopUnchanged DEF IInv
    <3>4. TypeOK' /\ BootInv' /\ ShutdownInv'
      BY <3>1, <3>2, <3>3 DEF IInv, TypeOK, BootInv, ShutdownInv, fields, ghosts
    <3> QED
      BY <3>3, <3>4 DEF IInv
  <2> QED
    BY <2>1, InitStepKeeps, StopKeeps, BootStepKeeps, LoopKeeps, ShutdownStepKeeps, UseDiskKeeps DEF Next
<1> QED
  BY <1>1, InitIInv, PTL DEF Spec

\* No descriptor is lost, held twice or closed twice, whatever the order in which clients,
\* dumps and the modem come and go and numbers are used again: DescriptorsAccounted.
THEOREM NoDescriptorLost == Spec => []DescriptorsAccounted
<1>1. IInv => DescriptorsAccounted
  <2> SUFFICES ASSUME IInv
               PROVE  DescriptorsAccounted
    OBVIOUS
  <2>1. Balanced(Held, open, epoll, failures) /\ ~badClose
    BY DEF IInv, LoopInv, Steady
  <2>2. \A c \in Holders : Field(c) = Held[c]
    BY HoldersAre, FieldIsHeld DEF HoldersIn
  <2> QED
    BY <2>1, <2>2, HoldersAre DEF Balanced, DescriptorsAccounted
<1> QED
  BY <1>1, Invariance, PTL

\* The comparisons of the loop always find the component that an event is for.
THEOREM EventsAreNotMistaken == Spec => []EventsFindTheirHandler
<1>1. IInv => EventsFindTheirHandler
  BY DEF IInv, LoopInv, EventsFindTheirHandler
<1> QED
  BY <1>1, Invariance, PTL

\* Nothing is forwarded before addresses are masqueraded, and every step of the boot finds
\* what it needs.
THEOREM BootFindsItsNeeds == Spec => []BootInOrder
<1>1. IInv => BootInOrder
  BY DEF IInv, BootInv, BootInOrder
<1> QED
  BY <1>1, Invariance, PTL

\* The machine is powered off with everything taken down, but for an SMB server that could
\* not be stopped.
THEOREM PowerOffFindsNothing == Spec => []PowerOffIsClean
<1>1. IInv => PowerOffIsClean
  <2> SUFFICES ASSUME IInv, machine = "off"
               PROVE  /\ Disk \notin facts /\ (<<"smb">> \in facts => faults > 0)
                      /\ status = "exited" /\ listening = {} /\ Holders = {}
                      /\ Cardinality(open) <= failures
    BY DEF PowerOffIsClean
  <2>1. /\ status = "exited" /\ step = 14 /\ telnetFd = None /\ modemFd = None
        /\ listening = {} /\ Disk \notin facts /\ (<<"smb">> \in facts => faults > 0)
    BY DEF IInv, ShutdownInv
  <2>2. \A d \in Dumpers : clientFd[d] = None /\ packetFd[d] = None
    BY <2>1 DEF IInv, LoopInv, Steady, OnlyListeners
  <2>3. \A c \in Components : Held[c] = None
    BY <2>1, <2>2, TableAt, KindsCover DEF Held
  <2>4. HoldersIn(Held) = {} /\ FdsIn(Held) = {}
    BY <2>3 DEF HoldersIn, FdsIn
  <2>5. open \ FdsIn(Held) = open
    BY <2>4
  <2>6. Cardinality(open) <= failures
    BY <2>5 DEF IInv, LoopInv, Steady, Balanced
  <2> QED
    BY <2>1, <2>4, <2>6, HoldersAre
<1> QED
  BY <1>1, Invariance, PTL
=============================================================================
