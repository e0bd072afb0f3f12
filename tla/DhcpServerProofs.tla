-------------------------- MODULE DhcpServerProofs --------------------------
(***************************************************************************)
(* For every table size, every set of clients and every lease time: the    *)
(* table of DhcpServer is a least-recently-seen cache, and a LAN that fits *)
(* the table never has two clients on one leased address.                  *)
(***************************************************************************)
EXTENDS DhcpServer, FiniteSetTheorems, WellFoundedInduction, TLAPS

-----------------------------------------------------------------------------
(***************************************************************************)
(* The inductive invariant.                                                *)
(***************************************************************************)

\* The clock never shows 0, the mark of an unused entry, and nothing is later.
TimesInPast ==
    /\ now > 0
    /\ \A m \in Macs : lastSeen[m] <= now

\* A used entry belongs to the client that was last given it, and the scan for
\* that client stops there although unused entries may hold the same MAC.
UsedEntry ==
    \A i \in Entries : entries[i].timeSec > 0 =>
        /\ entries[i].macAddr \in Macs
        /\ given[entries[i].macAddr] = FirstOctet + i
        /\ lastSeen[entries[i].macAddr] = entries[i].timeSec
        /\ \A j \in Entries : j < i => entries[j].macAddr # entries[i].macAddr

AnsweredIsSeen == \A m \in Macs : given[m] # NoIp => lastSeen[m] > 0

\* RecentClientKeepsEntry with the time of the entry.
KeepsEntry ==
    \A m \in Macs : given[m] # NoIp /\ ~Overrun(m) =>
        /\ entries[given[m] - FirstOctet].macAddr = m
        /\ entries[given[m] - FirstOctet].timeSec = lastSeen[m]

HeldIsGiven == \A m \in Macs : held[m].ip # NoIp => held[m].ip = given[m]

IInv ==
    /\ TypeOK
    /\ TimesInPast
    /\ UsedEntry
    /\ AnsweredIsSeen
    /\ KeepsEntry
    /\ HeldIsGiven

-----------------------------------------------------------------------------
(***************************************************************************)
(* What dhcpServer_getEntry returns.                                       *)
(***************************************************************************)

\* A non-empty set of natural numbers has a least element.
LEMMA LeastNat ==
    ASSUME NEW S \in SUBSET Nat, S # {}
    PROVE  \E i \in S : \A j \in S : i <= j
<1> DEFINE Less == {p \in Nat \X Nat : p[1] < p[2]}
<1>1. IsWellFoundedOn(Less, Nat)
  BY NatLessThanWellFounded, Zenon DEF OpToRel
<1>2. \E i \in S : \A j \in S : ~(<<j, i>> \in Less)
  BY <1>1, WFMin, Zenon
<1>3. \A i, j \in S : ~(<<j, i>> \in Less) => i <= j
  OBVIOUS
<1> QED
  BY <1>2, <1>3

\* The scan stops at the first entry with the client's MAC.
LEMMA FirstMatchIsFirst ==
    ASSUME NEW mac, Matching(mac) # {}
    PROVE  /\ FirstMatch(mac) \in Entries
           /\ entries[FirstMatch(mac)].macAddr = mac
           /\ \A j \in Entries : entries[j].macAddr = mac => FirstMatch(mac) <= j
<1>1. Matching(mac) \in SUBSET Nat
  BY EntriesAssumption DEF Matching, Entries
<1>2. \E i \in Matching(mac) : \A j \in Matching(mac) : i <= j
  BY <1>1, LeastNat
<1>3. /\ FirstMatch(mac) \in Matching(mac)
      /\ \A j \in Matching(mac) : FirstMatch(mac) <= j
  BY <1>2 DEF FirstMatch
<1> QED
  BY <1>3 DEF Matching

\* The entry that is taken over is at least as old as every other.
LEMMA OldestIndexIsOldest ==
    ASSUME TypeOK
    PROVE  /\ OldestIndex \in Entries
           /\ \A j \in Entries : entries[OldestIndex].timeSec <= entries[j].timeSec
<1> DEFINE Times == {entries[i].timeSec : i \in Entries}
<1>1. 0 \in Entries /\ \A i \in Entries : entries[i].timeSec \in Nat
  BY EntriesAssumption DEF TypeOK, Entries
<1>2. Times \in SUBSET Nat /\ Times # {}
  BY <1>1
<1>3. PICK t \in Times : \A u \in Times : t <= u
  BY <1>2, LeastNat
<1> DEFINE Oldest == {i \in Entries : entries[i].timeSec = t}
<1>4. Oldest \in SUBSET Nat /\ Oldest # {}
  BY EntriesAssumption, <1>3 DEF Entries
<1>5. PICK i \in Oldest : \A j \in Oldest : i <= j
  BY <1>4, LeastNat
<1>6. \E k \in Entries : \A j \in Entries :
        \/ entries[k].timeSec < entries[j].timeSec
        \/ entries[k].timeSec = entries[j].timeSec /\ k <= j
  <2>1. SUFFICES ASSUME NEW j \in Entries
                 PROVE  \/ entries[i].timeSec < entries[j].timeSec
                        \/ entries[i].timeSec = entries[j].timeSec /\ i <= j
    BY <1>5
  <2>2. entries[j].timeSec \in Nat /\ t \in Nat /\ t <= entries[j].timeSec
    BY <1>1, <1>2, <1>3
  <2>3. CASE entries[j].timeSec = t
    BY <1>5, <2>3
  <2>4. CASE entries[j].timeSec # t
    BY <1>5, <2>2, <2>4
  <2> QED
    BY <2>3, <2>4
<1>7. /\ OldestIndex \in Entries
      /\ \A j \in Entries :
           \/ entries[OldestIndex].timeSec < entries[j].timeSec
           \/ entries[OldestIndex].timeSec = entries[j].timeSec /\ OldestIndex <= j
  BY <1>6, Zenon DEF OldestIndex
<1> QED
  BY <1>1, <1>7

\* The entry an answer uses: in the table, and either the first with the client's
\* MAC or, when there is none, one that is at least as old as every other.
LEMMA GetEntryResult ==
    ASSUME TypeOK, NEW mac \in Macs, NEW allowCreate \in BOOLEAN,
           GetEntry(mac, allowCreate) # NoEntry
    PROVE  LET i == GetEntry(mac, allowCreate) IN
           /\ i \in Entries
           /\ \/ /\ entries[i].macAddr = mac
                 /\ \A j \in Entries : entries[j].macAddr = mac => i <= j
              \/ /\ \A j \in Entries : entries[j].macAddr # mac
                 /\ \A j \in Entries : entries[i].timeSec <= entries[j].timeSec
<1>1. CASE Matching(mac) # {}
  BY <1>1, FirstMatchIsFirst DEF GetEntry
<1>2. CASE Matching(mac) = {}
  <2>1. GetEntry(mac, allowCreate) = OldestIndex
    BY <1>2 DEF GetEntry
  <2>2. \A j \in Entries : entries[j].macAddr # mac
    BY <1>2 DEF Matching
  <2> QED
    BY <2>1, <2>2, OldestIndexIsOldest
<1> QED
  BY <1>1, <1>2

-----------------------------------------------------------------------------
(***************************************************************************)
(* One step of the server.                                                 *)
(***************************************************************************)

\* What a step does, with the entry it uses named.
AnswerAt(mac, isDiscover, i) ==
    /\ entries' = [entries EXCEPT ![i] = [timeSec |-> now, macAddr |-> mac]]
    /\ given' = [given EXCEPT ![mac] = FirstOctet + i]
    /\ lastSeen' = [lastSeen EXCEPT ![mac] = now]
    /\ held' = [held EXCEPT ![mac] =
                   IF isDiscover THEN [ip |-> NoIp, until |-> 0]
                   ELSE [ip |-> FirstOctet + i, until |-> now + LeaseTime]]
    /\ now' = now

\* An answer to one client only adds to the clients heard since another's last.
LEMMA HeardSinceGrows ==
    ASSUME IInv, NEW mac \in Macs, lastSeen' = [lastSeen EXCEPT ![mac] = now],
           NEW m \in Macs, m # mac, ~Overrun(m)'
    PROVE  ~Overrun(m)
<1>1. lastSeen \in [Macs -> Nat] /\ now \in Nat /\ \A x \in Macs : lastSeen[x] <= now
  BY DEF IInv, TypeOK, TimesInPast
<1>2. HeardSince(m) \subseteq HeardSince(m)'
  BY <1>1 DEF HeardSince
<1>3. IsFiniteSet(HeardSince(m)')
  <2>1. HeardSince(m)' \in SUBSET Macs
    BY DEF HeardSince
  <2> QED
    BY <2>1, MacsAssumption, FS_Subset
<1>4. Cardinality(HeardSince(m)) <= Cardinality(HeardSince(m)')
  BY <1>2, <1>3, FS_Subset
<1>5. /\ Cardinality(HeardSince(m)) \in Nat
      /\ Cardinality(HeardSince(m)') \in Nat
  BY <1>2, <1>3, FS_Subset, FS_CardinalityType
<1> QED
  BY <1>4, <1>5, EntriesAssumption DEF Overrun

\* Taking over an entry pushes out a client only when it is overrun: every other
\* entry was used since its last answer, by as many different clients.
LEMMA PushedOutIsOverrun ==
    ASSUME IInv, NEW mac \in Macs, NEW i \in Entries, NEW m \in Macs, m # mac,
           lastSeen' = [lastSeen EXCEPT ![mac] = now],
           \A j \in Entries : entries[j].macAddr # mac,
           \A j \in Entries : entries[i].timeSec <= entries[j].timeSec,
           entries[i].macAddr = m, entries[i].timeSec = lastSeen[m], lastSeen[m] > 0
    PROVE  Overrun(m)'
<1> DEFINE Heard == HeardSince(m)'
           f == [j \in Entries |-> IF j = i THEN mac ELSE entries[j].macAddr]
<1>1. /\ lastSeen \in [Macs -> Nat] /\ now \in Nat /\ lastSeen[m] <= now
      /\ \A j \in Entries : entries[j].timeSec \in Nat
  BY DEF IInv, TypeOK, TimesInPast
<1>2. \A j \in Entries : /\ entries[j].macAddr \in Macs
                         /\ given[entries[j].macAddr] = FirstOctet + j
                         /\ lastSeen[entries[j].macAddr] = entries[j].timeSec
  BY <1>1 DEF IInv, UsedEntry
<1>3. \A j, k \in Entries : entries[j].macAddr = entries[k].macAddr => j = k
  BY <1>2, EntriesAssumption DEF Entries, FirstOctet
<1>4. f \in [Entries -> Heard]
  <2>1. SUFFICES ASSUME NEW j \in Entries PROVE f[j] \in Heard
    OBVIOUS
  <2>2. CASE j = i
    BY <1>1, <2>2 DEF HeardSince
  <2>3. CASE j # i
    <3>1. entries[j].macAddr # m /\ entries[j].macAddr # mac
      BY <1>3, <2>3
    <3>2. lastSeen[entries[j].macAddr] >= lastSeen[m]
      BY <1>1, <1>2
    <3> QED
      BY <1>1, <1>2, <2>3, <3>1, <3>2 DEF HeardSince
  <2> QED
    BY <2>2, <2>3
<1>5. \A j, k \in Entries : j # k => f[j] # f[k]
  BY <1>3
<1>6. IsFiniteSet(Heard) /\ Cardinality(Heard) \in Nat
  <2>1. Heard \in SUBSET Macs
    BY DEF HeardSince
  <2> QED
    BY <2>1, MacsAssumption, FS_Subset, FS_CardinalityType
<1>7. IsFiniteSet(Entries) /\ Cardinality(Entries) = NumEntries
  <2>1. 0 \in Int /\ NumEntries - 1 \in Int /\ ~(0 > NumEntries - 1)
    BY EntriesAssumption
  <2>2. IsFiniteSet(Entries) /\ Cardinality(Entries) = (NumEntries - 1) - 0 + 1
    BY <2>1, FS_Interval DEF Entries
  <2> QED
    BY <2>2, EntriesAssumption
<1>8. ~(Cardinality(Heard) < Cardinality(Entries))
  <2> HIDE DEF f, Heard
  <2>1. Cardinality(Heard) < Cardinality(Entries) =>
          \E j, k \in Entries : j # k /\ f[j] = f[k]
    BY <1>4, <1>6, <1>7, FS_PigeonHole
  <2> QED
    BY <1>5, <2>1
<1> QED
  BY <1>6, <1>7, <1>8, EntriesAssumption DEF Overrun

\* An answer preserves the invariant.
LEMMA AnswerPreserves ==
    ASSUME IInv, NEW mac \in Macs, NEW isDiscover \in BOOLEAN, NEW i \in Entries,
           \/ /\ entries[i].macAddr = mac
              /\ \A j \in Entries : entries[j].macAddr = mac => i <= j
           \/ /\ \A j \in Entries : entries[j].macAddr # mac
              /\ \A j \in Entries : entries[i].timeSec <= entries[j].timeSec,
           AnswerAt(mac, isDiscover, i)
    PROVE  IInv'
<1> USE DEF AnswerAt
<1>1. /\ entries \in [Entries -> [timeSec : Nat, macAddr : Macs \cup {Foreign}]]
      /\ now \in Nat /\ now > 0
      /\ given \in [Macs -> Octets \cup {NoIp}]
      /\ lastSeen \in [Macs -> Nat]
      /\ held \in [Macs -> [ip : Octets \cup {NoIp}, until : Nat]]
  BY DEF IInv, TypeOK, TimesInPast
<1>2. i \in Int /\ FirstOctet + i \in Octets /\ FirstOctet + i # NoIp
  BY EntriesAssumption DEF Entries, Octets, FirstOctet, NoIp
<1>3. TypeOK'
  BY <1>1, <1>2, TimeAssumption DEF TypeOK
<1>4. TimesInPast'
  BY <1>1 DEF IInv, TimesInPast
<1>5. AnsweredIsSeen'
  BY <1>1 DEF IInv, AnsweredIsSeen
<1>6. HeldIsGiven'
  BY <1>1 DEF IInv, HeldIsGiven
<1>7. UsedEntry'
  <2>1. SUFFICES ASSUME NEW k \in Entries, entries'[k].timeSec > 0
                 PROVE  /\ entries'[k].macAddr \in Macs
                        /\ given'[entries'[k].macAddr] = FirstOctet + k
                        /\ lastSeen'[entries'[k].macAddr] = entries'[k].timeSec
                        /\ \A j \in Entries : j < k => entries'[j].macAddr # entries'[k].macAddr
    BY DEF UsedEntry
  <2>2. CASE k = i
    <3>1. entries'[k] = [timeSec |-> now, macAddr |-> mac]
      BY <1>1, <2>2
    <3>2. \A j \in Entries : j < k => entries'[j] = entries[j] /\ entries[j].macAddr # mac
      BY <1>1, <1>2, <2>2, EntriesAssumption DEF Entries
    <3> QED
      BY <1>1, <2>2, <3>1, <3>2
  <2>3. CASE k # i
    <3>1. entries'[k] = entries[k]
      BY <1>1, <2>3
    <3>2. /\ entries[k].macAddr \in Macs
          /\ given[entries[k].macAddr] = FirstOctet + k
          /\ lastSeen[entries[k].macAddr] = entries[k].timeSec
          /\ \A j \in Entries : j < k => entries[j].macAddr # entries[k].macAddr
      BY <2>1, <3>1 DEF IInv, UsedEntry
    <3>3. entries[k].macAddr # mac
      <4>1. CASE entries[i].macAddr = mac /\ \A j \in Entries : entries[j].macAddr = mac => i <= j
        BY <1>2, <2>3, <3>2, <4>1, EntriesAssumption DEF Entries
      <4>2. CASE \A j \in Entries : entries[j].macAddr # mac
        BY <4>2
      <4> QED
        BY <4>1, <4>2
    <3>4. \A j \in Entries : j < k => entries'[j].macAddr # entries[k].macAddr
      BY <1>1, <3>2, <3>3
    <3> QED
      BY <1>1, <3>1, <3>2, <3>3, <3>4
  <2> QED
    BY <2>2, <2>3
<1>8. KeepsEntry'
  <2>1. SUFFICES ASSUME NEW m \in Macs, given'[m] # NoIp, ~Overrun(m)'
                 PROVE  /\ entries'[given'[m] - FirstOctet].macAddr = m
                        /\ entries'[given'[m] - FirstOctet].timeSec = lastSeen'[m]
    BY DEF KeepsEntry
  <2>2. CASE m = mac
    <3>1. given'[m] - FirstOctet = i
      BY <1>1, <1>2, <2>2 DEF FirstOctet
    <3> QED
      BY <1>1, <2>2, <3>1
  <2>3. CASE m # mac
    <3>1. given'[m] = given[m] /\ lastSeen'[m] = lastSeen[m]
      BY <1>1, <2>3
    <3>2. ~Overrun(m)
      BY <2>1, <2>3, HeardSinceGrows
    <3> DEFINE k == given[m] - FirstOctet
    <3>3. entries[k].macAddr = m /\ entries[k].timeSec = lastSeen[m] /\ lastSeen[m] > 0
      BY <2>1, <3>1, <3>2 DEF IInv, KeepsEntry, AnsweredIsSeen
    <3>4. k \in Entries
      BY SMTT(30), <1>1, <2>1, <3>1, EntriesAssumption DEF Octets, Entries, FirstOctet, NoIp
    <3>5. k # i
      <4>1. CASE entries[i].macAddr = mac
        BY <2>3, <3>3, <4>1
      <4>2. CASE /\ \A j \in Entries : entries[j].macAddr # mac
                 /\ \A j \in Entries : entries[i].timeSec <= entries[j].timeSec
        BY <2>1, <2>3, <3>3, <4>2, PushedOutIsOverrun
      <4> QED
        BY <4>1, <4>2
    <3> QED
      BY <1>1, <3>1, <3>3, <3>4, <3>5
  <2> QED
    BY <2>2, <2>3
<1> QED
  BY <1>3, <1>4, <1>5, <1>6, <1>7, <1>8 DEF IInv

-----------------------------------------------------------------------------
(***************************************************************************)
(* The theorems.                                                           *)
(***************************************************************************)

\* The invariant holds in every reachable state of the server.
THEOREM Invariance == Spec => []IInv
<1>1. Init => IInv
  <2> SUFFICES ASSUME Init PROVE IInv
    OBVIOUS
  <2>1. TypeOK
    BY DEF Init, TypeOK
  <2> QED
    BY <2>1 DEF Init, IInv, TimesInPast, UsedEntry, AnsweredIsSeen, KeepsEntry, HeldIsGiven
<1>2. IInv /\ [Next]_vars => IInv'
  <2> SUFFICES ASSUME IInv, [Next]_vars PROVE IInv'
    OBVIOUS
  <2>1. ASSUME UNCHANGED <<entries, given, lastSeen, held>>, now' \in Nat, now <= now'
        PROVE  IInv'
    <3>1. now \in Nat /\ lastSeen \in [Macs -> Nat]
      BY DEF IInv, TypeOK
    <3>2. TypeOK' /\ TimesInPast'
      BY <2>1, <3>1 DEF IInv, TypeOK, TimesInPast
    <3>3. UsedEntry' /\ AnsweredIsSeen' /\ KeepsEntry' /\ HeldIsGiven'
      BY <2>1 DEF IInv, UsedEntry, AnsweredIsSeen, KeepsEntry, HeldIsGiven, Overrun, HeardSince
    <3> QED
      BY <3>2, <3>3 DEF IInv
  <2>2. now \in Nat
    BY DEF IInv, TypeOK
  <2>3. ASSUME NEW mac \in Macs, NEW type \in MessageTypes,
               NEW clientIp, NEW dnsIp, Answer(mac, type, clientIp, dnsIp)
        PROVE  IInv'
    <3> DEFINE isDiscover == type = "DISCOVER"
               i == GetEntry(mac, isDiscover)
    <3>1. isDiscover \in BOOLEAN /\ i # NoEntry /\ AnswerAt(mac, isDiscover, i)
      BY <2>3 DEF Answer, AnswerAt
    <3>2. TypeOK
      BY DEF IInv
    <3>3. /\ i \in Entries
          /\ \/ /\ entries[i].macAddr = mac
                /\ \A j \in Entries : entries[j].macAddr = mac => i <= j
             \/ /\ \A j \in Entries : entries[j].macAddr # mac
                /\ \A j \in Entries : entries[i].timeSec <= entries[j].timeSec
      BY <3>1, <3>2, GetEntryResult
    <3> HIDE DEF i, isDiscover
    <3> QED
      BY <3>1, <3>3, AnswerPreserves
  <2>4. CASE UNCHANGED vars
    BY <2>1, <2>2, <2>4 DEF vars
  <2>5. CASE Tick
    BY <2>1, <2>2, <2>5 DEF Tick
  <2>6. ASSUME NEW mac \in Macs, NEW type \in MessageTypes, Ignore(mac, type)
        PROVE  IInv'
    BY <2>1, <2>2, <2>6 DEF Ignore
  <2> QED
    BY <2>3, <2>4, <2>5, <2>6 DEF Next, OnFd
<1> QED
  BY <1>1, <1>2, PTL DEF Spec

\* Every reachable state is well typed: no index outside the table is ever used.
THEOREM TypeCorrect == Spec => []TypeOK
<1>1. IInv => TypeOK
  BY DEF IInv
<1> QED
  BY <1>1, Invariance, PTL

\* For every table size and every number of clients, a client keeps the entry it
\* was given until NumEntries others were heard.
THEOREM RecentClientsAreKept == Spec => []RecentClientKeepsEntry
<1>1. IInv => RecentClientKeepsEntry
  BY DEF IInv, KeepsEntry, RecentClientKeepsEntry
<1> QED
  BY <1>1, Invariance, PTL

\* In a reachable state two clients share a leased address only by an overrun.
LEMMA SharedNeedsOverrun == IInv => SharedAddressOnlyWhenOverrun
<1> SUFFICES ASSUME IInv, NEW m1 \in Macs, NEW m2 \in Macs, NEW ip \in Octets,
                    m1 # m2, Holds(m1, ip), Holds(m2, ip), ~Overrun(m1), ~Overrun(m2)
             PROVE  FALSE
  BY DEF SharedAddressOnlyWhenOverrun
<1>1. ip # NoIp
  BY EntriesAssumption DEF Octets, FirstOctet, NoIp
<1>2. given[m1] = ip /\ given[m2] = ip
  BY <1>1 DEF IInv, HeldIsGiven, Holds
<1>3. entries[ip - FirstOctet].macAddr = m1 /\ entries[ip - FirstOctet].macAddr = m2
  BY <1>1, <1>2 DEF IInv, KeepsEntry
<1> QED
  BY <1>3

\* For every table size, two clients rely on the same unexpired lease only if the
\* table was overrun since one of them was last answered.
THEOREM SharingNeedsOverrun == Spec => []SharedAddressOnlyWhenOverrun
BY SharedNeedsOverrun, Invariance, PTL

\* A LAN with at most NumEntries clients never overruns the table ...
LEMMA FittingLanIsNeverOverrun ==
    ASSUME Cardinality(Macs) <= NumEntries, NEW m \in Macs
    PROVE  ~Overrun(m)
<1>1. /\ IsFiniteSet(Macs \ {m})
      /\ Cardinality(Macs \ {m}) = Cardinality(Macs) - 1
      /\ Cardinality(Macs) \in Nat
  BY MacsAssumption, FS_RemoveElement, FS_CardinalityType
<1>2. HeardSince(m) \in SUBSET (Macs \ {m})
  BY DEF HeardSince
<1>3. /\ Cardinality(HeardSince(m)) <= Cardinality(Macs \ {m})
      /\ Cardinality(HeardSince(m)) \in Nat
  BY <1>1, <1>2, FS_Subset, FS_CardinalityType
<1> QED
  BY <1>1, <1>3, EntriesAssumption DEF Overrun

\* ... so it never sees an address leased to two clients, for every lease time.
THEOREM LeasesAreExclusive == Spec => []NoAddressLeasedTwice
<1>1. SharedAddressOnlyWhenOverrun => NoAddressLeasedTwice
  BY FittingLanIsNeverOverrun DEF SharedAddressOnlyWhenOverrun, NoAddressLeasedTwice
<1> QED
  BY <1>1, SharingNeedsOverrun, PTL
=============================================================================
