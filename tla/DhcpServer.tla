----------------------------- MODULE DhcpServer -----------------------------
(***************************************************************************)
(* The LAN DHCP server of the router (router/router/dhcpServer.c).         *)
(*                                                                         *)
(* The server keeps a fixed table of NumEntries addresses.  An entry       *)
(* remembers the MAC address it was last given to and the second of that   *)
(* client's last answered message.  A known client always gets its own     *)
(* entry; an unknown one takes over the entry that was silent the longest, *)
(* whether or not its lease has run out.                                   *)
(*                                                                         *)
(* One behaviour is one boot of the router: the table lives on the stack   *)
(* of start() and is lost with it.                                         *)
(***************************************************************************)
EXTENDS Integers, FiniteSets

CONSTANTS
    Macs,           \* MAC addresses of the clients on the LAN
    Foreign,        \* stands for memory contents that are no client's MAC
    NumEntries,     \* dhcpServer_NUM_ENTRIES
    LeaseTime,      \* the 600 seconds of the lease time option
    DnsIps,         \* name servers the WAN side may have learnt
    MaxTime         \* bound on the clock

ASSUME MacsAssumption    == IsFiniteSet(Macs) /\ Foreign \notin Macs
ASSUME EntriesAssumption == NumEntries \in Nat /\ NumEntries > 0
ASSUME TimeAssumption    == LeaseTime \in Nat /\ MaxTime \in Nat
ASSUME DnsAssumption     == DnsIps \subseteq Nat

-----------------------------------------------------------------------------
FirstOctet == 40
Entries    == 0 .. NumEntries - 1
Octets     == FirstOctet .. FirstOctet + NumEntries - 1
NoIp       == 0
Broadcast  == 255
DefaultDns == 8     \* 8.8.8.8

\* The index dhcpServer_getEntry returns when there is no entry.
NoEntry == -1

\* A received packet that is neither a discover nor a request: too short, without
\* a message type option, or of another type.
MessageTypes == {"DISCOVER", "REQUEST", "OTHER"}

NoReply == [type |-> "NONE", mac |-> Foreign, yourIp |-> NoIp,
            dns |-> DefaultDns, dest |-> NoIp]

VARIABLES
    entries,    \* the table: [timeSec (0 if unused), macAddr]
    now,        \* CLOCK_MONOTONIC in seconds
    reply,      \* what the last step sent, NoReply if nothing
    \* What the clients know, for the properties only.
    given,      \* last octet of the last reply to a client, NoIp before the first
    lastSeen,   \* second of the last answered message of a client
    held        \* the lease a client may rely on: [ip, until]

vars == <<entries, now, reply, given, lastSeen, held>>

-----------------------------------------------------------------------------
\* dhcpServer_init clears the times; the MAC addresses keep whatever the stack
\* held, which may even be the address of a client.
Init ==
    /\ entries \in [Entries -> [timeSec : {0}, macAddr : Macs \cup {Foreign}]]
    /\ now = 1
    /\ reply = NoReply
    /\ given = [m \in Macs |-> NoIp]
    /\ lastSeen = [m \in Macs |-> 0]
    /\ held = [m \in Macs |-> [ip |-> NoIp, until |-> 0]]

Matching(mac) == {i \in Entries : entries[i].macAddr = mac}

\* The scan returns at the first match ...
FirstMatch(mac) ==
    CHOOSE i \in Matching(mac) : \A j \in Matching(mac) : i <= j

\* Mutated form of OldestIndex: the comparison turned around.
NewestIndex ==
    CHOOSE i \in Entries : \A j \in Entries : entries[i].timeSec >= entries[j].timeSec

\* ... and otherwise has found the first of the entries with the least time.
OldestIndex ==
    CHOOSE i \in Entries : \A j \in Entries :
        \/ entries[i].timeSec < entries[j].timeSec
        \/ entries[i].timeSec = entries[j].timeSec /\ i <= j

\* Mutated form of GetEntry: the scan never takes a match.
GetEntryWithoutLookup(mac, allowCreate) == OldestIndex

\* The index dhcpServer_getEntry returns.
GetEntry(mac, allowCreate) ==
    IF Matching(mac) # {} THEN FirstMatch(mac)
    ELSE IF allowCreate THEN OldestIndex
    ELSE NoEntry

Reply(mac, isDiscover, i, clientIp, dnsIp) ==
    LET yourIp == FirstOctet + i IN
    [type   |-> IF isDiscover THEN "OFFER" ELSE "ACK",
     mac    |-> mac,
     yourIp |-> yourIp,
     dns    |-> IF dnsIp # 0 THEN dnsIp ELSE DefaultDns,
     dest   |-> IF clientIp = yourIp THEN yourIp ELSE Broadcast]

\* A packet that gets no answer: not for us, or a request of an unknown client.
Ignore(mac, type) ==
    /\ \/ type \notin {"DISCOVER", "REQUEST"}
       \/ type = "REQUEST" /\ GetEntry(mac, FALSE) = NoEntry
    /\ reply' = NoReply
    /\ UNCHANGED <<entries, now, given, lastSeen, held>>

\* A discover or a request that is answered.  A client that discovers has no
\* lease (dhcpClient.c removes its address before it sends a discover).
Answer(mac, type, clientIp, dnsIp) ==
    LET isDiscover == type = "DISCOVER"
        i == GetEntry(mac, isDiscover)
    IN
    /\ type \in {"DISCOVER", "REQUEST"}
    /\ i # NoEntry
    /\ entries' = [entries EXCEPT ![i] = [timeSec |-> now, macAddr |-> mac]]
    /\ reply' = Reply(mac, isDiscover, i, clientIp, dnsIp)
    /\ given' = [given EXCEPT ![mac] = FirstOctet + i]
    /\ lastSeen' = [lastSeen EXCEPT ![mac] = now]
    /\ held' = [held EXCEPT ![mac] =
                   IF isDiscover THEN [ip |-> NoIp, until |-> 0]
                   ELSE [ip |-> FirstOctet + i, until |-> now + LeaseTime]]
    /\ UNCHANGED now

\* dhcpServer_onFd: one packet is read and handled.
OnFd(mac, type, clientIp, dnsIp) ==
    Ignore(mac, type) \/ Answer(mac, type, clientIp, dnsIp)

Tick ==
    /\ now < MaxTime
    /\ now' = now + 1
    /\ reply' = NoReply
    /\ UNCHANGED <<entries, given, lastSeen, held>>

Next ==
    \/ \E mac \in Macs, type \in MessageTypes,
          clientIp \in Octets \cup {NoIp}, dnsIp \in DnsIps \cup {0} :
          OnFd(mac, type, clientIp, dnsIp)
    \/ Tick

Spec == Init /\ [][Next]_vars

-----------------------------------------------------------------------------
(***************************************************************************)
(* Properties.                                                             *)
(***************************************************************************)

\* The table, the clock and what the clients know have their types; in
\* particular every index dhcpServer_getEntry hands out is inside the table.
TypeOK ==
    /\ entries \in [Entries -> [timeSec : Nat, macAddr : Macs \cup {Foreign}]]
    /\ now \in Nat
    /\ given \in [Macs -> Octets \cup {NoIp}]
    /\ lastSeen \in [Macs -> Nat]
    /\ held \in [Macs -> [ip : Octets \cup {NoIp}, until : Nat]]

\* The other clients heard since (or in the same second as) the last answer to mac.
HeardSince(mac) == {m \in Macs \ {mac} : lastSeen[m] >= lastSeen[mac]}

\* More clients were heard since mac's last answer than the table can hold beside it.
Overrun(mac) == Cardinality(HeardSince(mac)) >= NumEntries

\* The table really is a least-recently-seen cache: the entry a client was given
\* is still its own unless NumEntries other clients were heard since.  Times are
\* whole seconds, so clients heard in the same second count as later.
RecentClientKeepsEntry ==
    \A m \in Macs : given[m] # NoIp /\ ~Overrun(m) =>
        entries[given[m] - FirstOctet].macAddr = m

Holds(m, ip) == held[m].ip = ip /\ now < held[m].until

\* Two clients rely on an unexpired lease of the same address only when one of
\* them was pushed out by NumEntries other clients: dhcpServer_getEntry takes the
\* oldest entry without looking at the lease time it promised.
SharedAddressOnlyWhenOverrun ==
    \A m1, m2 \in Macs : \A ip \in Octets :
        m1 # m2 /\ Holds(m1, ip) /\ Holds(m2, ip) => Overrun(m1) \/ Overrun(m2)

\* On a LAN with no more clients than table entries no address is ever leased to
\* two clients at a time.
NoAddressLeasedTwice ==
    Cardinality(Macs) <= NumEntries =>
        \A m1, m2 \in Macs : \A ip \in Octets :
            Holds(m1, ip) /\ Holds(m2, ip) => m1 = m2
=============================================================================
