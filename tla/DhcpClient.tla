----------------------------- MODULE DhcpClient -----------------------------
(***************************************************************************)
(* The DHCP client of the WAN and the USB interface                        *)
(* (router/router/dhcpClient.c).                                           *)
(*                                                                         *)
(* Two events drive it: its one timer and packets on its socket.  Packets  *)
(* may come at any time, in any order and any number of times: the client  *)
(* compares the hardware address and the message type, and neither the     *)
(* transaction identifier nor the phase it is in.  The kernel's table of   *)
(* interface addresses is state too, because the client asserts that the   *)
(* kernel does what it is asked: what it refuses aborts the router.        *)
(***************************************************************************)
EXTENDS Integers, FiniteSets

CONSTANTS
    Ips,            \* addresses servers lease
    Servers,        \* server addresses
    Masks,          \* prefix lengths (hc_POPCOUNT32 of the subnet mask option)
    Gateways,       \* default gateways
    DnsIps,         \* name servers
    MaxLease,       \* UINT32_MAX, the largest lease time
    LeaseTimes,     \* lease times servers send
    RetryTime,      \* the 10 seconds between attempts
    NakTime         \* the 5 seconds after a NAK

None     == 0       \* leasedIp, renewServerIp and dnsIp when there is none
NoOption == -1      \* an option a packet does not carry
Disarmed == -1      \* timerfd_settime with 0 stops the timer

ASSUME AddressAssumption ==
    /\ Ips \subseteq Nat \ {None} /\ DnsIps \subseteq Nat \ {None}
    /\ Masks \subseteq Nat /\ Gateways \subseteq Nat \ {None}
    \* The server address of the header may be 0: some servers leave it out.
    /\ Servers \subseteq Nat
ASSUME TimeAssumption ==
    /\ MaxLease \in Nat /\ LeaseTimes \subseteq 0 .. MaxLease
    /\ RetryTime \in Nat \ {0} /\ NakTime \in Nat \ {0}

\* What a packet tells the client: its type ("OTHER" when it is too short, for
\* another hardware address, or of no type the client handles), the header's
\* addresses and the options it looks for.
Packets ==
    [type : {"OFFER", "NAK", "ACK", "OTHER"}, yourIp : Ips, serverIp : Servers,
     leaseTime : LeaseTimes \cup {NoOption}, subnetMask : Masks \cup {NoOption},
     router : Gateways \cup {NoOption}, dns : DnsIps \cup {NoOption}]

VARIABLES
    leasedIp,           \* currently leased IP
    leasedIpNetmask,
    renewServerIp,      \* the server to renew the lease from
    dnsIp,
    timer,              \* seconds until the timer fires, 0 when it has, or Disarmed
    addrs,              \* the kernel: <<ip, prefix length>> of the interface
    gateway,            \* the kernel: gateway of the default route
    aborted,            \* the request whose refusal failed a CHECK, or "NONE"
    \* What happened, for the properties only.
    last,               \* the last step: what it sent, or the packet or second it was
    leaseLeft,          \* seconds the last granted lease is still good for
    disturbed,          \* since the grant: too short a lease, an OFFER or a NAK
    moved,              \* some ACK changed the address or the mask of a held lease
    renewals            \* renewals since the last ACK, counted to 2

config == <<leasedIp, leasedIpNetmask, renewServerIp, dnsIp>>
kernel == <<addrs, gateway>>
ghosts == <<leaseLeft, disturbed, moved, renewals>>
vars   == <<config, timer, kernel, aborted, last, ghosts>>

-----------------------------------------------------------------------------
\* timerfd_settime: the new time replaces the old one and any expiry not yet read.
Settime(seconds) == timer' = IF seconds = 0 THEN Disarmed ELSE seconds

\* Mutated form of HalfLease: the whole lease time.
WholeLease(lease) == lease

\* (leaseTimeValue + 1) / 2 in uint32_t, so that UINT32_MAX gives 0.
HalfLease(lease) == ((lease + 1) % (MaxLease + 1)) \div 2

\* RTM_NEWADDR and then RTM_NEWROUTE, with NLM_F_CREATE | NLM_F_REPLACE.  The kernel
\* tells addresses of an interface apart by address and prefix length.  It may refuse
\* either (a prefix length it does not take, a gateway it has no way to): the CHECK of
\* netlink_receive then aborts the router.
Configure(ip, mask, router) ==
    \/ /\ addrs' = addrs \cup {<<ip, mask>>}
       /\ \/ gateway' = router /\ UNCHANGED aborted
          \/ aborted' = "NEWROUTE" /\ UNCHANGED gateway
    \/ aborted' = "NEWADDR" /\ UNCHANGED kernel

\* RTM_DELADDR by address only removes the first that matches; with none it fails and
\* netlink_receive's CHECK aborts the router.
DelAddr(ip) ==
    \/ /\ \E a \in addrs : a[1] = ip /\ addrs' = addrs \ {a}
       /\ UNCHANGED aborted
    \/ /\ \A a \in addrs : a[1] # ip
       /\ aborted' = "DELADDR"
       /\ UNCHANGED addrs

Init ==
    /\ leasedIp = None /\ leasedIpNetmask = 0 /\ renewServerIp = None /\ dnsIp = None
    /\ timer = RetryTime
    /\ addrs = {} /\ gateway = None
    /\ aborted = "NONE"
    /\ last = "NONE" /\ leaseLeft = 0 /\ disturbed = FALSE /\ moved = FALSE /\ renewals = 0

-----------------------------------------------------------------------------
(***************************************************************************)
(* dhcpClient_onTimerFd.                                                   *)
(***************************************************************************)

\* Mutated form of Renew: the server is not forgotten after the attempt.
RenewAgain ==
    /\ leasedIp # None /\ renewServerIp # None
    /\ last' = "RENEW"
    /\ renewals' = IF renewals < 2 THEN renewals + 1 ELSE 2
    /\ UNCHANGED <<config, kernel, aborted, leaseLeft, disturbed, moved>>

\* Attempt to renew the leased IP once.
Renew ==
    /\ leasedIp # None /\ renewServerIp # None
    /\ last' = "RENEW"
    /\ renewServerIp' = None
    /\ renewals' = IF renewals < 2 THEN renewals + 1 ELSE 2
    /\ UNCHANGED <<leasedIp, leasedIpNetmask, dnsIp, kernel, aborted,
                   leaseLeft, disturbed, moved>>

\* Either there was no leased IP, or it could not be renewed: give it up and discover.
Discover ==
    /\ leasedIp = None \/ renewServerIp = None
    /\ IF leasedIp # None THEN DelAddr(leasedIp) ELSE UNCHANGED <<addrs, aborted>>
    /\ leasedIp' = None
    /\ last' = "DISCOVER"
    /\ UNCHANGED <<leasedIpNetmask, renewServerIp, dnsIp, gateway, ghosts>>

OnTimerFd ==
    /\ timer = 0
    /\ Renew \/ Discover
    /\ Settime(RetryTime)

-----------------------------------------------------------------------------
(***************************************************************************)
(* dhcpClient_onFd.                                                        *)
(***************************************************************************)

\* Respond to an offer with a request, whatever the client was doing.
OnOffer(p) ==
    /\ p.type = "OFFER" /\ p.leaseTime # NoOption
    /\ last' = "REQUEST"
    /\ Settime(RetryTime)
    /\ disturbed' = (disturbed \/ leasedIp # None)
    /\ UNCHANGED <<config, kernel, aborted, leaseLeft, moved, renewals>>

OnNak(p) ==
    /\ p.type = "NAK"
    /\ last' = "NAK"
    /\ Settime(NakTime)
    /\ disturbed' = (disturbed \/ leasedIp # None)
    /\ UNCHANGED <<config, kernel, aborted, leaseLeft, moved, renewals>>

\* Mutated form of OnAck: the address is configured only when it is a new one, and
\* before the new one is recorded.
OnAckAddsOnlyFirst(p) ==
    /\ p.type = "ACK"
    /\ NoOption \notin {p.subnetMask, p.router, p.leaseTime}
    /\ dnsIp' = IF p.dns # NoOption THEN p.dns ELSE None
    /\ Settime(HalfLease(p.leaseTime))
    /\ leasedIpNetmask' = p.subnetMask
    /\ renewServerIp' = p.serverIp
    /\ leasedIp' = p.yourIp
    /\ IF leasedIp = None THEN Configure(p.yourIp, p.subnetMask, p.router)
       ELSE gateway' = p.router /\ UNCHANGED <<addrs, aborted>>
    /\ last' = "ACK"
    /\ leaseLeft' = p.leaseTime
    /\ disturbed' = (p.leaseTime < 2 * RetryTime)
    /\ moved' = (moved \/ (leasedIp # None /\ <<p.yourIp, p.subnetMask>> # <<leasedIp, leasedIpNetmask>>))
    /\ renewals' = 0

\* Record the lease and the server to renew it from, configure the address and the
\* default route.  An address leased before stays configured.
OnAck(p) ==
    /\ p.type = "ACK"
    /\ NoOption \notin {p.subnetMask, p.router, p.leaseTime}
    /\ dnsIp' = IF p.dns # NoOption THEN p.dns ELSE None
    /\ Settime(HalfLease(p.leaseTime))
    /\ leasedIpNetmask' = p.subnetMask
    /\ renewServerIp' = p.serverIp
    /\ leasedIp' = p.yourIp
    /\ Configure(p.yourIp, p.subnetMask, p.router)
    /\ last' = "ACK"
    /\ leaseLeft' = p.leaseTime
    /\ disturbed' = (p.leaseTime < 2 * RetryTime)
    /\ moved' = (moved \/ (leasedIp # None /\ <<p.yourIp, p.subnetMask>> # <<leasedIp, leasedIpNetmask>>))
    /\ renewals' = 0

\* A packet that is not for this client or lacks a needed option.
OnIgnored(p) ==
    /\ \/ p.type = "OTHER"
       \/ p.type = "OFFER" /\ p.leaseTime = NoOption
       \/ p.type = "ACK" /\ NoOption \in {p.subnetMask, p.router, p.leaseTime}
    /\ last' = "IGNORED"
    /\ UNCHANGED <<config, timer, kernel, aborted, ghosts>>

OnFd(p) == OnOffer(p) \/ OnNak(p) \/ OnAck(p) \/ OnIgnored(p)

-----------------------------------------------------------------------------
\* A second passes.  The event loop reads an expired timer before the next second
\* does.  MaxLease is the infinite lease of the protocol.
Tick ==
    /\ timer # 0
    /\ timer' = IF timer = Disarmed THEN Disarmed ELSE timer - 1
    /\ leaseLeft' = IF leaseLeft \in {0, MaxLease} THEN leaseLeft ELSE leaseLeft - 1
    /\ last' = "SECOND"
    /\ UNCHANGED <<config, kernel, aborted, disturbed, moved, renewals>>

Next ==
    /\ aborted = "NONE"
    /\ \/ OnTimerFd
       \/ \E p \in Packets : OnFd(p)
       \/ Tick

\* Time passes, and the event loop reads an expired timer unless packets keep it busy.
Fairness == WF_vars(aborted = "NONE" /\ Tick) /\ WF_vars(aborted = "NONE" /\ OnTimerFd)

Spec == Init /\ [][Next]_vars /\ Fairness

-----------------------------------------------------------------------------
(***************************************************************************)
(* Properties.                                                             *)
(***************************************************************************)

\* The steps that handle a packet.
PacketSteps == {"REQUEST", "NAK", "ACK", "IGNORED"}

\* The state has its types; the timer is never set to a negative time.
TypeOK ==
    /\ leasedIp \in Ips \cup {None}
    /\ leasedIpNetmask \in Masks \cup {0}
    /\ renewServerIp \in Servers \cup {None}
    /\ dnsIp \in DnsIps \cup {None}
    /\ timer \in Nat \cup {Disarmed}
    /\ addrs \subseteq Ips \X Masks
    /\ gateway \in Gateways \cup {None}
    /\ aborted \in {"NONE", "NEWADDR", "NEWROUTE", "DELADDR"}
    /\ last \in {"NONE", "SECOND", "DISCOVER", "RENEW"} \cup PacketSteps
    /\ leaseLeft \in Nat /\ disturbed \in BOOLEAN /\ moved \in BOOLEAN /\ renewals \in 0 .. 2

\* The leased address is configured on the interface, unless the kernel refused it
\* and that ended the router: so the RTM_DELADDR of a lost lease always finds it, in
\* whatever order offers, NAKs and ACKs came and whichever addresses they moved.
LeasedAddressConfigured ==
    /\ leasedIp # None /\ aborted # "NEWADDR" => \E a \in addrs : a[1] = leasedIp
    /\ aborted # "DELADDR"

\* "Attempt to renew the leased IP once" (dhcpClient.c:98).
RenewedAtMostOnce == renewals <= 1

\* The interface carries an address that is not the leased one only when some ACK
\* moved a lease that was held to another address or mask: nothing removes the old one.
StaleAddressOnlyAfterMove ==
    ~moved => \A a \in addrs : a = <<leasedIp, leasedIpNetmask>>

\* The address is given up before its lease runs out.  An OFFER or a NAK while it was
\* held, or a lease shorter than two retries, may keep it longer, but then the timer
\* fires within one retry of the last of them, unless a lease of 0 seconds stopped it.
LeaseNotOutlived ==
    leasedIp # None /\ leaseLeft = 0 =>
        \/ timer = 0
        \/ disturbed /\ (timer <= RetryTime \/ timer <= NakTime)

\* When packets stop coming, the client gives its address up and discovers for ever,
\* unless a lease time of 0 or UINT32_MAX stopped its timer or a refusal ended the router.
SilentServerLosesLease ==
    LET silent == <>[](last \notin PacketSteps) IN
    silent => \/ <>[](timer = Disarmed \/ aborted # "NONE")
              \/ <>[](leasedIp = None) /\ []<>(last = "DISCOVER")

=============================================================================
