-------------------------- MODULE DhcpClientProofs --------------------------
(***************************************************************************)
(* For all addresses, servers and lease times, and for packets in any      *)
(* order: the client never asks the kernel to remove an address it does    *)
(* not have, renews at most once per grant, and leaves the interface and   *)
(* the lease as the properties of DhcpClient say.                          *)
(***************************************************************************)
EXTENDS DhcpClient, TLAPS

\* An untried renewal server means that nothing was renewed since the last ACK.
RenewalUntried == renewServerIp # None => renewals = 0

\* While an undisturbed lease is held, it outlasts the timer and, before the renewal,
\* one retry more; or the lease is infinite.
LeaseOutlastsTimer ==
    leasedIp # None /\ ~disturbed =>
        \/ leaseLeft = MaxLease /\ MaxLease > 0
        \/ /\ timer # Disarmed /\ leaseLeft < MaxLease
           /\ leaseLeft >= timer + (IF renewServerIp # None THEN RetryTime ELSE 0)

\* A disturbed lease's timer fires within one retry, or is stopped.
DisturbedIsTimed ==
    leasedIp # None /\ disturbed => timer <= RetryTime \/ timer <= NakTime

IInv ==
    /\ TypeOK
    /\ LeasedAddressConfigured
    /\ RenewalUntried
    /\ RenewedAtMostOnce
    /\ StaleAddressOnlyAfterMove
    /\ LeaseOutlastsTimer
    /\ DisturbedIsTimed

-----------------------------------------------------------------------------
\* The time an ACK sets: half of the lease time, rounded up, except for the largest.
LEMMA HalfLeaseValue ==
    ASSUME NEW lease \in 0 .. MaxLease
    PROVE  /\ HalfLease(lease) \in Nat
           /\ lease < MaxLease => HalfLease(lease) = (lease + 1) \div 2
<1>1. MaxLease \in Nat /\ lease \in Nat
  BY TimeAssumption
<1>2. CASE lease < MaxLease
  <2>1. (lease + 1) % (MaxLease + 1) = lease + 1
    BY <1>1, <1>2
  <2> QED
    BY <1>1, <1>2, <2>1 DEF HalfLease
<1>3. CASE lease = MaxLease
  <2>1. (lease + 1) % (MaxLease + 1) = 0
    BY <1>1, <1>3
  <2> QED
    BY <1>3, <2>1 DEF HalfLease
<1> QED
  BY <1>1, <1>2, <1>3

\* dhcpClient_init establishes the invariant.
LEMMA InitInv == Init => IInv
<1> SUFFICES ASSUME Init PROVE IInv
  OBVIOUS
<1>1. disturbed \in BOOLEAN /\ moved \in BOOLEAN
  BY DEF Init
<1>2. timer \in Nat \cup {Disarmed} /\ leaseLeft \in Nat /\ renewals \in 0 .. 2
  BY TimeAssumption DEF Init
<1>3. TypeOK
  BY <1>1, <1>2, Zenon DEF Init, TypeOK
<1> QED
  BY <1>3 DEF Init, IInv, LeasedAddressConfigured, RenewalUntried, RenewedAtMostOnce,
              StaleAddressOnlyAfterMove, LeaseOutlastsTimer, DisturbedIsTimed

\* The renewal attempt.
LEMMA RenewPreserves == IInv /\ timer = 0 /\ Renew /\ Settime(RetryTime) => IInv'
<1> SUFFICES ASSUME IInv, timer = 0, Renew, Settime(RetryTime) PROVE IInv'
  OBVIOUS
<1> USE DEF config, kernel, ghosts
<1>1. renewals = 0 /\ renewals' = 1
  BY DEF IInv, Renew, RenewalUntried
<1>2. timer' = RetryTime /\ RetryTime \in Nat
  BY TimeAssumption DEF Settime
<1>3. TypeOK'
  BY <1>1, <1>2 DEF IInv, TypeOK, Renew
<1>4. LeasedAddressConfigured' /\ StaleAddressOnlyAfterMove'
  BY DEF IInv, LeasedAddressConfigured, StaleAddressOnlyAfterMove, Renew
<1>5. RenewalUntried' /\ RenewedAtMostOnce'
  BY <1>1 DEF RenewalUntried, RenewedAtMostOnce, Renew
<1>6. LeaseOutlastsTimer'
  BY <1>2, TimeAssumption DEF IInv, TypeOK, LeaseOutlastsTimer, Renew, Disarmed
<1>7. DisturbedIsTimed'
  BY <1>2 DEF DisturbedIsTimed
<1> QED
  BY <1>3, <1>4, <1>5, <1>6, <1>7 DEF IInv

\* Giving the address up and discovering: the address is there to be removed.
LEMMA DiscoverPreserves ==
    IInv /\ aborted = "NONE" /\ timer = 0 /\ Discover /\ Settime(RetryTime) => IInv'
<1> SUFFICES ASSUME IInv, aborted = "NONE", timer = 0, Discover, Settime(RetryTime) PROVE IInv'
  OBVIOUS
<1> USE DEF config, kernel, ghosts
<1>1. timer' = RetryTime /\ RetryTime \in Nat
  BY TimeAssumption DEF Settime
<1>2. addrs' \subseteq addrs /\ aborted' = aborted
  BY DEF IInv, Discover, DelAddr, LeasedAddressConfigured
<1>3. TypeOK'
  BY <1>1, <1>2 DEF IInv, TypeOK, Discover
<1>4. LeasedAddressConfigured' /\ LeaseOutlastsTimer' /\ DisturbedIsTimed'
  BY <1>2 DEF LeasedAddressConfigured, LeaseOutlastsTimer, DisturbedIsTimed, Discover
<1>5. RenewalUntried' /\ RenewedAtMostOnce'
  BY DEF IInv, RenewalUntried, RenewedAtMostOnce, Discover
<1>6. StaleAddressOnlyAfterMove'
  <2> SUFFICES ASSUME ~moved' PROVE addrs' = {}
    BY DEF StaleAddressOnlyAfterMove
  <2>1. \A a \in addrs : a = <<leasedIp, leasedIpNetmask>> /\ a \in Ips \X Masks
    BY DEF IInv, StaleAddressOnlyAfterMove, TypeOK, Discover
  <2>2. CASE leasedIp = None
    <3>1. \A a \in addrs : leasedIp \in Ips
      BY <2>1
    <3> QED
      BY <1>2, <2>2, <3>1, AddressAssumption
  <2>3. CASE leasedIp # None
    <3>1. PICK a \in addrs : a[1] = leasedIp /\ addrs' = addrs \ {a}
      BY <1>2, <2>3 DEF IInv, Discover, DelAddr, LeasedAddressConfigured
    <3> QED
      BY <2>1, <3>1
  <2> QED
    BY <2>2, <2>3
<1> QED
  BY <1>3, <1>4, <1>5, <1>6 DEF IInv

\* An OFFER or a NAK only sets the timer.
LEMMA RearmPreserves ==
    ASSUME IInv, UNCHANGED <<config, kernel, aborted, leaseLeft, moved, renewals>>,
           last' \in PacketSteps, timer' \in {RetryTime, NakTime},
           disturbed' = (disturbed \/ leasedIp # None)
    PROVE  IInv'
<1> USE DEF config, kernel
<1>0. timer' \in Nat
  BY TimeAssumption
<1>1. TypeOK'
  BY <1>0 DEF IInv, TypeOK
<1>2. LeasedAddressConfigured' /\ RenewalUntried' /\ RenewedAtMostOnce' /\ StaleAddressOnlyAfterMove'
  BY DEF IInv, LeasedAddressConfigured, RenewalUntried, RenewedAtMostOnce, StaleAddressOnlyAfterMove
<1>3. LeaseOutlastsTimer'
  BY DEF LeaseOutlastsTimer
<1>4. timer' <= RetryTime \/ timer' <= NakTime
  BY TimeAssumption
<1>5. DisturbedIsTimed'
  BY <1>4, Zenon DEF DisturbedIsTimed
<1> QED
  BY <1>1, <1>2, <1>3, <1>5 DEF IInv

\* An ACK configures the address it leases, or the kernel refuses and the router ends.
LEMMA OnAckPreserves ==
    ASSUME IInv, aborted = "NONE", NEW p \in Packets, OnAck(p)
    PROVE  IInv'
<1>1. /\ p.yourIp \in Ips /\ p.serverIp \in Servers /\ p.subnetMask \in Masks
      /\ p.router \in Gateways /\ p.leaseTime \in 0 .. MaxLease
      /\ p.dns \in DnsIps \cup {NoOption}
  BY TimeAssumption DEF OnAck, Packets
<1>2. /\ HalfLease(p.leaseTime) \in Nat
      /\ p.leaseTime < MaxLease => HalfLease(p.leaseTime) = (p.leaseTime + 1) \div 2
  BY <1>1, HalfLeaseValue
<1>3. timer' = IF HalfLease(p.leaseTime) = 0 THEN Disarmed ELSE HalfLease(p.leaseTime)
  BY DEF OnAck, Settime
<1>4. timer' \in Nat \cup {Disarmed}
  BY <1>2, <1>3
<1>5. TypeOK'
  <2>1. addrs' \subseteq Ips \X Masks
    BY <1>1 DEF OnAck, Configure, kernel, IInv, TypeOK
  <2>2. leaseLeft' \in Nat /\ disturbed' \in BOOLEAN /\ renewals' \in 0 .. 2
    BY <1>1, TimeAssumption DEF OnAck
  <2>3. moved' \in BOOLEAN
    BY DEF OnAck
  <2>4. dnsIp' \in DnsIps \cup {None}
    BY <1>1 DEF OnAck
  <2>5. /\ aborted' \in {"NONE", "NEWADDR", "NEWROUTE", "DELADDR"}
        /\ gateway' \in Gateways \cup {None}
    BY <1>1 DEF OnAck, Configure, kernel, IInv, TypeOK
  <2>6. last' \in PacketSteps
    BY DEF OnAck, PacketSteps
  <2> QED
    BY <1>1, <1>4, <2>1, <2>2, <2>3, <2>4, <2>5, <2>6 DEF OnAck, TypeOK
<1>6. LeasedAddressConfigured'
  <2>1. CASE aborted' = "NEWADDR"
    BY <2>1 DEF LeasedAddressConfigured
  <2>2. CASE aborted' # "NEWADDR"
    <3>1. <<p.yourIp, p.subnetMask>> \in addrs' /\ <<p.yourIp, p.subnetMask>>[1] = leasedIp'
      BY <2>2 DEF OnAck, Configure
    <3>2. aborted' # "DELADDR"
      BY DEF OnAck, Configure
    <3> QED
      BY <3>1, <3>2, Zenon DEF LeasedAddressConfigured
  <2> QED
    BY <2>1, <2>2
<1>7. RenewalUntried' /\ RenewedAtMostOnce'
  BY DEF OnAck, RenewalUntried, RenewedAtMostOnce
<1>8. StaleAddressOnlyAfterMove'
  <2> SUFFICES ASSUME ~moved', NEW a \in addrs'
               PROVE  a = <<leasedIp', leasedIpNetmask'>>
    BY DEF StaleAddressOnlyAfterMove
  <2>1. a \in addrs \/ a = <<p.yourIp, p.subnetMask>>
    BY DEF OnAck, Configure, kernel
  <2>2. ASSUME a \in addrs
        PROVE  a = <<p.yourIp, p.subnetMask>>
    <3>1. ~moved /\ (leasedIp # None => <<p.yourIp, p.subnetMask>> = <<leasedIp, leasedIpNetmask>>)
      BY DEF OnAck
    <3>2. a = <<leasedIp, leasedIpNetmask>> /\ a \in Ips \X Masks
      BY <2>2, <3>1 DEF IInv, StaleAddressOnlyAfterMove, TypeOK
    <3>3. leasedIp # None
      BY <3>2, AddressAssumption
    <3> QED
      BY <3>1, <3>2, <3>3
  <2> QED
    BY <2>1, <2>2 DEF OnAck
<1>9. LeaseOutlastsTimer'
  <2> SUFFICES ASSUME ~disturbed'
               PROVE  \/ leaseLeft' = MaxLease /\ MaxLease > 0
                      \/ /\ timer' # Disarmed /\ leaseLeft' < MaxLease
                         /\ leaseLeft' >= timer' + RetryTime
    BY <1>4, TimeAssumption, <1>1 DEF LeaseOutlastsTimer, OnAck, Disarmed
  <2> DEFINE short == p.leaseTime < 2 * RetryTime
  <2>0. ~short
    <3> HIDE DEF short
    <3>1. disturbed' = short
      BY Zenon DEF OnAck, short
    <3> QED
      BY <3>1, Zenon
  <2>1. p.leaseTime >= 2 * RetryTime /\ leaseLeft' = p.leaseTime
    BY <1>1, <2>0, TimeAssumption DEF OnAck
  <2>2. CASE p.leaseTime = MaxLease
    BY <2>1, <2>2, TimeAssumption
  <2>3. CASE p.leaseTime < MaxLease
    BY <1>1, <1>2, <1>3, <2>1, <2>3, TimeAssumption DEF Disarmed
  <2> QED
    BY <1>1, <2>2, <2>3, TimeAssumption
<1>10. DisturbedIsTimed'
  <2> SUFFICES ASSUME disturbed' PROVE timer' <= RetryTime
    BY DEF DisturbedIsTimed
  <2> DEFINE short == p.leaseTime < 2 * RetryTime
  <2>1. short
    <3> HIDE DEF short
    <3>1. disturbed' = short
      BY Zenon DEF OnAck, short
    <3> QED
      BY <3>1, Zenon
  <2>2. CASE p.leaseTime = MaxLease
    <3>1. HalfLease(p.leaseTime) = 0
      BY <2>2, TimeAssumption DEF HalfLease
    <3> QED
      BY <1>3, <3>1, TimeAssumption DEF Disarmed
  <2>3. CASE p.leaseTime < MaxLease
    BY <1>1, <1>2, <1>3, <2>1, <2>3, TimeAssumption DEF Disarmed
  <2> QED
    BY <1>1, <2>2, <2>3, TimeAssumption
<1> QED
  BY <1>5, <1>6, <1>7, <1>8, <1>9, <1>10 DEF IInv

\* A second takes as much from the timer as from the lease.
LEMMA TickPreserves == IInv /\ Tick => IInv'
<1> SUFFICES ASSUME IInv, Tick PROVE IInv'
  OBVIOUS
<1> USE DEF config, kernel
<1>1. timer \in Nat \cup {Disarmed} /\ leaseLeft \in Nat
  BY DEF IInv, TypeOK
<1>2. timer' \in Nat \cup {Disarmed} /\ leaseLeft' \in Nat
  BY <1>1 DEF Tick, Disarmed
<1>3. TypeOK'
  BY <1>2 DEF IInv, TypeOK, Tick
<1>4. LeasedAddressConfigured' /\ RenewalUntried' /\ RenewedAtMostOnce' /\ StaleAddressOnlyAfterMove'
  BY DEF IInv, LeasedAddressConfigured, RenewalUntried, RenewedAtMostOnce, StaleAddressOnlyAfterMove, Tick
<1>5. LeaseOutlastsTimer'
  BY <1>1, TimeAssumption DEF IInv, LeaseOutlastsTimer, Tick, Disarmed
<1>6. DisturbedIsTimed'
  BY <1>1, TimeAssumption DEF IInv, DisturbedIsTimed, Tick, Disarmed
<1> QED
  BY <1>3, <1>4, <1>5, <1>6 DEF IInv

-----------------------------------------------------------------------------
\* The invariant holds in every reachable state of the client.
THEOREM Invariance == Spec => []IInv
<1>1. IInv /\ [Next]_vars => IInv'
  <2> SUFFICES ASSUME IInv, [Next]_vars PROVE IInv'
    OBVIOUS
  <2>4. CASE UNCHANGED vars
    BY <2>4 DEF vars, config, kernel, ghosts, IInv, TypeOK, LeasedAddressConfigured,
                RenewalUntried, RenewedAtMostOnce, StaleAddressOnlyAfterMove, LeaseOutlastsTimer,
                DisturbedIsTimed
  <2> SUFFICES ASSUME Next PROVE IInv'
    BY <2>4
  <2>0. aborted = "NONE"
    BY DEF Next
  <2>1. CASE OnTimerFd
    BY <2>0, <2>1, RenewPreserves, DiscoverPreserves DEF OnTimerFd
  <2>2. CASE Tick
    BY <2>2, TickPreserves
  <2>3. ASSUME NEW p \in Packets, OnFd(p) PROVE IInv'
    <3>1. CASE OnOffer(p)
      BY <3>1, RearmPreserves, TimeAssumption DEF OnOffer, Settime, PacketSteps
    <3>2. CASE OnNak(p)
      BY <3>2, RearmPreserves, TimeAssumption DEF OnNak, Settime, PacketSteps
    <3>3. CASE OnAck(p)
      BY <2>0, <3>3, OnAckPreserves
    <3>4. CASE OnIgnored(p)
      BY <3>4 DEF OnIgnored, config, kernel, ghosts, IInv, TypeOK, LeasedAddressConfigured,
                  RenewalUntried, RenewedAtMostOnce, StaleAddressOnlyAfterMove, LeaseOutlastsTimer,
                  DisturbedIsTimed, PacketSteps
    <3> QED
      BY <2>3, <3>1, <3>2, <3>3, <3>4 DEF OnFd
  <2> QED
    BY <2>1, <2>2, <2>3 DEF Next
<1> QED
  BY <1>1, InitInv, PTL DEF Spec

\* Every reachable state is well typed.
THEOREM TypeCorrect == Spec => []TypeOK
<1>1. IInv => TypeOK
  BY DEF IInv
<1> QED
  BY <1>1, Invariance, PTL

\* Whatever packets arrive and in whatever order, and unless the kernel refused it, the
\* leased address is on the interface, and removing a lost lease's address never aborts
\* the router.
THEOREM AddressAlwaysConfigured == Spec => []LeasedAddressConfigured
<1>1. IInv => LeasedAddressConfigured
  BY DEF IInv
<1> QED
  BY <1>1, Invariance, PTL

\* Between two ACKs the client sends at most one renewal.
THEOREM RenewsOnce == Spec => []RenewedAtMostOnce
<1>1. IInv => RenewedAtMostOnce
  BY DEF IInv
<1> QED
  BY <1>1, Invariance, PTL

\* Only an ACK that moves a held lease leaves an unleased address on the interface.
THEOREM StaleAddressNeedsMove == Spec => []StaleAddressOnlyAfterMove
<1>1. IInv => StaleAddressOnlyAfterMove
  BY DEF IInv
<1> QED
  BY <1>1, Invariance, PTL

\* For every lease time of at least two retries, an address whose lease no OFFER or
\* NAK disturbed is given up in time, and any other within one retry of the last of them
\* if the timer runs.
THEOREM LeaseGivenUpInTime == Spec => []LeaseNotOutlived
<1>1. IInv => LeaseNotOutlived
  BY TimeAssumption DEF IInv, TypeOK, LeaseOutlastsTimer, DisturbedIsTimed, LeaseNotOutlived, Disarmed
<1> QED
  BY <1>1, Invariance, PTL
=============================================================================
