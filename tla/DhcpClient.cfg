SPECIFICATION Spec
CONSTANTS
    Ips = {1, 2}
    Servers = {0, 1}
    Masks = {24}
    Gateways = {1}
    DnsIps = {1}
    MaxLease = 15
    LeaseTimes = {0, 3, 4, 9, 15}
    RetryTime = 2
    NakTime = 1
INVARIANTS LeasedAddressConfigured LeaseNotOutlived
PROPERTY SilentServerLosesLease
\* A request that the kernel refuses ends the router.
CHECK_DEADLOCK FALSE
