SPECIFICATION Spec
CONSTANTS
    Macs = {m1, m2, m3, m4}
    Foreign = foreign
    NumEntries = 2
    LeaseTime = 3
    DnsIps = {1}
    MaxTime = 4
SYMMETRY MacSymmetry
INVARIANTS RecentClientKeepsEntry SharedAddressOnlyWhenOverrun
