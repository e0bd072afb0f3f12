SPECIFICATION KsmbSpec
CONSTANTS
    Clients = {c1, c2, c3}
    MaxRequests = 4
    MaxQueue = 4
SYMMETRY ClientSymmetry
INVARIANTS NeverReceivesNothing LossAccounted
CHECK_DEADLOCK FALSE
