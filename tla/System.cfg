\* Six descriptors: two per dumper, the telnet client and the modem's line.
SPECIFICATION Spec
CONSTANTS
    DumperSeq <- MCDumperSeq
    FdLimit = 6
    MaxFailures = 1
    MaxFaults = 1
INVARIANTS DescriptorsAccounted EventsFindTheirHandler BootInOrder PowerOffIsClean
PROPERTY PowerButtonPowersOff
CHECK_DEADLOCK FALSE
