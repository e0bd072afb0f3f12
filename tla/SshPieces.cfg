\* The identification line arrives in any pieces.
SPECIFICATION Spec
CONSTANTS
    BufferSize = 10
    MaxPacket = 10
    Align = 2
    MacSize = 2
    HelloSize = 5
    HelloLimit = 7
    PrefixSize = 2
    Scripts <- MCScripts
    MaxFailures = 0
INVARIANT LineInPieces
CHECK_DEADLOCK FALSE
