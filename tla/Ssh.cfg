\* A buffer of five aligned places, so that packets and reads wrap around.
SPECIFICATION Spec
CONSTANTS
    BufferSize = 10
    MaxPacket = 10
    Align = 2
    MacSize = 2
    HelloSize = 5
    HelloLimit = 7
    PrefixSize = 2
    Scripts <- MCScripts
    MaxFailures = 1
INVARIANTS BufferIsTail ConnectedMeansAgreed GivesBackWhatItHolds
PROPERTY HonestServerConnects
CHECK_DEADLOCK FALSE
