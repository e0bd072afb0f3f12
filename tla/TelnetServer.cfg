SPECIFICATION Spec
CONSTANTS
    Inputs <- MCInputs
    MaxInputs = 2
    MaxSessions = 2
INVARIANTS SessionDecoded SavedFits
PROPERTY EventuallyDecoded
CHECK_DEADLOCK FALSE
