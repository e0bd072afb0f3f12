SPECIFICATION Spec
CONSTANTS
    Limbs = 2
    Width = 10
    Fold = 3
    Slack = 13
    ScalarBits = 20
    A24 = 1373
    ScalarByteBits = 4
    ScalarBytes = 5
    ModmLimbs = 3
    ModmLimbBytes = 2
    Order = 130841
    CurveD = 631127
    SqrtNeg1 = 683314
    BaseX = 668900
    BaseY = 77673
    Hash <- MCHash
    Secrets <- MCSecrets
    Publics <- MCPublics
    Signers <- MCSigners
    Messages <- MCMessages
    FieldInputs <- MCFieldInputs
    FieldSeconds <- MCFieldSeconds
    Forgeries <- MCForgeries
    ByteBits = 4
    WordBytes = 2
    Rounds = 24
    Rotations <- MCRotations
    RoundKeys <- MCRoundKeys
    Quarter = 6
    QuarterKeys <- MCQuarterKeys
    Rotl5 = 5
    Rotl30 = 6
    Initial <- MCInitial
    LimbBits = 6
    PolyBlockSize = 2
    ClampMasks <- MCClampMasks
    ChaBits = 8
    ChaRotations <- MCChaRotations
    ChaConstant <- MCChaConstant
    UintBits = 8
    PageSize = 8
    Algorithms = {"sha1", "sha2"}
    Hashed <- MCHashed
    Pieces <- MCPieces
    PolyMessages <- MCPolyMessages
    PolyKeys <- MCPolyKeys
    Moves <- MCMoves
    Memory <- MCMemory
    Encoded <- MCEncoded
    Strings <- MCStrings
    AesCalls <- MCAesCalls
    ChaCalls <- MCChaCalls
    ReserveSize = 34
    Sizes = {0, 1, 7, 8, 9, 16, 24, 33, 40, 41}
    Names = {1, 2, 3, 4, 5, 6}
    NotNames = {6}
    NameLength <- MCNameLength
    MaxNameLen = 4
    MaxPrefixLen = 7
    SizeDigits = 1
    RecordSize = 2
    BufferSize = 3
    Trees <- MCTrees
    ArgLists <- MCArgLists
    Kinds <- MCKinds
    StartPattern <- MCStartPattern
    EndPattern <- MCEndPattern
    Encoded64 = "encoded"
    Encode64 <- MCEncode64
    FdSize = 1
    PackerReserve = 64
    PackerCalls <- MCPackerCalls
INVARIANT MacReduced
CHECK_DEADLOCK FALSE
