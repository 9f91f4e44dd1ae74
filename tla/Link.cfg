SPECIFICATION LinkSpec
CONSTANTS
    a = a  b = b  t = t  u = u
    None = None
    Node = {a, b}
    Thread = {t, u}
    NodeOf <- MCNodeOf
    MaxFrags = 3
    IdMod = 2
    VideoCap = 2
    MaxAge = 1
    MsgLimit = 3
    LoopPayloads <- MCLoopPayloads
    AirPayloads <- MCAirPayloads
    Gaps <- MCGaps
    ChunkSizes = {1500, 600}
    NoiseAt <- MCNoise
    MisreadSyms = {1, 60}
    Damage = TRUE
    MaxFrames = 2
    MaxChunks = 2
INVARIANTS
    TypeOK
    IntactUnlessShared
    LivesUnlessShared
    PhyTypeOK
    LoopbackComplete
    OrderedOnce
PROPERTIES
    ImplementsService
    PushReturns
CHECK_DEADLOCK FALSE
