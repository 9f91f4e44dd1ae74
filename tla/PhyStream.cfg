SPECIFICATION PhySpec
CONSTANTS
    LoopPayloads <- MCLoopPayloads
    AirPayloads <- MCAirPayloads
    Gaps <- MCGaps
    ChunkSizes = {4096, 600}
    NoiseAt <- MCQuiet
    MisreadSyms = {1, 60}
    Damage = FALSE
    MaxFrames = 2
    MaxChunks = 2
INVARIANT NoneSkipped
CHECK_DEADLOCK FALSE
