SPECIFICATION FairSpec
CONSTANTS
    a = a  b = b  d = d  p = p  q = q
    Bcast = Bcast  Stranger = Stranger  None = None
    Node = {a, b}
    Caller = {p}
    NodeOf <- PairNodeOf
    Dest <- PairDest
    Hears <- AllHear
    SizeOf <- AllOk
    MaxRetries = 2
    SeqMod = 2
    ControlCap = 1
    VideoCap = 1
    DataCap = 2
    CallLimit = 2
    VideoLimit <- NoVideo
    ForeignLimit = 0
    TopMcs = 2
    StartMcs = 1
    UpThresh = 2
    DnThresh = 2
INVARIANTS
    TypeOK
    AckTruthful
    SuccessBudget
    DeliveryBound
    InOrder
PROPERTIES
    ImplementsService
    CallReturns
