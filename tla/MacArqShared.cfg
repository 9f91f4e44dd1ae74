SPECIFICATION Spec
CONSTANTS
    a = a  b = b  d = d  p = p  q = q
    Bcast = Bcast  Stranger = Stranger  None = None
    Node = {a, b}
    Caller = {p, q}
    NodeOf <- SharedNodeOf
    Dest <- ToB
    Hears <- AllHear
    SizeOf <- QPhy
    MaxRetries = 1
    SeqMod = 2
    ControlCap = 1
    VideoCap = 1
    DataCap = 2
    CallLimit = 1
    VideoLimit <- OneVideo
    ForeignLimit = 1
    TopMcs = 2
    StartMcs = 1
    UpThresh = 2
    DnThresh = 2
INVARIANTS
    AckTruthful
