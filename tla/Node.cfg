SPECIFICATION Spec
CONSTANTS
    rx = rx  cam = cam  app = app
    Producer = {rx, cam, app}
    ClassOf <- MCClassOf
    Cap <- MCCap
    ItemLimit = 3
    Node = {a, b}
    Me = a
    Id = {a, b}
    LoraId <- MCLoraId
    OnlineAge = 1
    MaxAge = 1
    MaxLag = 1
    VideoMcs = {0, 1, 2}
    Profile <- MCProfile
    InitKbps = 300
    StartLimit = 2
    Stream = {s}
    SeqMod = 4
    StaleWindow = 1
    PacketLimit = 10
    Length = {1, 2}
    Budget = 2
    Window = 1
    BufferSize = 2
    CallLimit = 4
    Owner = {p, q}
    Contact <- MCContact
    Group <- MCGroup
    KeyLimit = 2
    FrameLimit = 1
INVARIANTS
    QueueTypeOK
    NoLostWakeup
    FifoPerClass
    OneFrameAhead
    DaemonTypeOK
    OnlineMeansRan
    VideoTxTypeOK
    RateSettled
    StreamTypeOK
    PlayedInOrder
    HeldBounded
    FrontTypeOK
    AirtimeBacked
    KeyTypeOK
    IdentityKept
    ReadableByAddressee
PROPERTIES
    EveryItemTaken
    ImplementsPresence
    SilentForgotten
    RateFollows
CHECK_DEADLOCK FALSE
