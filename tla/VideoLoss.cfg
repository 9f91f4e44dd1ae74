SPECIFICATION StreamSpec
CONSTANTS
    Stream = {s}
    SeqMod = 4
    StaleWindow = 1
    PacketLimit = 3
PROPERTY NothingDiscarded
CHECK_DEADLOCK FALSE
