SPECIFICATION Spec
CONSTANTS
    a = a  b = b  t = t  u = u
    None = None
    Node = {a, b}
    Thread = {t, u}
    NodeOf <- MCNodeOf
    MaxFrags = 3
    IdMod = 2
    VideoCap = 2
    MaxAge = 1
    MsgLimit = 1
INVARIANTS
    Intact
