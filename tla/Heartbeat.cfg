SPECIFICATION DaemonSpec
CONSTANTS
    Node = {a}
    Me = a
    Id = {a}
    LoraId <- MCLoraId
    OnlineAge = 1
    MaxAge = 1
    MaxLag = 1
INVARIANT HeartbeatAlive
CHECK_DEADLOCK FALSE
