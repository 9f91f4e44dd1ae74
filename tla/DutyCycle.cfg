SPECIFICATION FrontSpec
CONSTANTS
    Length = {1, 2}
    Budget = 2
    Window = 1
    BufferSize = 2
    CallLimit = 4
INVARIANT DutyCycle
CHECK_DEADLOCK FALSE
