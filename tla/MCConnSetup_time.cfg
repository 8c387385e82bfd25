SPECIFICATION Spec
CONSTANTS
    Timeout = 2
    AuthTimeout = 2
    HandshakeBytes = 2
    MaxReq = 1
    RecordBytes = 2
    MessageBytes = 2
    MaxAge = 28
CHECK_DEADLOCK FALSE
INVARIANTS
    TypeOK
    SlotIsFreed
    StopIsTimely
PROPERTY EndsWhenStopped
