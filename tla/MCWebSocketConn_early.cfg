SPECIFICATION FairSpec
CONSTANTS
    Inputs <- MCNone
    EarlyInputs <- MCEarlyInputs
    HsCap = 3
    ReadCap = 3
    Cap = 3
    MaxHeader = 3
    MaxSegment = 3
    MaxPush = 1
    MaxPayload = 300
    Xor <- ByteXor
PROPERTIES ArrivedIsServed
CHECK_DEADLOCK FALSE
