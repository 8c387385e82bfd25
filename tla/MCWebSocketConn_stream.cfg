\* Buffers of three bytes, segments and TLS records of up to four.
SPECIFICATION FairSpec
CONSTANTS
    Inputs <- MCInputs
    EarlyInputs <- MCEarlyInputs
    HsCap = 3
    ReadCap = 3
    Cap = 3
    MaxHeader = 3
    MaxSegment = 4
    MaxPush = 1
    MaxPayload = 300
    Xor <- ByteXor
INVARIANTS CleanStream ControlAnswered
PROPERTIES WaitingPeerIsServed
CHECK_DEADLOCK FALSE
