\* The contract of IConn::send.
SPECIFICATION Spec
CONSTANTS
    f1 = f1
    f2 = f2
    bad = bad
    long = long
    Names = {f1, f2}
    BadNames = {bad, long}
    LongNames = {long}
    NoName = NoName
    Chunks <- ChunksOf
    Inputs <- FileInputs
    TokenRequired = FALSE
    FirstSeq = 0
    SeqSpace = 4
    MaxFrames = 1
INVARIANT CleanStream
