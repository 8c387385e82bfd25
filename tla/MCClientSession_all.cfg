\* A token required, two files, two frames.
SPECIFICATION FairSpec
CONSTANTS
    f1 = f1
    f2 = f2
    bad = bad
    long = long
    Names = {f1, f2}
    BadNames = {bad, long}
    LongNames = {long}
    NoName = NoName
    Chunks <- ChunksOf
    Inputs <- AllInputs
    TokenRequired = TRUE
    FirstSeq = 0
    SeqSpace = 4
    MaxFrames = 2
INVARIANTS AuthGate CommandsInOrder AnswersInOrder ChunksContiguous
           VideoMovesForward VideoFailureCloses
PROPERTIES UnauthenticatedIsDropped StopIsHonoured NewestFrameIsShown
