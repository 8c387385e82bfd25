\* Two threads; milliseconds 0, 1 and 2, the second begins at 1.
SPECIFICATION Spec
CONSTANTS
    Callers = {c1, c2}
    NoCaller = none
    Ms = 2
    Phase = 1
    Parts = 2
    MaxTime = 2
    MaxPics = 2
INVARIANTS
    TypeOK
    NamesApart
PROPERTY ImplementsStore
