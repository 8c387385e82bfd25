\* The camera may fail while the last detection is off the centre.
SPECIFICATION Spec
CONSTANTS
    pan = pan
    Axes = {pan}
    Lo <- OneLo
    Hi <- OneHi
    Home <- OneHi
    Sign <- OneSign
    Gain <- OneGain
    Deadzone = 0
    MaxStep = 2
    Override = 1
    Sessions = {s1}
    Orders <- OneOrders
    Places <- OnePlaces
    Nowhere = Nowhere
    Pixel = 3
    HalfFrame = 3
    MaxSent = 0
    TicksPerFrame = 2
PROPERTIES HoldsWithoutFace
