\* Closed loop: two ticks per frame, a third of the error per tick, so that one
\* more tick per frame would keep the gimbal swinging; one session with two
\* commands.
SPECIFICATION FairSpec
CONSTANTS
    pan = pan
    Axes = {pan}
    Lo <- OneLo
    Hi <- SevenHi
    Home <- SevenHi
    Sign <- OneSign
    Gain <- OneGain
    Deadzone = 0
    MaxStep = 2
    Override = 1
    Sessions = {s1}
    Orders <- SevenOrders
    Places <- SevenPlaces
    Nowhere = Nowhere
    Pixel = 3
    HalfFrame = 4
    MaxSent = 2
    TicksPerFrame = 2
INVARIANTS StaysInLimits CommandsInTurn
PROPERTIES AutoKeepsOut OverrideEnds AutoResumes LoopStops Settles
