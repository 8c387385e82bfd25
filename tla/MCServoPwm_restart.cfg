\* Periods of 2, 4 and 9 left behind; angles inside and outside of the range.
SPECIFICATION DriverSpec
CONSTANTS
    Pan = Pan
    Tilt = Tilt
    Period = 4
    MinDuty = 1
    MaxDuty = 3
    Targets = {0, 90, 300}
    Leftovers = {2, 4, 9}
INVARIANTS ReadyIsDriven
