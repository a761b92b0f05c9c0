SPECIFICATION Spec
CONSTANTS
    Period = 2
    Idle = 5
    MaxMissed = 3
    Rate = 1
    MaxExt = 8
    Delay = 1
    Lens = {0, 2, 9}
    Size = 1
    Short = 2
    MaxExtra = 1
INVARIANT HealthyKept
