SPECIFICATION ConnSpec
CONSTANTS
    Keys = {k1, k2}
    NoKey = NoKey
    Trusted = {k1}
    MaxUse = 2
    MaxAge = 1
    AgeCap = 2
    MaxDraws = 5
    WireCap = 2
    MaxInterleaved = 2
    StreamCap = 3
INVARIANTS ConnTypeOK PinHeld SessionClean NeverRefused SaltRetired
