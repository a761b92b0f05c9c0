CONSTANTS
    Commands = {c1}
    Refreshes = {}
    Controls = {}
    Visus = {}
    Impatient = {}
    None = None
    MaxPending = 2
    ChanDepth = 1
    OutDepth = 1
    KillOnStop = FALSE
    MaxSessions = 1
    MaxPushed = 0
    Prompt = FALSE
SPECIFICATION Spec
INVARIANT ChannelSurvives
