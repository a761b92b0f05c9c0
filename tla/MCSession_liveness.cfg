CONSTANTS
    Commands = {c1}
    Refreshes = {r1}
    Controls = {}
    Visus = {}
    Impatient = {}
    None = None
    MaxPending = 1
    ChanDepth = 1
    OutDepth = 1
    KillOnStop = TRUE
    MaxSessions = 2
    MaxPushed = 0
    Prompt = FALSE
SPECIFICATION FairSpec
PROPERTIES CommandsComplete StopCompletes
