CONSTANTS
    Commands = {c1, c2}
    Refreshes = {}
    Controls = {k1}
    Visus = {v1}
    Impatient = {c2}
    None = None
    MaxPending = 2
    ChanDepth = 1
    OutDepth = 1
    KillOnStop = TRUE
    MaxSessions = 1
    MaxPushed = 0
    Prompt = TRUE
SPECIFICATION Spec
INVARIANTS WireOrder AnswersMatch VisuKeyMatches
