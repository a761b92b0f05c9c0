CONSTANTS
    Commands = {c1}
    Refreshes = {r1}
    Controls = {}
    Visus = {v1}
    Impatient = {c1}
    None = None
    MaxPending = 1
    ChanDepth = 1
    OutDepth = 1
    KillOnStop = FALSE
    MaxSessions = 2
    MaxPushed = 1
    Prompt = FALSE
SPECIFICATION Spec
INVARIANTS TypeOK Accounted WaitersBounded WrongKindCounted
PROPERTIES ImplementsService
