SPECIFICATION Spec
CONSTANTS
    Budgets = {0, 1, 2}
    AttemptCap = 4
PROPERTIES ResetBetweenSessions
