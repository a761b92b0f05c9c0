SPECIFICATION FairSpec
CONSTANTS
    Budgets = {0, 1, 2}
    AttemptCap = 4
INVARIANTS TypeOK EndsClosed ReadyHonest StateHonest BudgetHolds
PROPERTIES ClosedIsLast NoSessionAfterPanic StopEnds ConnectAnswered
