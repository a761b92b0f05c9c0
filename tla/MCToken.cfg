SPECIFICATION FairSpec
CONSTANTS
    Tokens = {t1, t2, t3}
    None = None
    Unusable = Unusable
INVARIANTS TypeOK Mirror NoneLeftBehind KilledForgotten
PROPERTIES Recovers
