SPECIFICATION TokenSpec
CONSTANTS
    TokenNonces = {n1, n2}
    Times <- MCTimes
    Skew = 1
    MaxTTL = 2
    MaxTime = 6
INVARIANTS
    SingleUse
CHECK_DEADLOCK FALSE
