SPECIFICATION Spec
CONSTANTS
    Devices = {d1, d2}
    Active = {d1}
    TokenNonces = {n1, n2}
    Times <- MCTimes
    Sequences = {1, 3, 4, 6}
    Size <- MCSize
    PageBytes = 3
    PageLimits = {1, 3}
    Originals = {p1, p2, p3}
    Genuine = {p1, p2}
    None = none
    MaxTime = 3
INVARIANTS
    ReadIsComplete
PROPERTIES
    ReplayOnlyAtExpiry
    RestoredOnce
CHECK_DEADLOCK FALSE
