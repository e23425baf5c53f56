SPECIFICATION Spec
CONSTANTS
    Requests = {r1, r2}
    Items = 2
    Permits = 1
    ShutdownAt = 1
    None = none
    MaxTime = 1
    MaxWrites = 3
    MaxRestarts = 1
INVARIANTS
    PermitsAccounted
    BatchesEndAtShutdown
    LateWritesBounded
PROPERTIES
    HandlersEnd
CHECK_DEADLOCK FALSE
