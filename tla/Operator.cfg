SPECIFICATION OperatorFairSpec
CONSTANTS
    Disclosures <- MCDisclosures
    Markdowns <- MCMarkdowns
    Clients = {c1, c2}
    None = none
    MaxTime = 1
INVARIANTS
    NoAlarm
PROPERTY
    ClientsSettle
CHECK_DEADLOCK FALSE
