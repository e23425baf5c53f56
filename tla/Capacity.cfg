SPECIFICATION Spec
CONSTANTS
    Chains = {c1, c2}
    Limits = {4, 6}
    Notices = {none, n1}
    NoNotice = none
    EnvelopeSize = 1
    MaxRestarts = 2
INVARIANTS
    WithinQuota
    StartsAgain
PROPERTIES
    DueIsExpired
CHECK_DEADLOCK FALSE
