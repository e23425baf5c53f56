SPECIFICATION Spec
CONSTANTS
    Devices = {a, b, c}
    Creator = a
    Admin = admin
    RecordIds = {r1, r2}
    Nonces = {n1}
    SourceEpoch = 1
    None = None
    MaxEpoch = 1
    MaxGeneration = 2
    MaxIndex = 14
INVARIANTS
    MembersOfCurrentGeneration
    EvidenceIsOneSequence
    OneReceipt
    AuthorOfGeneration
CHECK_DEADLOCK FALSE
