SPECIFICATION Spec
CONSTANTS
    Devices <- MCOneDevice
    Creator <- MCCreator
    SortedIds <- MCSortedIds
    Admin = Admin
    Recovery = Recovery
    NoObject = NoObject
    RecordIds = {r1}
    PartIds = {r1, r2}
    Nonces = {n1}
    Marks = {4, 6, 9}
    EnvelopeCopies = {1}
    Retention = "windowed"
    AllowDeviceRotation = TRUE
    AllowDeviceDelete = FALSE
    MaxInteger = 15
    MaxEpoch = 2
    MaxDevices = 1
    MaxEnvelopes = 1
    MaxCandidates = 0
    MaxRequests = 1
INVARIANTS
    AcceptedOnce
    SuffixAvailable
    BoundaryReadable
    PayloadNonceUnique
PROPERTY ImplementsEvidenceLog
CHECK_DEADLOCK FALSE
