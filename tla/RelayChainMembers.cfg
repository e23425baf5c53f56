SPECIFICATION Spec
CONSTANTS
    Devices <- MCDevices
    Creator <- MCCreator
    SortedIds <- MCSortedIds
    Admin = Admin
    Recovery = Recovery
    NoObject = NoObject
    RecordIds = {r1}
    PartIds = {}
    Nonces = {n1}
    Marks = {}
    EnvelopeCopies = {}
    Retention = "retain"
    AllowDeviceRotation = TRUE
    AllowDeviceDelete = TRUE
    MaxInteger = 14
    MaxEpoch = 2
    MaxDevices = 2
    MaxEnvelopes = 2
    MaxCandidates = 2
    MaxRequests = 2
INVARIANTS
    RecordsInTheirEpoch
    RevokedDevicesAreSilent
    MembersHoldCurrentKey
    ReceiptsMatchEvidence
    HeadDescribesChain
PROPERTY RevocationIsFinal
CHECK_DEADLOCK FALSE
