SPECIFICATION Spec
CONSTANTS
    Devices = {1, 2}
    Creator = 1
    RecordIds = {1}
    RequestIds = {1, 2}
    Resources = {"log", "records", "devices", "epochs", "envelopes", "requests", "transparency", "export"}
    PageLimit = 1
    ChunkLimit = 9
    ScanLimit = 3
    None = None
    MaxIndex = 12
    MaxEpoch = 1
    MaxGeneration = 1
    MaxFirstIndex = 11
    MaxIndexWithOffers = 5
    MaxLaterOffers = 4
INVARIANTS
    PagesArePinned
    
    RecoveryForAdmins
PROPERTIES
    MovesOn
CONSTRAINT
    Bounded
CHECK_DEADLOCK FALSE
