SPECIFICATION Spec
CONSTANTS
    o1 = o1  o2 = o2
    a = a  b = b  c = c
    Offers = {o1, o2}
    Devices = {a, b, c}
    Creator = a
    Admin = admin
    Requests <- MCRequests
    Bodies <- MCBodies
    NoOffer = NoOffer
    NoRequest = NoRequest
    NoRecord = NoRecord
    NoDevice = NoDevice
    AllowPeer = TRUE
    Immediate = TRUE
    MaxDevices = 3
    Skew = 1
    OfferTTL = 1
    MaxTime = 3
    MaxEpoch = 1
INVARIANTS
    TypeOK
    PeerMembersWereInvited
    VouchedByOffering
    EnrolledInTime
PROPERTIES
    ImplementsInvitations
CHECK_DEADLOCK FALSE
