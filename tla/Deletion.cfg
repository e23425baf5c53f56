SPECIFICATION FairSpec
CONSTANTS
    Chains = {c1, c2}
    Timer = Timer
    Startup = Startup
    MaxCrashes = 1
INVARIANTS
    CheckedChainsAreErased
PROPERTIES
    NoResurrection
    DeletionCompletes
