SPECIFICATION Spec
CONSTANTS
    Chains = {c1, c2}
    Timer = Timer
    Startup = Startup
    MaxCrashes = 1
INVARIANT CompletedMeansErased
