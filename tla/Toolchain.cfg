SPECIFICATION FairSpec
CONSTANTS
    p1 = p1
    p2 = p2
    Procs = {p1, p2}
    Versions = {"0.8.0", "0.9.0"}
    Setups <- AllSetups
    MaxCrashes = 1
    MaxFails = 1
INVARIANTS ProvenanceOK FetchIsSound
PROPERTY CacheServes
