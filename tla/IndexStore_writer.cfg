SPECIFICATION FairSpec
CONSTANTS
    NoDoc = NoDoc
    Docs = {d1, d2}
    Slots = {s1}
    Readers = {r1}
    MaxRuns = 2
    MaxErases = 1
    MaxFaults = 2
    Warm = TRUE
INVARIANTS
    StoresAgree
    FinishedRunHolds
    
PROPERTIES
    NothingLost
    
