SPECIFICATION FairSpec
CONSTANTS
    a = a
    c = c
    d = d
    Record = {a, c, d}
    Size <- MCSize
    Opaque = {}
    Dead = {d}
    User = User
    Rewrites = {q1}
    Followups = {f1}
    Results <- MCResults
    Readable = {a}
    MaxContext = 2
    MaxRounds = 3
INVARIANTS
    EvidenceIsSound
    DriftRevoked
    PublishedIsVerified
PROPERTY
    Finishes
CHECK_DEADLOCK FALSE
