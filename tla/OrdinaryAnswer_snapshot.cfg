SPECIFICATION Spec
CONSTANTS
    t1 = t1
    t2 = t2
    s = s
    u = u
    p = p
    Thread = {t1, t2}
    Record = {s, u, p}
    Shared = {s, u}
    Corpora <- MCCorpora
    o1 = o1
    o2 = o2
    Provider = {o1, o2}
    MaxCached = 1
SYMMETRY Alike
INVARIANT SnapshotHolds
