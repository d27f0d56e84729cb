SPECIFICATION Cases
CONSTANTS
    s1 = s1
    s2 = s2
    e1 = e1
    e2 = e2
    e3 = e3
    v1 = v1
    r1 = r1
    r2 = r2
    r3 = r3
    r4 = r4
    r5 = r5
    Source = {s1, s2}
    Equation = {e1, e2, e3}
    Document <- MCDocument
    Unknown = Unknown
    NoEquation = NoEquation
    MaxClaims = 2
    Relation <- MCRelation
    Derivation <- MCDerivation
    Dangling = {}
    Alternatives = {}
    Record = {r1, r2, r3, r4, r5}
    Size <- MCSize
    Opaque = {r5}
    Dead = {}
    Answers <- MCAnswers
    Rows <- MCRows
    Demands <- MCDemands
    Drafts <- MCDrafts
    Packets <- MCPackets
    ClaimRows <- MCClaimRows
    Lists <- MCLists
    Frontiers <- MCFrontiers
    Ranks <- MCRanks
    Budgets = {2, 3, 5}
    Limits = {1}
    Native <- MCNative
    Terms <- MCTerms
    FirstPage = 2
    MaxSteps = 2
    MaxActions = 2
    MaxReads = 2
    Revision <- MCRevision
    Parts <- MCParts
    MaxCards = 2
    MaxQuoted = 2
    Bundles <- MCBundles
    Cards <- MCCards
    Topic = {"x", "y"}
    Window = 3
    MaxConstraints = 2
    Histories <- MCHistories
    MaxUnit = 8
    Awkward = {6}
    MaxUnits = 12
    Small = 2
    LeastRoom = 2
    Grids <- MCGrids
    Marker = {"a", "b"}
    Level = {1, 2}
    Width = {1, 2}
    Files <- MCFiles
INVARIANTS   PromotionIsFair ReadingIsNative  TextIsWhole
CHECK_DEADLOCK FALSE
