SPECIFICATION Spec
CONSTANTS
    Chunk <- ChunkDef
    Position <- PositionDef
    File <- FileDef
    Document <- DocumentDef
    Section <- SectionDef
    Parent <- ParentDef
    Gone = {4}
    Hostile = {6}
    Exception = {"draft"}
    Size <- SizeDef
    Subject <- SubjectDef
    Guards <- GuardsDef
    Uses <- UsesDef
    Legend <- LegendDef
    MaxChars = 5
    MinRemaining = 1
    FamilyChars = 4
    FamilyMax = 3
    MaxSlots = 4
    Domains <- DomainsDef
    Equation = {2}
    Accounting = {9}
    Related <- RelatedDef
    VectorHits <- VectorHitsDef
    SeedTop = 2
    Requests <- RequestsDef
INVARIANTS
    NothingForeignIsShown
    ContextIsWhole
    DomainsAreHeard
    
