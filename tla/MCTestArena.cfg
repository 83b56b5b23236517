\* An arena that ends in half a page, generations that wrap around, three blocks,
\* failures injected at two points.
CONSTANTS
    Base = 2
    Size = 9
    PageSize = 2
    Granules = {2, 4}
    TableLayouts <- MCLayouts
    MaxPages = 2
    MaxAllocations = 3
    Generations = 2
    InjectedPoints = {"Contiguous", "TableFrame"}
    MaxInjected = 1
    None = None
SPECIFICATION Spec
INVARIANTS
    ArenaTypeOK
    AllocationsAreDisjoint
    AllocationsAreAligned
    NothingIsLeftBehind
    ResetAlwaysWorks
    InjectionIsKept
    ExhaustionBoundary
PROPERTIES
    PagesAreKept
    NewBlocksAreZero
