\* Two cores, two slots, every small memory map and reset state.
SPECIFICATION Spec
CONSTANTS
    Top = 32
    Last4 = 4
    Regions <- SmallRegions
    NumCores = 2
    MainCore = 0
    NumSlots = 2
    Kernel = Kernel
    None = None
    Layouts <- SmallLayouts
    Resets <- SmallResets
INVARIANTS
    TypeOK
    NeverGrantsMore
    UsersReachExactly
    TasksFindAllPrepared
    ReportTruthful
