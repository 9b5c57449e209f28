\* Every pointer and every string of an arena, and two stores from elsewhere.
SPECIFICATION Spec
CONSTANTS
    Word = 8
    Lo = 2
    Size = 4
    Max = 3
    Chars = {x, y}
    Nul = Nul
    Junk = Junk
    MaxStores = 2
SYMMETRY Symmetry
INVARIANTS
    TypeOK
    LoadsStayInArena
    PrintsOnlyTheString
    UndisturbedExact
