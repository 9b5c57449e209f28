\* Two arenas of eight bytes in a pool of eighteen, and every buffer there is.
SPECIFICATION Spec
CONSTANTS
    Word = 32
    SlotCount = 2
    ArenaSize = 8
    PoolBase = 8
    PoolSize = 18
    Align = 4
    RodataSize = 4
INVARIANTS
    TypeOK
    AllocatorNeverAsserts
    ArenasApart
    WriteCheckedExactly
    StackInOwnArena
