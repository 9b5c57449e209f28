\* One slot and kernel_task, every call: the service a program is promised, and
\* what the slot and kernel_task's line show of it.
SPECIFICATION FairSpec
CONSTANTS
    Slots = {u1}
    Kernel = Kernel
    Nobody = Nobody
    Harts = {h1, h2}
    Core0 = h1
    Requests <- AllCalls
    MaxWindows = 2
    MaxMoves = 1
INVARIANTS
    TypeOK
    EveryWindowAccounted
    RetiredForTheRightReason
    MigrationsNeverOvercounted
    OneWriter
PROPERTIES
    ServiceProvided
    EveryLinePrinted
