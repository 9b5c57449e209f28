\* The core SYS_GETCORE names and the core the user goes on on.
SPECIFICATION Spec
CONSTANTS
    Slots = {u1}
    Kernel = Kernel
    Nobody = Nobody
    Harts = {h1, h2}
    Core0 = h1
    Requests <- FewCalls
    MaxWindows = 2
    MaxMoves = 2
PROPERTIES
    GetcoreNamesTheCore
