\* Two harts, two windows that migrate between them.
SPECIFICATION Spec
CONSTANTS
    Harts = {h1, h2}
    Tasks = {t1, t2}
    Idle = Idle
    Private = Private
    Raised = Raised
    Zero = Zero
    UserWord = UserWord
    Clean = Clean
    Dirty = Dirty
    FS <- OneFS
SYMMETRY Symmetry
INVARIANTS
    TypeOK
    BorrowedRegistersHome
    GuardWatchesTheTask
    WindowSealed
    PrivilegeMatchesCode
    VerdictExact
    UserViolationStaysQuiet
