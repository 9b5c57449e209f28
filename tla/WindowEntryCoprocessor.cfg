\* The coprocessor state across umode_enter().
SPECIFICATION Spec
CONSTANTS
    Harts = {h1, h2}
    Tasks = {t1}
    Idle = Idle
    Private = Private
    Raised = Raised
    Zero = Zero
    UserWord = UserWord
    Clean = Clean
    Dirty = Dirty
    FS <- TwoFS
PROPERTIES
    EntryKeepsCoprocessorState
