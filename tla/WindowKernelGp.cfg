\* gp when the window's exit becomes interruptible.
SPECIFICATION Spec
CONSTANTS
    Harts = {h1}
    Tasks = {t1}
    Idle = Idle
    Private = Private
    Raised = Raised
    Zero = Zero
    UserWord = UserWord
    Clean = Clean
    Dirty = Dirty
    FS <- OneFS
INVARIANTS
    KernelGpWhenPreemptible
