\* Two harts with coprocessor state and one window under fairness: the
\* inductive invariant, what a step may never do, and what must happen.
SPECIFICATION FairSpec
CONSTANTS
    Harts = {h1, h2}
    Tasks = {t1}
    Idle = Idle
    Private = Private
    Raised = Raised
    Zero = Zero
    UserWord = UserWord
    Clean = Clean
    Dirty = Dirty
    FS <- TwoFS
INVARIANTS
    IInv
PROPERTIES
    InterruptsReachTheKernel
    ExitKeepsCoprocessorState
    InterruptsServed
    WindowReturns
    ContractKept
