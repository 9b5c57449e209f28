\* A word of 30, so that numbers have one or two digits and all counters wrap.
SPECIFICATION FairSpec
CONSTANTS
    Word = 30
    TmpSize = 2
    Power <- PowersOfTen
    MsgMax = 11
    TextLen <- ShortTexts
    MsgPeriod = 6
    SyscallPeriod = 9
    Burst = 2
    TickMs = 6
    Rate = 4
    Second = 10
    Ids = {0, 3, 12}
    Cores = {0, 1}
INVARIANTS
    BuffersHold
    MessagesExact
PROPERTIES
    SleepsAgain
