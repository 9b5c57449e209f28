\* A message of exactly SYS_PUTS_MAX characters.
SPECIFICATION Spec
CONSTANTS
    Word = 8
    Lo = 2
    Size = 4
    Max = 3
    Chars = {x, y}
    Nul = Nul
    Junk = Junk
    MaxStores = 0
SYMMETRY Symmetry
INVARIANTS
    LongestMessageAccepted
