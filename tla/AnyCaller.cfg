SPECIFICATION FairSpec
CONSTANTS
    Char = {a, b}
    NUL = NUL
    Capacity = 3
    Texts <- ShortTexts
    SIZE_MAX = 5
INVARIANTS
    TypeOK
    LegalIsSafe
    DeleteRemoves
    RandFills
    SearchesTell
PROPERTIES
    LoopsAdvance
    CallsEnd
CHECK_DEADLOCK FALSE
