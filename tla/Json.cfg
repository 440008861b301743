SPECIFICATION Spec
CONSTANTS
    Texts <- MCTexts
    Lower <- MCLower
    IntMax = 2000
    NumberWidth <- MCNumberWidth
    NestingLimit = 2
    DefaultBuffer = 4
    Kinds = {"array", "object"}
    Numbers = {7}
    Documents <- MCDocuments
    Enough = 13
    MaxCalls = 3
CHECK_DEADLOCK FALSE
INVARIANTS
    ListsSound
    NothingLost
    RoundTrip
    PrintFits
