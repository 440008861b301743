SPECIFICATION Spec
CONSTANTS
    Keys = {1, 2, 3, 4, 5}
    Values = {1, 2, 3}
    KeySize <- MCShort
    DataSize <- MCDataSmall
    DataPages <- MCDataPages
    NCursors = 1
    NodeHead = 2
    Slot = 2
    Ref = 2
    Room = 28
    Threshold = 250
    Many = 4
    Share = 2
    Loads <- MCHalves
    MaxCalls = 2
CHECK_DEADLOCK FALSE
INVARIANT NeverFull
