SPECIFICATION Spec
CONSTANTS
    Keys = {1, 2, 3, 4, 5, 6, 7, 8, 9, 10}
    Values = {1, 2}
    KeySize <- MCKeySize
    DataSize <- MCDataSize
    DataPages <- MCDataPages
    NCursors = 1
    NodeHead = 2
    Slot = 2
    Ref = 2
    Room = 34
    Threshold = 250
    Many = 32
    Share = 16
    Loads <- MCLoads
    MaxCalls = 3
CHECK_DEADLOCK FALSE
INVARIANTS
    TreeSound
    HoldsContent
    ScanGoesOn
    SeekFinds
