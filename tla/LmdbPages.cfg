CONSTANTS
    MaxPg = 24
    PageWords = 5
    NodeRoom = 2
    UmMax = 8
    SpillNeed = 7
    Readers = {"r"}
    Budgets <- MCBudgets
SPECIFICATION PagesFairSpec
INVARIANTS
    
    SnapshotIntact
    SeesItsPages
    

    
    
CHECK_DEADLOCK FALSE
