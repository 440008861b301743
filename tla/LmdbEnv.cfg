CONSTANTS
    a = a
    b = b
    c = c
    Envs = {a, b, c}
    NoEnv = NoEnv
    ProcOf <- OneEach
    MaxReaders = 2
    EnvBudgets <- MCBudgets
SPECIFICATION EnvFairSpec
INVARIANTS
    OneWriter
    BuildsOnNewest
    SlotProtects
PROPERTIES
    WriterGetsIn
    
CHECK_DEADLOCK FALSE
