SPECIFICATION DurableSpec
CONSTANTS
    a = a
    b = b
    c = c
    topic = topic
    Ids <- MCIds
    Topics <- MCTopics
    SequenceNumbers <- MCSequenceNumbers
    IntMax = 9
    Backends = {"POSTGRESQL", "LMDB", "NULL_DB"}
    RowsInKeyOrder = TRUE
    Failures = {"database", "crash"}
    StoredNumbers = {0}
    Replies <- MCReplies
    MaxTimers = 1
    MessageIds <- MCMessageIds
    MaxCrashes = 2
INVARIANTS
    CountIsPosition
    LostAtMostOnePerCrash
CONSTRAINT WhileExact
