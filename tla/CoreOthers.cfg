SPECIFICATION CoreSpec
CONSTANTS
    topic = topic
    Ids = {a, b, c}
    Topics <- MCTopics
    SequenceNumbers <- MCSequenceNumbers
    IntMax = 9
    Backends = {"LMDB", "NULL_DB", "none"}
    RowsInKeyOrder = TRUE
    Failures = {"zmq"}
    Publishers = {p1}
    NoPublisher = NoPublisher
    sub_topic = topic
    StoredNumbers = {0}
    Replies <- MCReplies
    MaxTimers = 1
SYMMETRY Symmetric
INVARIANTS
    LiveNumberIsStored
    DeliveredOnce
    AnswerIsAwaited
CHECK_DEADLOCK FALSE
