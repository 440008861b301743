SPECIFICATION CoreSpec
CONSTANTS
    topic = topic
    Ids = {a, b, c}
    Topics <- MCTopics
    SequenceNumbers <- MCSequenceNumbers
    IntMax = 9
    Backends = {"POSTGRESQL"}
    RowsInKeyOrder = TRUE
    Failures = {"database", "crash"}
    Publishers = {p1}
    NoPublisher = NoPublisher
    sub_topic = topic
    StoredNumbers = {0, 1}
    Replies <- MCReplies
    MaxTimers = 2
SYMMETRY Symmetric
INVARIANTS
    NoGap
    AgreesWithStorage
CONSTRAINT SerialIntact
CHECK_DEADLOCK FALSE
