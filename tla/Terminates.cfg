SPECIFICATION CoreFairSpec
CONSTANTS
    topic = topic
    Ids = {a}
    Topics <- MCTopics
    SequenceNumbers <- MCSequenceNumbers
    IntMax = 9
    Backends = {"POSTGRESQL"}
    RowsInKeyOrder = TRUE
    Failures = {}
    Publishers = {p1}
    NoPublisher = NoPublisher
    sub_topic = topic
    StoredNumbers = {0}
    Replies <- MCReplies
    MaxTimers = 2
PROPERTY RecoveryTerminates
CHECK_DEADLOCK FALSE
