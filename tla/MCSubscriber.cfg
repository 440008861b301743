SPECIFICATION SubFairSpec
CONSTANTS
    id = id
    topic = topic
    Ids <- MCIds
    Topics <- MCTopics
    SequenceNumbers <- MCSequenceNumbers
    IntMax = 4
    StoredNumbers <- MCStoredNumbers
    Replies <- MCReplies
    MaxTimers = 3
INVARIANTS
    SubTypeOK
    OrderedDelivery
    FlagHasController
    NoStaleConnection
PROPERTIES
    SuppressionEnds
    ImplementsOrderedLog
