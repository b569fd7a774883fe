SPECIFICATION SourcesSpec
CONSTANTS
    s1 = s1
    s2 = s2
    Session = {s1, s2}
    Text = {"a", "b", "long"}
    MaxChars = 3
    MaxMessages = 2
    OtherSources = {"gateway"}
    Modes <- MCModes
    MaxLines = 3
    Done = Done
    Nothing = Nothing
    Size <- MCSize
    Conversation = {"c", "d"}
    QueueMax = 2
    MaxTurns = 5
    Payload <- MCPayload
    HermesQueueMax = 2
    MaxPushes = 3
INVARIANTS
    ExtractedOnceInOrder
    ChunksAreWellFormed
    NothingIsLost
    ConversationsAreCaptured
    PushedIsStreamed
    BackfillNeverHangs
    BackfillIsComplete
PROPERTIES
    ReflushIsNoOp
SYMMETRY Sessions
CHECK_DEADLOCK FALSE
