SPECIFICATION PartsSpec
CONSTANTS
    Task = {"m1", "m2"}
    Name <- MCName
    Label <- MCLabel
    Chunk <- MCChunk
    Key <- MCKey
    Rank <- MCRank
    Canon <- MCCanon
    MinShared = 2
    MaxCoDegree = 1
    MaxDegree = 1
    MaxFailures = 1
    None = None
    Row = {"a", "b", "c", "d"}
    Lies <- MCLies
    Subject <- MCSubject
    Begins <- MCBegins
    DayLength = 3
    PageMax = 2
    MaxStamps = 7
    Vertex <- MCVertex
    Titled <- MCTitled
    Kind <- MCKind
    Note = {"seed", "fact"}
    Names <- MCNames
    Flagged = {"seed"}
    NodeLimit = 2
    MaxChanges = 3
    Deed = {"stores", "writes", "archives"}
    Awaits = {"archives"}
    KindOf <- MCKindOf
    Touches <- MCTouches
    Queries <- MCQueries
    PageSize = 1
    MaxFeed = 2
    MaxFaults = 1
    Candidate = {"k1", "k2"}
    MemoryType = {"preference"}
    MaxChoices = 2
    MaxTroubles = 1
INVARIANTS
    GoldIsTheOperators
    ViewsAgree
    ExplorerIsClosed
    FeedIsReliable
    MergesKeepEdges
    PassSettles
CHECK_DEADLOCK FALSE
