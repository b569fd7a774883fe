SPECIFICATION FairPartsSpec
CONSTANTS
    Writers = {w1}
    Extracted <- MCExtracted
    Content <- MCContent
    Scope = {"global", "project:p"}
    Entity = {"rust"}
    Category = {"preference"}
    Confidence = {1}
    GlobalScope = "global"
    Equivalent <- MCEquivalent
    Folded <- MCFolded
    Reverses <- MCReverses
    CandidateCap = 4
    LlmMayFail = FALSE
    MaxMemories = 3
    None = None
    Chunk = {"c1", "c2"}
    Legacy = {"c1"}
    Answers <- MCAnswers
    MaxOffers = 3
    NoChunk = NoChunk
    Settings <- MCSettings
    Request = {"r1"}
    MaxFaults = 2
    NoLink = NoLink
INVARIANTS
    ComponentsShareTheStore
    ReindexClosesLinked
PROPERTIES
    ServingSurvivesIngest
    
    ReindexSparesOthers
CHECK_DEADLOCK FALSE
