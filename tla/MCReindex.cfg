SPECIFICATION RawSpec
CONSTANTS
    Writers = {w1}
    Extracted <- MCExtracted
    Content <- MCContent
    Scope = {"global", "project:p"}
    Entity = {"rust"}
    Category = {"preference"}
    Confidence = {1}
    GlobalScope = "global"
    Equivalent <- MCEquivalent
    Folded <- MCFolded
    Reverses <- MCReverses
    CandidateCap = 4
    LlmMayFail = FALSE
    MaxMemories = 3
    None = None
    Chunk = {"c1", "c2"}
    Legacy = {"c1"}
    Answers <- MCOneBelief
    MaxOffers = 3
    NoChunk = NoChunk
PROPERTIES
    ReindexKeepsBeliefs
