SPECIFICATION Spec
CONSTANTS
    Writers = {w1}
    Extracted <- MCExtracted
    Content <- MCContent
    Scope = {"global", "project:p"}
    Entity = {"rust", "cli"}
    Category = {"preference"}
    Confidence = {1, 2}
    GlobalScope = "global"
    Equivalent <- MCEquivalent
    Folded <- MCFolded
    Reverses <- MCReverses
    CandidateCap = 4
    LlmMayFail = FALSE
    MaxMemories = 3
    None = None
INVARIANTS
    TypeOK
    NoDuplicateBeliefs
    NoStandingReversal
    SupersededHasHeir
PROPERTIES
    ImplementsReference
