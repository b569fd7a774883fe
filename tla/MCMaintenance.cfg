SPECIFICATION PartsSpec
CONSTANTS
    Writers = {w1, con}
    Consolidator = con
    Dedupers = {d1}
    Extracted <- MCMixed
    Content <- MCContent
    Scope = {"global", "project:p"}
    Entity = {"rust"}
    Category = {"preference"}
    Confidence = {1, 2}
    GlobalScope = "global"
    Equivalent <- MCEquivalent
    Folded <- MCFolded
    Reverses <- MCReverses
    CandidateCap = 1
    LlmMayFail = FALSE
    MaxMemories = 3
    None = None
    Memo = {"m1", "m2", "m3"}
    Transcript <- MCTranscript
    SubSegments = TRUE
    Slug <- MCSlug
    Answers <- MCAnswers
    Unparsed <- MCUnparsed
    KeepGlobal = {"preference"}
    Alike <- MCAlike
    Rank <- MCRank
    Corrections <- MCCorrections
    MaxCorrections = 1
INVARIANTS
    ProjectFactsAreNeverForgotten
    ClosedHasHeir
    
    RelabelledStaysHome
    MergeSettles

    
