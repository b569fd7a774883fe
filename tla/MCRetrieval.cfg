SPECIFICATION FairPartsSpec
CONSTANTS
    Memory = {"mine", "sub"}
    Home <- MCHome
    Near <- MCNear
    Late = {"sub"}
    Asked <- MCAsked
    Forces = {TRUE, FALSE}
    TopK = 1
    KnnK = 1
    ScopeScanMax = 1
    MaxFailures = 1
    MaxPromotions = 1
    Idea = {"own", "deep", "seed", "other"}
    Entity = {"rust", "tokio", "cargo"}
    Tags <- MCTags
    Place <- MCPlace
    Seeds = {"seed"}
    Likeness <- MCLikeness
    Contexts <- MCContexts
    Workspaces <- MCWorkspaces
    MaxEntities = 2
    Hops = 2
    Threshold = 40
    Fallback = 45
    MaxSuggestions = 2
    MaxSnippets = 1
    TokenBudget = 11
    Tokens <- MCTokens
    MaxEvents = 2
INVARIANTS
    RecallIsComplete
    MigratedIsEmbedded
    DismissedStaysAway
    SurfacedIsInReach
    IndexServesItsProject
PROPERTIES
    UnrecalledUnitsSink
