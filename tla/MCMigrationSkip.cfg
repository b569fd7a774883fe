SPECIFICATION Spec
CONSTANTS
    Memory = {m1, m2}
    Chunk = {c1}
    Entity = {e1}
    Runners = {r1}
    Patches = FALSE
    MaxCrashes = 0
INVARIANTS
    NothingPendingMeansMigrated
