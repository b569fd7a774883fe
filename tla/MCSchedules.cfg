SPECIFICATION FairPartsSpec
CONSTANTS
    Memory = {m1, m2}
    Chunk = {c1}
    Entity = {}
    Runners = {r1, r2}
    Patches = TRUE
    MaxCrashes = 1
    Brought = {"consolidation"}
    Alone = {"mentions", "migrate_index", "memory_dedup"}
    MaxWork = 1
    MaxMishaps = 1

    
    
PROPERTIES
    MigrationsBecomeCurrent
    WorkGetsDone
