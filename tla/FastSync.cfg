SPECIFICATION FairSpec
CONSTANTS
    Peers = {1, 2}
    Best <- MCBest
    Boundary <- MCBoundary
    Level <- MCLevel
    MaxExports = 2
    ChunkCount = 2
    BatchSize = 1
    LocalBlocks = {1, 3}
    Histories = {{}, {1}}
    MaxMishaps = 1
    Setups = {{"lose", "exports", "peers", "paged", "live"}, {"late", "storage"}, {"crash", "peerRestart", "late"}, {"crash", "mine", "live", "paged"}, {"mine", "overlap", "live"}, {"afterwrite", "live"}, {"disconnect", "peerRestart"}}
INVARIANTS
    MissingAgrees
    
PROPERTIES
    
    AuthorityEnds
CHECK_DEADLOCK FALSE
