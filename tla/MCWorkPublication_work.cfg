CONSTANTS
    Blocks <- MCChain
    Height <- MCChainHeight
    Genesis = "g"
    None = "none"
    RetargetInterval = 4
    TestChain = FALSE
    Sv1 = {s1}
    Sv2 = {v1}
    Standard = {v1}
    MaxRecentJobs = 2
    ZmqReliable = TRUE
    MaxMoves = 1
    MaxRevisions = 1
    MaxFailures = 0
SPECIFICATION Spec
CONSTRAINT MCOneConnection
INVARIANTS NoMinerLeftBehind QueueOnlyServesConnected
PROPERTIES Sv1NeverRegresses FeesKept CleanOnNewHeight ImplementsFeed
