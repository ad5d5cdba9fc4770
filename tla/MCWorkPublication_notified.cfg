CONSTANTS
    Blocks <- MCChain
    Height <- MCChainHeight
    Genesis = "g"
    None = "none"
    RetargetInterval = 4
    TestChain = FALSE
    Sv1 = {s1}
    Sv2 = {v1}
    Standard = {}
    MaxRecentJobs = 2
    ZmqReliable = TRUE
    MaxMoves = 1
    MaxRevisions = 2
    MaxFailures = 0
SPECIFICATION NotifiedSpec
PROPERTIES EventuallyCaughtUp
CONSTRAINT MCOneConnection
