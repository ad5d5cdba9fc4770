CONSTANTS
    Blocks <- MCTree
    Height <- MCTreeHeight
    Genesis = "g"
    None = "none"
    RetargetInterval = 4
    TestChain = FALSE
    Sv1 = {}
    Sv2 = {}
    Standard = {}
    MaxRecentJobs = 2
    ZmqReliable = FALSE
    MaxMoves = 2
    MaxRevisions = 1
    MaxFailures = 1
SPECIFICATION FairSpec
PROPERTIES EventuallyCaughtUp
