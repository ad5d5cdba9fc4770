CONSTANTS
    None = None
    Kinds = {"extended", "standard"}
    Shapes = {"good"}
    Difficulties = {1, 2}
    InitialDifficulty = 1
    MinimumDifficulty = 1
    MaximumDifficulty = 2
    NetworkDifficulty = 2
    PrefixSpace = 4
    ChannelLimit = 2
    LastChannelId = 2
    IssuedLimit = 2
    RecentLimit = 1
    SeenLimit = 1
    MaxJobs = 2
    MaxFrames = 3
    MaxShares = 2
    MaxTicks = 1
SPECIFICATION Spec
INVARIANTS BlocksReachPool JobsShareParent  TargetsAsAnnounced
CONSTRAINT MCAlive
CHECK_DEADLOCK FALSE
