CONSTANTS
    None = None
    Addresses = {alice, bob}
    Solutions <- MCSolutions
    VersionBits <- MCBits
    PoolMask = {1}
    Difficulties = {1, 2, 4}
    InitialDifficulty = 1
    MinimumDifficulty = 1
    MaximumDifficulty = 4
    NetworkDifficulty = 4
    RecentLimit = 1
    SeenLimit = 1
    MaxJobs = 2
    MaxSubmits = 3
    MaxChanges = 4
SPECIFICATION Spec
INVARIANTS MinerKnowsDifficulty HonoursSentDifficulty CreditPaysMiner CreditIsEarned RememberedForAGeneration
SYMMETRY MCSymmetry
CHECK_DEADLOCK FALSE
