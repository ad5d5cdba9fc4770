SPECIFICATION FairSpec
CONSTANTS
    Setups <- MCSetups
    MaxTip = 2
    MaxFlaps = 2
    Modes = {"ok", "down"}
    Encodes = TRUE
    Ipc = Ipc
    None = None
INVARIANTS
    ExhaustedMeansNoneLeft
PROPERTIES
    ReturnsToPrimary
    IpcResumes
    LoopStops
