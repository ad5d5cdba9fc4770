SPECIFICATION FairSpec
CONSTANTS
    Found <- MCFound
    Height <- MCHeight
    Invalid = {"y"}
    Nodes <- MCNodes
    FirstTip <- MCLagging
    MaxTip = 3
    MaxFinds = 2
    MaxLost = 1
    MaxIoFailures = 1
    MaxRuns = 2
CHECK_DEADLOCK FALSE
CONSTRAINT MCOneMishap
INVARIANTS NoBlockLost CreditedOnce NeverOvercounted RejectionIsUnanimous
PROPERTIES RecoveryDrains
