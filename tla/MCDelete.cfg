CONSTANTS
    Element <- Elements
    Node <- Nodes
    Way <- Ways
    Relation = {}
    Change <- Changes
    WayNodes <- NodesOfWays
    Members <- NoMembers
    UsedBy <- Users
    IdOrder <- InIdOrder
    PushLimit = 4
    ChangesetLimit = 10
    Worker = {0, 1}
    FirstWorker = 0
    Creates = {}
    Calculate <- CalculateChangeset
    SplitInHalf <- HalfSplits
    SplitByHint <- HintSplits
    FailureOf <- FailsWith
    Requires <- Needs
    Gone = {"c"}
    Responses = {"closed", "rejected"}
    MaxFaults = 2
    MaxChangesetSize = 3
    MaxPushSize = 3
    QueueSizeMultiplier = 1
    MaxFailureRetries = 2
    MaxVersionRetries = 2
    MaxChangesetFailures = 2
SPECIFICATION Spec
PROPERTY KeepsContract
PROPERTY CleanupIsLast
