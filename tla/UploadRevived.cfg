CONSTANTS
    Element <- Elements
    Node <- Nodes
    Way <- Ways
    Relation = {}
    Change <- Changes
    WayNodes <- NodesOfWays
    Members <- NoMembers
    UsedBy <- NoUsers
    IdOrder <- InIdOrder
    PushLimit = 5
    ChangesetLimit = 10
    Worker = {0, 1}
    FirstWorker = 0
    Creates <- Elements
    Calculate <- CalculateChangeset
    SplitInHalf <- HalfSplits
    SplitByHint <- HintSplits
    FailureOf <- FailsWith
    Requires <- Needs
    Gone = {}
    Responses = {"rejected"}
    MaxFaults = 3
    MaxChangesetSize = 6
    MaxPushSize = 5
    QueueSizeMultiplier = 1
    MaxFailureRetries = 2
    MaxVersionRetries = 2
    MaxChangesetFailures = 2
SPECIFICATION Spec
INVARIANT DoneMeansSettled
