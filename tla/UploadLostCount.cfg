CONSTANTS
    Element <- Elements
    Node <- Nodes
    Way <- Ways
    Relation <- Relations
    Change <- Changes
    WayNodes <- NodesOfWays
    Members <- MembersOfRelations
    UsedBy <- NoUsers
    IdOrder <- InIdOrder
    PushLimit = 2
    ChangesetLimit = 10
    Worker = {0, 1}
    FirstWorker = 0
    Creates <- Created
    Calculate <- CalculateChangeset
    SplitInHalf <- HalfSplits
    SplitByHint <- HintSplits
    FailureOf <- FailsWith
    Requires <- Needs
    Gone = {}
    Responses = {"other"}
    MaxFaults = 4
    MaxChangesetSize = 6
    MaxPushSize = 2
    QueueSizeMultiplier = 1
    MaxFailureRetries = 2
    MaxVersionRetries = 2
    MaxChangesetFailures = 2
SPECIFICATION Spec
INVARIANT SettledMeansDone
