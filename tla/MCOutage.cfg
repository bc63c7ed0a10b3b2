CONSTANTS
    Element <- Nodes
    Node <- Nodes
    Way = {}
    Relation = {}
    Change <- Changes
    WayNodes <- Nothing
    Members <- Nothing
    UsedBy <- NoUsers
    IdOrder <- InIdOrder
    PushLimit = 1
    ChangesetLimit = 10
    Worker = {0, 1}
    FirstWorker = 0
    Creates <- Nodes
    Calculate <- FirstNode
    SplitInHalf <- HalfSplits
    SplitByHint <- HintSplits
    FailureOf <- FailsWith
    Requires <- Needs
    Gone = {}
    Responses = {"unavailable", "closed"}
    MaxFaults = 4
    MaxChangesetSize = 4
    MaxPushSize = 1
    QueueSizeMultiplier = 1
    MaxFailureRetries = 2
    MaxVersionRetries = 2
    MaxChangesetFailures = 2
SPECIFICATION FairSpec
INVARIANT AllSettledAtEnd
PROPERTY Terminates
