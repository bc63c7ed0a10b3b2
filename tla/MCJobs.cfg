CONSTANTS
    derive = derive
    upload = upload
    export = export
    Job = {derive, upload, export}
    Commands <- CommandsOfJobs
    Upload = {upload}
    Parents <- ParentsOfJobs
    PoolSize = 1
    Cancelled = {upload}
    Deleted = {derive, upload}
    MaxFaults = 1
SPECIFICATION FairSpec
INVARIANT CompleteMeansDone
INVARIANT ParentIsStale
INVARIANT CancelledNotFailed
PROPERTY CancelHolds
PROPERTY KilledIsLast
PROPERTY JobsSettle
