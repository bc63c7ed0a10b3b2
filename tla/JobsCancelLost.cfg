CONSTANTS
    derive = derive
    upload = upload
    Job = {derive, upload}
    Commands <- TwoProcesses
    Upload = {upload}
    Parents <- ParentOfUpload
    PoolSize = 1
    Cancelled = {upload}
    Deleted = {}
    MaxFaults = 0
SPECIFICATION Spec
INVARIANT CancelledNotFailed
