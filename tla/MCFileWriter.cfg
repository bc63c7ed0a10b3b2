CONSTANTS
    Null = Null
    FirstId = 10
    Element <- Elements
    Inputs <- SomeInputs
SPECIFICATION Spec
\* The file is written, or the writer gives up.
CHECK_DEADLOCK FALSE
INVARIANT ReachesTarget
INVARIANT RefsResolve
INVARIANT CreatedApart
INVARIANT OneChangeEach
INVARIANT FirstChangeWritten
INVARIANT DeletesFirst
INVARIANT DropsOnlyDeletes
