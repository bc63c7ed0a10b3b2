CONSTANTS
    Null = Null
    FirstId = 10
    Element <- ForwardElements
    Inputs <- ForwardInputs
SPECIFICATION Spec
CHECK_DEADLOCK FALSE
INVARIANT RefsResolve
