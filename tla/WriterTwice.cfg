CONSTANTS
    Null = Null
    FirstId = 10
    Element <- Elements
    Inputs <- SomeInputs
SPECIFICATION Spec
CHECK_DEADLOCK FALSE
INVARIANT EachElementOnce
