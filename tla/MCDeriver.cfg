CONSTANTS
    Null = Null
    Element <- Elements
    Inputs <- SomeInputs
SPECIFICATION Spec
\* The pass over the streams ends.
CHECK_DEADLOCK FALSE
INVARIANT DerivesTheDifference
INVARIANT GivenInOrder
