CONSTANTS
    Thread = {0, 1}
    FirstThread = 0
    Test = {1, 2, 3, 4}
    SerialTests = {2}
    MaxRestart = 2
    MaxCrashes = 4
SPECIFICATION FairSpec
INVARIANT OnePlace
INVARIANT SerialAlone
INVARIANT LeftBehind
INVARIANT FailuresCounted
PROPERTY WaitReturns
