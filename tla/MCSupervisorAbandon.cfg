\* Expected violation: a cancelled boot leaves its container running.
CONSTANTS
    a = a
    b = b
    NoTest = NoTest
    Tests <- MCTests
    Output <- MCOutput
    Destructive <- MCTests
    CounterMax = 2
    MaxQueued = 1
    MaxAttempts = 1
SPECIFICATION Spec
INVARIANTS
    InterruptedContainerIsStopped
