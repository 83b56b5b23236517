\* An ordinary suite of two tests, or a boot that must end in one of them.
CONSTANTS
    a = a
    b = b
    NoTest = NoTest
    Tests <- MCTests
    Output <- MCOutput
    Destructive <- MCTests
    CounterMax = 2
    MaxQueued = 1
    MaxAttempts = 2
SYMMETRY MCSymmetry
SPECIFICATION Spec
INVARIANTS
    CompletionIsEarned
    CountsMatchLog
    WatchdogBlamesRunningTest
    PermitIsReturned
    UnsupportedHidesNothing
    DestructiveCompletion
PROPERTIES
    RetryDiscardsNoVerdict
    LedgerSpec
