\* Expected violation: a suite deadline after a test that skipped itself.
CONSTANTS
    a = a
    b = b
    NoTest = NoTest
    Tests <- MCTests
    Output <- MCOutput
    Destructive <- MCTests
    CounterMax = 2
    MaxQueued = 1
    MaxAttempts = 1
SPECIFICATION Spec
PROPERTIES
    SuiteDeadlineIsTimeout
