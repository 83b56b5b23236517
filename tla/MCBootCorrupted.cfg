\* Expected violation: a suite that stopped corrupted.
CONSTANTS
    a = a
    b = b
    c = c
    NoTest = NoTest
    Tests <- MCTests
    Catalog <- MCCatalog
    Sequential <- MCSequential
    Destructive <- MCDestructive
    Output <- NoOutput
    CounterMax = 3
    MaxQueued = 1
    MaxAttempts = 1
SPECIFICATION BootSpec
INVARIANTS
    CorruptedBootIsKept
