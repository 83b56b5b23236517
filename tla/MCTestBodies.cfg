\* Every ordered pair of bodies on a conforming PE, every body on each
\* defective one.
CONSTANTS
    MaxRun = 2
    Outline <- MCOutline
    Leftover <- MCLeftover
SPECIFICATION Spec
INVARIANTS
    ConformingPePasses
    DefectsAreReported
CHECK_DEADLOCK FALSE
