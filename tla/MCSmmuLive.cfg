\* Every live SMMU test on its own boot; a test that has its verdict stops.
CONSTANT Sheets <- MCSheets
SPECIFICATION Spec
INVARIANTS
    ConformingSmmuPasses
    SmmuDefectsAreReported
    AgentIsContained
CHECK_DEADLOCK FALSE
