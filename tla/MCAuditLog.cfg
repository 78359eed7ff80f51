SPECIFICATION Spec
CONSTANTS
    w1 = w1
    w2 = w2
    Writers <- MCWriters
    AnchorEvery = 2
    MaxKept = 2
    WriteOutcomes = {"ok", "failed", "torn"}
    SignOutcomes = {TRUE, FALSE}
    SaveOutcomes = {TRUE, FALSE}
    MaxRuns = 4
    MaxRestarts = 2
    MaxCuts = 1
SYMMETRY WriterSymmetry
CHECK_DEADLOCK FALSE
INVARIANTS RunIdsUnique UnfaultedVerifies TruncationCaught ResidualWindow
