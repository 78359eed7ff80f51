CONSTANTS
    Ids <- RequestIds
    Bodies = {"find_tools", "call_tool", "other"}
    ProgramCalls = 2
    ProgramBytes = 3
    ProgramSearches = 1
    OpsSlack = 0
    RequestsSlack = 1
    ResultSizes = {0, 2}
    Callers = {a, b}
    Handles = {h1, h2, h3}
    Sizes = {2, 3}
    MaxInline = 1
    ReduceInline = 2
    TTL = 1
    MaxEntries = 2
    ClockJumps <- Forward
    MaxClock = 3
    MaxFaults = 1
SYMMETRY Symmetry
CONSTRAINTS
    ProgramsAlone
    IdsInOrder
SPECIFICATION Spec
INVARIANTS
    OwnDataOnly
    RequestOnce
    ProgramBudgetHeld
PROPERTY HandleStable
