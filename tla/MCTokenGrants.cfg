SPECIFICATION Spec
CONSTANTS
    q1 = q1
    q2 = q2
    Requests <- MCRequests
    Modes = {TRUE, FALSE}
    alice = alice
    bob = bob
    Subjects <- MCSubjects
    MaxGrants = 1
    MaxPending = 1
    PendingTTL = 1
    CodeTTL = 1
    AccessTTL = 1
    RefreshTTL = 2
    Leeway = 1
    Stalls = FALSE
    MaxPairs = 3
    MaxRevokes = 1
    MaxRestarts = 1
    MaxTime = 2
SYMMETRY Symmetry
CHECK_DEADLOCK FALSE
INVARIANTS RefreshOnce ConsentOnce LocalPrincipal RevokedRefused
