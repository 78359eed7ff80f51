SPECIFICATION Spec
CONSTANTS
    c1 = c1
    c2 = c2
    g1 = g1
    g2 = g2
    g3 = g3
    Callers <- MCCallers
    Grants <- MCGrants
    MaxRequests <- MCMaxRequests
    MaxBytes <- MCMaxBytes
    MaxResponse <- MCMaxResponse
    RateRequests <- MCRateRequests
    RateWindow <- MCRateWindow
    Expiry <- MCExpiry
    ArgSizes = {1}
    DiskLoss = {"rollback", "missing"}
    MaxDelay = 1
    MaxTime = 2
    MaxLines = 3
    MaxForgotten = 1
SYMMETRY CallerSymmetry
CONSTRAINT OneGrant
CHECK_DEADLOCK FALSE
INVARIANTS RequestBudgetHeld ByteBudgetHeld RateDespiteWaits CrossingsAnchored VerificationSound
PROPERTY AnchorExtends
