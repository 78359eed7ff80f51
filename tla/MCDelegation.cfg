CONSTANTS
    Callers = {a, b}
    Base = "base"
    Calls = {p1, p2}
    SubjectOf <- Emails
    Strategies = {"oauth", "dwd"}
    MaxScopes = 2
    MaxTokens = 1
    MaxSessions = 2
    MaxRotations = 2
    Accounts = {e1, e2}
    MaxSources = 2
    MaxFaults = 1
    Operators = {"o1"}
    Documents <- SomeDocuments
    Requests <- SomeRequests
SPECIFICATION Spec
SYMMETRY Symmetry
CHECK_DEADLOCK FALSE
CONSTRAINTS
    FewEpochs
    SessionsOfOAuth
    FewAtOnce
INVARIANTS
    SessionPrivate
    NoReuse
    ActsAsCaller
    WaitersLed
