CONSTANTS
    Indexes = {"0", "1"}
    BadOrigins = {"10.0.0.1"}
    MaxGrantBytes = 4
    Callers = {"a", "b"}
    Conns = {"n1", "n2"}
    Secrets = {"s1"}
    Starts <- MCStarts
    Documents <- MCDocuments
    Responses <- MCResponses
    GrantLists <- MCGrantLists
    Classes <- MCClasses
    Registrations <- MCRegistrations
    Emails = {"a"}
    MultiPrincipal = TRUE
    MaxBytes = 2
    MaxCalls = 2
    MaxOps = 1
    MaxEras = 1
SPECIFICATION Spec
CONSTRAINT PlainSecondCall
CHECK_DEADLOCK FALSE
INVARIANTS
    EgressWasAllowed
    EgressGoverned
    
    OutcomeRecorded
    DiscoveryAgrees
