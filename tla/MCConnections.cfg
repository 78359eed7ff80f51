SPECIFICATION MCSpec
CONSTANTS
    Handlers = {h1, h2}
    Kinds = {"revoke", "delete", "enable", "disable"}
    TemplateOps = {"put", "delete"}
    SecretOutcomes <- Unreliable
    PersistOutcomes <- Unreliable
    Rotations = TRUE
    MaxFlows = 2
    MaxEdits = 1
    MaxRequests = 2
    MaxCrashes = 1
    read = read
    write = write
    Starts = {s1, s2}
    Drafts <- MCDrafts
    Asked <- MCAsked
    Bases = {"here", "there"}
    Params = {"p"}
    Malformed = "bad"
    Answers <- MCAnswers
    defaultConnectionsPerUser = 1
    maxConnectionsPerUser = 2
    maxPendingConnectionsPerUser = 2
    maxConnectionStartsPerHour = 1
    WriteOutcomes <- Unreliable
    MaxPuts = 2
SYMMETRY Symmetry
CHECK_DEADLOCK FALSE
INVARIANTS
    RevocationHolds
    ReservationsLive
PROPERTIES
    CommitsWithinTemplate
