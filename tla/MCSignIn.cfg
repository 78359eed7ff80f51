SPECIFICATION SignInSpec
CONSTANTS
    alice = alice
    bob = bob
    staff = staff
    Staff = Staff
    Sources = {s1, s2}
    RegistrationModes = {"bounded", "off"}
    Issuers = {"local", "tunnel"}
    PerSourcePerHour = 1
    PerHour = 2
    MaxClients = 1
    MaxTrackedSources = 1
    UnusedTTL = 1
    Hour = 1
    ClientWrites = {"ok", "torn"}
    MaxIds = 2
    MaxTime = 2
    Specs <- MCSpecs
    Lower <- MCLower
    Malformed <- MCMalformed
    Editors = {e1}
    MaxRules = 1
    MaxEdits = 2
    MaxDamage = 1
    Accounts = {alice, bob}
    Claims <- MCClaims
    Flows = {f1, f2}
    Providers = {q1, q2}
    Postures <- MCPostures
    MinRefresh = 1
    PendingTTL = 1
    CodeTTL = 1
    MaxKid = 2
    Unusable = {0}
    MaxSignIns = 2
    Spent <- MCSpent
    MaxRestarts = 1
SYMMETRY Symmetry
CHECK_DEADLOCK FALSE
INVARIANTS
    AdmissionCurrent
    UsedKept
