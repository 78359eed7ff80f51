SPECIFICATION RegistrySpec
CONSTANTS
    Handlers = {h1}
    Fields = {"readOnly"}
    Values <- Switch
    Kinds = {"add", "reauth", "revoke"}
    Auths = {"oauth"}
    WriteOutcomes <- Reliable
    DialOutcomes <- Reliable
    MaxRequests = 4
    MaxRestarts = 1
CHECK_DEADLOCK FALSE
INVARIANT PolicyInForce
