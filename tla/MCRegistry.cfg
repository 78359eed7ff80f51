SPECIFICATION RegistrySpec
CONSTANTS
    Handlers = {h1, h2}
    Fields = {"owner", "label", "readOnly", "auditFullArgs", "grants", "minimize"}
    Values <- Switch
    Kinds = {"add", "import", "reauth", "enable", "refresh", "disable", "revoke", "delete"}
    Auths = {"none", "static", "oauth"}
    WriteOutcomes <- Unreliable
    DialOutcomes <- Unreliable
    MaxRequests = 3
    MaxRestarts = 1
SYMMETRY Symmetry
CHECK_DEADLOCK FALSE
INVARIANTS
    PolicyKept
    ToolsOfConnection
