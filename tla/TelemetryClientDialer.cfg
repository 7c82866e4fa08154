CONSTANTS
    Servers <- MCServers
    Images <- MCImages
    Listening <- MCListening
    Responses <- MCResponses
    MaxResponses = 2
    MaxSigints = 2
SPECIFICATION Spec
INVARIANTS
    UnixDialUsesPath
CHECK_DEADLOCK FALSE
