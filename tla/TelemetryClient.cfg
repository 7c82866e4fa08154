CONSTANTS
    Servers <- MCServers
    Images <- MCImages
    Listening <- MCListening
    Responses <- MCResponses
    MaxResponses = 2
    MaxSigints = 2
SPECIFICATION Spec
INVARIANTS
    TypeOK
    NonOKStatusesShown
PROPERTIES
    CancelEndsClient
CHECK_DEADLOCK FALSE
