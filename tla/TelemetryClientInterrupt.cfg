CONSTANTS
    Servers <- MCServers
    Images <- MCImages
    Listening <- MCListening
    Responses <- MCResponses
    MaxResponses = 2
    MaxSigints = 1
SPECIFICATION Spec
PROPERTIES
    InterruptEndsClient
CHECK_DEADLOCK FALSE
