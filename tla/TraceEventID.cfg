\* GetTraceEventID on tracefs for every assignment of IDs.
CONSTANTS
    Names <- MCNames
    Registered <- MCRegistered
    IDs <- MCIDs
SPECIFICATION Spec
INVARIANTS
    IDReadBack
\* Each name is asked once: the caller stops.
CHECK_DEADLOCK FALSE
