\* ReadTraceEventFormat over every well-formed, data_loc and rejected field
\* line shape, up to four lines of format text.
CONSTANTS
    Names <- MCNames
    Lines <- MCLines
    MaxLines = 4
SPECIFICATION Spec
INVARIANT TypeOK
INVARIANT DecodedLayoutMatchesSize
\* ReadTraceEventFormat returns after the last line: the reader stops.
CHECK_DEADLOCK FALSE
