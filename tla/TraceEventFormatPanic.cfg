\* Malformed declarations against the promise that they are reported as
\* decode errors.
CONSTANTS
    Names <- MCNames
    Lines <- MCPanicLines
    MaxLines = 3
SPECIFICATION Spec
INVARIANT MalformedLineIsNotPanic
CHECK_DEADLOCK FALSE
