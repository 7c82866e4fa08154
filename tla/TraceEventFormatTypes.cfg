\* The decoded element type of every natural field line against the type
\* its declaration names.
CONSTANTS
    Names <- MCNames
    Lines <- MCLines
    MaxLines = 3
SPECIFICATION Spec
INVARIANT DecodedTypeMatchesDeclaration
CHECK_DEADLOCK FALSE
