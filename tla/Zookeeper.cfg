CONSTANTS
    a = a
    b = b
    c = c
    d = d
    Lists <- MCLists
    Owns <- MCOwns
    Part <- MCPart
SPECIFICATION Spec
INVARIANTS RunsConfigured
PROPERTIES IdIsOwn IdIsPlace OnlyUnpackCures
CHECK_DEADLOCK FALSE
