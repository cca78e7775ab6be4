CONSTANTS
    a = a
    b = b
    c = c
    d = d
    Lists <- MCLists
    Owns <- MCOwns
    Part <- MCPart
SPECIFICATION Spec
PROPERTIES EventIndexConfigures
CHECK_DEADLOCK FALSE
