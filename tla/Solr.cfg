\* Two nodes, two collections, two versions.
CONSTANTS
    relationships = relationships
    event = event
    Node = {a, b}
    Collections <- Both
    Copied <- BothCopied
    MaxVersion = 2
SPECIFICATION Spec
INVARIANTS TypeOK ConfigCurrent
PROPERTIES NoWayOut
CHECK_DEADLOCK FALSE
