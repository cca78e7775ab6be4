\* Two nodes, two passwords, two runs each; the second node's slapd may stop by itself.
CONSTANTS
    a = a
    b = b
    Cluster <- Pair
    First <- FirstNode
    Password = {old, new}
    NoPassword = none
    Person = {person}
    Unstable <- SomeUnstable
    MaxRuns = 2
SPECIFICATION Spec
INVARIANTS TypeOK PopulatedIsUsable OneOrigin RaceLostOnce
PROPERTIES Converges
CHECK_DEADLOCK FALSE
