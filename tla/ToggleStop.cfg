CONSTANTS
    Address = {self, a, b}
    Self = self
    Port = {ldap, hazelcast}
    MaxTries = 2
    ByPath = {TRUE, FALSE}
    Fragile = {}
SPECIFICATION Spec
PROPERTIES StopConfirmed
CHECK_DEADLOCK FALSE
