CONSTANTS
    Address = {self, a, b}
    Self = self
    Port = {ldap}
    MaxTries = 1
    ByPath = {TRUE, FALSE}
    Fragile = {"slapd", "ufw"}
SPECIFICATION Spec
INVARIANTS
PROPERTIES Terminates PortsFollow ServicesBack
CHECK_DEADLOCK FALSE
