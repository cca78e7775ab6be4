CONSTANTS
    Lists = {old, new}
    MaxWeb = 2
SPECIFICATION Spec
INVARIANTS EndsUp ListsCurrent InstalledIsDeployed GuttedUntilUnpacked
PROPERTIES PasswordGiven
CHECK_DEADLOCK FALSE
