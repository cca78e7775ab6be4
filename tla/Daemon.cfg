CONSTANTS
    Caller = {dpkg, cron}
    Dpkg = dpkg
    MaxDaemons = 2
SPECIFICATION Spec
INVARIANTS OneDaemon Housed InstalledIsUsable
PROPERTIES OrphansStay Terminates
CHECK_DEADLOCK FALSE
