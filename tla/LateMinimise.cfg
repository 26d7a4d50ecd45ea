\* One session; a minimise command as control begins.
CONSTANTS
    Code = {"482913"}
    MaxSessions = 1
    MaxSwitches = 1
SPECIFICATION WindowSpec
INVARIANTS
    ControlInSight
CHECK_DEADLOCK FALSE
