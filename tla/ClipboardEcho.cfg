\* A single copy starts the loop, and no clipboard refuses anything.
CONSTANTS
    lf = lf
    crlf = crlf
    Text = {lf, other}
    Long = {}
    Canon <- MCCanon
    None = None
    MayRefuse = FALSE
    MaxSessions = 1
    MaxCopies = 1
    MaxReads = 1
    MaxWire = 1
SPECIFICATION FairSpec
PROPERTIES
    EchoesDieOut
CHECK_DEADLOCK FALSE
