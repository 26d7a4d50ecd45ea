\* Two sessions, two copies.  A text that has two forms, an ordinary one, and one
\* that is too long.
CONSTANTS
    lf = lf
    crlf = crlf
    Text = {lf, crlf, other, long}
    Long = {long}
    Canon <- MCCanon
    None = None
    MayRefuse = TRUE
    MaxSessions = 2
    MaxCopies = 2
    MaxReads = 1
    MaxWire = 1
SPECIFICATION Spec
INVARIANTS
    AgreeUnlessCrossed
    PrimingKeepsOldText
CHECK_DEADLOCK FALSE
