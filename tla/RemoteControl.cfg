\* Two sessions of one program; a modifier, a key of a shortcut with it, and a
\* mouse button; room for one event, and two under way.
CONSTANTS
    Key = {ctrl, i}
    Button = {left}
    Modifier = {ctrl}
    Shortcut = {i}
    Input = {ctrl, i, left}
    QueueCap = 1
    MaxSessions = 2
    MaxWire = 2
    MaxActs = 3
SPECIFICATION FairSpec
INVARIANTS
    ControlIsConsented
PROPERTIES
    InjectedInSight
    IsLinks
    RemoteFollowsPage
    EndIsNoticed
    QuitEndsAll
CHECK_DEADLOCK FALSE
