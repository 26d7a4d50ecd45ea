\* Every pattern of changes of a frame of 2 by 4 pixels, in up to three strips; a change
\* of the display's size and two failures of any call; a quality of three steps.
CONSTANTS
    Sizes = {small, large}
    None = None
    MaxChanges = 1
    MaxFaults = 2
    W = 2
    H = 4
    TileRows = 1
    MaxStrips = 8
    Procs = 3
    Cap = 38
    Floor = 30
    Down = 8
    Up = 4
SPECIFICATION Spec
INVARIANTS
    NothingLeaks
    BoxIsExact
    StripsTile
PROPERTIES
    CaptureRecovers
    QualityRecovers
