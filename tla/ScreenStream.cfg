\* A frame of two cells in two colours, each a strip of its own; two changes, one
\* fault, and a queue that overflows with the third frame, one being decoded.
CONSTANTS
    Cells = {1, 2}
    Colours = {black, white}
    Sizes = {wide, tall}
    None = None
    Blank = Blank
    MaxChanges = 2
    MaxFaults = 1
    MaxWire = 1
    MaxQueue = 0
SPECIFICATION FairSpec
PROPERTIES
    OnlyLossesDiverge
    PageCatchesUp
CHECK_DEADLOCK FALSE
