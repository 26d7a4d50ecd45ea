\* Input: two corners of the canvas, one button, two turns, a key and its twin, and
\* Equal of the pad; a call that fails, a display that changes its size, a user who
\* moves the mouse.
\* Window: two sessions, the second of which gets the code of the first or another one;
\* the focus goes to an elevated program and back.
CONSTANTS
    Viewport <- MCViewport
    Sizes <- MCSizes
    Points <- Corners
    Buttons = {2}
    Codes = {"ArrowLeft", "Numpad4", "NumpadEqual"}
    Deltas <- Notches
    MaxWay = 1
    MaxFaults = 1
    Code = {"482913", "731044"}
    MaxSessions = 2
    MaxSwitches = 2
SPECIFICATION MCSpec
INVARIANTS
    LandsWhereAimed
    CursorFollows
    ArrivesAsMeant
PROPERTIES
    ControlStaysInSight
    WritesArePainted
CHECK_DEADLOCK FALSE
