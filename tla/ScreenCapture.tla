----------------------------- MODULE ScreenCapture -----------------------------
(***************************************************************************)
(* The screen capturer (client/capture/capture_windows.go): one set of GDI *)
(* objects, made on demand, kept from capture to capture, and dropped when *)
(* the display changes its size or a copy fails.  A capture holds the      *)
(* capturer's mutex; the display may change between its calls of Windows,  *)
(* and every one of them may fail.                                         *)
(***************************************************************************)
EXTENDS Naturals, FiniteSets

CONSTANTS
    Sizes,       \* of the primary display
    None,
    MaxChanges,  \* bound: how often the display changes its size
    MaxFaults    \* bound: how many calls fail

ASSUME CaptureAssumption ==
    /\ None \notin Sizes
    /\ {MaxChanges, MaxFaults} \subseteq Nat

VARIABLES
    display,
    pc,           \* where Capture is
    size,         \* c.w, c.h
    initialized,
    held,         \* the objects in the fields screenDC, memDC and bmp
    selected,     \* oldObj is kept: the bitmap was selected into the memory DC
    bitmap,       \* the size the bitmap and the two buffers were made for
    alive,        \* the objects Windows has given out and not taken back
    image,        \* what Capture returned last: a size and whether it is whole
    changes, faults

fieldVars == <<size, initialized, held, selected, bitmap>>
boundVars == <<changes, faults>>

captureVars == <<display, pc, fieldVars, alive, image, boundVars>>

Set == {"screenDC", "memDC", "bmp"}

NoImage == [size |-> None, whole |-> FALSE]

\* New.
CaptureInit ==
    /\ display \in Sizes
    /\ pc = "idle"
    /\ size = display
    /\ initialized = FALSE /\ held = {} /\ selected = FALSE /\ bitmap = None
    /\ alive = {}
    /\ image = NoImage
    /\ changes = 0 /\ faults = 0

Fails == faults < MaxFaults /\ faults' = faults + 1 /\ UNCHANGED changes

Returns == pc' = "idle"

DisplayChanges ==
    /\ changes < MaxChanges
    /\ display' \in Sizes \ {display}
    /\ changes' = changes + 1
    /\ UNCHANGED <<pc, fieldVars, alive, image, faults>>

--------------------------------------------------------------------------------

\* What Windows takes back of what release hands it, the old object being selected
\* again first.
TakenBack == held

Release ==
    /\ alive' = IF initialized THEN alive \ TakenBack ELSE alive
    /\ initialized' = FALSE /\ held' = {} /\ selected' = FALSE /\ bitmap' = None

\* Close, which another goroutine may call between two captures.
Close ==
    /\ pc = "idle"
    /\ Release
    /\ UNCHANGED <<display, pc, size, image, boundVars>>

\* Slip: the set is kept when the size changes.
SizeKnownAlways == initialized

SizeKnown == size = display

\* refreshDimensions.
Begins ==
    /\ pc = "idle"
    /\ pc' = "sized"
    /\ size' = display
    /\ IF SizeKnown THEN UNCHANGED <<initialized, held, selected, bitmap, alive>>
                    ELSE Release
    /\ UNCHANGED <<display, image, boundVars>>

MetricsFail ==
    /\ pc = "idle"
    /\ Fails
    /\ UNCHANGED <<display, pc, fieldVars, alive, image>>

\* ensure: a set that is there is used again, ...
Reuses ==
    /\ pc = "sized"
    /\ initialized
    /\ pc' = "ready"
    /\ UNCHANGED <<display, fieldVars, alive, image, boundVars>>

\* ... a new one is made; whether the bitmap can be selected is not looked at ...
Makes(ok) ==
    /\ pc = "sized"
    /\ ~ initialized
    /\ IF ok THEN UNCHANGED boundVars ELSE Fails
    /\ pc' = "ready"
    /\ initialized' = TRUE /\ held' = Set /\ selected' = ok /\ bitmap' = size
    /\ alive' = alive \cup Set
    /\ UNCHANGED <<display, size, image>>

\* Slip: an error returns with what was made before it.
LeftOverAll(made) == made

\* What stays of a set whose next object cannot be made: the others are given back.
LeftOver(made) == {}

\* ... or cannot be made.
CannotMake(made) ==
    /\ pc = "sized"
    /\ ~ initialized
    /\ Fails
    /\ Returns
    /\ alive' = alive \cup LeftOver(made)
    /\ UNCHANGED <<display, fieldVars, image>>

Blits ==
    /\ pc = "ready"
    /\ pc' = "blitted"
    /\ image' = [size |-> bitmap, whole |-> selected /\ bitmap = display]
    /\ UNCHANGED <<display, fieldVars, alive, boundVars>>

BlitFails ==
    /\ pc = "ready"
    /\ Fails
    /\ Returns
    /\ Release
    /\ UNCHANGED <<display, size, image>>

\* drawCursor, which gives back the two bitmaps GetIconInfo makes, whatever of it
\* fails, and GetDIBits, whose failure leaves the set.
ReadsBack(ok) ==
    /\ pc = "blitted"
    /\ IF ok THEN UNCHANGED boundVars ELSE Fails
    /\ Returns
    /\ image' = IF ok THEN image ELSE NoImage
    /\ UNCHANGED <<display, fieldVars, alive>>

CaptureStep ==
    \/ Begins \/ MetricsFail
    \/ Reuses \/ (\E ok \in BOOLEAN : Makes(ok))
    \/ \E made \in {{}, {"screenDC"}, {"screenDC", "memDC"}} : CannotMake(made)
    \/ Blits \/ BlitFails
    \/ \E ok \in BOOLEAN : ReadsBack(ok)

--------------------------------------------------------------------------------

\* Whatever fails, Windows has given out no object but those in the fields, they are
\* the whole set or none, and a copy is made into a bitmap and buffers of the size it
\* is asked for (capture_windows.go:127-148, 160-214, 232-243, 276-282, 313-325): a
\* session of hours leaks nothing, and the loop over the pixels stays within both.
NothingLeaks ==
    /\ alive = held
    /\ held = IF initialized THEN Set ELSE {}
    /\ pc \in {"ready", "blitted"} => bitmap = size

\* When the display has come to rest and the calls of Windows succeed, captures show
\* all of it again, whatever failed before and however often the capturer is closed
\* (capture_windows.go:160-177, 237-243). The exception is a bitmap that could not be
\* selected: ensure does not look (capture_windows.go:204), and every capture is
\* black until the set is dropped for another reason.
CaptureRecovers ==
    <>[](\/ image.whole /\ image.size = display
         \/ initialized /\ ~ selected)

================================================================================
