------------------------------ MODULE CaptureLoop ------------------------------
(***************************************************************************)
(* captureLoop (client/relay/client.go) as the composition of what it      *)
(* drives: each tick captures the screen (ScreenCapture), and a frame that *)
(* has changed is encoded whole or by the region diffBounds finds          *)
(* (DirtyRegion), at a quality that follows from how long the last encodes *)
(* took (AdaptiveQuality).  All sizes of the display have the same raster  *)
(* here, and encoders do not fail: FrameEncoder has both, and what is sent.*)
(***************************************************************************)
EXTENDS ScreenCapture, DirtyRegion, AdaptiveQuality

VARIABLES
    stage,    \* of the tick: "capture", "got" an image, "scan"
    encSize,  \* the size the encoder was made for
    known,    \* the encoder has a frame to compare with
    age       \* how long ago the last full frame was sent, as in FrameEncoder

frameVars == <<encSize, known, age>>

encoderVars == <<frameVars, qualityVars>>

vars == <<captureVars, scanVars, stage, encoderVars>>

Init ==
    /\ CaptureInit
    /\ ScanInit /\ differs = {}
    /\ QualityInit
    /\ stage = "capture" /\ encSize = size /\ known = FALSE /\ age = "fresh"

\* webpFullRefreshInterval, then webpFullRefreshMaxInterval, go by.
TimePasses ==
    /\ known
    /\ age # "overdue"
    /\ age' = IF age = "fresh" THEN "due" ELSE "overdue"
    /\ UNCHANGED <<captureVars, scanVars, stage, encSize, known, qualityVars>>

\* A capture that fails is the end of the tick.
Captures ==
    /\ stage = "capture"
    /\ CaptureStep
    /\ stage' = IF pc = "blitted" /\ image' # NoImage THEN "got" ELSE "capture"
    /\ took' = NoEncode
    /\ UNCHANGED <<scanVars, frameVars, q>>

TickEnds == stage' = "capture"

\* Slip: the full refresh waits for a change of the screen.
RefreshDueNever == FALSE

RefreshDue == age # "fresh"

\* The frame is hashed as the last one: nothing is encoded, ...
SkipsFrame ==
    /\ stage = "got"
    /\ known
    /\ ~ RefreshDue
    /\ TickEnds
    /\ UNCHANGED <<captureVars, scanVars, encoderVars>>

\* ... unless IdleTick encodes all of the last one again.
IdleRefresh ==
    /\ stage = "got"
    /\ known
    /\ RefreshDue
    /\ TickEnds
    /\ age' = "fresh"
    /\ Encodes
    /\ UNCHANGED <<captureVars, scanVars, encSize, known>>

\* The screen has another size than the encoder was made for.
Rebuilds ==
    /\ stage = "got"
    /\ image.size # encSize
    /\ TickEnds
    /\ encSize' = image.size /\ known' = TRUE /\ age' = "fresh"
    /\ EncodesAnew
    /\ UNCHANGED <<captureVars, scanVars>>

NeedsFull == ~ known \/ age = "overdue"

\* The first frame, and the one that comes after webpFullRefreshMaxInterval.
EncodeFull ==
    /\ stage = "got"
    /\ image.size = encSize
    /\ NeedsFull
    /\ TickEnds
    /\ known' = TRUE /\ age' = "fresh"
    /\ Encodes
    /\ UNCHANGED <<captureVars, scanVars, encSize>>

Diffs ==
    /\ stage = "got"
    /\ image.size = encSize
    /\ ~ NeedsFull
    /\ stage' = "scan"
    /\ \E change \in SUBSET (Col \X Row) : ScanOf(change)
    /\ UNCHANGED <<captureVars, encoderVars>>

Scans ==
    /\ stage = "scan"
    /\ ScanStep
    /\ UNCHANGED <<captureVars, stage, encoderVars>>

\* The strips, if there is anything to send.
EncodeRegion ==
    /\ stage = "scan"
    /\ ~ MoreRows
    /\ TickEnds
    /\ IF y1 < 0 THEN UNCHANGED qualityVars ELSE Encodes
    /\ ScanOf({})
    /\ UNCHANGED <<captureVars, frameVars>>

LoopStep ==
    \/ Captures
    \/ SkipsFrame \/ IdleRefresh \/ Rebuilds \/ EncodeFull
    \/ Diffs \/ Scans \/ EncodeRegion

\* The display changes, or main closes the capturer, while the loop is anywhere.
Others ==
    /\ DisplayChanges \/ Close
    /\ UNCHANGED <<scanVars, stage, encoderVars>>

Next == LoopStep \/ TimePasses \/ Others

\* The ticker goes on as long as the session lasts, and so does time.
Spec == Init /\ [][Next]_vars /\ WF_vars(LoopStep) /\ WF_vars(TimePasses)

--------------------------------------------------------------------------------

\* The quality comes back to the cap, however far motion has lowered it, once the
\* machine is at ease, and that needs no motion: on a still screen the refresh of
\* IdleTick, and on one that never rests the regions and the frame that is forced,
\* bring it back step by step, whatever the display and the capturer do meanwhile
\* (encoder.go:166-183, 250-269). That the machine is at ease is that every encode from
\* then on, whole frames too, takes less than 40% of a frame's time. No tick without
\* motion encodes anything before the refresh, which therefore repaints at the quality
\* that motion left and not at the cap, as the comment of IdleTick has it.
QualityRecovers ==
    <>[](took \in {Fast, NoEncode}) => <>[](q >= Cap)

================================================================================
