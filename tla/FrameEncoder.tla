------------------------------ MODULE FrameEncoder ------------------------------
(***************************************************************************)
(* What the helped person's machine sends of its screen: captureLoop in    *)
(* client/relay/client.go and the encoder it drives (encoder.go). A tick   *)
(* captures the screen, compares its hash with the last one, and sends a   *)
(* whole frame, the region that differs from the frame encoded before, or  *)
(* nothing. A frame is a colour per cell; which cells a region holds is    *)
(* worked out in DirtyRegion.                                              *)
(***************************************************************************)
EXTENDS Integers, Sequences, FiniteSets

CONSTANTS
    Cells,       \* 1 .. n, from the top of the frame down
    Colours,
    Sizes,       \* widths and heights with the same number of pixels
    None,
    MaxChanges,  \* bound: how often the screen changes
    MaxFaults,   \* bound: how often an encoder or the page's decoder fails
    MaxWire      \* bound: how many messages are under way; a write waits then

ASSUME EncoderAssumption ==
    /\ IsFiniteSet(Cells) /\ Cells = 1 .. Cardinality(Cells)
    /\ None \notin Colours \cup Sizes
    /\ {MaxChanges, MaxFaults, MaxWire} \subseteq Nat

Pix == [Cells -> Colours]

VARIABLES
    screen,     \* size and pixels of the display
    lastHash,   \* what was hashed last, or None
    encSize,    \* the size the encoder was made for
    prev,       \* the pixels encoded last, or None
    age,        \* how long ago the last full frame was sent
    wire,       \* the messages on their way to the page
    changes, faults

encoderVars == <<screen, lastHash, encSize, prev, age, wire, changes, faults>>

FullFrame == [kind : {"full"}, size : Sizes, pix : Pix]

Region == [kind : {"region"}, pix : UNION {[box -> Colours] : box \in SUBSET Cells}]

Frame == FullFrame \cup Region

EncoderTypeOK ==
    /\ screen \in [size : Sizes, pix : Pix]
    /\ lastHash \in Pix \cup {None}
    /\ encSize \in Sizes
    /\ prev \in Pix \cup {None}
    /\ age \in {"fresh", "due", "overdue"}
    /\ wire \in Seq(Frame)
    /\ Len(wire) <= MaxWire + Cardinality(Cells)
    /\ changes \in 0 .. MaxChanges
    /\ faults \in 0 .. MaxFaults

EncoderInit ==
    /\ screen \in [size : Sizes, pix : Pix]
    /\ lastHash = None
    /\ encSize = screen.size
    /\ prev = None
    /\ age = "fresh"
    /\ wire = <<>>
    /\ changes = 0 /\ faults = 0

\* The hash is of the pixels alone: the size of the image is not part of it.
Hash(image) == image.pix

--------------------------------------------------------------------------------
(* The display and the clock *)

ScreenChanges(image) ==
    /\ changes < MaxChanges
    /\ image # screen
    /\ screen' = image
    /\ changes' = changes + 1
    /\ UNCHANGED <<lastHash, encSize, prev, age, wire, faults>>

\* webpFullRefreshInterval, then webpFullRefreshMaxInterval, go by.
TimePasses ==
    /\ prev # None
    /\ age # "overdue"
    /\ age' = IF age = "fresh" THEN "due" ELSE "overdue"
    /\ UNCHANGED <<screen, lastHash, encSize, prev, wire, changes, faults>>

--------------------------------------------------------------------------------
(* A tick of captureLoop *)

Full(size, pix) == [kind |-> "full", size |-> size, pix |-> pix]

Idle == lastHash = Hash(screen)

\* Slip: the full refresh waits for a change of the screen.
RefreshDueNever == FALSE

RefreshDue == prev # None /\ age # "fresh"

CanWrite == Len(wire) < MaxWire

\* Encode is not called for an unchanged screen; the refresh sends what was
\* encoded before. A failed refresh changes nothing.
IdleRefresh ==
    /\ CanWrite
    /\ Idle
    /\ RefreshDue
    /\ age' = "fresh"
    /\ wire' = Append(wire, Full(encSize, prev))
    /\ UNCHANGED <<screen, lastHash, encSize, prev, changes, faults>>

\* The encoder is rebuilt when the size has changed, and has no frame then.
Resized == screen.size # encSize

\* Slip: a new encoder goes on with the pixels of the old one.
KnownUnreset == prev

Known == IF Resized THEN None ELSE prev

NeedsFull == Known = None \/ age = "overdue"

EncodeFull ==
    /\ CanWrite
    /\ ~ Idle
    /\ NeedsFull
    /\ lastHash' = Hash(screen)
    /\ encSize' = screen.size
    /\ prev' = screen.pix
    /\ age' = "fresh"
    /\ wire' = Append(wire, Full(screen.size, screen.pix))
    /\ UNCHANGED <<screen, changes, faults>>

\* The error path of encodeFull comes before the pixels are kept.
EncodeFullFails ==
    /\ faults < MaxFaults
    /\ ~ Idle
    /\ NeedsFull
    /\ lastHash' = None
    /\ encSize' = screen.size
    /\ prev' = Known
    /\ age' = IF Resized THEN "fresh" ELSE age
    /\ faults' = faults + 1
    /\ UNCHANGED <<screen, wire, changes>>

Differing == {c \in Cells : prev[c] # screen.pix[c]}

\* One message per strip of the box, from the top down.
Strips(top, bottom) ==
    [i \in 1 .. bottom - top + 1 |->
        [kind |-> "region", pix |-> [c \in {top + i - 1} |-> screen.pix[c]]]]

\* prev is brought up to date before the strips are encoded.
EncodeRegion ==
    /\ CanWrite
    /\ ~ Idle
    /\ ~ NeedsFull
    /\ lastHash' = Hash(screen)
    /\ encSize' = screen.size
    /\ prev' = screen.pix
    /\ \E top, bottom \in Differing :
          /\ Differing \subseteq top .. bottom
          /\ wire' = wire \o Strips(top, bottom)
    /\ UNCHANGED <<screen, age, changes, faults>>

\* One strip fails: none is sent, and the loop forgets the hash.
EncodeRegionFails ==
    /\ faults < MaxFaults
    /\ ~ Idle
    /\ ~ NeedsFull
    /\ Differing # {}
    /\ lastHash' = None
    /\ encSize' = screen.size
    /\ prev' = screen.pix
    /\ faults' = faults + 1
    /\ UNCHANGED <<screen, age, wire, changes>>

\* The hash had been forgotten, and the pixels are those of prev.
EncodeNothing ==
    /\ ~ Idle
    /\ ~ NeedsFull
    /\ Differing = {}
    /\ lastHash' = Hash(screen)
    /\ encSize' = screen.size
    /\ UNCHANGED <<screen, prev, age, wire, changes, faults>>

Tick ==
    \/ IdleRefresh
    \/ EncodeFull \/ EncodeFullFails
    \/ EncodeRegion \/ EncodeRegionFails \/ EncodeNothing

================================================================================
