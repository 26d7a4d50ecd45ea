------------------------------ MODULE FrameViewer ------------------------------
(***************************************************************************)
(* What the support agent's page does with the frames (server/agent/       *)
(* viewer.js): it queues them, decodes one at a time, draws each on the    *)
(* canvas, and shows in a status line how the session stands.              *)
(***************************************************************************)
EXTENDS Integers, Sequences

CONSTANTS
    Blank,      \* what a canvas shows before anything is drawn
    MaxQueue    \* the 120 of viewer.js:184

ASSUME ViewerAssumption == MaxQueue \in Nat

VARIABLES
    queue,      \* imageQueue
    discard,    \* discardRegionsUntilFull
    decoding,   \* the frame being decoded, in a sequence of its own, or <<>>
    canvas,     \* the size and the pixels shown
    link,       \* the page's socket: open, closing, closed
    dead,
    status      \* the status line

viewerVars == <<queue, discard, decoding, canvas, link, dead, status>>

ViewerInit(blankCanvas) ==
    /\ queue = <<>>
    /\ discard = FALSE
    /\ decoding = <<>>
    /\ canvas = blankCanvas
    /\ link = "open"
    /\ dead = FALSE
    /\ status = "waiting"

--------------------------------------------------------------------------------
(* Frames come in. A frame is decoded at once if no other is. *)

Enqueue(frames) ==
    IF decoding = <<>>
    THEN decoding' = <<Head(frames)>> /\ queue' = Tail(frames)
    ELSE queue' = frames /\ UNCHANGED decoding

ReceiveFull(f) ==
    /\ link = "open"
    /\ f.kind = "full"
    /\ discard' = FALSE
    /\ Enqueue(<<f>>)
    /\ UNCHANGED <<canvas, link, dead, status>>

QueueFull == Len(queue) > MaxQueue

ReceiveRegion(f) ==
    /\ link = "open"
    /\ f.kind = "region"
    /\ ~ discard
    /\ ~ QueueFull
    /\ Enqueue(Append(queue, f))
    /\ UNCHANGED <<discard, canvas, link, dead, status>>

\* The backlog is dropped, the new region with it, and so is what follows.
DropRegions(f) ==
    /\ link = "open"
    /\ f.kind = "region"
    /\ discard \/ QueueFull
    /\ queue' = IF discard THEN queue ELSE <<>>
    /\ discard' = TRUE
    /\ UNCHANGED <<decoding, canvas, link, dead, status>>

--------------------------------------------------------------------------------
(* A frame has been decoded, or could not be *)

\* A full frame resizes the canvas; a region is drawn on what is there.
Draw(f, base) ==
    IF f.kind = "full"
    THEN [size |-> f.size, pix |-> f.pix]
    ELSE [base EXCEPT !.pix = [c \in DOMAIN base.pix |->
                                  IF c \in DOMAIN f.pix THEN f.pix[c] ELSE base.pix[c]]]

DecodeNext ==
    /\ decoding' = IF queue = <<>> THEN <<>> ELSE <<Head(queue)>>
    /\ queue' = IF queue = <<>> THEN <<>> ELSE Tail(queue)

\* markFrameDrawn: the page says that it is connected.
Drawn ==
    /\ decoding # <<>>
    /\ canvas' = Draw(decoding[1], canvas)
    /\ status' = "connected"
    /\ DecodeNext
    /\ UNCHANGED <<discard, link, dead>>

DecodeFails ==
    /\ decoding # <<>>
    /\ status' = "frame error"
    /\ DecodeNext
    /\ UNCHANGED <<discard, canvas, link, dead>>

--------------------------------------------------------------------------------
(* The end of the session *)

\* The server says that the session is over, or the agent ends it: no message
\* is delivered after ws.close().
SessionOver ==
    /\ link = "open"
    /\ dead' = TRUE
    /\ link' = "closing"
    /\ status' = "ended"
    /\ UNCHANGED <<queue, discard, decoding, canvas>>

\* onclose, after ws.close() or because the connection broke.
Closed ==
    /\ link # "closed"
    /\ link' = "closed"
    /\ queue' = <<>>
    /\ discard' = FALSE
    /\ dead' = TRUE
    /\ status' = IF dead THEN status ELSE "lost"
    /\ UNCHANGED <<decoding, canvas>>

================================================================================
