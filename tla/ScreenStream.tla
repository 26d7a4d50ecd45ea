------------------------------ MODULE ScreenStream ------------------------------
(***************************************************************************)
(* The screen of one machine on the page of another: FrameEncoder at one   *)
(* end, FrameViewer at the other, and the relay, which keeps the order of  *)
(* the messages, in between.                                               *)
(***************************************************************************)
EXTENDS FrameEncoder, FrameViewer

vars == <<encoderVars, viewerVars>>

CanvasPix == [Cells -> Colours \cup {Blank}]

TypeOK ==
    /\ EncoderTypeOK
    /\ queue \in Seq(Frame) /\ Len(queue) <= MaxQueue + 1
    /\ decoding \in Seq(Frame) /\ Len(decoding) <= 1
    /\ queue # <<>> => decoding # <<>>
    /\ discard \in BOOLEAN
    /\ canvas \in [size : Sizes \cup {Blank}, pix : CanvasPix]
    /\ link \in {"open", "closing", "closed"}
    /\ dead \in BOOLEAN
    /\ status \in {"waiting", "connected", "frame error", "ended", "lost"}

Init ==
    /\ EncoderInit
    /\ ViewerInit([size |-> Blank, pix |-> [c \in Cells |-> Blank]])

\* What happens to the machine after the session is of no interest here.
Display ==
    /\ link = "open"
    /\ \E image \in [size : Sizes, pix : Pix] : ScreenChanges(image)
    /\ UNCHANGED viewerVars

Clock == link = "open" /\ TimePasses /\ UNCHANGED viewerVars

Deliver ==
    /\ wire # <<>>
    /\ wire' = Tail(wire)
    /\ \/ ReceiveFull(Head(wire))
       \/ ReceiveRegion(Head(wire))
       \/ DropRegions(Head(wire))
    /\ UNCHANGED <<screen, lastHash, encSize, prev, age, changes, faults>>

Draws == Drawn /\ UNCHANGED encoderVars

FailsToDraw ==
    /\ faults < MaxFaults
    /\ DecodeFails
    /\ faults' = faults + 1
    /\ UNCHANGED <<screen, lastHash, encSize, prev, age, wire, changes>>

Ends == (SessionOver \/ Closed) /\ UNCHANGED encoderVars

\* The loop ends with the session: its writes fail.
Captures == link = "open" /\ Tick /\ UNCHANGED viewerVars

Next ==
    \/ Display
    \/ Clock
    \/ Captures
    \/ Deliver
    \/ Draws
    \/ FailsToDraw
    \/ Ends

Spec == Init /\ [][Next]_vars

\* The ticker, the relay and the decoder go on; the clock does, too. The screen
\* need not change, nothing need fail, and the session need not end.
Fairness ==
    /\ WF_vars(Captures)
    /\ WF_vars(Clock)
    /\ WF_vars(Deliver)
    /\ WF_vars(Draws)

FairSpec == Spec /\ Fairness

--------------------------------------------------------------------------------

\* What there is to an image: its size, which is 0 here, and its cells.
Aspect == {0} \cup Cells

Of(image, a) == IF a = 0 THEN image.size ELSE image.pix[a]

Covers(f, a) == f.kind = "full" \/ a \in DOMAIN f.pix

\* The frames, drawn one after the other on the base, show the image: every aspect as
\* the last frame that covers it has it, or as it was.
AddsUp(frames, base, image) ==
    \A a \in Aspect :
        LET covering == {i \in DOMAIN frames : Covers(frames[i], a)}
        IN  /\ covering = {} => Of(base, a) = Of(image, a)
            /\ \A i \in covering :
                  (\A j \in covering : j <= i) => Of(frames[i], a) = Of(image, a)

\* All that is under way, and the frame the encoder has in mind.
Coming == decoding \o queue \o wire

InMind == [size |-> encSize, pix |-> prev]

InStep == prev # None => AddsUp(Coming, canvas, InMind)

Losses ==
    \/ EncodeRegionFails
    \/ FailsToDraw
    \/ wire # <<>> /\ DropRegions(Head(wire))
    \/ Closed

\* What is under way to the page adds up to the frame the encoder has in mind,
\* and only a lost region can change that (encoder.go:91-96, viewer.js:160-163,
\* 177-180): a diff is always against what the page will show.
OnlyLossesDiverge == [][InStep /\ ~ InStep' => Losses]_vars

\* While the session lasts, the page comes to show the pixels of a screen that
\* no longer changes, whatever was lost on the way: a full frame is sent again
\* and makes it good (encoder.go:43-47, viewer.js:171, protocol.md:84-87).
PageCatchesUp == <>(link # "open") \/ <>[](canvas.pix = screen.pix)

================================================================================
