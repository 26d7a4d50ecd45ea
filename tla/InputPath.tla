------------------------------- MODULE InputPath -------------------------------
(***************************************************************************)
(* The way of the agent's mouse and keys to the helped machine, as numbers *)
(* and bytes: from the page (server/agent/control.js, the canvas of        *)
(* viewer.js) through decodeEvent (client/relay/proto.go) and Inject       *)
(* (client/input) to the calls of SendInput.  ControlPage, ClientSession   *)
(* and RemoteControl have who may send, the queues and the losses.         *)
(*                                                                         *)
(* A position and a size are pairs of the horizontal and the vertical.     *)
(***************************************************************************)
EXTENDS Integers, Sequences

CONSTANTS
    Viewport,  \* the room for the canvas in the page
    Sizes,     \* of the helped machine's display
    Points,    \* where the mouse may be, in whole pixels of the page
    Buttons,   \* of the agent's mouse: left, middle, right, back, forward are 0 to 4
    Codes,     \* keys of the agent's keyboard
    Deltas,    \* turns of the wheel, in pixels of the page
    MaxWay,    \* bound: the messages on the way
    MaxFaults  \* bound: the calls of Windows that fail

Dim == 1 .. 2

\* CODE_TO_VK, of keys that have a twin on the numeric pad or on the other side:
\* each pair that the table gives one code, and pairs of every kind that it tells.
VK == [Enter |-> 13, NumpadEnter |-> 13, Equal |-> 187, NumpadEqual |-> 187,
       ArrowLeft |-> 37, Numpad4 |-> 100, Delete |-> 46, NumpadDecimal |-> 110,
       Slash |-> 191, NumpadDivide |-> 111, Minus |-> 189, NumpadSubtract |-> 109,
       ShiftLeft |-> 160, ShiftRight |-> 161, ControlLeft |-> 162, ControlRight |-> 163,
       AltLeft |-> 164, AltRight |-> 165, MetaLeft |-> 91, MetaRight |-> 92]

\* A display has less than 2^16 pixels each way (the page's image, a WebP, has even
\* less), ...
Extent == 1 .. 65535

\* ... and no event turns the wheel by more lines than 16 bits hold.
MaxTurn == 1310680

Turn == - MaxTurn .. MaxTurn

ASSUME PathAssumption ==
    /\ Viewport \in [Dim -> Nat \ {0}]
    /\ Sizes \subseteq [Dim -> Extent]
    /\ Points \subseteq [Dim -> Nat]
    /\ Buttons \subseteq 0 .. 4
    /\ Codes \subseteq DOMAIN VK
    /\ Deltas \subseteq [Dim -> Turn]
    /\ {MaxWay, MaxFaults} \subseteq Nat

VARIABLES
    canvas,    \* the size of the page's canvas: that of the last frame
    mouse,     \* where the mouse was moved last
    pressed,   \* the agent's buttons
    pendingMove,
    way,       \* messages, each with what the agent meant
    meant,     \* what is injected, or was last
    calls,     \* the calls of SendInput that Inject still has to make
    display,
    cursor,
    held,      \* buttons the machine takes for pressed, by their codes
    astray,    \* the cursor is not where the last event put it
    faults

pageVars == <<canvas, mouse, pressed, pendingMove>>
machineVars == <<meant, calls, display, cursor, held, astray, faults>>

vars == <<pageVars, way, machineVars>>

--------------------------------------------------------------------------------
(* The page *)

\* scaleCanvas: the canvas is as large as fits, in whole pixels, ...
Fitted(size) ==
    LET d == IF Viewport[1] * size[2] <= Viewport[2] * size[1] THEN 1 ELSE 2
    IN  [e \in Dim |-> (size[e] * Viewport[d]) \div size[d]]

\* ... and centred, so that it may begin in the middle of a pixel.
Half(size) == [d \in Dim |-> (Viewport[d] - Fitted(size)[d]) % 2]

\* A canvas that is too flat to be shown gets no events.
OnCanvas(p, size) ==
    \A d \in Dim : Fitted(size)[d] > 0 /\ p[d] < Fitted(size)[d] + Half(size)[d]

\* Slip: the pixels of the page are sent.
CanvasPosUnscaled(p, size) == p

\* getCanvasPos, of a mouse that is p pixels from where the canvas begins.
getCanvasPos(p, size) ==
    [d \in Dim |-> ((2 * p[d] - Half(size)[d]) * size[d] + Fitted(size)[d])
                       \div (2 * Fitted(size)[d])]

\* The two bytes of a number.
Hi(n) == (n % 65536) \div 256

Lo(n) == n % 256

BtnCode(b) == IF b \in 0 .. 2 THEN b ELSE 0

\* Math.round(delta / 40).
Lines(delta) == (2 * delta + 40) \div 80

Bytes(e) ==
    IF e.type = "key"
    THEN <<IF e.isDown THEN 6 ELSE 7, Hi(VK[e.code]), Lo(VK[e.code])>>
    ELSE LET x1 == Hi(e.at[1])
             x0 == Lo(e.at[1])
             y1 == Hi(e.at[2])
             y0 == Lo(e.at[2])
         IN  CASE e.type = "move"   -> <<2, x1, x0, y1, y0>>
               [] e.type = "down"   -> <<3, x1, x0, y1, y0, BtnCode(e.button)>>
               [] e.type = "up"     -> <<4, x1, x0, y1, y0, BtnCode(e.button)>>
               [] e.type = "scroll" ->
                      <<5, x1, x0, y1, y0, Hi(Lines(e.delta[1])), Lo(Lines(e.delta[1])),
                                           Hi(Lines(e.delta[2])), Lo(Lines(e.delta[2]))>>

Sends(e) == Len(way) < MaxWay /\ way' = Append(way, [bytes |-> Bytes(e), meant |-> e])

\* An event of the mouse at p: of a button b, and turning the wheel by delta, if it
\* is of that type.
MouseEvent(type, p, b, delta) ==
    [type |-> type, at |-> getCanvasPos(p, canvas), point |-> p, size |-> canvas,
     button |-> b, delta |-> delta]

NoDelta == <<0, 0>>

NoEvent == [type |-> "none"]

\* Slip: the first position of an animation frame is kept.
LatestFirst(old, new) == IF old = NoEvent THEN new ELSE old

Latest(old, new) == new

MouseMoves(p) ==
    /\ OnCanvas(p, canvas)
    /\ mouse' = p
    /\ pendingMove' = Latest(pendingMove, MouseEvent("move", p, 0, NoDelta))
    /\ UNCHANGED <<canvas, pressed, way, machineVars>>

\* The animation frame that was asked for.
flushMove ==
    /\ pendingMove # NoEvent
    /\ Sends(pendingMove)
    /\ pendingMove' = NoEvent
    /\ UNCHANGED <<canvas, mouse, pressed, machineVars>>

MouseDown(b) ==
    /\ b \notin pressed
    /\ OnCanvas(mouse, canvas)
    /\ Sends(MouseEvent("down", mouse, b, NoDelta))
    /\ pressed' = pressed \cup {b}
    /\ UNCHANGED <<canvas, mouse, pendingMove, machineVars>>

MouseUp(b) ==
    /\ b \in pressed
    /\ OnCanvas(mouse, canvas)
    /\ Sends(MouseEvent("up", mouse, b, NoDelta))
    /\ pressed' = pressed \ {b}
    /\ UNCHANGED <<canvas, mouse, pendingMove, machineVars>>

Wheel(delta) ==
    /\ OnCanvas(mouse, canvas)
    /\ Sends(MouseEvent("scroll", mouse, 0, delta))
    /\ UNCHANGED <<canvas, mouse, pressed, pendingMove, machineVars>>

KeyChanges(code, isDown) ==
    /\ Sends([type |-> "key", code |-> code, isDown |-> isDown])
    /\ UNCHANGED <<pageVars, machineVars>>

\* A frame of another size is drawn.
CanvasResizes ==
    /\ canvas # display
    /\ canvas' = display
    /\ UNCHANGED <<mouse, pressed, pendingMove, way, machineVars>>

--------------------------------------------------------------------------------
(* The client *)

Word(m, i) == 256 * m[i] + m[i + 1]

Int16(n) == IF n < 32768 THEN n ELSE n - 65536

\* decodeEvent.  The page's messages are never shorter than it asks for.
decodeEvent(m) ==
    LET at == <<Word(m, 2), Word(m, 4)>>
    IN  CASE m[1] = 2 -> [type |-> "move", at |-> at]
          [] m[1] = 3 -> [type |-> "down", at |-> at, btn |-> m[6]]
          [] m[1] = 4 -> [type |-> "up", at |-> at, btn |-> m[6]]
          [] m[1] = 5 -> [type |-> "scroll", at |-> at,
                          delta |-> <<Int16(Word(m, 6)), Int16(Word(m, 8))>>]
          [] m[1] = 6 -> [type |-> "keydown", vk |-> Word(m, 2)]
          [] m[1] = 7 -> [type |-> "keyup", vk |-> Word(m, 2)]

\* Slip: the arrow keys are left out.
ExtendedWithoutArrows(vk) == vk \in {33, 34, 35, 36} \cup 44 .. 46 \cup 91 .. 93
                                       \cup {111, 144, 163, 165}

IsExtendedVK(vk) ==
    vk \in 33 .. 40 \cup 44 .. 46 \cup 91 .. 93 \cup {111, 144, 163, 165}

Call(does, data) == [does |-> does, data |-> data]

WheelCall(does, amount) == IF amount = 0 THEN <<>> ELSE <<Call(does, <<amount>>)>>

\* What the mouse does where it is.
Acts(e) ==
    CASE e.type = "move"           -> <<>>
      [] e.type \in {"down", "up"} -> <<Call(e.type, <<e.btn>>)>>
      [] e.type = "scroll"         -> WheelCall("wheel", -120 * e.delta[2])
                                      \o WheelCall("hwheel", 120 * e.delta[1])

\* A key with keyFlags, the extended flag and the one of a release.
KeyCall(vk, isUp) == Call("key", <<vk, IsExtendedVK(vk), isUp>>)

\* Inject: the cursor is moved first.
CallsOf(e) ==
    IF e.type \in {"keydown", "keyup"}
    THEN <<KeyCall(e.vk, e.type = "keyup")>>
    ELSE <<Call("move", e.at)>> \o Acts(e)

\* injectLoop takes an event.
Takes ==
    /\ calls = <<>>
    /\ way # <<>>
    /\ way' = Tail(way)
    /\ meant' = Head(way).meant
    /\ calls' = CallsOf(decodeEvent(Head(way).bytes))
    /\ astray' = TRUE
    /\ UNCHANGED <<pageVars, display, cursor, held, faults>>

Within(v, least, most) == IF v < least THEN least ELSE IF v > most THEN most ELSE v

\* scaleToAbsolute, with the display's size at the time of the call.
Absolute(p) ==
    [d \in Dim |-> (Within(p[d], 0, display[d] - 1) * 65535)
                       \div (IF display[d] > 1 THEN display[d] - 1 ELSE 1)]

\* The pixel Windows takes an absolute position for.
Pixel(abs) == [d \in Dim |-> (abs[d] * display[d]) \div 65536]

\* upFlag.
Released(btn) == held \ {btn}

CallSucceeds ==
    /\ calls # <<>>
    /\ calls' = Tail(calls)
    /\ LET call == Head(calls)
       IN  /\ IF call.does = "move"
              THEN cursor' = Pixel(Absolute(call.data)) /\ astray' = FALSE
              ELSE UNCHANGED <<cursor, astray>>
           /\ held' = CASE call.does = "down" -> held \cup {call.data[1]}
                        [] call.does = "up"   -> Released(call.data[1])
                        [] OTHER              -> held
    /\ UNCHANGED <<pageVars, way, meant, display, faults>>

\* GetSystemMetrics or SendInput: the rest of the event is not done.
CallFails ==
    /\ calls # <<>>
    /\ faults < MaxFaults
    /\ faults' = faults + 1
    /\ calls' = <<>>
    /\ UNCHANGED <<pageVars, way, meant, display, cursor, held, astray>>

\* The helped person moves the mouse, between two calls too.
Disturbs ==
    /\ cursor' = <<0, 0>>
    /\ astray' = TRUE
    /\ UNCHANGED <<pageVars, way, meant, calls, display, held, faults>>

DisplayChanges ==
    /\ display' \in Sizes \ {display}
    /\ cursor' = <<0, 0>>
    /\ astray' = TRUE
    /\ UNCHANGED <<pageVars, way, meant, calls, held, faults>>

Init ==
    /\ display \in Sizes
    /\ canvas = display
    /\ mouse \in {p \in Points : OnCanvas(p, canvas)}
    /\ pressed = {} /\ pendingMove = NoEvent /\ way = <<>>
    /\ meant = NoEvent /\ calls = <<>>
    /\ cursor = <<0, 0>> /\ held = {} /\ astray = TRUE
    /\ faults = 0

PageStep ==
    \/ \E p \in Points : MouseMoves(p)
    \/ flushMove
    \/ \E b \in Buttons : MouseDown(b) \/ MouseUp(b)
    \/ \E delta \in Deltas : Wheel(delta)
    \/ \E code \in Codes, isDown \in BOOLEAN : KeyChanges(code, isDown)
    \/ CanvasResizes

MachineStep == Takes \/ CallSucceeds \/ CallFails \/ Disturbs \/ DisplayChanges

Next == PageStep \/ MachineStep

Spec == Init /\ [][Next]_vars

--------------------------------------------------------------------------------

\* A pixel of the display is on, or next to, what a pixel of the page shows.
Shows(p, size, pixel) ==
    \A d \in Dim :
        LET width == 2 * Fitted(size)[d]
            left == (2 * p[d] - Half(size)[d]) * size[d]
        IN  /\ (pixel[d] + 2) * width >= left
            /\ (pixel[d] - 1) * width <= left + 2 * size[d]

OfMouse(e) == e.type \notin {"none", "key"}

\* Where a canvas begins within a pixel of the page, getCanvasPos may return -1.
BeforeCanvas(e) == \E d \in Dim : e.at[d] < 0

Lands == OfMouse(meant) /\ ~ astray /\ meant.size = display

\* What is pressed, released or scrolled is what the agent points at, whatever moves
\* are still to come and however often the display has changed its size, unless the
\* helped person moves the mouse (input_windows.go:86-127, coordinates.go:6-12).
LandsWhereAimed ==
    Lands /\ ~ BeforeCanvas(meant) => Shows(meant.point, meant.size, cursor)

Quiet == way = <<>> /\ calls = <<>> /\ pendingMove = NoEvent

\* When the mouse has come to rest the cursor rests where it points: the last of the
\* moves of an animation frame is not lost and not overtaken (control.js:134-155).
CursorFollows ==
    Quiet /\ Lands /\ canvas = display /\ ~ BeforeCanvas(meant)
        => Shows(mouse, canvas, cursor)

\* The keys that Windows tells from their twins by the extended flag.
Extended ==
    {"NumpadEnter", "ArrowLeft", "Delete", "NumpadDivide", "ControlRight", "AltRight",
     "MetaLeft", "MetaRight"}

KeysReadAs(data) ==
    {code \in DOMAIN VK : VK[code] = data[1] /\ (code \in Extended <=> data[2])}

\* What a key is taken for: Enter of the pad for the other one, and the two Equals
\* for either.
TakenFor(code) ==
    CASE code = "NumpadEnter"              -> {"Enter"}
      [] code \in {"Equal", "NumpadEqual"} -> {"Equal", "NumpadEqual"}
      [] OTHER                             -> {code}

Near(amount, delta) == amount - 3 * delta \in -60 .. 60

\* A key arrives as itself and not as its twin on the numeric pad or on the other
\* side, save Enter and Equal, as pressed if it was pressed and as released if it was
\* released; the machine scrolls as far as the wheel was turned, to
\* half a line of every event, and the way it was turned; and when nothing is on the
\* way and no call has failed it takes for pressed the buttons that are, where back
\* and forward count as left (control.js:18-65, 92-129, 168-174, vk.go:3-26,
\* input_windows.go:104-119, 168-189, 193-211).
ArrivesAsMeant ==
    /\ \A i \in DOMAIN calls :
          LET call == calls[i]
          IN  /\ call.does = "key"
                    => /\ KeysReadAs(call.data) = TakenFor(meant.code)
                       /\ call.data[3] <=> ~ meant.isDown
              /\ call.does = "wheel" => Near(call.data[1], - meant.delta[2])
              /\ call.does = "hwheel" => Near(call.data[1], meant.delta[1])
    /\ way = <<>> /\ calls = <<>> /\ faults = 0
          => \A b \in {1, 2} : b \in held <=> b \in pressed

================================================================================
