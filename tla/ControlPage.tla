------------------------------ MODULE ControlPage ------------------------------
(***************************************************************************)
(* How the agent's page forwards the keyboard and the mouse                *)
(* (server/agent/control.js, and sendBinary of viewer.js).                 *)
(***************************************************************************)
EXTENDS Sequences, SequencesExt

CONSTANTS
    Key,
    Button,
    Modifier,   \* the keys that, held, make a shortcut of the browser's tools
    Shortcut    \* the keys I and J of these shortcuts

ASSUME PageAssumption ==
    /\ IsFiniteSet(Key) /\ Key \cap Button = {}
    /\ Modifier \subseteq Key /\ Shortcut \subseteq Key \ Modifier

VARIABLES
    page,      \* the page's socket: open or closed
    enabled,   \* controlEnabled
    focused,   \* the canvas has the focus
    heldVKs,
    pressed    \* what the agent holds down for the machine to see

pageVars == <<page, enabled, focused, heldVKs, pressed>>

PageTypeOK ==
    /\ page \in {"open", "closed"}
    /\ {enabled, focused} \subseteq BOOLEAN
    /\ heldVKs \subseteq Key
    /\ pressed \subseteq Key \cup Button

NewPage(socket) ==
    /\ page' = socket
    /\ enabled' = FALSE /\ focused' = FALSE
    /\ heldVKs' = {} /\ pressed' = {}

PageInit ==
    /\ page = "closed"
    /\ enabled = FALSE /\ focused = FALSE
    /\ heldVKs = {} /\ pressed = {}

\* sendBinary: what the page really sends of some events.
Sent(events) == IF enabled /\ page = "open" THEN events ELSE <<>>

Down(k) == [key |-> k, isDown |-> TRUE]

Up(k) == [key |-> k, isDown |-> FALSE]

\* captureKey leaves these to the browser.
PassesThrough(k) == k \in Shortcut /\ Modifier \subseteq pressed

\* The key is pressed, or held long enough to repeat; it may have been down
\* before the canvas had the focus.
KeyDown(k) ==
    /\ focused
    /\ IF PassesThrough(k)
       THEN UNCHANGED <<heldVKs, pressed>>
       ELSE heldVKs' = heldVKs \cup {k} /\ pressed' = pressed \cup {k}
    /\ UNCHANGED <<page, enabled, focused>>

KeyUp(k) ==
    /\ focused
    /\ pressed' = pressed \ {k}
    /\ heldVKs' = IF PassesThrough(k) THEN heldVKs ELSE heldVKs \ {k}
    /\ UNCHANGED <<page, enabled, focused>>

KeyEvents(k, event) == IF PassesThrough(k) THEN <<>> ELSE Sent(<<event>>)

\* A click, or the Tab key.
Focuses ==
    /\ ~ focused
    /\ focused' = TRUE
    /\ UNCHANGED <<page, enabled, heldVKs, pressed>>

\* The mouse is listened to on the canvas only.
ButtonDown(b) ==
    /\ b \notin pressed
    /\ pressed' = pressed \cup {b}
    /\ UNCHANGED <<page, enabled, focused, heldVKs>>

ButtonUp(b) ==
    /\ b \in pressed
    /\ pressed' = pressed \ {b}
    /\ UNCHANGED <<page, enabled, focused, heldVKs>>

\* Slip: the keys are forgotten and not released.
ReleasesNothing == <<>>

Releases == SetToSeq({Up(k) : k \in heldVKs})

\* releaseHeldKeys.  What is let go from now on the page does not see.
Blurs ==
    /\ focused
    /\ focused' = FALSE
    /\ heldVKs' = {}
    /\ pressed' = pressed \ Key
    /\ UNCHANGED <<page, enabled>>

\* The consent message comes in.
Enabled ==
    /\ page = "open"
    /\ ~ enabled
    /\ enabled' = TRUE
    /\ UNCHANGED <<page, focused, heldVKs, pressed>>

\* "disconnect", the button, the tab is closed, or the connection breaks.
PageCloses == page = "open" /\ NewPage("closed")

================================================================================
