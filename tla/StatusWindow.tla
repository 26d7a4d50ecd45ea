----------------------------- MODULE StatusWindow ------------------------------
(***************************************************************************)
(* The window of the helped person's program (client/ui/window_windows.go) *)
(* and the goroutines that write to it: Run and readPump through the       *)
(* callbacks of client/main.go, and watchElevatedFocus                     *)
(* (client/relay/elevation_windows.go).  The window has one thread, the    *)
(* main goroutine; main starts Run before it opens the window.  Closing it *)
(* ends the program, which ClientSession has (Quits).                      *)
(***************************************************************************)
EXTENDS Naturals

CONSTANTS
    Code,         \* session codes, none of which is one of the texts below
    MaxSessions,  \* bound: how often a code is given out
    MaxSwitches   \* bound: how often the focus goes to an elevated program or back

ASSUME WindowAssumption ==
    /\ Code \cap {"", "------", "NOCONN"} = {}
    /\ {MaxSessions, MaxSwitches} \subseteq Nat

VARIABLES
    ui,          \* main has not called ui.Run yet, is in it, or shows the window
    content,     \* globalCode, globalStatus and globalControlActive
    shown,       \* what was painted last: a code, the line below it, the red bar
    dirty,       \* a WM_PAINT is due
    topmost, minimised,
    minimising,  \* wndProc lets a minimise command pass
    pc,          \* where Run and connect are
    reading,     \* readPump runs
    watch,       \* watchElevatedFocus: off, idle, about to tell what it saw
    warned,
    elevated,    \* the focused program is
    sessions, switches

windowVars == <<shown, topmost, minimised, minimising>>
threadVars == <<pc, reading, sessions>>
watchVars == <<watch, warned>>
focusVars == <<elevated, switches>>

allWindowVars == <<ui, content, dirty, windowVars, threadVars, watchVars, focusVars>>

Blank == [code |-> "", status |-> "", active |-> FALSE]

WindowInit ==
    /\ ui = "boot" /\ content = Blank /\ shown = Blank /\ dirty = FALSE
    /\ topmost = FALSE /\ minimised = FALSE /\ minimising = FALSE
    /\ pc = "dialing" /\ reading = FALSE /\ sessions = 0
    /\ watch = "off" /\ warned = FALSE
    /\ elevated = FALSE /\ switches = 0

\* globalHwnd is not 0.
HasWindow == ui = "open"

--------------------------------------------------------------------------------
(* What the other goroutines call *)

\* Slip: the window is not told.
InvalidatesNever == dirty

Invalidates == dirty \/ HasWindow

Writes(c) == content' = c /\ dirty' = Invalidates

SetCode(k) ==
    /\ Writes([content EXCEPT !.code = k, !.status = ""])
    /\ UNCHANGED <<ui, windowVars>>

SetStatus(s) == Writes([content EXCEPT !.status = s]) /\ UNCHANGED <<ui, windowVars>>

\* The window is restored and put on top of the others, or let go.
SetControlActive(active) ==
    /\ Writes([content EXCEPT !.active = active])
    /\ topmost' = IF HasWindow THEN active ELSE topmost
    /\ minimised' = (minimised /\ ~ (HasWindow /\ active))
    /\ UNCHANGED <<ui, shown, minimising>>

--------------------------------------------------------------------------------
(* Run and connect, as far as the window shows them *)

GoesTo(p) == pc' = p /\ UNCHANGED <<reading, sessions>>

Cancelled == pc \in {"ending", "over", "backoff"}

\* The back-off lets the goroutines of the last connection return.
Registered(k) ==
    /\ pc = "dialing" /\ ~ reading /\ watch = "off"
    /\ sessions < MaxSessions
    /\ sessions' = sessions + 1
    /\ pc' = "waiting" /\ reading' = TRUE
    /\ SetCode(k)
    /\ UNCHANGED <<watchVars, focusVars>>

CannotReach ==
    /\ pc = "dialing" /\ ~ reading /\ watch = "off"
    /\ GoesTo("backoff")
    /\ SetCode("NOCONN")
    /\ UNCHANGED <<watchVars, focusVars>>

\* Slip: a prompt that cannot be shown is not a denial.
PromptableAlways == TRUE

Promptable == HasWindow

\* The prompt is the window's thread's, which is then back from any other command.
Approved ==
    /\ pc = "waiting"
    /\ Promptable
    /\ ~ minimising
    /\ GoesTo("approved")
    /\ UNCHANGED <<ui, content, dirty, windowVars, watchVars, focusVars>>

\* Denied, or the connection is lost.
GivesUp ==
    /\ pc \in {"waiting", "approved"}
    /\ GoesTo("over")
    /\ UNCHANGED <<ui, content, dirty, windowVars, watchVars, focusVars>>

ControlBegins ==
    /\ pc = "approved"
    /\ GoesTo("controlled")
    /\ SetControlActive(TRUE)
    /\ UNCHANGED <<watchVars, focusVars>>

\* onConnect, and the loops are started.
Shares ==
    /\ pc = "controlled"
    /\ GoesTo("sharing")
    /\ SetStatus("sharing")
    /\ watch' = "idle" /\ warned' = FALSE
    /\ UNCHANGED focusVars

StopsSharing ==
    /\ pc = "sharing"
    /\ GoesTo("ending")
    /\ UNCHANGED <<ui, content, dirty, windowVars, watchVars, focusVars>>

ControlEnds ==
    /\ pc = "ending"
    /\ GoesTo("over")
    /\ SetControlActive(FALSE)
    /\ UNCHANGED <<watchVars, focusVars>>

\* Run's onDisconn.
Disconnected ==
    /\ pc = "over"
    /\ GoesTo("backoff")
    /\ SetCode("------")
    /\ UNCHANGED <<watchVars, focusVars>>

Redials ==
    /\ pc = "backoff"
    /\ GoesTo("dialing")
    /\ UNCHANGED <<ui, content, dirty, windowVars, watchVars, focusVars>>

\* readPump reads that the agent has left, and says so before connect knows; or it
\* fails and says nothing.
ReaderEnds ==
    /\ reading
    /\ reading' = FALSE
    /\ SetCode("------") \/ UNCHANGED <<ui, content, dirty, windowVars>>
    /\ UNCHANGED <<pc, sessions, watchVars, focusVars>>

--------------------------------------------------------------------------------
(* watchElevatedFocus *)

FocusMoves ==
    /\ switches < MaxSwitches
    /\ switches' = switches + 1
    /\ elevated' = ~ elevated
    /\ UNCHANGED <<ui, content, dirty, windowVars, threadVars, watchVars>>

\* The select may prefer the ticker to a context that is done.
Looks ==
    /\ watch = "idle"
    /\ elevated # warned
    /\ watch' = "seen" /\ warned' = elevated
    /\ UNCHANGED <<ui, content, dirty, windowVars, threadVars, focusVars>>

\* OnNotice, whose empty text becomes that of onConnect again.
Tells ==
    /\ watch = "seen"
    /\ watch' = "idle"
    /\ SetStatus(IF warned THEN "elevated" ELSE "sharing")
    /\ UNCHANGED <<warned, threadVars, focusVars>>

WatchEnds ==
    /\ watch = "idle"
    /\ Cancelled
    /\ watch' = "off"
    /\ UNCHANGED <<ui, content, dirty, windowVars, threadVars, warned, focusVars>>

--------------------------------------------------------------------------------
(* The window's thread *)

\* ui.Run("", cancel) sets the code it was given ...
EntersRun ==
    /\ ui = "boot"
    /\ ui' = "opening"
    /\ content' = [content EXCEPT !.code = ""]
    /\ UNCHANGED <<dirty, windowVars, threadVars, watchVars, focusVars>>

\* ... and creates the window and shows it.
Opens ==
    /\ ui = "opening"
    /\ ui' = "open" /\ dirty' = TRUE
    /\ UNCHANGED <<content, windowVars, threadVars, watchVars, focusVars>>

\* onPaint: the line below the code is the status, but under control it is the
\* indicator.
Displayed(c) == IF c.active THEN [c EXCEPT !.status = "control"] ELSE c

Paints ==
    /\ HasWindow /\ dirty /\ ~ minimised /\ ~ minimising
    /\ shown' = Displayed(content)
    /\ dirty' = FALSE
    /\ UNCHANGED <<ui, content, topmost, minimised, minimising, threadVars, watchVars,
                   focusVars>>

\* Slip: a minimise command is always let pass.
MayMinimiseAlways == TRUE

MayMinimise == ~ content.active

\* WM_SYSCOMMAND is let pass to DefWindowProc, ...
AcceptsMinimise ==
    /\ HasWindow /\ ~ minimised /\ ~ minimising
    /\ MayMinimise
    /\ minimising' = TRUE
    /\ UNCHANGED <<ui, content, dirty, shown, topmost, minimised, threadVars, watchVars,
                   focusVars>>

\* ... which minimises the window.
Minimises ==
    /\ minimising
    /\ minimising' = FALSE /\ minimised' = TRUE
    /\ UNCHANGED <<ui, content, dirty, shown, topmost, threadVars, watchVars, focusVars>>

Restores ==
    /\ HasWindow /\ minimised
    /\ minimised' = FALSE /\ dirty' = TRUE
    /\ UNCHANGED <<ui, content, shown, topmost, minimising, threadVars, watchVars,
                   focusVars>>

RunStep ==
    \/ \E k \in Code : Registered(k)
    \/ CannotReach \/ Approved \/ GivesUp \/ ControlBegins \/ Shares
    \/ StopsSharing \/ ControlEnds \/ Disconnected \/ Redials

WatchStep == Looks \/ Tells \/ WatchEnds

WindowStep ==
    EntersRun \/ Opens \/ Paints \/ AcceptsMinimise \/ Minimises \/ Restores

WindowNext == RunStep \/ ReaderEnds \/ FocusMoves \/ WatchStep \/ WindowStep

WindowSpec == WindowInit /\ [][WindowNext]_allWindowVars

\* The window's thread runs, and so do the end of connect and Run's callbacks.
Fairness ==
    /\ WF_allWindowVars(EntersRun \/ Opens \/ Paints)
    /\ WF_allWindowVars(Minimises)
    /\ WF_allWindowVars(ControlEnds \/ Disconnected)

FairSpec == WindowSpec /\ Fairness

--------------------------------------------------------------------------------

Controlled == pc \in {"controlled", "sharing", "ending"}

\* The window can be seen, and no command to minimise it is being carried out.
InSight == HasWindow /\ topmost /\ ~ minimised /\ ~ minimising

\* Control begins with the window in sight and on top, even one that was minimised,
\* and as long as it goes on nothing hides it: no prompt without a window, so no
\* control that finds none to raise, and no minimise command is let pass.  That holds
\* unless one was let pass just before control begins (window_windows.go:207-217,
\* 541-546, 571-589).
ControlStaysInSight ==
    [][Controlled' /\ (IF Controlled THEN InSight ELSE ~ minimising) => InSight']_allWindowVars

\* The window of a controlled machine is never minimised, as the documentation has it:
\* fails for a command that wndProc let pass before control began, and DefWindowProc
\* carries out after (window_windows.go:208-216, 242, 583-584).
ControlInSight == Controlled => HasWindow /\ topmost /\ ~ minimised

\* What the writers of the window left last is what onPaint shows once they rest,
\* unless the window is minimised: no code, no status and no end of control is lost
\* between a write and a paint (window_windows.go:454-532, 569-590).  Under control the
\* status is not what it shows, so that the notice of an elevated program, which is
\* written then, is not seen (against usage.md:115-116); and a code that comes before
\* ui.Run is overwritten by Run (window_windows.go:317-327, 416-419).
WritesArePainted == []<>(minimised \/ shown = Displayed(content))

================================================================================
