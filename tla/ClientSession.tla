----------------------------- MODULE ClientSession -----------------------------
(***************************************************************************)
(* The helped person's program: Run, connect, readPump and injectLoop of   *)
(* client/relay/client.go, requestConsent of consent.go, and the prompt    *)
(* and the indicator of client/ui/window_windows.go.                       *)
(*                                                                         *)
(* A connection is named by its number.  The dialog of a prompt runs in    *)
(* the UI thread and may outlive the connect call that asked for it.       *)
(***************************************************************************)
EXTENDS Naturals, Sequences

CONSTANTS
    Input,        \* the keys and the mouse buttons
    QueueCap,     \* the capacity of inputCh
    MaxSessions   \* bound on the connections of one program

ASSUME ClientAssumption ==
    /\ QueueCap \in Nat \ {0}
    /\ MaxSessions \in Nat

VARIABLES
    session,        \* the number of the connection
    pc,             \* where Run and connect are
    quit,           \* the user ended the program: ctx is cancelled
    cancelled,      \* connCtx is
    reading,        \* readPump has not returned
    readErr,        \* readErrCh
    agentCh,        \* agentCh holds the agent's arrival
    inputCh,
    injecting,      \* injectLoop, and with it captureLoop, runs
    controlActive,
    indicator,      \* the red, topmost window
    dialogs,        \* prompts on the screen, by connection
    answer,         \* the answer channel of each prompt
    down,           \* keys and buttons injected as pressed
    consented,      \* connections whose prompt the user answered with Yes
    link,           \* the connection as the server sees it
    consentMsg,     \* the consent on its way to the server
    inbox           \* what is on its way to the program

readVars == <<reading, readErr, agentCh>>
injectVars == <<inputCh, injecting, down>>
controlVars == <<controlActive, indicator>>
promptVars == <<dialogs, answer, consented>>
netVars == <<link, consentMsg, inbox>>

clientVars == <<session, pc, quit, cancelled, readVars, injectVars, controlVars,
                promptVars, netVars>>

Event == [key : Input, isDown : BOOLEAN]

Control == {"agent_connected", "disconnect"}

ControlMsg(type) == [type |-> type, event |-> <<>>]

InputMsg(e) == [type |-> "input", event |-> e]

Message == [type : Control, event : {<<>>}] \cup [type : {"input"}, event : Event]

Sessions == 1 .. MaxSessions

ClientTypeOK ==
    /\ session \in 0 .. MaxSessions
    /\ pc \in {"backoff", "waiting", "prompting", "granted", "refused", "sent",
               "active", "starting", "running", "stopping", "stopped", "leaving",
               "over"}
    /\ {quit, cancelled, reading, readErr, agentCh, injecting, controlActive,
        indicator} \subseteq BOOLEAN
    /\ inputCh \in Seq(Event) /\ Len(inputCh) <= QueueCap
    /\ dialogs \subseteq Sessions
    /\ answer \in [Sessions -> {"none", "yes", "no"}]
    /\ down \subseteq Input
    /\ consented \subseteq Sessions
    /\ link \in {"pending", "asked", "bridge", "over"}
    /\ consentMsg \in {"none", "yes", "no"}
    /\ inbox \in Seq(Message)

ClientInit ==
    /\ session = 0
    /\ pc = "backoff"
    /\ quit = FALSE /\ cancelled = TRUE
    /\ reading = FALSE /\ readErr = FALSE /\ agentCh = FALSE
    /\ inputCh = <<>> /\ injecting = FALSE /\ down = {}
    /\ controlActive = FALSE /\ indicator = FALSE
    /\ dialogs = {} /\ answer = [n \in Sessions |-> "none"] /\ consented = {}
    /\ link = "over" /\ consentMsg = "none" /\ inbox = <<>>

GoesTo(p) == pc' = p

--------------------------------------------------------------------------------
(* Run and connect *)

\* Dial, "registered", and the start of readPump.  The back-off of a second or
\* more lets the goroutines of the connection before return.
Dials ==
    /\ pc = "backoff"
    /\ ~ quit
    /\ session < MaxSessions
    /\ ~ reading /\ ~ injecting
    /\ session' = session + 1
    /\ GoesTo("waiting")
    /\ cancelled' = FALSE
    /\ reading' = TRUE /\ readErr' = FALSE /\ agentCh' = FALSE
    /\ inputCh' = <<>>
    /\ link' = "pending" /\ consentMsg' = "none" /\ inbox' = <<>>
    /\ UNCHANGED <<quit, injecting, down, controlVars, promptVars>>

\* An agent has arrived: the user is asked.
Prompts ==
    /\ pc = "waiting"
    /\ agentCh
    /\ agentCh' = FALSE
    /\ GoesTo("prompting")
    /\ dialogs' = IF quit THEN dialogs ELSE dialogs \cup {session}
    /\ UNCHANGED <<session, quit, cancelled, reading, readErr, injectVars,
                   controlVars, answer, consented, netVars>>

StopsWaiting ==
    /\ pc = "waiting"
    /\ quit \/ readErr
    /\ GoesTo("leaving")
    /\ UNCHANGED <<session, quit, cancelled, readVars, injectVars, controlVars,
                   promptVars, netVars>>

\* Slip: one answer channel for the prompts of all connections.
AnsweredEver(n, a) == \E m \in 1 .. n : answer[m] = a

Answered(n, a) == answer[n] = a

\* requestConsent takes the answer ...
TakesYes ==
    /\ pc = "prompting"
    /\ Answered(session, "yes")
    /\ GoesTo("granted")
    /\ UNCHANGED <<session, quit, cancelled, readVars, injectVars, controlVars,
                   promptVars, netVars>>

\* Slip: requestConsent waits for the dialog and not for its context.
DialogAnswersNo(n) == Answered(n, "no")

PromptMayEnd(n) == TRUE

\* ... or gets a No, or none in time, or the program is ended.  It does not listen
\* to readErrCh.
TakesNo ==
    /\ pc = "prompting"
    /\ PromptMayEnd(session)
    /\ GoesTo("refused")
    /\ UNCHANGED <<session, quit, cancelled, readVars, injectVars, controlVars,
                   promptVars, netVars>>

\* What the server no longer wants is lost on the way.
WritesConsent(c) ==
    /\ consentMsg' = IF link = "asked" THEN c ELSE consentMsg
    /\ UNCHANGED <<link, inbox>>

WriteMayFail == quit \/ link = "over"

Refuses ==
    /\ pc = "refused"
    /\ \/ WritesConsent("no")
       \/ WriteMayFail /\ UNCHANGED netVars
    /\ GoesTo("leaving")
    /\ UNCHANGED <<session, quit, cancelled, readVars, injectVars, controlVars,
                   promptVars>>

SendsGrant ==
    /\ pc = "granted"
    /\ WritesConsent("yes")
    /\ GoesTo("sent")
    /\ UNCHANGED <<session, quit, cancelled, readVars, injectVars, controlVars,
                   promptVars>>

GrantFails ==
    /\ pc = "granted"
    /\ WriteMayFail
    /\ GoesTo("leaving")
    /\ UNCHANGED <<session, quit, cancelled, readVars, injectVars, controlVars,
                   promptVars, netVars>>

\* The server may open the bridge before this.
Activates ==
    /\ pc = "sent"
    /\ controlActive' = TRUE
    /\ GoesTo("active")
    /\ UNCHANGED <<session, quit, cancelled, readVars, injectVars, indicator,
                   promptVars, netVars>>

\* Slip: the window is raised only once.
IndicatedOnce == session = 1

IndicatedDuring == TRUE

\* OnControlActive(true).
Indicates ==
    /\ pc = "active"
    /\ indicator' = IndicatedDuring
    /\ GoesTo("starting")
    /\ UNCHANGED <<session, quit, cancelled, readVars, injectVars, controlActive,
                   promptVars, netVars>>

StartsLoops ==
    /\ pc = "starting"
    /\ injecting' = TRUE
    /\ GoesTo("running")
    /\ UNCHANGED <<session, quit, cancelled, readVars, inputCh, down, controlVars,
                   promptVars, netVars>>

\* The context, the reader, or a frame that cannot be written.
Stops ==
    /\ pc = "running"
    /\ quit \/ readErr \/ link = "over"
    /\ cancelled' = TRUE
    /\ GoesTo("stopping")
    /\ UNCHANGED <<session, quit, readVars, injectVars, controlVars, promptVars,
                   netVars>>

Deactivates ==
    /\ pc = "stopping"
    /\ controlActive' = FALSE
    /\ GoesTo("stopped")
    /\ UNCHANGED <<session, quit, cancelled, readVars, injectVars, indicator,
                   promptVars, netVars>>

\* Slip: the window is left as it is.
IndicatedStill == indicator

IndicatedAfter == FALSE

StopsIndicating ==
    /\ pc = "stopped"
    /\ indicator' = IndicatedAfter
    /\ GoesTo("leaving")
    /\ UNCHANGED <<session, quit, cancelled, readVars, injectVars, controlActive,
                   promptVars, netVars>>

\* The deferred connCancel and CloseNow; Run backs off, or returns.
Leaves ==
    /\ pc = "leaving"
    /\ cancelled' = TRUE
    /\ link' = "over" /\ inbox' = <<>>
    /\ GoesTo(IF quit THEN "over" ELSE "backoff")
    /\ UNCHANGED <<session, quit, readVars, injectVars, controlVars, promptVars,
                   consentMsg>>

\* ctx is done during the back-off.
GivesUp ==
    /\ pc = "backoff"
    /\ quit
    /\ GoesTo("over")
    /\ UNCHANGED <<session, quit, cancelled, readVars, injectVars, controlVars,
                   promptVars, netVars>>

--------------------------------------------------------------------------------
(* readPump *)

NextMsg(type) == reading /\ inbox # <<>> /\ Head(inbox).type = type

TakesMsg == inbox' = Tail(inbox) /\ UNCHANGED <<link, consentMsg>>

ReadsAgentConnected ==
    /\ NextMsg("agent_connected")
    /\ TakesMsg
    /\ agentCh' = TRUE
    /\ UNCHANGED <<session, pc, quit, cancelled, reading, readErr, injectVars,
                   controlVars, promptVars>>

Room == Len(inputCh) < QueueCap

\* An event is dropped unless control is active and the queue has room.
Accepted == controlActive /\ Room

ReadsInput ==
    /\ NextMsg("input")
    /\ TakesMsg
    /\ inputCh' = IF Accepted THEN Append(inputCh, Head(inbox).event) ELSE inputCh
    /\ UNCHANGED <<session, pc, quit, cancelled, readVars, injecting, down,
                   controlVars, promptVars>>

ReadsDisconnect ==
    /\ NextMsg("disconnect")
    /\ TakesMsg
    /\ readErr' = TRUE /\ reading' = FALSE
    /\ UNCHANGED <<session, pc, quit, cancelled, agentCh, injectVars, controlVars,
                   promptVars>>

ReadFails ==
    /\ reading
    /\ cancelled \/ quit \/ (link = "over" /\ inbox = <<>>)
    /\ readErr' = TRUE /\ reading' = FALSE
    /\ UNCHANGED <<session, pc, quit, cancelled, agentCh, injectVars, controlVars,
                   promptVars, netVars>>

--------------------------------------------------------------------------------
(* injectLoop; its select may prefer a queued event to the cancelled context *)

Pressing(keys, e) == IF e.isDown THEN keys \cup {e.key} ELSE keys \ {e.key}

Injects ==
    /\ injecting
    /\ inputCh # <<>>
    /\ down' = Pressing(down, Head(inputCh))
    /\ inputCh' = Tail(inputCh)
    /\ UNCHANGED <<session, pc, quit, cancelled, readVars, injecting, controlVars,
                   promptVars, netVars>>

InjectorStops ==
    /\ injecting
    /\ cancelled
    /\ injecting' = FALSE
    /\ UNCHANGED <<session, pc, quit, cancelled, readVars, inputCh, down,
                   controlVars, promptVars, netVars>>

--------------------------------------------------------------------------------
(* The user *)

\* The prompt's context is done once requestConsent has returned.
PromptLives(n) == session = n /\ pc = "prompting" /\ ~ quit

\* RequestConsent returns Yes only for a prompt that is still wanted.
AnswersYes(n) ==
    /\ n \in dialogs
    /\ dialogs' = dialogs \ {n}
    /\ consented' = consented \cup {n}
    /\ answer' = [answer EXCEPT ![n] = IF PromptLives(n) THEN "yes" ELSE "no"]
    /\ UNCHANGED <<session, pc, quit, cancelled, readVars, injectVars,
                   controlVars, netVars>>

\* No, the dialog is closed, or its 30 s are over.
AnswersNo(n) ==
    /\ n \in dialogs
    /\ dialogs' = dialogs \ {n}
    /\ answer' = [answer EXCEPT ![n] = "no"]
    /\ UNCHANGED <<session, pc, quit, cancelled, readVars, injectVars,
                   controlVars, consented, netVars>>

\* End Session, or the window is closed.
Quits ==
    /\ ~ quit
    /\ quit' = TRUE
    /\ UNCHANGED <<session, pc, cancelled, readVars, injectVars, controlVars,
                   promptVars, netVars>>

ConnectStep ==
    \/ Prompts \/ StopsWaiting \/ TakesYes \/ TakesNo \/ Refuses
    \/ SendsGrant \/ GrantFails \/ Activates \/ Indicates \/ StartsLoops
    \/ Stops \/ Deactivates \/ StopsIndicating \/ Leaves \/ GivesUp

ReadStep == ReadsAgentConnected \/ ReadsInput \/ ReadsDisconnect \/ ReadFails

InjectStep == Injects \/ InjectorStops

UserStep == Quits \/ \E n \in Sessions : AnswersYes(n) \/ AnswersNo(n)

================================================================================
