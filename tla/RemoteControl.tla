----------------------------- MODULE RemoteControl -----------------------------
(***************************************************************************)
(* Remote control from end to end: ControlPage, ClientSession, and as much *)
(* of the server as they can tell apart (RelayServer and RelayBridge have  *)
(* the rest): it tells the client of the agent, opens the bridge on its    *)
(* consent, keeps messages in order, and ends the session.                 *)
(***************************************************************************)
EXTENDS ClientSession, ControlPage

CONSTANTS
    MaxWire,   \* bound on the messages under way to the client
    MaxActs    \* bound on what the agents press, release and leave

ASSUME RemoteAssumption ==
    /\ Key \cup Button \subseteq Input
    /\ {MaxWire, MaxActs} \subseteq Nat

VARIABLES
    acts,
    leftover   \* what an earlier session left down when this page was opened

vars == <<clientVars, pageVars, acts, leftover>>

TypeOK ==
    /\ ClientTypeOK /\ PageTypeOK
    /\ acts \in 0 .. MaxActs /\ leftover \subseteq Input

Init == ClientInit /\ PageInit /\ acts = 0 /\ leftover = {}

Client(A) == A /\ UNCHANGED <<pageVars, acts, leftover>>

--------------------------------------------------------------------------------
(* The server *)

\* An agent joins with the code; the client is told.
AgentJoins ==
    /\ link = "pending"
    /\ link' = "asked"
    /\ inbox' = Append(inbox, ControlMsg("agent_connected"))
    /\ NewPage("open")
    /\ leftover' = down
    /\ UNCHANGED <<session, pc, quit, cancelled, readVars, injectVars,
                   controlVars, promptVars, consentMsg, acts>>

OpensBridge ==
    /\ link = "asked"
    /\ consentMsg = "yes"
    /\ link' = "bridge"
    /\ UNCHANGED <<session, pc, quit, cancelled, readVars, injectVars,
                   controlVars, promptVars, consentMsg, inbox, pageVars,
                   acts, leftover>>

PageEnabled ==
    /\ link = "bridge"
    /\ Enabled
    /\ UNCHANGED <<clientVars, acts, leftover>>

\* Consent was refused or is late, the page is gone, the code has expired, or a
\* connection is lost, and with it what was under way.
ServerEnds ==
    /\ link # "over"
    /\ link' = "over"
    /\ inbox' \in {inbox, <<>>}
                  \cup (IF link = "asked" THEN {Append(inbox, ControlMsg("disconnect"))}
                        ELSE {})
    /\ NewPage("closed")
    /\ UNCHANGED <<session, pc, quit, cancelled, readVars, injectVars,
                   controlVars, promptVars, consentMsg, acts, leftover>>

\* The program has left: the bridge ends, and with it the page.
PageEnds ==
    /\ link = "over"
    /\ PageCloses
    /\ UNCHANGED <<clientVars, acts, leftover>>

--------------------------------------------------------------------------------
(* The page *)

AsInput(events) == [i \in DOMAIN events |-> InputMsg(events[i])]

\* A page whose bridge is gone writes to nobody.
Sends(events) ==
    /\ Len(inbox) + Len(events) <= MaxWire
    /\ inbox' = IF link = "bridge"
                THEN inbox \o AsInput(events)
                ELSE inbox
    /\ UNCHANGED <<session, pc, quit, cancelled, readVars, injectVars,
                   controlVars, promptVars, link, consentMsg>>

Focus == page = "open" /\ Focuses /\ UNCHANGED <<clientVars, acts, leftover>>

AgentActs ==
    /\ page = "open"
    /\ acts < MaxActs
    /\ acts' = acts + 1
    /\ UNCHANGED leftover
    /\ \/ \E k \in Key :
            \/ KeyDown(k) /\ Sends(KeyEvents(k, Down(k)))
            \/ KeyUp(k) /\ Sends(KeyEvents(k, Up(k)))
       \/ \E b \in Button :
            \/ ButtonDown(b) /\ Sends(Sent(<<Down(b)>>))
            \/ ButtonUp(b) /\ Sends(Sent(<<Up(b)>>))
            \/ ButtonUp(b) /\ Sends(<<>>)
       \/ Blurs /\ Sends(Sent(Releases))

--------------------------------------------------------------------------------

Next ==
    \/ Client(Dials) \/ Client(ConnectStep) \/ Client(ReadStep)
    \/ Client(InjectStep) \/ Client(UserStep)
    \/ AgentJoins \/ OpensBridge \/ PageEnabled \/ ServerEnds \/ PageEnds
    \/ Focus \/ AgentActs

Spec == Init /\ [][Next]_vars

\* The program's goroutines go on; a prompt times out; nobody else owes anything.
FairSpec ==
    /\ Spec
    /\ WF_vars(Client(ConnectStep))
    /\ WF_vars(Client(ReadStep))
    /\ WF_vars(Client(InjectorStops))

--------------------------------------------------------------------------------

\* The machine obeys an agent only in a connection whose own prompt the user
\* answered with Yes (client.go:61-63, consent.go:9-12): a late Yes to the prompt
\* of an earlier one, a timeout or a lost connection is none.
ControlIsConsented ==
    controlActive \/ indicator \/ injecting \/ inputCh # <<>>
        => session \in consented

\* Nothing is injected behind the user's back: the indicator is on, or the
\* session is just being ended (security.md:11-12).
InjectedInSight ==
    [][down' # down => indicator \/ cancelled]_vars

Links ==
    INSTANCE SessionLinks WITH
        Connection <- Sessions,
        link <- [n \in Sessions |-> IF n > session THEN "none"
                                    ELSE IF n = session THEN link ELSE "over"],
        granted <- {n \in Sessions : answer[n] = "yes"}

\* The server as it is here does nothing that RelayServer does not promise: the
\* bridge is opened by a Yes to the prompt of its own connection, and a connection
\* is over before the next one is made (client.go:84-130, main.go:284-315).
IsLinks == Links!LinksSpec

About(k, m) == m.type = "input" /\ m.event.key = k

\* The keys and buttons that are down when the messages have been injected: those for
\* which the last message about them says so, or that were down and none is about.
DownAfter(messages, keys) ==
    {k \in Input :
        LET about == {i \in DOMAIN messages : About(k, messages[i])}
        IN  \/ about = {} /\ k \in keys
            \/ \E i \in about :
                  (\A j \in about : j <= i) /\ messages[i].event.isDown}

\* What will be down when all that is under way has been injected.
Outcome == DownAfter(AsInput(inputCh) \o inbox, down)

Stuck == Outcome \ pressed

\* An event finds the queue full; a button is let go beside the canvas, or a key
\* is taken for part of a shortcut of the browser.
Losses ==
    \/ NextMsg("input") /\ ~ Room /\ ReadsInput
    \/ \E b \in Button : ButtonUp(b) /\ Sends(<<>>)
    \/ \E k \in Key : PassesThrough(k) /\ KeyUp(k)

\* While control is enabled nothing gets stuck on the machine but by one of these
\* losses: not when the canvas loses the focus, nor by what is dropped before
\* the program has activated control (control.js:182-206, client.go:249-255).
RemoteFollowsPage ==
    [][enabled /\ ~ cancelled /\ link = "bridge" /\ link' = "bridge" /\ ~ Losses
          => Stuck' \subseteq Stuck \cup leftover]_vars

Safe == ~ controlActive /\ ~ indicator

\* Once the server has ended a session the program takes note, whatever it is
\* about: connect returns, and the indicator is off (client.go:166-221).
EndIsNoticed == link = "over" ~> pc \in {"backoff", "over"} /\ Safe

\* Ending the program ends everything, even if a prompt is up or a session runs.
QuitEndsAll == quit ~> pc = "over" /\ Safe /\ link = "over"

================================================================================
