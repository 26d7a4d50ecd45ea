-------------------------- MODULE RemoteControlProofs --------------------------
(***************************************************************************)
(* That control is consented and in sight, that the program and its server *)
(* keep to SessionLinks, and that the machine follows the page, for any    *)
(* number of sessions and messages, any capacity of the queue and any      *)
(* finite keyboard.                                                        *)
(***************************************************************************)
EXTENDS RemoteControl, SequenceTheorems, FiniteSetTheorems, TLAPS

--------------------------------------------------------------------------------
(* The inductive invariant *)

Controlling == {"starting", "running", "stopping", "stopped"}

Granted == {"granted", "sent", "active"} \cup Controlling

\* Connections and prompts have numbers up to that of the connection.
Numbered ==
    /\ session \in 0 .. MaxSessions
    /\ pc \notin {"backoff", "over"} => session >= 1
    /\ answer \in [Sessions -> {"none", "yes", "no"}]
    /\ dialogs \subseteq 1 .. session

\* A prompt has no answer before its dialog is closed, and one after it.
Unanswered ==
    /\ \A n \in Sessions : n \in dialogs \/ n > session => answer[n] = "none"
    /\ pc = "waiting" => session \notin dialogs /\ answer[session] = "none"

\* A Yes is the user's, and connect goes on only with one.
Consented ==
    /\ \A n \in Sessions : answer[n] = "yes" => n \in consented
    /\ pc \in Granted => answer[session] = "yes"

\* Control, the indicator and the loops are on in this order.
InOrder ==
    /\ controlActive => pc \in {"active", "starting", "running", "stopping"}
    /\ indicator <=> pc \in Controlling
    /\ injecting => cancelled \/ pc = "running"
    /\ injecting \/ inputCh # <<>> => session \in consented

\* What the program has heard from the server, and the server from the program.
Heard ==
    /\ link \in {"pending", "asked", "bridge", "over"}
    /\ pc \in {"backoff", "over"} => link = "over"
    /\ link = "pending" => inbox = <<>> /\ ~ agentCh /\ pc # "prompting"
    /\ link = "bridge" => consentMsg = "yes"
    /\ consentMsg = "yes" =>
          /\ pc \notin {"waiting", "prompting", "granted", "refused"}
          /\ session >= 1 /\ answer[session] = "yes"

Inv == Numbered /\ Unanswered /\ Consented /\ InOrder /\ Heard

LEMMA InvInit == Init => Inv
BY ClientAssumption
DEF Init, ClientInit, Inv, Numbered, Unanswered, Consented, InOrder, Heard, Sessions,
    Granted, Controlling

\* The number of the connection in which something goes on is that of one.
LEMMA SessionIsOne ==
    ASSUME Inv, session >= 1
    PROVE  session \in Sessions
BY ClientAssumption DEF Inv, Numbered, Sessions

LEMMA DialsKeeps == Inv /\ Dials => Inv'
<1> SUFFICES ASSUME Inv, Dials PROVE Inv'
    OBVIOUS
<1> USE ClientAssumption DEF Inv, Sessions
<1>1. Numbered'
    BY DEF Dials, Numbered, GoesTo, promptVars
<1>2. Unanswered'
    BY DEF Dials, Numbered, Unanswered, GoesTo, promptVars
<1>3. Consented'
    BY DEF Dials, Consented, GoesTo, promptVars, Granted, Controlling
<1>4. InOrder'
    BY DEF Dials, InOrder, GoesTo, controlVars, Controlling
<1>5. Heard'
    BY DEF Dials, Heard, GoesTo
<1> QED BY <1>1, <1>2, <1>3, <1>4, <1>5

LEMMA ConnectKeeps == Inv /\ ConnectStep => Inv'
<1> SUFFICES ASSUME Inv, ConnectStep PROVE Inv'
    OBVIOUS
<1> USE ClientAssumption
    DEF Inv, Sessions, Numbered, Unanswered, Consented, InOrder, Heard, Granted,
        Controlling, GoesTo, readVars, injectVars, controlVars, promptVars, netVars
<1>1. CASE Prompts
    BY <1>1 DEF Prompts
<1>2. CASE StopsWaiting
    BY <1>2 DEF StopsWaiting
<1>3. CASE TakesYes
    BY <1>3 DEF TakesYes, Answered
<1>4. CASE TakesNo
    BY <1>4 DEF TakesNo
<1>5. CASE Refuses
    BY <1>5 DEF Refuses, WritesConsent
<1>6. CASE SendsGrant
    BY <1>6 DEF SendsGrant, WritesConsent
<1>7. CASE GrantFails
    BY <1>7 DEF GrantFails
<1>8. CASE Activates
    BY <1>8 DEF Activates
<1>9. CASE Indicates
    BY <1>9 DEF Indicates, IndicatedDuring
<1>10. CASE StartsLoops
    BY <1>10 DEF StartsLoops
<1>11. CASE Stops
    BY <1>11 DEF Stops
<1>12. CASE Deactivates
    BY <1>12 DEF Deactivates
<1>13. CASE StopsIndicating
    BY <1>13 DEF StopsIndicating, IndicatedAfter
<1>14. CASE Leaves
    BY <1>14 DEF Leaves
<1>15. CASE GivesUp
    BY <1>15 DEF GivesUp
<1> QED
    BY <1>1, <1>2, <1>3, <1>4, <1>5, <1>6, <1>7, <1>8, <1>9, <1>10, <1>11, <1>12, <1>13,
       <1>14, <1>15 DEF ConnectStep

LEMMA LoopsKeep == Inv /\ (ReadStep \/ InjectStep) => Inv'
<1> SUFFICES ASSUME Inv, ReadStep \/ InjectStep PROVE Inv'
    OBVIOUS
<1> USE DEF Inv, Numbered, Unanswered, Consented, InOrder, Heard, NextMsg, TakesMsg,
            readVars, injectVars, controlVars, promptVars, netVars
<1>1. CASE ReadsAgentConnected
    BY <1>1 DEF ReadsAgentConnected
<1>2. CASE ReadsInput
    <2>1. inputCh' # <<>> => inputCh # <<>> \/ controlActive
        BY <1>2 DEF ReadsInput, Accepted
    <2>2. controlActive => session \in consented
        BY SessionIsOne DEF Granted, Controlling
    <2> QED BY <1>2, <2>1, <2>2 DEF ReadsInput
<1>3. CASE ReadsDisconnect
    BY <1>3 DEF ReadsDisconnect
<1>4. CASE ReadFails
    BY <1>4 DEF ReadFails
<1>5. CASE Injects
    BY <1>5 DEF Injects
<1>6. CASE InjectorStops
    BY <1>6 DEF InjectorStops
<1> QED BY <1>1, <1>2, <1>3, <1>4, <1>5, <1>6 DEF ReadStep, InjectStep

\* The answer to one prompt is none to another.
LEMMA UserKeeps == Inv /\ UserStep => Inv'
<1> SUFFICES ASSUME Inv, UserStep PROVE Inv'
    OBVIOUS
<1> USE ClientAssumption
    DEF Inv, Sessions, Numbered, Unanswered, Consented, InOrder, Heard, readVars,
        injectVars, controlVars, promptVars, netVars
<1>1. CASE Quits
    BY <1>1 DEF Quits
<1>2. ASSUME NEW n \in Sessions, AnswersYes(n) PROVE Inv'
    <2>1. answer[n] = "none" /\ n \in 1 .. session
        BY <1>2 DEF AnswersYes
    <2>2. answer' \in [Sessions -> {"none", "yes", "no"}]
        BY <1>2 DEF AnswersYes
    <2>3. \A m \in Sessions : m # n => answer'[m] = answer[m]
        BY <1>2 DEF AnswersYes
    <2> QED BY <1>2, <2>1, <2>2, <2>3 DEF AnswersYes, Granted, Controlling
<1>3. ASSUME NEW n \in Sessions, AnswersNo(n) PROVE Inv'
    <2>1. answer[n] = "none" /\ n \in 1 .. session
        BY <1>3 DEF AnswersNo
    <2>2. answer' \in [Sessions -> {"none", "yes", "no"}] /\ answer'[n] = "no"
        BY <1>3 DEF AnswersNo
    <2>3. \A m \in Sessions : m # n => answer'[m] = answer[m]
        BY <1>3 DEF AnswersNo
    <2> QED BY <1>3, <2>1, <2>2, <2>3 DEF AnswersNo, Granted, Controlling
<1> QED BY <1>1, <1>2, <1>3 DEF UserStep

\* What the agent does goes into an open bridge only.
LEMMA PageActs ==
    ASSUME AgentActs
    PROVE  /\ link # "bridge" => inbox' = inbox
           /\ UNCHANGED <<session, pc, quit, cancelled, readVars, injectVars,
                          controlVars, promptVars, link, consentMsg>>
<1>1. ASSUME NEW events, Sends(events)
      PROVE  /\ link # "bridge" => inbox' = inbox
             /\ UNCHANGED <<session, pc, quit, cancelled, readVars, injectVars,
                            controlVars, promptVars, link, consentMsg>>
    BY <1>1 DEF Sends
<1> QED BY <1>1 DEF AgentActs

LEMMA ServerKeeps ==
    Inv /\ (AgentJoins \/ OpensBridge \/ ServerEnds \/ AgentActs) => Inv'
<1> SUFFICES ASSUME Inv, AgentJoins \/ OpensBridge \/ ServerEnds \/ AgentActs
             PROVE  Inv'
    OBVIOUS
<1> USE DEF Inv, Numbered, Unanswered, Consented, InOrder, Heard, readVars, injectVars,
            controlVars, promptVars
<1>1. CASE AgentJoins
    BY <1>1 DEF AgentJoins
<1>2. CASE OpensBridge
    BY <1>2 DEF OpensBridge
<1>3. CASE ServerEnds
    BY <1>3 DEF ServerEnds
<1>4. CASE AgentActs
    <2>1. /\ link # "bridge" => inbox' = inbox
          /\ UNCHANGED <<session, pc, quit, cancelled, readVars, injectVars,
                         controlVars, promptVars, link, consentMsg>>
        BY <1>4, PageActs
    <2>2. Numbered' /\ Unanswered' /\ Consented'
        BY <2>1
    <2>3. InOrder'
        BY <2>1
    <2>4. Heard'
        BY <2>1
    <2> QED BY <2>2, <2>3, <2>4
<1> QED BY <1>1, <1>2, <1>3, <1>4

LEMMA InvStep == Inv /\ [Next]_vars => Inv'
<1> SUFFICES ASSUME Inv, [Next]_vars PROVE Inv'
    OBVIOUS
<1>1. CASE UNCHANGED clientVars
    BY <1>1 DEF Inv, Numbered, Unanswered, Consented, InOrder, Heard, clientVars,
                readVars, injectVars, controlVars, promptVars, netVars
<1>2. PageEnabled \/ PageEnds \/ Focus \/ UNCHANGED vars => UNCHANGED clientVars
    BY DEF PageEnabled, PageEnds, Focus, vars
<1> QED
    BY <1>1, <1>2, DialsKeeps, ConnectKeeps, LoopsKeep, UserKeeps, ServerKeeps
    DEF Next, Client

LEMMA InvHolds == Spec => []Inv
BY InvInit, InvStep, PTL DEF Spec

--------------------------------------------------------------------------------

\* The machine obeys nobody but in a connection whose own prompt the user answered
\* with Yes: not after a late Yes to an earlier one, a timeout or a lost connection
\* (client.go:61-63, consent.go:9-12).
THEOREM ControlNeedsConsent == Spec => []ControlIsConsented
<1>1. ASSUME Inv PROVE ControlIsConsented
    <2>1. controlActive \/ indicator => pc \in Granted /\ session >= 1
        BY <1>1 DEF Inv, InOrder, Numbered, Granted, Controlling
    <2>2. controlActive \/ indicator => session \in consented
        BY <1>1, <2>1, SessionIsOne DEF Inv, Consented
    <2> QED BY <1>1, <2>2 DEF Inv, InOrder, ControlIsConsented
<1> QED BY <1>1, InvHolds, PTL

\* Keys and buttons move only while the indicator is on, or the session is just being
\* ended (security.md:11-12).
THEOREM InjectionIsInSight == Spec => InjectedInSight
<1>1. ASSUME Inv, [Next]_vars PROVE [down' # down => indicator \/ cancelled]_vars
    <2> SUFFICES ASSUME down' # down PROVE indicator \/ cancelled
        OBVIOUS
    <2>1. Injects
        BY <1>1, PageActs
        DEF Next, Client, Dials, ConnectStep, Prompts, StopsWaiting, TakesYes, TakesNo,
            Refuses, SendsGrant, GrantFails, Activates, Indicates, StartsLoops, Stops,
            Deactivates, StopsIndicating, Leaves, GivesUp, ReadStep, InjectStep,
            UserStep, ReadsAgentConnected, ReadsInput, ReadsDisconnect, ReadFails,
            InjectorStops, Quits, AnswersYes, AnswersNo, AgentJoins, OpensBridge,
            PageEnabled, ServerEnds, PageEnds, Focus, vars, clientVars, injectVars
    <2> QED BY <1>1, <2>1 DEF Injects, Inv, InOrder, Controlling
<1> QED BY <1>1, InvHolds, PTL DEF Spec, InjectedInSight

--------------------------------------------------------------------------------
(* The promise of a session *)

LinkMap == [n \in Sessions |-> IF n > session THEN "none"
                               ELSE IF n = session THEN link ELSE "over"]

Granting == {n \in Sessions : answer[n] = "yes"}

LinkSame == LinkMap' = LinkMap /\ Granting' = Granting

\* The connection is the only one that moves, and nobody answers as it does.
LEMMA OneMoves ==
    ASSUME Inv, session >= 1, UNCHANGED <<session, answer>>
    PROVE  /\ session \in Sessions
           /\ LinkMap[session] = link
           /\ LinkMap' = [LinkMap EXCEPT ![session] = link']
           /\ Granting' = Granting
<1>1. session \in Sessions /\ Sessions \subseteq Int
    BY SessionIsOne DEF Sessions
<1>2. LinkMap[session] = link
    BY <1>1 DEF LinkMap
<1>3. \A m \in Sessions : LinkMap'[m] = IF m = session THEN link' ELSE LinkMap[m]
    BY <1>1 DEF LinkMap
<1>4. LinkMap' = [LinkMap EXCEPT ![session] = link']
    BY <1>1, <1>3 DEF LinkMap
<1> QED BY <1>1, <1>2, <1>4 DEF Granting

LEMMA LinkedIsOne == ASSUME Inv, link # "over" PROVE session >= 1
BY DEF Inv, Numbered, Heard

LEMMA DialsRegisters ==
    ASSUME Inv, Dials
    PROVE  \E c \in Sessions : Links!Registers(c)
<1> DEFINE c == session + 1
<1>1. c \in Sessions /\ link = "over" /\ session' = c /\ link' = "pending"
      /\ answer' = answer
    BY ClientAssumption DEF Inv, Numbered, Heard, Dials, Sessions, promptVars
<1>2. LinkMap[c] = "none" /\ LinkMap' = [LinkMap EXCEPT ![c] = "pending"]
    <2>1. session \in Int /\ Sessions \subseteq Int
        BY DEF Inv, Numbered, Sessions
    <2>2. LinkMap[c] = "none"
        BY <1>1, <2>1 DEF LinkMap
    <2>3. \A m \in Sessions : LinkMap'[m] = IF m = c THEN "pending" ELSE LinkMap[m]
        BY <1>1, <2>1 DEF LinkMap
    <2> QED BY <1>1, <2>2, <2>3 DEF LinkMap
<1>3. Granting' = Granting
    BY <1>1 DEF Granting
<1> QED BY <1>1, <1>2, <1>3 DEF LinkMap, Granting, Links!Registers, Links!GoesOn

LEMMA JoinAsks ==
    ASSUME Inv, AgentJoins
    PROVE  \E c \in Sessions : Links!Asks(c)
<1>1. link = "pending" /\ link' = "asked" /\ UNCHANGED <<session, answer>>
    BY DEF AgentJoins, promptVars
<1> QED BY <1>1, OneMoves, LinkedIsOne DEF LinkMap, Granting, Links!Asks, Links!GoesOn

LEMMA ConsentOpens ==
    ASSUME Inv, OpensBridge
    PROVE  \E c \in Sessions : Links!Opens(c)
<1>1. link = "asked" /\ link' = "bridge" /\ UNCHANGED <<session, answer>>
    BY DEF OpensBridge, promptVars
<1>2. session \in Granting
    BY <1>1, LinkedIsOne, SessionIsOne DEF OpensBridge, Inv, Heard, Granting
<1> QED BY <1>1, <1>2, OneMoves, LinkedIsOne
        DEF LinkMap, Granting, Links!Opens, Links!GoesOn

LEMMA EndsOrNot ==
    ASSUME Inv, link' = "over", UNCHANGED <<session, answer>>
    PROVE  LinkSame \/ \E c \in Sessions : Links!Ends(c)
<1>1. CASE link = "over"
    BY <1>1 DEF LinkSame, LinkMap, Granting
<1>2. CASE link # "over"
    <2>1. link \in Links!States \ {"over"}
        BY <1>2 DEF Inv, Heard, Links!States
    <2> QED BY <1>2, <2>1, OneMoves, LinkedIsOne
            DEF LinkMap, Granting, Links!Ends, Links!GoesOn
<1> QED BY <1>1, <1>2

LEMMA AnswerGrantsOrNot ==
    ASSUME Inv, NEW n \in Sessions, AnswersYes(n) \/ AnswersNo(n)
    PROVE  LinkSame \/ Links!Grants(n)
<1>1. answer[n] = "none" /\ LinkMap' = LinkMap
    BY DEF AnswersYes, AnswersNo, Inv, Unanswered, netVars, LinkMap
<1>2. CASE AnswersYes(n) /\ PromptLives(n)
    <2>1. session = n /\ link \in {"asked", "over"}
        BY <1>2 DEF PromptLives, Inv, Heard
    <2>2. LinkMap[n] = link
        BY <2>1, ClientAssumption DEF LinkMap, Sessions
    <2>3. Granting' = Granting \cup {n}
        BY <1>2 DEF AnswersYes, Granting, Inv, Numbered, Sessions
    <2> QED BY <1>1, <2>1, <2>2, <2>3 DEF LinkMap, Granting, Links!Grants
<1>3. CASE AnswersNo(n) \/ ~ PromptLives(n)
    <2>1. answer' = [answer EXCEPT ![n] = "no"]
        BY <1>3 DEF AnswersYes, AnswersNo
    <2>2. Granting' = Granting
        BY <1>1, <2>1 DEF Granting, Inv, Numbered, Sessions
    <2> QED BY <1>1, <2>2 DEF LinkSame
<1> QED BY <1>2, <1>3

LEMMA LinksStep ==
    ASSUME Inv, [Next]_vars
    PROVE  LinkSame \/ Links!LinksNext
<1>1. UNCHANGED <<session, link, answer>> => LinkSame
    BY DEF LinkSame, LinkMap, Granting
<1>2. CASE Dials \/ AgentJoins \/ OpensBridge
    BY <1>2, DialsRegisters, JoinAsks, ConsentOpens DEF Links!LinksNext
<1>3. CASE Leaves \/ ServerEnds
    BY <1>3, EndsOrNot DEF Leaves, ServerEnds, promptVars, Links!LinksNext
<1>4. ASSUME NEW n \in Sessions, AnswersYes(n) \/ AnswersNo(n)
      PROVE  LinkSame \/ Links!LinksNext
    BY <1>4, AnswerGrantsOrNot DEF Links!LinksNext
<1>5. CASE ConnectStep /\ ~ Leaves
    BY <1>1, <1>5
    DEF ConnectStep, Prompts, StopsWaiting, TakesYes, TakesNo, Refuses, SendsGrant,
        GrantFails, Activates, Indicates, StartsLoops, Stops, Deactivates,
        StopsIndicating, GivesUp, WritesConsent, promptVars, netVars
<1>6. CASE ReadStep \/ InjectStep \/ Quits
    BY <1>1, <1>6
    DEF ReadStep, InjectStep, Quits, ReadsAgentConnected, ReadsInput, ReadsDisconnect,
        ReadFails, Injects, InjectorStops, TakesMsg, promptVars, netVars
<1>7. CASE AgentActs
    BY <1>1, <1>7, PageActs DEF promptVars
<1>8. CASE PageEnabled \/ PageEnds \/ Focus \/ UNCHANGED vars
    BY <1>1, <1>8
    DEF PageEnabled, PageEnds, Focus, vars, clientVars, promptVars, netVars
<1> QED
    BY <1>2, <1>3, <1>4, <1>5, <1>6, <1>7, <1>8 DEF Next, Client, UserStep

LEMMA LinksStart == Init => Links!LinksInit
BY ClientAssumption DEF Init, ClientInit, Sessions, Links!LinksInit

\* The program and the server as it sees it keep the promise that RelayServer keeps
\* for all clients: a bridge is opened by a Yes to the prompt of its own connection
\* (client.go:84-130, main.go:284-315).
THEOREM ControlKeepsLinks == Spec => IsLinks
<1>1. Inv /\ [Next]_vars => [Links!LinksNext]_(Links!linkVars)
    BY LinksStep DEF LinkSame, LinkMap, Granting, Links!linkVars
<1> QED BY <1>1, LinksStart, InvHolds, PTL DEF Spec, IsLinks, Links!LinksSpec

--------------------------------------------------------------------------------
(* What is under way to the machine *)

LEMMA Appended ==
    ASSUME NEW S, NEW s \in Seq(S), NEW t \in Seq(S)
    PROVE  /\ s \o t \in Seq(S) /\ DOMAIN (s \o t) = 1 .. Len(s) + Len(t)
           /\ Len(s \o t) = Len(s) + Len(t)
           /\ DOMAIN s = 1 .. Len(s) /\ DOMAIN t = 1 .. Len(t)
           /\ Len(s) \in Nat /\ Len(t) \in Nat
           /\ \A i \in 1 .. Len(s) : (s \o t)[i] = s[i]
           /\ \A i \in 1 .. Len(t) : (s \o t)[Len(s) + i] = t[i]
OBVIOUS

LEMMA HeadFirst ==
    ASSUME NEW S, NEW s \in Seq(S), s # <<>>
    PROVE  /\ Head(s) \in S /\ <<Head(s)>> \in Seq(S) /\ Tail(s) \in Seq(S)
           /\ s = <<Head(s)>> \o Tail(s)
<1> DEFINE t == <<Head(s)>> \o Tail(s)
<1>1. Head(s) \in S /\ <<Head(s)>> \in Seq(S) /\ Tail(s) \in Seq(S)
    OBVIOUS
<1>2. /\ t \in Seq(S) /\ Len(t) = Len(s)
      /\ \A i \in 1 .. Len(s) : t[i] = s[i]
    OBVIOUS
<1> HIDE DEF t
<1>3. t = s
    BY <1>2, SeqEqual
<1> QED BY <1>1, <1>3 DEF t

LastAbout(k, messages, i) ==
    /\ i \in DOMAIN messages
    /\ About(k, messages[i])
    /\ \A j \in DOMAIN messages : About(k, messages[j]) => j <= i

NoneAbout(k, messages) == \A i \in DOMAIN messages : ~ About(k, messages[i])

LEMMA DownParts ==
    ASSUME NEW messages, NEW keys, NEW k \in Input
    PROVE  k \in DownAfter(messages, keys)
             <=> \/ NoneAbout(k, messages) /\ k \in keys
                 \/ \E i \in DOMAIN messages :
                       LastAbout(k, messages, i) /\ messages[i].event.isDown
<1> DEFINE about == {i \in DOMAIN messages : About(k, messages[i])}
<1>1. k \in DownAfter(messages, keys)
        <=> \/ about = {} /\ k \in keys
            \/ \E i \in about : (\A j \in about : j <= i) /\ messages[i].event.isDown
    BY DEF DownAfter
<1>2. about = {} <=> NoneAbout(k, messages)
    BY DEF NoneAbout
<1>3. \A i : i \in about /\ (\A j \in about : j <= i)
              <=> i \in DOMAIN messages /\ LastAbout(k, messages, i)
    BY DEF LastAbout
<1> HIDE DEF about
<1> QED BY <1>1, <1>2, <1>3

LEMMA DownAfterType ==
    ASSUME NEW messages, NEW keys
    PROVE  DownAfter(messages, keys) \subseteq Input
BY DEF DownAfter

\* Messages are injected one after the other.
LEMMA DownInTurn ==
    ASSUME NEW s \in Seq(Message), NEW t \in Seq(Message), NEW keys
    PROVE  DownAfter(s \o t, keys) = DownAfter(t, DownAfter(s, keys))
<1> DEFINE u == s \o t
           first == DownAfter(s, keys)
<1>1. /\ DOMAIN u = 1 .. Len(s) + Len(t)
      /\ DOMAIN s = 1 .. Len(s) /\ DOMAIN t = 1 .. Len(t)
      /\ Len(s) \in Nat /\ Len(t) \in Nat
      /\ \A i \in 1 .. Len(s) : u[i] = s[i]
      /\ \A i \in 1 .. Len(t) : u[Len(s) + i] = t[i]
    BY Appended
<1>0. DownAfter(u, keys) \subseteq Input /\ DownAfter(t, first) \subseteq Input
    BY DownAfterType
<1> SUFFICES ASSUME NEW k \in Input
             PROVE  k \in DownAfter(u, keys) <=> k \in DownAfter(t, first)
    BY <1>0
<1>2. \A i \in DOMAIN u : i \in DOMAIN s \/ i - Len(s) \in DOMAIN t
    BY <1>1
<1>3. \A i \in DOMAIN s : i \in DOMAIN u /\ u[i] = s[i]
    BY <1>1
<1>4. \A i \in DOMAIN t : /\ Len(s) + i \in DOMAIN u /\ u[Len(s) + i] = t[i]
                          /\ \A j \in DOMAIN s : j < Len(s) + i
    BY <1>1
<1>5. \A i \in DOMAIN u : i - Len(s) \in DOMAIN t => u[i] = t[i - Len(s)]
    BY <1>1
<1> HIDE DEF u, first
<1>6. CASE NoneAbout(k, t)
    <2>1. k \in DownAfter(t, first) <=> k \in first
        BY <1>6, DownParts DEF NoneAbout, LastAbout
    <2>2. NoneAbout(k, u) <=> NoneAbout(k, s)
        BY <1>2, <1>3, <1>5, <1>6 DEF NoneAbout
    <2>3. ASSUME NEW i \in DOMAIN s
          PROVE  LastAbout(k, s, i) <=> LastAbout(k, u, i)
        BY <1>2, <1>3, <1>5, <1>6 DEF NoneAbout, LastAbout
    <2>4. \A i \in DOMAIN u : LastAbout(k, u, i) => i \in DOMAIN s
        BY <1>2, <1>5, <1>6 DEF NoneAbout, LastAbout
    <2>5. k \in DownAfter(u, keys) <=> k \in DownAfter(s, keys)
        BY <1>3, <2>2, <2>3, <2>4, DownParts
    <2> QED BY <2>1, <2>5 DEF first
<1>7. CASE ~ NoneAbout(k, t)
    <2>1. ~ NoneAbout(k, u)
        BY <1>4, <1>7 DEF NoneAbout
    <2>2. ASSUME NEW i \in DOMAIN t, LastAbout(k, t, i)
          PROVE  LastAbout(k, u, Len(s) + i)
        <3>1. ASSUME NEW j \in DOMAIN u, About(k, u[j]) PROVE j <= Len(s) + i
            <4>1. CASE j \in DOMAIN s
                BY <1>1, <4>1
            <4>2. CASE j - Len(s) \in DOMAIN t
                <5>1. About(k, t[j - Len(s)])
                    BY <1>5, <3>1, <4>2
                <5>2. j - Len(s) <= i
                    BY <2>2, <4>2, <5>1 DEF LastAbout
                <5> QED BY <1>1, <5>2
            <4> QED BY <1>2, <4>1, <4>2
        <3> QED BY <1>4, <2>2, <3>1 DEF LastAbout
    <2>3. ASSUME NEW i \in DOMAIN u, LastAbout(k, u, i)
          PROVE  i - Len(s) \in DOMAIN t /\ LastAbout(k, t, i - Len(s))
        <3>1. PICK m \in DOMAIN t : About(k, t[m])
            BY <1>7 DEF NoneAbout
        <3>2. Len(s) + m <= i
            BY <1>4, <2>3, <3>1 DEF LastAbout
        <3>3. i - Len(s) \in DOMAIN t
            BY <1>1, <3>1, <3>2
        <3>4. ASSUME NEW j \in DOMAIN t, About(k, t[j]) PROVE j <= i - Len(s)
            <4>1. Len(s) + j <= i
                BY <1>4, <2>3, <3>4 DEF LastAbout
            <4> QED BY <1>1, <4>1
        <3> QED BY <1>5, <2>3, <3>3, <3>4 DEF LastAbout
    <2>4. k \in DownAfter(u, keys)
            => \E i \in DOMAIN t : LastAbout(k, t, i) /\ t[i].event.isDown
        BY <1>5, <2>1, <2>3, DownParts
    <2>5. (\E i \in DOMAIN t : LastAbout(k, t, i) /\ t[i].event.isDown)
            => k \in DownAfter(u, keys)
        BY <1>4, <2>2, DownParts
    <2> QED BY <1>7, <2>4, <2>5, DownParts
<1> QED BY <1>6, <1>7 DEF u, first

LEMMA DownAfterNone ==
    ASSUME NEW keys \in SUBSET Input
    PROVE  DownAfter(<<>>, keys) = keys
<1>1. DOMAIN <<>> = {}
    OBVIOUS
<1>2. \A k \in Input : k \in DownAfter(<<>>, keys) <=> k \in keys
    BY <1>1, DownParts DEF NoneAbout
<1> QED BY <1>2, DownAfterType

\* One message is injected, or is none to inject.
LEMMA DownAfterOne ==
    ASSUME NEW m \in Message, NEW keys \in SUBSET Input
    PROVE  DownAfter(<<m>>, keys) =
               IF m.type = "input" THEN Pressing(keys, m.event) ELSE keys
<1> DEFINE s == <<m>>
<1>1. DOMAIN s = {1} /\ s[1] = m
    OBVIOUS
<1> HIDE DEF s
<1>2. \A k \in Input : k \in DownAfter(s, keys)
                         <=> IF About(k, m) THEN m.event.isDown ELSE k \in keys
    BY <1>1, DownParts DEF NoneAbout, LastAbout
<1>3. CASE m.type = "input"
    <2>1. m.event \in Event
        BY <1>3 DEF Message, Control
    <2>2. m.event.key \in Input /\ m.event.isDown \in BOOLEAN
        BY <2>1 DEF Event
    <2> QED BY <1>2, <1>3, <2>2, DownAfterType DEF About, Pressing, s
<1>4. CASE m.type # "input"
    BY <1>2, <1>4, DownAfterType DEF About, s
<1> QED BY <1>3, <1>4

\* What was not down at first is not down then, save for what the messages do.
LEMMA DownGrows ==
    ASSUME NEW messages, NEW keys, NEW more
    PROVE  DownAfter(messages, more) \subseteq DownAfter(messages, keys) \cup more
<1>1. \A k \in Input : k \in DownAfter(messages, more)
                         => k \in DownAfter(messages, keys) \/ k \in more
    BY DownParts
<1> QED BY <1>1, DownAfterType

\* Nothing but releases is sent.
LEMMA DownAfterUps ==
    ASSUME NEW messages, NEW keys,
           \A i \in DOMAIN messages :
               messages[i].type = "input" /\ ~ messages[i].event.isDown
    PROVE  /\ DownAfter(messages, keys) \subseteq keys
           /\ \A i \in DOMAIN messages :
                 messages[i].event.key \notin DownAfter(messages, keys)
<1>1. \A k \in Input :
          k \in DownAfter(messages, keys) <=> NoneAbout(k, messages) /\ k \in keys
    BY DownParts
<1> QED BY <1>1, DownAfterType DEF NoneAbout, About

LEMMA InputMsgType ==
    ASSUME NEW e \in Event
    PROVE  InputMsg(e) \in Message /\ InputMsg(e).type = "input" /\ InputMsg(e).event = e
BY DEF InputMsg, Message

LEMMA InputMessage ==
    ASSUME NEW m \in Message, m.type = "input"
    PROVE  m.event \in Event /\ m = InputMsg(m.event)
BY DEF InputMsg, Message, Control

LEMMA AsInputType ==
    ASSUME NEW events \in Seq(Event)
    PROVE  /\ AsInput(events) \in Seq(Message) /\ Len(AsInput(events)) = Len(events)
           /\ DOMAIN AsInput(events) = 1 .. Len(events) /\ Len(events) \in Nat
           /\ \A i \in 1 .. Len(events) : AsInput(events)[i] = InputMsg(events[i])
<1>1. DOMAIN events = 1 .. Len(events) /\ Len(events) \in Nat
      /\ \A i \in 1 .. Len(events) : events[i] \in Event
    OBVIOUS
<1>2. \A i \in 1 .. Len(events) : InputMsg(events[i]) \in Message
    BY <1>1, InputMsgType
<1>3. AsInput(events) = [i \in 1 .. Len(events) |-> InputMsg(events[i])]
    BY <1>1 DEF AsInput
<1> QED BY <1>1, <1>2, <1>3

LEMMA AsInputNone == AsInput(<<>>) = <<>>
<1>1. <<>> \in Seq(Event) /\ Len(<<>>) = 0
    OBVIOUS
<1>2. AsInput(<<>>) \in Seq(Message) /\ Len(AsInput(<<>>)) = 0
    BY <1>1, AsInputType
<1> QED BY <1>2, EmptySeq

LEMMA AsInputOne ==
    ASSUME NEW e \in Event
    PROVE  AsInput(<<e>>) = <<InputMsg(e)>>
<1> DEFINE s == <<e>>
           t == <<InputMsg(e)>>
<1>1. s \in Seq(Event) /\ Len(s) = 1 /\ s[1] = e
    OBVIOUS
<1>2. t \in Seq(Message) /\ Len(t) = 1 /\ t[1] = InputMsg(e)
    BY InputMsgType
<1> HIDE DEF s, t
<1>3. AsInput(s) \in Seq(Message) /\ Len(AsInput(s)) = 1 /\ AsInput(s)[1] = InputMsg(e)
    BY <1>1, AsInputType
<1>4. AsInput(s) = t
    BY <1>2, <1>3, SeqEqual
<1> QED BY <1>4 DEF s, t

LEMMA AsInputJoined ==
    ASSUME NEW s \in Seq(Event), NEW t \in Seq(Event)
    PROVE  AsInput(s \o t) = AsInput(s) \o AsInput(t)
<1> DEFINE u == s \o t
           a == AsInput(s)
           b == AsInput(t)
           v == a \o b
           w == AsInput(u)
<1>1. /\ u \in Seq(Event) /\ Len(u) = Len(s) + Len(t)
      /\ \A i \in 1 .. Len(s) : u[i] = s[i]
      /\ \A i \in 1 .. Len(t) : u[Len(s) + i] = t[i]
    OBVIOUS
<1>2. /\ a \in Seq(Message) /\ Len(a) = Len(s) /\ b \in Seq(Message) /\ Len(b) = Len(t)
      /\ Len(s) \in Nat /\ Len(t) \in Nat
      /\ \A i \in 1 .. Len(s) : a[i] = InputMsg(s[i])
      /\ \A i \in 1 .. Len(t) : b[i] = InputMsg(t[i])
    BY AsInputType
<1> HIDE DEF u, a, b
<1>3. /\ w \in Seq(Message) /\ Len(w) = Len(s) + Len(t)
      /\ \A i \in 1 .. Len(s) + Len(t) : w[i] = InputMsg(u[i])
    BY <1>1, AsInputType
<1>4. /\ v \in Seq(Message) /\ Len(v) = Len(s) + Len(t)
      /\ \A i \in 1 .. Len(s) : v[i] = a[i]
      /\ \A i \in 1 .. Len(t) : v[Len(s) + i] = b[i]
    <2>1. a \in Seq(Message) /\ b \in Seq(Message)
        BY <1>2
    <2>2. /\ v \in Seq(Message) /\ Len(v) = Len(a) + Len(b)
          /\ \A i \in 1 .. Len(a) : v[i] = a[i]
          /\ \A i \in 1 .. Len(b) : v[Len(a) + i] = b[i]
        BY <2>1, Appended
    <2> HIDE DEF v
    <2> QED BY <1>2, <2>2
<1> HIDE DEF v, w
<1>5. ASSUME NEW i \in 1 .. Len(s) + Len(t) PROVE v[i] = w[i]
    <2>1. CASE i <= Len(s)
        BY <1>1, <1>2, <1>3, <1>4, <2>1
    <2>2. CASE i > Len(s)
        <3> DEFINE j == i - Len(s)
        <3>1. j \in 1 .. Len(t) /\ i = Len(s) + j
            BY <1>2, <2>2
        <3> HIDE DEF j
        <3> QED BY <1>1, <1>2, <1>3, <1>4, <3>1
    <2> QED BY <1>2, <2>1, <2>2
<1>6. v = w
    BY <1>3, <1>4, <1>5, SeqEqual
<1> QED BY <1>6 DEF u, a, b, v, w

WayTypeOK ==
    /\ inbox \in Seq(Message)
    /\ inputCh \in Seq(Event)
    /\ down \in SUBSET Input

LEMMA OutcomeParts ==
    ASSUME WayTypeOK
    PROVE  Outcome = DownAfter(inbox, DownAfter(AsInput(inputCh), down))
BY AsInputType, DownInTurn DEF WayTypeOK, Outcome

LEMMA OutcomePartsNext ==
    ASSUME WayTypeOK'
    PROVE  Outcome' = DownAfter(inbox', DownAfter(AsInput(inputCh'), down'))
<1>1. inbox' \in Seq(Message) /\ AsInput(inputCh') \in Seq(Message)
    BY AsInputType DEF WayTypeOK
<1>2. Outcome' = DownAfter(AsInput(inputCh') \o inbox', down')
    BY DEF Outcome
<1> QED BY <1>1, <1>2, DownInTurn

\* An event goes from one queue to the next, and then to the machine.
LEMMA QueuesAnEvent ==
    ASSUME WayTypeOK, WayTypeOK', inbox # <<>>, Head(inbox).type = "input",
           inbox' = Tail(inbox), inputCh' = Append(inputCh, Head(inbox).event),
           down' = down
    PROVE  Outcome' = Outcome
<1> DEFINE m == Head(inbox)
           t == Tail(inbox)
           queued == AsInput(inputCh)
<1>1. m \in Message /\ <<m>> \in Seq(Message) /\ t \in Seq(Message) /\ inbox = <<m>> \o t
    BY HeadFirst DEF WayTypeOK
<1>2. queued \in Seq(Message)
    BY AsInputType DEF WayTypeOK
<1>3. m.event \in Event /\ m = InputMsg(m.event)
    BY <1>1, InputMessage
<1>4. AsInput(inputCh') = queued \o <<m>>
    <2>1. inputCh' = inputCh \o <<m.event>> /\ <<m.event>> \in Seq(Event)
        BY <1>3, AppendIsConcat DEF WayTypeOK
    <2>2. AsInput(<<m.event>>) = <<m>>
        BY <1>3, AsInputOne
    <2> QED BY <2>1, <2>2, AsInputJoined DEF WayTypeOK
<1> DEFINE one == <<m>>
<1>5. one \in Seq(Message) /\ inbox = one \o t /\ AsInput(inputCh') = queued \o one
    BY <1>1, <1>4
<1> HIDE DEF m, t, queued, one
<1>6. Outcome' = DownAfter(t, DownAfter(queued \o one, down))
    BY <1>5, OutcomePartsNext DEF t
<1>7. Outcome = DownAfter(one \o t, DownAfter(queued, down))
    BY <1>5, OutcomeParts DEF queued
<1>8. DownAfter(queued \o one, down) = DownAfter(one, DownAfter(queued, down))
    BY <1>2, <1>5, DownInTurn
<1> QED BY <1>1, <1>5, <1>6, <1>7, <1>8, DownInTurn

LEMMA InjectsAnEvent ==
    ASSUME WayTypeOK, WayTypeOK', inputCh # <<>>,
           inbox' = inbox, inputCh' = Tail(inputCh),
           down' = Pressing(down, Head(inputCh))
    PROVE  Outcome' = Outcome
<1> DEFINE e == Head(inputCh)
           t == Tail(inputCh)
<1>1. e \in Event /\ <<e>> \in Seq(Event) /\ t \in Seq(Event) /\ inputCh = <<e>> \o t
    BY HeadFirst DEF WayTypeOK
<1> HIDE DEF e, t
<1> DEFINE one == <<InputMsg(e)>>
<1>2. AsInput(inputCh) = one \o AsInput(t)
    BY <1>1, AsInputJoined, AsInputOne
<1>3. /\ InputMsg(e) \in Message /\ InputMsg(e).type = "input" /\ InputMsg(e).event = e
      /\ one \in Seq(Message) /\ AsInput(t) \in Seq(Message)
    BY <1>1, InputMsgType, AsInputType
<1>4. DownAfter(one, down) = Pressing(down, e)
    BY <1>3, DownAfterOne DEF WayTypeOK
<1> HIDE DEF one
<1>5. DownAfter(AsInput(inputCh), down) = DownAfter(AsInput(t), DownAfter(one, down))
    BY <1>2, <1>3, DownInTurn
<1> QED BY <1>4, <1>5, OutcomeParts, OutcomePartsNext DEF e, t

LEMMA ReadsNoEvent ==
    ASSUME WayTypeOK, WayTypeOK', inbox # <<>>, Head(inbox).type # "input",
           inbox' = Tail(inbox), UNCHANGED <<inputCh, down>>
    PROVE  Outcome' = Outcome
<1> DEFINE m == Head(inbox)
           t == Tail(inbox)
           first == DownAfter(AsInput(inputCh), down)
<1>1. m \in Message /\ <<m>> \in Seq(Message) /\ t \in Seq(Message) /\ inbox = <<m>> \o t
    BY HeadFirst DEF WayTypeOK
<1>2. first \in SUBSET Input
    BY DownAfterType
<1>3. DownAfter(<<m>>, first) = first
    BY <1>1, <1>2, DownAfterOne
<1> DEFINE one == <<m>>
<1>4. one \in Seq(Message) /\ inbox = one \o t /\ DownAfter(one, first) = first
    BY <1>1, <1>3
<1> HIDE DEF m, t, first, one
<1>5. Outcome = DownAfter(one \o t, first)
    BY <1>4, OutcomeParts DEF first
<1>6. Outcome' = DownAfter(t, first)
    BY OutcomePartsNext DEF t, first
<1> QED BY <1>1, <1>4, <1>5, <1>6, DownInTurn

\* What is dropped before anything has been queued leaves down at most what was.
LEMMA DropsAnEvent ==
    ASSUME WayTypeOK, WayTypeOK', inbox # <<>>, inputCh = <<>>, inbox' = Tail(inbox),
           UNCHANGED <<inputCh, down>>
    PROVE  Outcome' \subseteq Outcome \cup down
<1> DEFINE m == Head(inbox)
           t == Tail(inbox)
<1>1. m \in Message /\ <<m>> \in Seq(Message) /\ t \in Seq(Message) /\ inbox = <<m>> \o t
    BY HeadFirst DEF WayTypeOK
<1>2. DownAfter(AsInput(inputCh), down) = down
    BY AsInputNone, DownAfterNone DEF WayTypeOK
<1> DEFINE one == <<m>>
<1>a. one \in Seq(Message) /\ inbox = one \o t
    BY <1>1
<1> HIDE DEF m, t, one
<1>3. Outcome = DownAfter(one \o t, down)
    BY <1>2, <1>a, OutcomeParts
<1>4. Outcome = DownAfter(t, DownAfter(one, down))
    BY <1>1, <1>3, <1>a, DownInTurn
<1>5. Outcome' = DownAfter(t, down)
    BY <1>2, OutcomePartsNext DEF t
<1> QED BY <1>4, <1>5, DownGrows

\* The page sends events.
LEMMA SendsEvents ==
    ASSUME WayTypeOK, WayTypeOK', NEW events \in Seq(Event),
           inbox' = inbox \o AsInput(events), UNCHANGED <<inputCh, down>>
    PROVE  Outcome' = DownAfter(AsInput(events), Outcome)
<1> DEFINE first == DownAfter(AsInput(inputCh), down)
<1>1. AsInput(events) \in Seq(Message) /\ inbox \in Seq(Message)
    BY AsInputType DEF WayTypeOK
<1>2. Outcome = DownAfter(inbox, first)
    BY OutcomeParts
<1>3. Outcome' = DownAfter(inbox \o AsInput(events), first)
    BY OutcomePartsNext
<1> HIDE DEF first
<1> QED BY <1>1, <1>2, <1>3, DownInTurn

--------------------------------------------------------------------------------
(* Types *)

\* The parts of TypeOK.
FlagTypeOK ==
    /\ session \in 0 .. MaxSessions
    /\ pc \in {"backoff", "waiting", "prompting", "granted", "refused", "sent",
               "active", "starting", "running", "stopping", "stopped", "leaving",
               "over"}
    /\ {quit, cancelled, reading, readErr, agentCh, injecting, controlActive,
        indicator} \subseteq BOOLEAN
    /\ dialogs \subseteq Sessions
    /\ answer \in [Sessions -> {"none", "yes", "no"}]
    /\ consented \subseteq Sessions
    /\ link \in {"pending", "asked", "bridge", "over"}
    /\ consentMsg \in {"none", "yes", "no"}

Fits == Len(inputCh) <= QueueCap

LEMMA TypeParts ==
    TypeOK <=> /\ FlagTypeOK /\ WayTypeOK /\ Fits /\ PageTypeOK
               /\ acts \in 0 .. MaxActs /\ leftover \subseteq Input
BY DEF TypeOK, ClientTypeOK, FlagTypeOK, WayTypeOK, Fits

LEMMA TypePartsNext ==
    /\ FlagTypeOK' /\ WayTypeOK' /\ Fits' /\ PageTypeOK'
    /\ acts' \in 0 .. MaxActs /\ leftover' \subseteq Input
    => TypeOK'
BY DEF TypeOK, ClientTypeOK, FlagTypeOK, WayTypeOK, Fits

LEMMA TypeInit == Init => TypeOK
<1> SUFFICES ASSUME Init PROVE TypeOK
    OBVIOUS
<1>1. <<>> \in Seq(Message) /\ <<>> \in Seq(Event) /\ Len(<<>>) = 0
    OBVIOUS
<1>2. FlagTypeOK
    <2>1. session \in 0 .. MaxSessions
        BY ClientAssumption DEF Init, ClientInit
    <2> QED BY <2>1 DEF Init, ClientInit, FlagTypeOK
<1>3. WayTypeOK /\ Fits
    BY <1>1, ClientAssumption DEF Init, ClientInit, WayTypeOK, Fits
<1>4. PageTypeOK /\ acts \in 0 .. MaxActs /\ leftover \subseteq Input
    <2>1. acts \in 0 .. MaxActs
        BY RemoteAssumption DEF Init
    <2>2. /\ page = "closed" /\ enabled = FALSE /\ focused = FALSE /\ heldVKs = {}
          /\ pressed = {} /\ leftover = {}
        BY DEF Init, PageInit
    <2> QED BY <2>1, <2>2 DEF PageTypeOK
<1> QED BY <1>2, <1>3, <1>4, TypeParts

LEMMA FlagsConnect ==
    ASSUME TypeOK, Inv, ConnectStep \/ Dials
    PROVE  FlagTypeOK'
<1>a. FlagTypeOK
    BY TypeParts
<1> USE DEF FlagTypeOK, GoesTo, readVars, injectVars, controlVars, promptVars, netVars
<1>0. CASE Dials
    <2>1. session' \in 0 .. MaxSessions
        BY <1>0, <1>a, ClientAssumption DEF Dials
    <2> QED BY <1>0, <1>a, <2>1 DEF Dials
<1>1. CASE Prompts
    <2>1. session \in Sessions
        BY <1>1, SessionIsOne DEF Prompts, Inv, Numbered
    <2> QED BY <1>1, <1>a, <2>1 DEF Prompts
<1>2. CASE StopsWaiting
    BY <1>2, <1>a DEF StopsWaiting
<1>3. CASE TakesYes
    BY <1>3, <1>a DEF TakesYes
<1>4. CASE TakesNo
    BY <1>4, <1>a DEF TakesNo
<1>5. CASE Refuses
    BY <1>5, <1>a DEF Refuses, WritesConsent
<1>6. CASE SendsGrant
    BY <1>6, <1>a DEF SendsGrant, WritesConsent
<1>7. CASE GrantFails
    BY <1>7, <1>a DEF GrantFails
<1>8. CASE Activates
    BY <1>8, <1>a DEF Activates
<1>9. CASE Indicates
    BY <1>9, <1>a DEF Indicates, IndicatedDuring
<1>10. CASE StartsLoops
    BY <1>10, <1>a DEF StartsLoops
<1>11. CASE Stops
    BY <1>11, <1>a DEF Stops
<1>12. CASE Deactivates
    BY <1>12, <1>a DEF Deactivates
<1>13. CASE StopsIndicating
    BY <1>13, <1>a DEF StopsIndicating, IndicatedAfter
<1>14. CASE Leaves
    BY <1>14, <1>a DEF Leaves
<1>15. CASE GivesUp
    BY <1>15, <1>a DEF GivesUp
<1> QED
    BY <1>0, <1>1, <1>2, <1>3, <1>4, <1>5, <1>6, <1>7, <1>8, <1>9, <1>10, <1>11, <1>12,
       <1>13, <1>14, <1>15 DEF ConnectStep

LEMMA FlagsLoops ==
    ASSUME TypeOK, ReadStep \/ InjectStep \/ UserStep
    PROVE  FlagTypeOK'
<1>a. FlagTypeOK
    BY TypeParts
<1> USE DEF FlagTypeOK, TakesMsg, readVars, injectVars, controlVars, promptVars, netVars
<1>1. CASE ReadsAgentConnected
    BY <1>1, <1>a DEF ReadsAgentConnected
<1>2. CASE ReadsInput
    BY <1>2, <1>a DEF ReadsInput
<1>3. CASE ReadsDisconnect
    BY <1>3, <1>a DEF ReadsDisconnect
<1>4. CASE ReadFails
    BY <1>4, <1>a DEF ReadFails
<1>5. CASE Injects
    BY <1>5, <1>a DEF Injects
<1>6. CASE InjectorStops
    BY <1>6, <1>a DEF InjectorStops
<1>7. CASE Quits
    BY <1>7, <1>a DEF Quits
<1>8. ASSUME NEW n \in Sessions, AnswersYes(n) PROVE FlagTypeOK'
    BY <1>8, <1>a DEF AnswersYes
<1>9. ASSUME NEW n \in Sessions, AnswersNo(n) PROVE FlagTypeOK'
    BY <1>9, <1>a DEF AnswersNo
<1> QED BY <1>1, <1>2, <1>3, <1>4, <1>5, <1>6, <1>7, <1>8, <1>9
        DEF ReadStep, InjectStep, UserStep

\* The queues in the program, and the keys of the machine.
LEMMA WayProgram ==
    ASSUME TypeOK, Dials \/ ConnectStep \/ ReadStep \/ InjectStep \/ UserStep
    PROVE  WayTypeOK' /\ Fits'
<1>a. WayTypeOK /\ Fits /\ QueueCap \in Nat
    BY TypeParts, ClientAssumption
<1>b. <<>> \in Seq(Message) /\ <<>> \in Seq(Event) /\ Len(<<>>) = 0
    OBVIOUS
<1>1. CASE UNCHANGED <<inbox, inputCh, down>>
    BY <1>1, <1>a DEF WayTypeOK, Fits
<1>2. CASE Dials
    BY <1>2, <1>a, <1>b DEF Dials, WayTypeOK, Fits
<1>3. CASE Leaves
    BY <1>3, <1>a, <1>b DEF Leaves, WayTypeOK, Fits, injectVars
<1>4. CASE ReadsInput
    <2>1. Head(inbox) \in Message /\ Tail(inbox) \in Seq(Message)
        BY <1>4, <1>a, HeadFirst DEF ReadsInput, NextMsg, WayTypeOK
    <2>2. Head(inbox).event \in Event
        BY <1>4, <2>1, InputMessage DEF ReadsInput, NextMsg
    <2> DEFINE e == Head(inbox).event
    <2>3. inbox' = Tail(inbox) /\ down' = down
        BY <1>4 DEF ReadsInput, TakesMsg
    <2> HIDE DEF e
    <2>4. inputCh \in Seq(Event) /\ Len(inputCh) <= QueueCap /\ Len(inputCh) \in Nat
        BY <1>a DEF WayTypeOK, Fits
    <2>5. CASE inputCh' = inputCh
        BY <1>a, <2>1, <2>3, <2>5 DEF WayTypeOK, Fits
    <2>6. CASE inputCh' = Append(inputCh, e) /\ Len(inputCh) < QueueCap
        <3>1. inputCh' \in Seq(Event) /\ Len(inputCh') = Len(inputCh) + 1
            BY <2>2, <2>4, <2>6, AppendProperties DEF e
        <3>2. Len(inputCh') <= QueueCap
            BY <1>a, <2>4, <2>6, <3>1
        <3> QED BY <1>a, <2>1, <2>3, <3>1, <3>2 DEF WayTypeOK, Fits
    <2> QED BY <1>4, <2>5, <2>6 DEF ReadsInput, Accepted, Room, e
<1>5. CASE ReadsAgentConnected \/ ReadsDisconnect
    <2>1. inbox # <<>> /\ inbox' = Tail(inbox) /\ UNCHANGED <<inputCh, down>>
        BY <1>5 DEF ReadsAgentConnected, ReadsDisconnect, NextMsg, TakesMsg, injectVars
    <2>2. Tail(inbox) \in Seq(Message)
        BY <1>a, <2>1, HeadFirst DEF WayTypeOK
    <2> QED BY <1>a, <2>1, <2>2 DEF WayTypeOK, Fits
<1>6. CASE Injects
    <2>1. inputCh # <<>> /\ inputCh' = Tail(inputCh) /\ inbox' = inbox
          /\ down' = Pressing(down, Head(inputCh))
        BY <1>6 DEF Injects, netVars
    <2>2. Head(inputCh) \in Event /\ inputCh \in Seq(Event)
        BY <1>a, <2>1, HeadFirst DEF WayTypeOK
    <2>3. Tail(inputCh) \in Seq(Event) /\ Len(Tail(inputCh)) = Len(inputCh) - 1
          /\ Len(inputCh) \in Nat
        BY <2>1, <2>2
    <2>4. Pressing(down, Head(inputCh)) \in SUBSET Input
        BY <1>a, <2>2 DEF Pressing, Event, WayTypeOK
    <2>5. Len(inputCh') <= QueueCap
        BY <1>a, <2>1, <2>3 DEF Fits
    <2> QED BY <1>a, <2>1, <2>3, <2>4, <2>5 DEF WayTypeOK, Fits
<1>7. ConnectStep /\ ~ Leaves => UNCHANGED <<inbox, inputCh, down>>
    BY DEF ConnectStep, Prompts, StopsWaiting, TakesYes, TakesNo, Refuses, SendsGrant,
           GrantFails, Activates, Indicates, StartsLoops, Stops, Deactivates,
           StopsIndicating, GivesUp, WritesConsent, injectVars, netVars
<1>8. ReadFails \/ InjectorStops \/ UserStep => UNCHANGED <<inbox, inputCh, down>>
    BY DEF ReadFails, InjectorStops, UserStep, Quits, AnswersYes, AnswersNo, injectVars,
           netVars
<1> QED BY <1>1, <1>2, <1>3, <1>4, <1>5, <1>6, <1>7, <1>8 DEF ReadStep, InjectStep

--------------------------------------------------------------------------------
(* What the agent does *)

LEMMA EventTypes ==
    ASSUME NEW k \in Key \cup Button
    PROVE  /\ Down(k) \in Event /\ Up(k) \in Event /\ k \in Input
           /\ Down(k).key = k /\ Down(k).isDown = TRUE
           /\ Up(k).key = k /\ Up(k).isDown = FALSE
BY RemoteAssumption DEF Down, Up, Event

LEMMA DownAfterEvent ==
    ASSUME NEW e \in Event, NEW keys \in SUBSET Input
    PROVE  /\ <<e>> \in Seq(Event)
           /\ DownAfter(AsInput(<<e>>), keys) = Pressing(keys, e)
<1>1. InputMsg(e) \in Message /\ InputMsg(e).type = "input" /\ InputMsg(e).event = e
    BY InputMsgType
<1> QED BY <1>1, AsInputOne, DownAfterOne

LEMMA DownAfterNothing ==
    ASSUME NEW keys \in SUBSET Input
    PROVE  <<>> \in Seq(Event) /\ DownAfter(AsInput(<<>>), keys) = keys
BY AsInputNone, DownAfterNone

\* A finite set is listed in full.
LEMMA Listed ==
    ASSUME NEW S, IsFiniteSet(S)
    PROVE  /\ SetToSeq(S) \in Seq(S)
           /\ \A x \in S : \E i \in DOMAIN SetToSeq(S) : SetToSeq(S)[i] = x
<1> DEFINE n == Cardinality(S)
           f == SetToSeq(S)
<1>1. n \in Nat /\ ExistsBijection(1 .. n, S)
    BY FS_CardinalityType
<1>2. PICK g \in Bijection(1 .. n, S) : TRUE
    BY <1>1 DEF ExistsBijection
<1>3. g \in [1 .. n -> S] /\ IsInjective(g)
    BY <1>2 DEF Bijection, Injection
<1>4. f \in [1 .. n -> S] /\ IsInjective(f)
    BY <1>3 DEF SetToSeq
<1>5. f \in Injection(1 .. n, S)
    BY <1>4 DEF Injection
<1>6. Cardinality(1 .. n) = n
    BY <1>1, FS_Interval
<1>7. f \in Surjection(1 .. n, S)
    BY <1>5, <1>6, FS_Injection
<1>8. \A x \in S : \E i \in 1 .. n : f[i] = x
    BY <1>7 DEF Surjection
<1>9. f \in Seq(S) /\ DOMAIN f = 1 .. n
    BY <1>1, <1>4
<1> QED BY <1>8, <1>9

\* releaseHeldKeys releases every key that is held, and presses none.
LEMMA ReleasesAll ==
    ASSUME TypeOK, NEW keys \in SUBSET Input
    PROVE  /\ Releases \in Seq(Event)
           /\ DownAfter(AsInput(Releases), keys) \subseteq keys \ heldVKs
<1> DEFINE ups == {Up(k) : k \in heldVKs}
<1>1. heldVKs \subseteq Key /\ IsFiniteSet(heldVKs)
    <2>1. heldVKs \subseteq Key
        BY DEF TypeOK, PageTypeOK
    <2> QED BY <2>1, PageAssumption, FS_Subset
<1>2. IsFiniteSet(ups)
    <2> DEFINE f == [k \in heldVKs |-> Up(k)]
    <2>1. f \in Surjection(heldVKs, ups)
        BY DEF Surjection
    <2> QED BY <1>1, <2>1, FS_Surjection
<1>3. ups \subseteq Event
    BY <1>1, EventTypes
<1>4. /\ Releases \in Seq(ups)
      /\ \A e \in ups : \E i \in DOMAIN Releases : Releases[i] = e
    <2> HIDE DEF ups
    <2>1. /\ SetToSeq(ups) \in Seq(ups)
          /\ \A e \in ups : \E i \in DOMAIN SetToSeq(ups) : SetToSeq(ups)[i] = e
        BY <1>2, Listed
    <2> QED BY <2>1 DEF Releases, ups
<1>5. Releases \in Seq(Event) /\ \A i \in DOMAIN Releases : Releases[i] \in ups
    <2> HIDE DEF ups
    <2> QED BY <1>3, <1>4
<1> DEFINE messages == AsInput(Releases)
<1>6. /\ DOMAIN messages = DOMAIN Releases
      /\ \A i \in DOMAIN Releases : messages[i] = InputMsg(Releases[i])
    BY DEF AsInput
<1>7. \A e \in ups : ~ e.isDown /\ InputMsg(e).type = "input" /\ InputMsg(e).event = e
    BY <1>1, <1>3, EventTypes, InputMsgType
<1>8. \A k \in heldVKs : Up(k) \in ups /\ Up(k).key = k
    BY <1>1, EventTypes
<1> HIDE DEF ups, messages
<1>9. \A i \in DOMAIN messages : messages[i].type = "input" /\ ~ messages[i].event.isDown
    BY <1>5, <1>6, <1>7
<1>10. /\ DownAfter(messages, keys) \subseteq keys
       /\ \A i \in DOMAIN messages :
             messages[i].event.key \notin DownAfter(messages, keys)
    BY <1>9, DownAfterUps
<1>11. ASSUME NEW k \in heldVKs PROVE k \notin DownAfter(messages, keys)
    <2>1. PICK i \in DOMAIN Releases : Releases[i] = Up(k)
        BY <1>4, <1>8
    <2>2. messages[i].event.key = k
        BY <1>6, <1>7, <1>8, <2>1
    <2> QED BY <1>6, <1>10, <2>1, <2>2
<1> QED BY <1>5, <1>10, <1>11 DEF messages

\* The keys the agent holds down for the machine to see are among the page's.
Held == pressed \cap Key \subseteq heldVKs

\* The events press nothing but what the agent holds then, and release what he has let go.
Follow(events, held, then) ==
    \A keys \in SUBSET Input :
        DownAfter(AsInput(events), keys) \ then \subseteq keys \ held

LEMMA NothingFollows ==
    ASSUME NEW held
    PROVE  Follow(<<>>, held, held)
BY DownAfterNothing DEF Follow

LEMMA PressFollows ==
    ASSUME NEW e \in Event, e.isDown, NEW held
    PROVE  Follow(<<e>>, held, held \cup {e.key})
<1>1. \A keys \in SUBSET Input : DownAfter(AsInput(<<e>>), keys) = keys \cup {e.key}
    BY DownAfterEvent DEF Pressing
<1> QED BY <1>1 DEF Follow

LEMMA ReleaseFollows ==
    ASSUME NEW e \in Event, ~ e.isDown, NEW held
    PROVE  Follow(<<e>>, held, held \ {e.key})
<1>1. \A keys \in SUBSET Input : DownAfter(AsInput(<<e>>), keys) = keys \ {e.key}
    BY DownAfterEvent DEF Pressing
<1> QED BY <1>1 DEF Follow

LEMMA ReleasesFollow ==
    ASSUME TypeOK, Held
    PROVE  Follow(Releases, pressed, pressed \ Key)
<1>1. \A keys \in SUBSET Input :
          DownAfter(AsInput(Releases), keys) \subseteq keys \ heldVKs
    BY ReleasesAll
<1> QED BY <1>1 DEF Follow, Held

\* However the agent acts, what is sent puts nothing down that he does not hold.
LEMMA ActSends ==
    ASSUME TypeOK, Held, AgentActs
    PROVE  \E events \in Seq(Event) :
              /\ Sends(events)
              /\ enabled /\ ~ Losses => Follow(events, pressed, pressed')
<1> DEFINE Goal == \E events \in Seq(Event) :
                      /\ Sends(events)
                      /\ enabled /\ ~ Losses => Follow(events, pressed, pressed')
<1>a. ASSUME NEW events \in Seq(Event), Sends(Sent(events)),
             enabled /\ ~ Losses => Follow(events, pressed, pressed')
      PROVE  Goal
    <2>1. <<>> \in Seq(Event)
        BY DownAfterNothing
    <2>2. CASE enabled
        <3>1. Sent(events) = events
            BY <2>2 DEF AgentActs, Sent
        <3> QED BY <1>a, <3>1
    <2>3. CASE ~ enabled
        <3>1. Sent(events) = <<>>
            BY <2>3 DEF Sent
        <3> QED BY <1>a, <2>1, <2>3, <3>1
    <2> QED BY <2>2, <2>3
<1>b. ASSUME Sends(<<>>), enabled /\ ~ Losses => pressed' = pressed
      PROVE  Goal
    <2> DEFINE none == <<>>
    <2>1. none \in Seq(Event)
        BY DownAfterNothing
    <2>2. Follow(none, pressed, pressed)
        BY NothingFollows
    <2>3. Sends(none)
        BY <1>b
    <2> HIDE DEF none
    <2> QED BY <1>b, <2>1, <2>2, <2>3
<1>c. ASSUME NEW e \in Event PROVE <<e>> \in Seq(Event)
    BY DownAfterEvent
<1> HIDE DEF Goal
<1>1. ASSUME NEW k \in Key, KeyDown(k), Sends(KeyEvents(k, Down(k)))
      PROVE  Goal
    <2>1. CASE PassesThrough(k)
        BY <1>1, <1>b, <2>1 DEF KeyDown, KeyEvents
    <2>2. CASE ~ PassesThrough(k)
        <3> DEFINE e == Down(k)
        <3>1. e \in Event /\ e.key = k /\ e.isDown
            BY EventTypes
        <3>2. Sends(Sent(<<e>>)) /\ pressed' = pressed \cup {k}
            BY <1>1, <2>2 DEF KeyDown, KeyEvents
        <3> HIDE DEF e
        <3>3. Follow(<<e>>, pressed, pressed')
            BY <3>1, <3>2, PressFollows
        <3> QED BY <1>a, <1>c, <3>1, <3>2, <3>3
    <2> QED BY <2>1, <2>2
<1>2. ASSUME NEW k \in Key, KeyUp(k), Sends(KeyEvents(k, Up(k)))
      PROVE  Goal
    <2>1. CASE PassesThrough(k)
        BY <1>2, <1>b, <2>1 DEF KeyEvents, Losses
    <2>2. CASE ~ PassesThrough(k)
        <3> DEFINE e == Up(k)
        <3>1. e \in Event /\ e.key = k /\ ~ e.isDown
            BY EventTypes
        <3>2. Sends(Sent(<<e>>)) /\ pressed' = pressed \ {k}
            BY <1>2, <2>2 DEF KeyUp, KeyEvents
        <3> HIDE DEF e
        <3>3. Follow(<<e>>, pressed, pressed')
            BY <3>1, <3>2, ReleaseFollows
        <3> QED BY <1>a, <1>c, <3>1, <3>2, <3>3
    <2> QED BY <2>1, <2>2
<1>3. ASSUME NEW b \in Button, ButtonDown(b), Sends(Sent(<<Down(b)>>))
      PROVE  Goal
    <2> DEFINE e == Down(b)
    <2>1. e \in Event /\ e.key = b /\ e.isDown
        BY EventTypes
    <2>2. Sends(Sent(<<e>>)) /\ pressed' = pressed \cup {b}
        BY <1>3 DEF ButtonDown
    <2> HIDE DEF e
    <2>3. Follow(<<e>>, pressed, pressed')
        BY <2>1, <2>2, PressFollows
    <2> QED BY <1>a, <1>c, <2>1, <2>2, <2>3
<1>4. ASSUME NEW b \in Button, ButtonUp(b), Sends(Sent(<<Up(b)>>))
      PROVE  Goal
    <2> DEFINE e == Up(b)
    <2>1. e \in Event /\ e.key = b /\ ~ e.isDown
        BY EventTypes
    <2>2. Sends(Sent(<<e>>)) /\ pressed' = pressed \ {b}
        BY <1>4 DEF ButtonUp
    <2> HIDE DEF e
    <2>3. Follow(<<e>>, pressed, pressed')
        BY <2>1, <2>2, ReleaseFollows
    <2> QED BY <1>a, <1>c, <2>1, <2>2, <2>3
<1>5. ASSUME NEW b \in Button, ButtonUp(b), Sends(<<>>)
      PROVE  Goal
    BY <1>5, <1>b DEF Losses
<1>6. ASSUME Blurs, Sends(Sent(Releases))
      PROVE  Goal
    <2>1. Releases \in Seq(Event) /\ Follow(Releases, pressed, pressed \ Key)
        BY ReleasesAll, ReleasesFollow
    <2> QED BY <1>6, <1>a, <2>1 DEF Blurs
<1>7. Goal
    BY <1>1, <1>2, <1>3, <1>4, <1>5, <1>6 DEF AgentActs
<1> QED BY <1>7 DEF Goal

LEMMA PageTypes ==
    ASSUME TypeOK, Held,
           \/ AgentActs \/ AgentJoins \/ ServerEnds
           \/ PageEnds \/ PageEnabled \/ Focus
    PROVE  PageTypeOK' /\ Held' /\ acts' \in 0 .. MaxActs /\ leftover' \subseteq Input
<1>a. /\ PageTypeOK /\ acts \in 0 .. MaxActs /\ leftover \subseteq Input
      /\ down \in SUBSET Input
    BY TypeParts DEF WayTypeOK
<1> USE DEF PageTypeOK, Held
<1>1. CASE AgentActs
    <2>1. acts' \in 0 .. MaxActs /\ leftover' = leftover
        BY <1>1, <1>a, RemoteAssumption DEF AgentActs
    <2>2. ASSUME NEW k \in Key, KeyDown(k) \/ KeyUp(k) PROVE PageTypeOK' /\ Held'
        BY <2>2, <1>a DEF KeyDown, KeyUp
    <2>3. ASSUME NEW b \in Button, ButtonDown(b) \/ ButtonUp(b) PROVE PageTypeOK' /\ Held'
        BY <2>3, <1>a, PageAssumption DEF ButtonDown, ButtonUp
    <2>4. ASSUME Blurs PROVE PageTypeOK' /\ Held'
        <3>1. pressed' \subseteq Key \cup Button /\ heldVKs' \subseteq Key /\ Held'
            BY <2>4, <1>a DEF Blurs
        <3>2. page' \in {"open", "closed"} /\ {enabled', focused'} \subseteq BOOLEAN
            BY <2>4, <1>a DEF Blurs
        <3>3. PageTypeOK'
            BY <3>1, <3>2
        <3> QED BY <3>1, <3>3
    <2>5. PageTypeOK' /\ Held'
        BY <1>1, <2>2, <2>3, <2>4 DEF AgentActs
    <2> QED BY <1>a, <2>1, <2>5
<1>2. CASE AgentJoins
    BY <1>2, <1>a DEF AgentJoins, NewPage
<1>3. CASE ServerEnds
    BY <1>3, <1>a DEF ServerEnds, NewPage
<1>4. CASE PageEnds
    BY <1>4, <1>a DEF PageEnds, PageCloses, NewPage
<1>5. CASE PageEnabled
    BY <1>5, <1>a DEF PageEnabled, Enabled
<1>6. CASE Focus
    BY <1>6, <1>a DEF Focus, Focuses
<1> QED BY <1>1, <1>2, <1>3, <1>4, <1>5, <1>6

--------------------------------------------------------------------------------
(* The inductive invariant of what is under way *)

ServerActs == AgentJoins \/ OpensBridge \/ ServerEnds

PageMoves == PageEnabled \/ PageEnds \/ Focus

LEMMA FlagsServer ==
    ASSUME TypeOK, ServerActs \/ AgentActs \/ PageMoves
    PROVE  FlagTypeOK'
<1>a. FlagTypeOK
    BY TypeParts
<1> USE DEF FlagTypeOK, readVars, injectVars, controlVars, promptVars, netVars
<1>1. CASE AgentJoins
    BY <1>1, <1>a DEF AgentJoins
<1>2. CASE OpensBridge
    BY <1>2, <1>a DEF OpensBridge
<1>3. CASE ServerEnds
    BY <1>3, <1>a DEF ServerEnds
<1>4. CASE AgentActs
    BY <1>4, <1>a, PageActs
<1>5. CASE PageMoves
    BY <1>5, <1>a DEF PageMoves, PageEnabled, PageEnds, Focus, clientVars
<1> QED BY <1>1, <1>2, <1>3, <1>4, <1>5 DEF ServerActs

LEMMA WayServer ==
    ASSUME TypeOK, Held, ServerActs \/ AgentActs \/ PageMoves
    PROVE  WayTypeOK' /\ Fits'
<1>a. WayTypeOK /\ Fits /\ <<>> \in Seq(Message)
    BY TypeParts
<1>b. \A type \in Control : ControlMsg(type) \in Message
    BY DEF ControlMsg, Message
<1>c. \A type \in Control : Append(inbox, ControlMsg(type)) \in Seq(Message)
    BY <1>a, <1>b, AppendProperties DEF WayTypeOK
<1>d. UNCHANGED <<inputCh, down>>
    BY PageActs
    DEF ServerActs, AgentJoins, OpensBridge, ServerEnds, PageMoves, PageEnabled, PageEnds,
        Focus, clientVars, injectVars
<1>1. CASE AgentJoins
    <2>1. inbox' \in Seq(Message)
        BY <1>1, <1>c DEF AgentJoins, Control
    <2> QED BY <1>a, <1>d, <2>1 DEF WayTypeOK, Fits
<1>2. CASE ServerEnds
    <2>1. inbox' \in Seq(Message)
        BY <1>2, <1>a, <1>c DEF ServerEnds, Control, WayTypeOK
    <2> QED BY <1>a, <1>d, <2>1 DEF WayTypeOK, Fits
<1>3. CASE AgentActs
    <2>1. PICK events \in Seq(Event) : Sends(events)
        BY <1>3, ActSends
    <2>2. AsInput(events) \in Seq(Message) /\ inbox \in Seq(Message)
        BY <1>a, AsInputType DEF WayTypeOK
    <2>3. inbox' \in Seq(Message)
        BY <2>1, <2>2, Appended DEF Sends
    <2> QED BY <1>a, <1>d, <2>3 DEF WayTypeOK, Fits
<1>4. OpensBridge \/ PageMoves => inbox' = inbox
    BY DEF OpensBridge, PageMoves, PageEnabled, PageEnds, Focus, clientVars, netVars
<1> QED BY <1>a, <1>d, <1>1, <1>2, <1>3, <1>4 DEF ServerActs, WayTypeOK, Fits

ProgramSteps == Dials \/ ConnectStep \/ ReadStep \/ InjectStep \/ UserStep

LEMMA NextParts ==
    ASSUME [Next]_vars
    PROVE  \/ ProgramSteps /\ UNCHANGED <<pageVars, acts, leftover>>
           \/ ServerActs \/ AgentActs \/ PageMoves
           \/ UNCHANGED vars
BY DEF Next, Client, ProgramSteps, ServerActs, PageMoves

LEMMA TypeStep ==
    ASSUME TypeOK, Inv, Held, [Next]_vars
    PROVE  TypeOK' /\ Held'
<1>1. CASE ProgramSteps /\ UNCHANGED <<pageVars, acts, leftover>>
    <2>1. FlagTypeOK'
        BY <1>1, FlagsConnect, FlagsLoops DEF ProgramSteps
    <2>2. WayTypeOK' /\ Fits'
        BY <1>1, WayProgram DEF ProgramSteps
    <2>3. PageTypeOK' /\ acts' \in 0 .. MaxActs /\ leftover' \subseteq Input /\ Held'
        BY <1>1, TypeParts DEF pageVars, PageTypeOK, Held
    <2> QED BY <2>1, <2>2, <2>3, TypePartsNext
<1>2. CASE AgentActs \/ AgentJoins \/ ServerEnds \/ PageMoves
    BY <1>2, FlagsServer, WayServer, PageTypes, TypePartsNext DEF ServerActs, PageMoves
<1>3. CASE OpensBridge
    <2>1. PageTypeOK' /\ acts' \in 0 .. MaxActs /\ leftover' \subseteq Input /\ Held'
        BY <1>3, TypeParts DEF OpensBridge, pageVars, PageTypeOK, Held
    <2> QED BY <1>3, <2>1, FlagsServer, WayServer, TypePartsNext DEF ServerActs
<1>4. CASE UNCHANGED vars
    <2>1. FlagTypeOK'
        BY <1>4, TypeParts DEF vars, clientVars, FlagTypeOK, readVars, injectVars,
                               controlVars, promptVars, netVars
    <2>2. WayTypeOK' /\ Fits'
        BY <1>4, TypeParts DEF vars, clientVars, WayTypeOK, Fits, injectVars, netVars
    <2>3. PageTypeOK' /\ acts' \in 0 .. MaxActs /\ leftover' \subseteq Input /\ Held'
        BY <1>4, TypeParts DEF vars, pageVars, PageTypeOK, Held
    <2> QED BY <2>1, <2>2, <2>3, TypePartsNext
<1> QED BY <1>1, <1>2, <1>3, <1>4, NextParts DEF ServerActs

\* Control is on from its activation until the connection is cancelled, and nothing is
\* queued or injected before.
Fresh ==
    /\ ~ cancelled /\ ~ controlActive => inputCh = <<>> /\ ~ injecting
    /\ pc \in {"active", "starting", "running", "stopping"} => controlActive
    /\ pc \in {"stopping", "stopped"} => cancelled

\* Until a connection injects the machine is as the agent found it.
AsFound == ~ cancelled /\ ~ injecting /\ link \in {"asked", "bridge"} => down = leftover

Waiting == Fresh /\ AsFound

LEMMA WaitingProgram ==
    ASSUME Waiting, ProgramSteps, leftover' = leftover
    PROVE  Waiting'
<1> USE DEF Waiting, Fresh, AsFound, GoesTo, TakesMsg, readVars, injectVars, controlVars,
            promptVars, netVars
<1>0. CASE Dials
    BY <1>0 DEF Dials
<1>1. CASE Prompts
    BY <1>1 DEF Prompts
<1>2. CASE StopsWaiting
    BY <1>2 DEF StopsWaiting
<1>3. CASE TakesYes
    BY <1>3 DEF TakesYes
<1>4. CASE TakesNo
    BY <1>4 DEF TakesNo
<1>5. CASE Refuses
    BY <1>5 DEF Refuses, WritesConsent
<1>6. CASE SendsGrant
    BY <1>6 DEF SendsGrant, WritesConsent
<1>7. CASE GrantFails
    BY <1>7 DEF GrantFails
<1>8. CASE Activates
    BY <1>8 DEF Activates
<1>9. CASE Indicates
    BY <1>9 DEF Indicates
<1>10. CASE StartsLoops
    BY <1>10 DEF StartsLoops
<1>11. CASE Stops
    BY <1>11 DEF Stops
<1>12. CASE Deactivates
    BY <1>12 DEF Deactivates
<1>13. CASE StopsIndicating
    BY <1>13 DEF StopsIndicating
<1>14. CASE Leaves
    BY <1>14 DEF Leaves
<1>15. CASE GivesUp
    BY <1>15 DEF GivesUp
<1>16. CASE ReadsAgentConnected
    BY <1>16 DEF ReadsAgentConnected
<1>17. CASE ReadsInput
    BY <1>17 DEF ReadsInput, Accepted
<1>18. CASE ReadsDisconnect
    BY <1>18 DEF ReadsDisconnect
<1>19. CASE ReadFails
    BY <1>19 DEF ReadFails
<1>20. CASE Injects
    BY <1>20 DEF Injects
<1>21. CASE InjectorStops
    BY <1>21 DEF InjectorStops
<1>22. CASE Quits
    BY <1>22 DEF Quits
<1>23. ASSUME NEW n \in Sessions, AnswersYes(n) PROVE Waiting'
    BY <1>23 DEF AnswersYes
<1>24. ASSUME NEW n \in Sessions, AnswersNo(n) PROVE Waiting'
    BY <1>24 DEF AnswersNo
<1>25. CASE ConnectStep
    BY <1>1, <1>2, <1>3, <1>4, <1>5, <1>6, <1>7, <1>8, <1>9, <1>10, <1>11, <1>12, <1>13,
       <1>14, <1>15, <1>25 DEF ConnectStep
<1>26. CASE ReadStep \/ InjectStep
    BY <1>16, <1>17, <1>18, <1>19, <1>20, <1>21, <1>26 DEF ReadStep, InjectStep
<1>27. CASE UserStep
    BY <1>22, <1>23, <1>24, <1>27 DEF UserStep
<1> QED BY <1>0, <1>25, <1>26, <1>27 DEF ProgramSteps

LEMMA WaitingStep ==
    ASSUME Waiting, [Next]_vars
    PROVE  Waiting'
<1> USE DEF Waiting, Fresh, AsFound, injectVars, controlVars, netVars
<1>1. CASE AgentJoins
    BY <1>1 DEF AgentJoins
<1>2. CASE OpensBridge
    BY <1>2 DEF OpensBridge
<1>3. CASE ServerEnds
    BY <1>3 DEF ServerEnds
<1>4. CASE AgentActs
    <2>1. leftover' = leftover
        BY <1>4 DEF AgentActs
    <2> QED BY <1>4, <2>1, PageActs
<1>5. CASE PageMoves \/ UNCHANGED vars
    BY <1>5 DEF PageMoves, PageEnabled, PageEnds, Focus, vars, clientVars
<1>6. CASE ProgramSteps /\ leftover' = leftover
    BY <1>6, WaitingProgram
<1> QED BY <1>1, <1>2, <1>3, <1>4, <1>5, <1>6, NextParts DEF ServerActs

\* The full inductive invariant.
KeptInv == Inv /\ TypeOK /\ Held /\ Waiting

LEMMA KeptHolds == Spec => []KeptInv
<1>1. Init => KeptInv
    <2>1. Init => Held
        BY DEF Init, PageInit, Held
    <2>2. Init => Waiting
        BY DEF Init, ClientInit, Waiting, Fresh, AsFound
    <2> QED BY <2>1, <2>2, InvInit, TypeInit DEF KeptInv
<1>2. KeptInv /\ [Next]_vars => KeptInv'
    BY InvStep, TypeStep, WaitingStep DEF KeptInv
<1> QED BY <1>1, <1>2, PTL DEF Spec

--------------------------------------------------------------------------------
(* The machine follows the page *)

\* The type invariant of the client, the page and what is under way between them.
THEOREM TypeCorrect == Spec => []TypeOK
BY KeptHolds, PTL DEF KeptInv

\* What is dropped because control is not active yet leaves down what was found so.
LEMMA ReadsKeep ==
    ASSUME KeptInv, KeptInv', ReadsInput, ~ Losses, ~ cancelled, link = "bridge"
    PROVE  Outcome' \subseteq Outcome \cup leftover
<1>1. WayTypeOK /\ WayTypeOK'
    <2>1. TypeOK'
        BY DEF KeptInv
    <2>2. WayTypeOK'
        BY <2>1 DEF TypeOK, ClientTypeOK, WayTypeOK
    <2> QED BY <2>2, TypeParts DEF KeptInv
<1>2. /\ inbox # <<>> /\ Head(inbox).type = "input" /\ inbox' = Tail(inbox)
      /\ down' = down
      /\ inputCh' = IF Accepted THEN Append(inputCh, Head(inbox).event) ELSE inputCh
    BY DEF ReadsInput, NextMsg, TakesMsg
<1>3. CASE Accepted
    BY <1>1, <1>2, <1>3, QueuesAnEvent
<1>4. CASE ~ Accepted
    <2>1. Room
        BY DEF Losses, ReadsInput
    <2>2. inputCh = <<>> /\ down = leftover
        BY <1>4, <2>1 DEF Accepted, KeptInv, Waiting, Fresh, AsFound
    <2>3. Outcome' \subseteq Outcome \cup down
        BY <1>1, <1>2, <1>4, <2>2, DropsAnEvent
    <2> QED BY <2>2, <2>3
<1> QED BY <1>3, <1>4

LEMMA ProgramFollows ==
    ASSUME KeptInv, KeptInv', ProgramSteps, ~ Losses, ~ cancelled,
           link = "bridge", link' = "bridge"
    PROVE  Outcome' \subseteq Outcome \cup leftover
<1>1. WayTypeOK /\ WayTypeOK'
    <2>1. TypeOK'
        BY DEF KeptInv
    <2>2. WayTypeOK'
        BY <2>1 DEF TypeOK, ClientTypeOK, WayTypeOK
    <2> QED BY <2>2, TypeParts DEF KeptInv
<1>2. CASE ReadsInput
    BY <1>2, ReadsKeep
<1>3. CASE Injects
    <2>1. /\ inputCh # <<>> /\ inbox' = inbox /\ inputCh' = Tail(inputCh)
          /\ down' = Pressing(down, Head(inputCh))
        BY <1>3 DEF Injects, netVars
    <2> QED BY <1>1, <2>1, InjectsAnEvent
<1>4. CASE ReadsAgentConnected \/ ReadsDisconnect
    <2>1. /\ inbox # <<>> /\ Head(inbox).type # "input" /\ inbox' = Tail(inbox)
          /\ UNCHANGED <<inputCh, down>>
        BY <1>4 DEF ReadsAgentConnected, ReadsDisconnect, NextMsg, TakesMsg, injectVars
    <2> QED BY <1>1, <2>1, ReadsNoEvent
<1>5. CASE Dials \/ Leaves
    BY <1>5 DEF Dials, Leaves
<1>6. CASE \/ ConnectStep /\ ~ Leaves
           \/ ReadFails \/ InjectorStops \/ UserStep
    <2>1. UNCHANGED <<inputCh, inbox, down>>
        BY <1>6
        DEF ConnectStep, Prompts, StopsWaiting, TakesYes, TakesNo, Refuses, SendsGrant,
            GrantFails, Activates, Indicates, StartsLoops, Stops, Deactivates,
            StopsIndicating, GivesUp, WritesConsent, ReadFails, InjectorStops, UserStep,
            Quits, AnswersYes, AnswersNo, injectVars, netVars
    <2> QED BY <2>1 DEF Outcome
<1> QED BY <1>2, <1>3, <1>4, <1>5, <1>6 DEF ProgramSteps, ReadStep, InjectStep

LEMMA AgentFollows ==
    ASSUME KeptInv, KeptInv', AgentActs, enabled, ~ Losses, link = "bridge"
    PROVE  Stuck' \subseteq Stuck
<1>1. WayTypeOK /\ WayTypeOK'
    <2>1. TypeOK'
        BY DEF KeptInv
    <2>2. WayTypeOK'
        BY <2>1 DEF TypeOK, ClientTypeOK, WayTypeOK
    <2> QED BY <2>2, TypeParts DEF KeptInv
<1>2. PICK events \in Seq(Event) :
          Sends(events) /\ (enabled /\ ~ Losses => Follow(events, pressed, pressed'))
    BY ActSends DEF KeptInv
<1>3. inbox' = inbox \o AsInput(events) /\ UNCHANGED <<inputCh, down>>
    BY <1>2 DEF Sends, injectVars
<1>4. Outcome' = DownAfter(AsInput(events), Outcome)
    BY <1>1, <1>3, SendsEvents
<1>5. Outcome \in SUBSET Input
    BY DownAfterType DEF Outcome
<1>6. DownAfter(AsInput(events), Outcome) \ pressed' \subseteq Outcome \ pressed
    BY <1>2, <1>5 DEF Follow
<1> QED BY <1>4, <1>6 DEF Stuck

\* While control is enabled nothing gets stuck on the machine but by one of the named
\* losses: not when the canvas loses the focus, nor by what is dropped before the
\* program has activated control (control.js:182-206, client.go:249-255).
THEOREM NothingGetsStuck == Spec => RemoteFollowsPage
<1>1. ASSUME KeptInv, KeptInv', [Next]_vars
      PROVE  [enabled /\ ~ cancelled /\ link = "bridge" /\ link' = "bridge" /\ ~ Losses
                => Stuck' \subseteq Stuck \cup leftover]_vars
    <2> SUFFICES ASSUME enabled, ~ cancelled, link = "bridge", link' = "bridge", ~ Losses
                 PROVE  Stuck' \subseteq Stuck \cup leftover
        OBVIOUS
    <2>program. CASE ProgramSteps /\ UNCHANGED <<pageVars, acts, leftover>>
        <3>1. Outcome' \subseteq Outcome \cup leftover
            BY <1>1, <2>program, ProgramFollows
        <3>2. pressed' = pressed
            BY <2>program DEF pageVars
        <3> QED BY <3>1, <3>2 DEF Stuck
    <2>agent. CASE AgentActs
        BY <1>1, <2>agent, AgentFollows
    <2>ends. CASE ServerActs \/ PageEnds
        BY <2>ends DEF ServerActs, AgentJoins, OpensBridge, ServerEnds, PageEnds
    <2>rest. CASE PageEnabled \/ Focus \/ UNCHANGED vars
        <3>1. UNCHANGED <<inputCh, inbox, down, pressed>>
            BY <2>rest DEF PageEnabled, Enabled, Focus, Focuses, vars, clientVars, pageVars,
                        injectVars, netVars
        <3> QED BY <3>1 DEF Stuck, Outcome
    <2> QED BY <1>1, <2>program, <2>agent, <2>ends, <2>rest, NextParts DEF PageMoves
<1> QED BY <1>1, KeptHolds, PTL DEF Spec, RemoteFollowsPage

================================================================================
