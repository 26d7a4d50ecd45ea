--------------------------- MODULE RelayServerProofs ---------------------------
(***************************************************************************)
(* The safety of the relay server for any number of clients, agents and    *)
(* codes; that it keeps the promise of SessionLinks, every step of it      *)
(* moving one connection from one stage to the next, or none; and that its *)
(* audit log says of a session what is so.                                 *)
(***************************************************************************)
EXTENDS AuditTrail, TLAPS

--------------------------------------------------------------------------------
(* Types *)

LEMMA TypeInit == Init => TypeOK
<1> SUFFICES ASSUME Init PROVE TypeOK
    OBVIOUS
<1>1. StoreTypeOK
    BY DEF Init, StoreInit, StoreTypeOK
<1>2. clientPC \in [Client -> ClientPC] /\ agentPC \in [Agent -> AgentPC]
    BY DEF Init, ClientPC, AgentPC
<1>3. conn \in [Peer -> {"none", "open", "closed"}]
    BY DEF Init
<1>4. reply \in [Client -> Reply]
    BY DEF Init, Reply
<1> QED BY <1>1, <1>2, <1>3, <1>4 DEF Init, TypeOK

LEMMA StoreTypeStep ==
    ASSUME StoreTypeOK,
           \/ \E s \in Client : Create(s)
           \/ \E k \in Code, a \in Agent : Join(k, a)
           \/ \E k \in Code \cup {None} : Remove(k)
           \/ ExpireOnce
           \/ TTLPasses
           \/ UNCHANGED storeVars
    PROVE  StoreTypeOK'
<1> USE DEF StoreTypeOK
<1>1. ASSUME NEW s \in Client, Create(s) PROVE StoreTypeOK'
    BY <1>1 DEF Create
<1>2. ASSUME NEW k \in Code, NEW a \in Agent, Join(k, a) PROVE StoreTypeOK'
    BY <1>2, StoreAssumption DEF Join, Joinable
<1>3. ASSUME NEW k \in Code \cup {None}, Remove(k) PROVE StoreTypeOK'
    BY <1>3 DEF Remove
<1>4. CASE ExpireOnce
    BY <1>4 DEF ExpireOnce
<1>5. CASE TTLPasses
    BY <1>5 DEF TTLPasses, Registered
<1>6. CASE UNCHANGED storeVars
    BY <1>6 DEF storeVars
<1> QED BY <1>1, <1>2, <1>3, <1>4, <1>5, <1>6

\* The three kinds of move: of a client's goroutine, of an agent's, of the rest.
LEMMA TypeClientStep ==
    ASSUME TypeOK, NEW c \in Client, ClientStep(c) \/ ClientReplies(c)
    PROVE  TypeOK'
<1> USE DEF TypeOK, ClientGoesTo, ClientPC, agentVars, userVars
<1>1. StoreTypeOK'
    <2>1. code[c] \in Code \cup {None}
        BY DEF StoreTypeOK
    <2> QED
        BY <2>1, StoreTypeStep
        DEF ClientStep, ClientConnects, ClientTurnedAway, Registers, RegisterFails,
            MonitorSeesJoin, MonitorTicks, ProbeStarts, ProbeSucceeds, ProbeFails,
            MonitorRemoves, MonitorCloses, ClientReplies, storeVars
<1>2. CASE ClientConnects(c)
    BY <1>1, <1>2 DEF ClientConnects, Peer
<1>3. CASE ClientTurnedAway(c)
    BY <1>1, <1>3 DEF ClientTurnedAway, Peer
<1>4. CASE Registers(c) \/ RegisterFails(c) \/ MonitorSeesJoin(c) \/ MonitorTicks(c)
    BY <1>1, <1>4 DEF Registers, RegisterFails, MonitorSeesJoin, MonitorTicks
<1>5. CASE ProbeStarts(c) \/ ProbeSucceeds(c) \/ ProbeFails(c) \/ MonitorRemoves(c)
    BY <1>1, <1>5
    DEF ProbeStarts, ProbeGoesOn, ProbeSucceeds, MonitorGoesOn, ProbeFails,
        MonitorRemoves
<1>6. CASE MonitorCloses(c)
    BY <1>1, <1>6 DEF MonitorCloses, Close
<1>7. CASE ClientReplies(c)
    BY <1>1, <1>7 DEF ClientReplies, Reply
<1> QED BY <1>2, <1>3, <1>4, <1>5, <1>6, <1>7 DEF ClientStep

LEMMA TypeAgentStep ==
    ASSUME TypeOK, NEW a \in Agent, AgentStep(a),
           agentPC[a] = "idle" \/ session[a] # None \/ agentPC[a] = "done"
    PROVE  TypeOK'
<1> USE DEF TypeOK, AgentGoesTo, AgentPC, agentVars, userVars
<1>1. StoreTypeOK'
    <2>1. session[a] \in Client => code[session[a]] \in Code \cup {None}
        BY DEF StoreTypeOK
    <2> QED
        BY <2>1, StoreTypeStep
        DEF AgentStep, AgentJoins, AgentRefused, SaysJoined, SayJoinedFails,
            AwaitsProbe, Notifies, NotifyFails, ReadsConsent, ConsentError,
            ConsentTimeout, GrantsAgent, EndsUnapproved, HangsUp, Relays,
            BridgeLosesPeer, BridgeOverLimit, BridgeCloses, BridgeFrees, GiveUp,
            storeVars
<1>2. CASE AgentJoins(a)
    <2>1. PICK k \in Code : Join(k, a) /\ session' = [session EXCEPT ![a] = sessions[k]]
        BY <1>2 DEF AgentJoins
    <2>2. sessions[k] \in Client
        BY <2>1 DEF Join, Joinable, StoreTypeOK
    <2> QED BY <1>1, <1>2, <2>1, <2>2 DEF AgentJoins, Peer
<1>3. CASE AgentRefused(a)
    BY <1>1, <1>3 DEF AgentRefused, Peer
<1>4. CASE SaysJoined(a) \/ AwaitsProbe(a) \/ GrantsAgent(a) \/ Relays(a)
           \/ BridgeLosesPeer(a) \/ BridgeOverLimit(a) \/ BridgeFrees(a)
    BY <1>1, <1>4
    DEF SaysJoined, AwaitsProbe, GrantsAgent, Relays, BridgeLosesPeer,
        BridgeOverLimit, BridgeFrees
<1>5. CASE SayJoinedFails(a) \/ NotifyFails(a) \/ ConsentError(a)
           \/ ConsentTimeout(a) \/ EndsUnapproved(a)
    BY <1>1, <1>5
    DEF SayJoinedFails, NotifyFails, ConsentError, ConsentTimeout, EndsUnapproved,
        GiveUp
<1>6. CASE Notifies(a)
    BY <1>1, <1>6 DEF Notifies
<1>7. CASE ReadsConsent(a)
    BY <1>1, <1>7 DEF ReadsConsent, Verdict, Reply
<1>8. CASE HangsUp(a) \/ BridgeCloses(a)
    BY <1>1, <1>8 DEF HangsUp, BridgeCloses, Close
<1> QED BY <1>2, <1>3, <1>4, <1>5, <1>6, <1>7, <1>8 DEF AgentStep

LEMMA TypeOtherStep ==
    ASSUME TypeOK,
           \/ \E p \in Peer : PeerVanishes(p) \/ ExpiredCloses(p)
           \/ Expires
           \/ TimePasses
           \/ UNCHANGED vars
    PROVE  TypeOK'
<1> USE DEF TypeOK, agentVars, userVars
<1>1. StoreTypeOK'
    BY StoreTypeStep
    DEF PeerVanishes, ExpiredCloses, Expires, TimePasses, vars, storeVars
<1>2. ASSUME NEW p \in Peer, PeerVanishes(p) PROVE TypeOK'
    BY <1>1, <1>2 DEF PeerVanishes
<1>3. ASSUME NEW p \in Peer, ExpiredCloses(p) PROVE TypeOK'
    BY <1>1, <1>3 DEF ExpiredCloses, Close
<1>4. CASE Expires
    <2>1. ConnsOf(overdue) \subseteq Peer
        BY StoreAssumption DEF ConnsOf, Joined, Peer, StoreTypeOK
    <2> QED BY <1>1, <1>4, <2>1 DEF Expires
<1>5. CASE TimePasses
    BY <1>1, <1>5 DEF TimePasses
<1>6. CASE UNCHANGED vars
    BY <1>1, <1>6 DEF vars
<1> QED BY <1>2, <1>3, <1>4, <1>5, <1>6

--------------------------------------------------------------------------------
(* Which step moves what *)

\* All the steps, by who takes them.
LEMMA StepCases ==
    ASSUME [Next]_vars
    PROVE  \/ \E c \in Client : ClientStep(c) \/ ClientReplies(c)
           \/ \E a \in Agent : AgentStep(a)
           \/ \E p \in Peer : PeerVanishes(p) \/ ExpiredCloses(p)
           \/ Expires
           \/ TimePasses
           \/ UNCHANGED vars
BY DEF Next, Quiet

\* A step that is not of an agent's goroutine leaves all of them alone.
LEMMA NoAgentStep ==
    ASSUME [Next]_vars, \A a \in Agent : ~ AgentStep(a)
    PROVE  UNCHANGED <<agentPC, session, relayed, agent>>
<1>1. ASSUME NEW c \in Client, ClientStep(c) \/ ClientReplies(c)
      PROVE  UNCHANGED <<agentPC, session, relayed, agent>>
    BY <1>1
    DEF ClientStep, ClientConnects, ClientTurnedAway, Registers, RegisterFails,
        MonitorSeesJoin, MonitorTicks, ProbeStarts, ProbeSucceeds, ProbeFails,
        MonitorRemoves, MonitorCloses, ClientReplies, Create, Remove, storeVars,
        agentVars
<1>2. ASSUME NEW p \in Peer, PeerVanishes(p) \/ ExpiredCloses(p)
      PROVE  UNCHANGED <<agentPC, session, relayed, agent>>
    BY <1>2 DEF PeerVanishes, ExpiredCloses, storeVars, agentVars
<1>3. CASE Expires \/ TimePasses
    BY <1>3 DEF Expires, ExpireOnce, TimePasses, TTLPasses, agentVars
<1>4. CASE UNCHANGED vars
    BY <1>4 DEF vars, storeVars, agentVars
<1> QED BY <1>1, <1>2, <1>3, <1>4, StepCases

\* A step of one agent's goroutine leaves the others alone, and AgentJoins apart
\* every step keeps the sessions as they are joined.
LEMMA AgentStepFrame ==
    ASSUME TypeOK, NEW a \in Agent, AgentStep(a)
    PROVE  /\ \A b \in Agent \ {a} : /\ agentPC'[b] = agentPC[b]
                                    /\ session'[b] = session[b]
           /\ AgentJoins(a) \/ UNCHANGED <<session, agent>>
           /\ UNCHANGED clientPC
<1> USE DEF TypeOK, AgentGoesTo, agentVars, userVars, storeVars
<1>1. CASE AgentJoins(a)
    BY <1>1 DEF AgentJoins
<1>2. CASE AgentRefused(a) \/ SaysJoined(a) \/ AwaitsProbe(a) \/ Notifies(a)
           \/ ReadsConsent(a) \/ GrantsAgent(a)
    BY <1>2 DEF AgentRefused, SaysJoined, AwaitsProbe, Notifies, ReadsConsent,
                GrantsAgent
<1>3. CASE SayJoinedFails(a) \/ NotifyFails(a) \/ ConsentError(a)
           \/ ConsentTimeout(a) \/ EndsUnapproved(a)
    BY <1>3 DEF SayJoinedFails, NotifyFails, ConsentError, ConsentTimeout,
                EndsUnapproved, GiveUp, Remove
<1>4. CASE HangsUp(a) \/ Relays(a) \/ BridgeLosesPeer(a) \/ BridgeOverLimit(a)
           \/ BridgeCloses(a) \/ BridgeFrees(a)
    BY <1>4 DEF HangsUp, Relays, BridgeLosesPeer, BridgeOverLimit, BridgeCloses,
                BridgeFrees, Remove
<1> QED BY <1>1, <1>2, <1>3, <1>4 DEF AgentStep

--------------------------------------------------------------------------------
(* Sessions and agents are linked one to one *)

Linked ==
    \A a \in Agent :
        /\ agentPC[a] = "idle" => session[a] = None
        /\ agentPC[a] \notin {"idle", "done"} => session[a] # None
        /\ session[a] # None => agent[session[a]] = a

\* What AgentJoins does to the link.
LEMMA JoinLinks ==
    ASSUME TypeOK, NEW a \in Agent, AgentJoins(a)
    PROVE  \E s \in Client :
              /\ s \in Registered
              /\ agent[s] = None
              /\ session' = [session EXCEPT ![a] = s]
              /\ agent' = [agent EXCEPT ![s] = a]
<1>1. PICK k \in Code : Join(k, a) /\ session' = [session EXCEPT ![a] = sessions[k]]
    BY DEF AgentJoins
<1>2. sessions[k] \in Client /\ agent[sessions[k]] = None
    BY <1>1 DEF Join, Joinable, Joined, TypeOK, StoreTypeOK
<1> QED BY <1>1, <1>2 DEF Join, Registered

LEMMA LinkedInit == Init => Linked
BY DEF Init, Linked

LEMMA LinkedStep == TypeOK /\ Linked /\ [Next]_vars => Linked'
<1> SUFFICES ASSUME TypeOK, Linked, [Next]_vars PROVE Linked'
    OBVIOUS
<1>1. CASE \A a \in Agent : ~ AgentStep(a)
    BY <1>1, NoAgentStep DEF Linked
<1>2. ASSUME NEW a \in Agent, AgentStep(a) PROVE Linked'
    <2>1. CASE AgentJoins(a)
        <3>1. PICK s \in Client :
                  /\ agent[s] = None
                  /\ session' = [session EXCEPT ![a] = s]
                  /\ agent' = [agent EXCEPT ![s] = a]
            BY <2>1, JoinLinks
        <3>2. agentPC' = [agentPC EXCEPT ![a] = "joined"]
            BY <2>1 DEF AgentJoins, AgentGoesTo
        <3> QED BY <3>1, <3>2, StoreAssumption
                DEF Linked, TypeOK, StoreTypeOK
    <2>2. CASE ~ AgentJoins(a)
        <3>1. UNCHANGED <<session, agent>>
            BY <1>2, <2>2, AgentStepFrame
        <3>2. /\ agentPC'[a] = "done" \/ session[a] # None
              /\ agentPC'[a] # "idle"
            BY <1>2, <2>2 DEF AgentStep, AgentRefused, SaysJoined, SayJoinedFails,
                AwaitsProbe, Notifies, NotifyFails, ReadsConsent, ConsentError,
                ConsentTimeout, GrantsAgent, EndsUnapproved, HangsUp, Relays,
                BridgeLosesPeer, BridgeOverLimit, BridgeCloses, BridgeFrees, GiveUp,
                AgentGoesTo, Verdict, Linked, TypeOK
        <3> QED BY <1>2, <3>1, <3>2, AgentStepFrame DEF Linked
    <2> QED BY <2>1, <2>2
<1> QED BY <1>1, <1>2

LEMMA TypeStep == TypeOK /\ Linked /\ [Next]_vars => TypeOK'
<1> SUFFICES ASSUME TypeOK, Linked, [Next]_vars PROVE TypeOK'
    OBVIOUS
<1> QED BY StepCases, TypeClientStep, TypeAgentStep, TypeOtherStep DEF Linked

\* The state of the server is well typed: in particular no goroutine of an agent
\* uses a session it has not joined (main.go:258-322).
THEOREM TypeCorrect == Spec => []TypeOK
BY TypeInit, LinkedInit, TypeStep, LinkedStep, PTL DEF Spec

\* A code is single-use (session.go:79-92).
THEOREM CodesAreSingleUse == Spec => []OneAgentPerSession
<1>1. Linked => OneAgentPerSession
    BY DEF Linked, OneAgentPerSession
<1> QED BY <1>1, TypeInit, LinkedInit, TypeStep, LinkedStep, PTL DEF Spec

--------------------------------------------------------------------------------
(* The probe mutex *)

\* ProbeExcludesRelay is inductive with Linked: the handshake passes the mutex
\* only between two pings, and a ping starts only on a session not joined.

\* How the control of an agent's goroutine may come to use the connection.
LEMMA EntersHandshake ==
    ASSUME TypeOK, NEW a \in Agent, AgentStep(a), agentPC'[a] \in InHandshake
    PROVE  \/ agentPC[a] \in InHandshake
           \/ agentPC[a] = "await_probe" /\ clientPC[session[a]] # "probing"
<1> USE DEF TypeOK, AgentGoesTo, InHandshake
<1>1. CASE AgentJoins(a) \/ AgentRefused(a) \/ SaysJoined(a) \/ HangsUp(a)
           \/ BridgeLosesPeer(a) \/ BridgeOverLimit(a) \/ BridgeCloses(a)
           \/ BridgeFrees(a)
    BY <1>1 DEF AgentJoins, AgentRefused, SaysJoined, HangsUp, BridgeLosesPeer,
                BridgeOverLimit, BridgeCloses, BridgeFrees
<1>2. CASE AwaitsProbe(a)
    BY <1>2 DEF AwaitsProbe, NoProbe
<1>3. CASE Notifies(a) \/ ReadsConsent(a) \/ GrantsAgent(a) \/ Relays(a)
    BY <1>3 DEF Notifies, ReadsConsent, GrantsAgent, Relays
<1>4. CASE SayJoinedFails(a) \/ NotifyFails(a) \/ ConsentError(a)
           \/ ConsentTimeout(a) \/ EndsUnapproved(a)
    BY <1>4 DEF SayJoinedFails, NotifyFails, ConsentError, ConsentTimeout,
                EndsUnapproved, GiveUp
<1> QED BY <1>1, <1>2, <1>3, <1>4 DEF AgentStep

\* A ping begins only while no agent has joined.
LEMMA ProbesPendingOnly ==
    ASSUME TypeOK, [Next]_vars, NEW c \in Client, clientPC'[c] = "probing"
    PROVE  clientPC[c] = "probing" \/ agent[c] = None
<1> USE DEF TypeOK, ClientGoesTo
<1>1. ASSUME NEW d \in Client, ClientStep(d) \/ ClientReplies(d)
      PROVE  clientPC[c] = "probing" \/ agent[c] = None
    BY <1>1 DEF ClientStep, ClientConnects, ClientTurnedAway, Registers,
        RegisterFails, MonitorSeesJoin, MonitorTicks, ProbeStarts, ProbeGoesOn,
        ProbeSucceeds, MonitorGoesOn, ProbeFails, MonitorRemoves, MonitorCloses,
        ClientReplies, Joined
<1>2. ASSUME NEW a \in Agent, AgentStep(a) PROVE UNCHANGED clientPC
    BY <1>2, AgentStepFrame
<1>3. ASSUME NEW p \in Peer, PeerVanishes(p) \/ ExpiredCloses(p)
      PROVE  UNCHANGED clientPC
    BY <1>3 DEF PeerVanishes, ExpiredCloses
<1>4. CASE Expires \/ TimePasses \/ UNCHANGED vars
    BY <1>4 DEF Expires, TimePasses, vars
<1> QED BY <1>1, <1>2, <1>3, <1>4, StepCases

LEMMA ProbeStep ==
    TypeOK /\ Linked /\ ProbeExcludesRelay /\ [Next]_vars => ProbeExcludesRelay'
<1> SUFFICES ASSUME TypeOK, Linked, ProbeExcludesRelay, [Next]_vars,
                    NEW a \in Agent, agentPC'[a] \in InHandshake
             PROVE  clientPC'[session'[a]] # "probing"
    BY DEF ProbeExcludesRelay, InHandshake
<1>1. CASE AgentStep(a)
    <2>1. \/ agentPC[a] \in InHandshake
          \/ agentPC[a] = "await_probe" /\ clientPC[session[a]] # "probing"
        BY <1>1, EntersHandshake
    <2>2. session'[a] = session[a]
        BY <1>1, <2>1, AgentStepFrame DEF AgentJoins, InHandshake
    <2>3. UNCHANGED clientPC
        BY <1>1, AgentStepFrame
    <2> QED BY <2>1, <2>2, <2>3 DEF ProbeExcludesRelay
<1>2. CASE ~ AgentStep(a)
    <2>1. agentPC'[a] = agentPC[a] /\ session'[a] = session[a]
        BY <1>2, NoAgentStep, AgentStepFrame
    <2>2. session[a] \in Client /\ agent[session[a]] # None
        BY <2>1, StoreAssumption DEF Linked, InHandshake, TypeOK
    <2> QED BY <2>1, <2>2, ProbesPendingOnly DEF ProbeExcludesRelay
<1> QED BY <1>1, <1>2

\* From the moment the client is told of an agent, the server never pings it on
\* the connection the handshake and the bridge use (session.go:126-144).
THEOREM ProbesExcludeTheRelay == Spec => []ProbeExcludesRelay
<1>1. Init => ProbeExcludesRelay
    BY DEF Init, ProbeExcludesRelay, InHandshake
<1> QED BY <1>1, TypeInit, LinkedInit, TypeStep, LinkedStep, ProbeStep, PTL
        DEF Spec

--------------------------------------------------------------------------------
(* Consent *)

\* The approval on its way: whoever the user is asked about, whoever a grant in
\* flight is for, and whoever the server believes approved is the one agent that
\* joined that client's session.
Approval ==
    /\ \A c \in Client :
          /\ prompt[c] # None => session[prompt[c]] = c
          /\ reply[c] = "granted" => approved[c] # None
          /\ approved[c] # None => session[approved[c]] = c
    /\ \A a \in Agent :
          agentPC[a] \in {"granted", "bridge"} \/ a \in relayed =>
              session[a] # None /\ approved[session[a]] = a

LEMMA ApprovalInit == Init => Approval
BY DEF Init, Approval

LEMMA ApprovalStep == TypeOK /\ Linked /\ Approval /\ [Next]_vars => Approval'
<1> SUFFICES ASSUME TypeOK, Linked, Approval, [Next]_vars PROVE Approval'
    OBVIOUS
<1> USE StoreAssumption DEF TypeOK, Linked, Approval, AgentGoesTo, agentVars, userVars
<1>1. ASSUME NEW c \in Client, ClientStep(c) PROVE Approval'
    BY <1>1 DEF ClientStep, ClientConnects, ClientTurnedAway, Registers,
        RegisterFails, MonitorSeesJoin, MonitorTicks, ProbeStarts, ProbeSucceeds,
        ProbeFails, MonitorRemoves, MonitorCloses
<1>2. ASSUME NEW c \in Client, ClientReplies(c) PROVE Approval'
    <2>1. /\ prompt[c] \in Agent /\ session[prompt[c]] = c
          /\ UNCHANGED <<agentPC, session, relayed>>
        BY <1>2 DEF ClientReplies
    <2>2. \A a \in Agent : session[a] = c => a = prompt[c]
        BY <2>1
    <2> QED BY <1>2, <2>1, <2>2 DEF ClientReplies
<1>3. ASSUME NEW a \in Agent, AgentJoins(a) PROVE Approval'
    <2>1. PICK s \in Client :
              agent[s] = None /\ session' = [session EXCEPT ![a] = s]
        BY <1>3, JoinLinks
    <2>2. session[a] = None
        BY <1>3 DEF AgentJoins
    <2>3. \A c \in Client : prompt[c] # a /\ approved[c] # a
        BY <2>2
    <2> QED BY <1>3, <2>1, <2>2, <2>3 DEF AgentJoins
<1>4. ASSUME NEW a \in Agent, Notifies(a) PROVE Approval'
    BY <1>4 DEF Notifies
<1>5. ASSUME NEW a \in Agent, ReadsConsent(a) PROVE Approval'
    <2>paired. session[a] \in Client
        BY <1>5 DEF ReadsConsent
    <2>approved. reply[session[a]] = "granted" => approved[session[a]] = a
        BY <2>paired
    <2>reads. /\ agentPC' = [agentPC EXCEPT ![a] = reply[session[a]]]
              /\ reply' = [reply EXCEPT ![session[a]] = "none"]
              /\ UNCHANGED <<session, relayed, prompt, approved>>
        BY <1>5 DEF ReadsConsent, Verdict
    <2>answers. \A c \in Client : reply'[c] = "granted" => reply[c] = "granted"
        BY <2>paired, <2>reads
    <2>others. \A b \in Agent : agentPC'[b] = agentPC[b] \/ b = a
        BY <2>reads
    <2>moved. agentPC'[a] = reply[session[a]]
        BY <2>reads
    <2>linked. ASSUME NEW b \in Agent,
                      agentPC'[b] \in {"granted", "bridge"} \/ b \in relayed'
               PROVE  session'[b] # None /\ approved'[session'[b]] = b
        <3>1. CASE agentPC'[b] = agentPC[b]
            BY <2>reads, <2>linked, <3>1
        <3>2. CASE b = a
            <4>1. reply[session[a]] # "bridge"
                BY <2>paired DEF Reply
            <4> QED BY <2>paired, <2>approved, <2>reads, <2>moved, <2>linked, <3>2, <4>1
        <3> QED BY <2>others, <3>1, <3>2
    <2> QED BY <2>reads, <2>answers, <2>linked
<1>6. ASSUME NEW a \in Agent,
             AgentRefused(a) \/ SaysJoined(a) \/ AwaitsProbe(a) \/ GrantsAgent(a)
             \/ HangsUp(a) \/ Relays(a) \/ BridgeLosesPeer(a) \/ BridgeOverLimit(a)
             \/ BridgeCloses(a) \/ BridgeFrees(a)
      PROVE  Approval'
    BY <1>6 DEF AgentRefused, SaysJoined, AwaitsProbe, GrantsAgent, HangsUp, Relays,
        BridgeLosesPeer, BridgeOverLimit, BridgeCloses, BridgeFrees
<1>7. ASSUME NEW a \in Agent,
             SayJoinedFails(a) \/ NotifyFails(a) \/ ConsentError(a)
             \/ ConsentTimeout(a) \/ EndsUnapproved(a)
      PROVE  Approval'
    BY <1>7 DEF SayJoinedFails, NotifyFails, ConsentError, ConsentTimeout,
        EndsUnapproved, GiveUp
<1>8. ASSUME NEW p \in Peer, PeerVanishes(p) \/ ExpiredCloses(p) PROVE Approval'
    BY <1>8 DEF PeerVanishes, ExpiredCloses
<1>9. CASE Expires \/ TimePasses \/ UNCHANGED vars
    BY <1>9 DEF Expires, TimePasses, vars
<1> QED BY <1>1, <1>2, <1>3, <1>4, <1>5, <1>6, <1>7, <1>8, <1>9, StepCases
        DEF AgentStep

\* The consent gate (main.go:286-313, 325-346): nothing is relayed between a
\* client and an agent its user did not approve.
THEOREM ApprovalGatesTheRelay == Spec => []ApprovedBeforeRelay
<1>1. Approval => ApprovedBeforeRelay
    BY DEF Approval, ApprovedBeforeRelay
<1> QED BY <1>1, TypeInit, LinkedInit, ApprovalInit, TypeStep, LinkedStep,
           ApprovalStep, PTL DEF Spec

--------------------------------------------------------------------------------
(* The registry *)

\* The critical sections of the store, and who enters them.
LEMMA StoreCases ==
    ASSUME [Next]_vars
    PROVE  \/ \E c \in Client : ClientConnects(c) /\ Create(c)
           \/ \E a \in Agent, k \in Code : AgentJoins(a) /\ Join(k, a)
           \/ \E c \in Client : clientPC[c] \in {"registering", "lost"} /\ Remove(code[c])
           \/ \E a \in Agent :
                 agentPC[a] \notin {"idle", "done"} /\ Remove(code[session[a]])
           \/ ExpireOnce
           \/ TTLPasses
           \/ UNCHANGED storeVars
<1>1. ASSUME NEW c \in Client, ClientStep(c) \/ ClientReplies(c)
      PROVE  \/ ClientConnects(c) /\ Create(c)
             \/ clientPC[c] \in {"registering", "lost"} /\ Remove(code[c])
             \/ UNCHANGED storeVars
    BY <1>1
    DEF ClientStep, ClientConnects, ClientTurnedAway, Registers, RegisterFails,
        MonitorSeesJoin, MonitorTicks, ProbeStarts, ProbeSucceeds, ProbeFails,
        MonitorRemoves, MonitorCloses, ClientReplies
<1>2. ASSUME NEW a \in Agent, AgentStep(a)
      PROVE  \/ \E k \in Code : AgentJoins(a) /\ Join(k, a)
             \/ agentPC[a] \notin {"idle", "done"} /\ Remove(code[session[a]])
             \/ UNCHANGED storeVars
    BY <1>2
    DEF AgentStep, AgentJoins, AgentRefused, SaysJoined, SayJoinedFails, AwaitsProbe,
        Notifies, NotifyFails, ReadsConsent, ConsentError, ConsentTimeout,
        GrantsAgent, EndsUnapproved, HangsUp, Relays, BridgeLosesPeer,
        BridgeOverLimit, BridgeCloses, BridgeFrees, GiveUp
<1>3. ASSUME NEW p \in Peer, PeerVanishes(p) \/ ExpiredCloses(p)
      PROVE  UNCHANGED storeVars
    BY <1>3 DEF PeerVanishes, ExpiredCloses
<1>4. CASE Expires \/ TimePasses \/ UNCHANGED vars
    BY <1>4 DEF Expires, TimePasses, vars
<1> QED BY <1>1, <1>2, <1>3, <1>4, StepCases

\* Sessions have the code they are registered under.
StoreCoded ==
    /\ RegistryConsistent
    /\ overdue \subseteq Registered

Coded ==
    /\ StoreCoded
    /\ \A c \in Client : clientPC[c] = "off" => code[c] = None
    /\ \A a \in Agent : session[a] # None => code[session[a]] # None

LEMMA CodedInit == Init => Coded
BY DEF Init, StoreInit, Coded, StoreCoded, RegistryConsistent, Registered

\* Remove of a session's own code takes exactly that session out of a registry
\* whose codes are distinct.
LEMMA RemoveOwn ==
    ASSUME TypeOK, RegistryConsistent, NEW s \in Client, Remove(code[s])
    PROVE  /\ s \notin Registered'
           /\ \A d \in Registered : code[d] # code[s] => d \in Registered'
           /\ Registered' \subseteq Registered
BY StoreAssumption DEF TypeOK, StoreTypeOK, RegistryConsistent, Remove, Registered

\* Only ClientConnects gives codes, and only the goroutine of a client leaves
\* "off".
LEMMA CodesStay ==
    ASSUME TypeOK, [Next]_vars, NEW c \in Client, ~ ClientConnects(c)
    PROVE  code'[c] = code[c] /\ (clientPC'[c] = "off" => clientPC[c] = "off")
<1>1. code'[c] = code[c]
    <2>1. ASSUME NEW d \in Client, ClientConnects(d), Create(d)
          PROVE  code'[c] = code[c]
        BY <2>1 DEF Create, TypeOK, StoreTypeOK
    <2> QED BY <2>1, StoreCases DEF Join, Remove, ExpireOnce, TTLPasses, storeVars
<1>2. clientPC'[c] = "off" => clientPC[c] = "off"
    <2> USE DEF TypeOK, ClientGoesTo
    <2>client. ASSUME NEW d \in Client, ClientStep(d) \/ ClientReplies(d)
               PROVE  clientPC'[c] = "off" => clientPC[c] = "off"
        BY <2>client DEF ClientStep, ClientConnects, ClientTurnedAway, Registers,
            RegisterFails, MonitorSeesJoin, MonitorTicks, ProbeStarts, ProbeGoesOn,
            ProbeSucceeds, MonitorGoesOn, ProbeFails, MonitorRemoves, MonitorCloses,
            ClientReplies
    <2>agent. ASSUME NEW a \in Agent, AgentStep(a) PROVE UNCHANGED clientPC
        BY <2>agent, AgentStepFrame
    <2>peer. ASSUME NEW p \in Peer, PeerVanishes(p) \/ ExpiredCloses(p)
             PROVE  UNCHANGED clientPC
        BY <2>peer DEF PeerVanishes, ExpiredCloses
    <2>rest. CASE Expires \/ TimePasses \/ UNCHANGED vars
        BY <2>rest DEF Expires, TimePasses, vars
    <2> QED BY <2>client, <2>agent, <2>peer, <2>rest, StepCases
<1> QED BY <1>1, <1>2

LEMMA CodedStep == TypeOK /\ Linked /\ Coded /\ [Next]_vars => Coded'
<1> SUFFICES ASSUME TypeOK, Linked, Coded, [Next]_vars PROVE Coded'
    OBVIOUS
<1> USE StoreAssumption
    DEF TypeOK, StoreTypeOK, Coded, StoreCoded, RegistryConsistent, Registered, Unused
<1>1. StoreCoded'
    <2>create. ASSUME NEW c \in Client, Create(c) PROVE StoreCoded'
        BY <2>create DEF Create
    <2>join. ASSUME NEW k \in Code, NEW a \in Agent, Join(k, a) PROVE StoreCoded'
        BY <2>join DEF Join, Joinable
    <2>remove. ASSUME NEW c \in Client, Remove(code[c]) PROVE StoreCoded'
        BY <2>remove DEF Remove
    <2>expire. CASE ExpireOnce
        BY <2>expire DEF ExpireOnce
    <2>passes. CASE TTLPasses
        BY <2>passes DEF TTLPasses
    <2>still. CASE UNCHANGED storeVars
        BY <2>still DEF storeVars
    <2> QED
        BY <2>create, <2>join, <2>remove, <2>expire, <2>passes, <2>still, StoreCases
        DEF Linked
<1>2. ASSUME NEW c \in Client, clientPC'[c] = "off" PROVE code'[c] = None
    <2>1. ~ ClientConnects(c)
        BY <1>2 DEF ClientConnects, ClientGoesTo
    <2> QED BY <1>2, <2>1, CodesStay
<1>3. ASSUME NEW a \in Agent, session'[a] # None PROVE code'[session'[a]] # None
    <2>1. CASE AgentJoins(a)
        <3>1. PICK s \in Client : s \in Registered /\ session' = [session EXCEPT ![a] = s]
            BY <2>1, JoinLinks
        <3>2. code' = code
            BY <2>1 DEF AgentJoins, Join
        <3> QED BY <3>1, <3>2
    <2>2. CASE ~ AgentJoins(a)
        <3>1. session'[a] = session[a]
            BY <2>2, NoAgentStep, AgentStepFrame
        <3>2. session[a] \in Client /\ code[session[a]] # None
            BY <1>3, <3>1
        <3>3. ~ ClientConnects(session[a])
            BY <3>2 DEF ClientConnects
        <3> QED BY <3>1, <3>2, <3>3, CodesStay
    <2> QED BY <2>1, <2>2
<1> QED BY <1>1, <1>2, <1>3

\* A session out of the registry never returns to it.
LEMMA RemovedForGood ==
    ASSUME TypeOK, Coded, [Next]_vars, NEW s \in Client, code[s] # None,
           s \notin Registered
    PROVE  s \notin Registered'
<1> USE DEF TypeOK, StoreTypeOK, Registered
<1>1. ASSUME NEW c \in Client, Create(c) PROVE s \notin Registered'
    BY <1>1 DEF Create
<1>2. CASE \E k \in Code, a \in Agent : Join(k, a)
    BY <1>2 DEF Join
<1>3. CASE \E k \in Code \cup {None} : Remove(k)
    BY <1>3, StoreAssumption DEF Remove
<1>4. CASE ExpireOnce \/ TTLPasses \/ UNCHANGED storeVars
    BY <1>4, StoreAssumption DEF ExpireOnce, TTLPasses, storeVars
<1>5. ASSUME NEW c \in Client, Remove(code[c]) PROVE s \notin Registered'
    BY <1>3, <1>5
<1>6. ASSUME NEW a \in Agent, Remove(code[session[a]]) PROVE s \notin Registered'
    BY <1>6, StoreAssumption DEF Remove
<1> QED BY <1>1, <1>2, <1>4, <1>5, <1>6, StoreCases

\* A closed connection is never reopened.
LEMMA ClosedForGood ==
    ASSUME TypeOK, [Next]_vars, NEW p \in Peer, conn[p] = "closed",
           p \in Client => clientPC[p] # "off",
           p \in Agent => agentPC[p] # "idle"
    PROVE  conn'[p] = "closed"
<1> USE DEF TypeOK, Close, Peer
<1>1. ASSUME NEW c \in Client, ClientStep(c) \/ ClientReplies(c)
      PROVE  conn'[p] = "closed"
    BY <1>1, StoreAssumption
    DEF ClientStep, ClientConnects, ClientTurnedAway, Registers, RegisterFails,
        MonitorSeesJoin, MonitorTicks, ProbeStarts, ProbeSucceeds, ProbeFails,
        MonitorRemoves, MonitorCloses, ClientReplies
<1>2. ASSUME NEW a \in Agent, AgentStep(a) PROVE conn'[p] = "closed"
    BY <1>2, StoreAssumption
    DEF AgentStep, AgentJoins, AgentRefused, SaysJoined, SayJoinedFails, AwaitsProbe,
        Notifies, NotifyFails, ReadsConsent, ConsentError, ConsentTimeout,
        GrantsAgent, EndsUnapproved, HangsUp, Relays, BridgeLosesPeer,
        BridgeOverLimit, BridgeCloses, BridgeFrees, GiveUp
<1>3. ASSUME NEW q \in Peer, PeerVanishes(q) \/ ExpiredCloses(q)
      PROVE  conn'[p] = "closed"
    BY <1>3 DEF PeerVanishes, ExpiredCloses
<1>4. CASE Expires \/ TimePasses \/ UNCHANGED vars
    BY <1>4 DEF Expires, TimePasses, vars
<1> QED BY <1>1, <1>2, <1>3, <1>4, StepCases

--------------------------------------------------------------------------------
(* Both ways out of a session leave nothing behind *)

\* A session given up frees its code first and closes second; a bridge the other
\* way round.
Tidy ==
    \A a \in Agent :
        session[a] # None =>
            /\ agentPC[a] \in {"hangup", "done"} => session[a] \notin Registered
            /\ agentPC[a] \in {"freeing", "done"} =>
                   conn[a] = "closed" /\ conn[session[a]] = "closed"

\* The last steps of an agent's goroutine.
LEMMA LastSteps ==
    ASSUME TypeOK, Linked, Coded, NEW a \in Agent, AgentStep(a), ~ AgentJoins(a),
           session[a] # None
    PROVE  /\ agentPC'[a] = "hangup" => session[a] \notin Registered'
           /\ agentPC'[a] = "freeing" =>
                 conn'[a] = "closed" /\ conn'[session[a]] = "closed"
           /\ agentPC'[a] = "done" =>
                 \/ agentPC[a] = "hangup" /\ conn'[a] = "closed"
                       /\ conn'[session[a]] = "closed"
                 \/ agentPC[a] = "freeing" /\ session[a] \notin Registered'
<1>1. session[a] \in Client /\ session[a] \in Peer /\ a \in Peer
    BY DEF TypeOK, Peer
<1>2. Remove(code[session[a]]) => session[a] \notin Registered'
    BY <1>1, RemoveOwn DEF Coded, StoreCoded
<1> USE DEF TypeOK, AgentGoesTo
<1>3. CASE AgentRefused(a)
    BY <1>3 DEF AgentRefused, Linked
<1>4. CASE SaysJoined(a) \/ AwaitsProbe(a) \/ Notifies(a) \/ GrantsAgent(a)
           \/ Relays(a) \/ BridgeLosesPeer(a) \/ BridgeOverLimit(a)
    BY <1>4 DEF SaysJoined, AwaitsProbe, Notifies, GrantsAgent, Relays,
                BridgeLosesPeer, BridgeOverLimit
<1>5. CASE ReadsConsent(a)
    BY <1>5 DEF ReadsConsent, Verdict
<1>6. CASE SayJoinedFails(a) \/ NotifyFails(a) \/ ConsentError(a)
           \/ ConsentTimeout(a) \/ EndsUnapproved(a)
    BY <1>2, <1>6 DEF SayJoinedFails, NotifyFails, ConsentError, ConsentTimeout,
                      EndsUnapproved, GiveUp
<1>7. CASE HangsUp(a)
    BY <1>1, <1>7 DEF HangsUp, Close
<1>8. CASE BridgeCloses(a)
    BY <1>1, <1>8 DEF BridgeCloses, BridgeEnds, Close
<1>9. CASE BridgeFrees(a)
    BY <1>2, <1>9 DEF BridgeFrees
<1> QED BY <1>3, <1>4, <1>5, <1>6, <1>7, <1>8, <1>9 DEF AgentStep

LEMMA TidyStep == TypeOK /\ Linked /\ Coded /\ Tidy /\ [Next]_vars => Tidy'
<1> SUFFICES ASSUME TypeOK, Linked, Coded, Tidy, [Next]_vars,
                    NEW a \in Agent, session'[a] # None
             PROVE  /\ agentPC'[a] \in {"hangup", "done"} =>
                          session'[a] \notin Registered'
                    /\ agentPC'[a] \in {"freeing", "done"} =>
                          conn'[a] = "closed" /\ conn'[session'[a]] = "closed"
    BY DEF Tidy
<1>1. CASE AgentJoins(a)
    BY <1>1 DEF AgentJoins, AgentGoesTo, TypeOK
<1>2. CASE ~ AgentJoins(a)
    <2>1. session'[a] = session[a] /\ session[a] \in Client /\ agentPC[a] # "idle"
        BY <1>2, NoAgentStep, AgentStepFrame DEF Linked, TypeOK
    <2>2. code[session[a]] # None /\ clientPC[session[a]] # "off"
        BY <2>1 DEF Coded
    <2>3. session[a] \notin Registered => session[a] \notin Registered'
        BY <2>1, <2>2, RemovedForGood
    <2>4. conn[a] = "closed" /\ conn[session[a]] = "closed" =>
              conn'[a] = "closed" /\ conn'[session[a]] = "closed"
        BY <2>1, <2>2, ClosedForGood, StoreAssumption DEF Peer
    <2>5. CASE AgentStep(a)
        BY <1>2, <2>1, <2>3, <2>4, <2>5, LastSteps DEF Tidy
    <2>6. CASE ~ AgentStep(a)
        BY <2>1, <2>3, <2>4, <2>6, NoAgentStep, AgentStepFrame DEF Tidy
    <2> QED BY <2>5, <2>6
<1> QED BY <1>1, <1>2

\* However a joined session ends - the agent or the client lost, consent denied,
\* late or malformed, a bridge torn down - its code is free and both ends are
\* closed (main.go:276-322).
THEOREM EndsAreClean == Spec => []DoneMeansClean
<1>1. Tidy => DoneMeansClean
    BY DEF Tidy, DoneMeansClean
<1>2. Init => Tidy
    BY DEF Init, Tidy
<1> QED BY <1>1, <1>2, TypeInit, LinkedInit, CodedInit, TypeStep, LinkedStep,
           CodedStep, TidyStep, PTL DEF Spec

--------------------------------------------------------------------------------
(* Who makes an orphan of a connection *)

\* Whoever is about to close the connection of a session stays about to.
LEMMA PendingCloseStays ==
    ASSUME TypeOK, Linked, [Next]_vars, NEW c \in Client, conn'[c] = "open",
           \/ c \in closing
           \/ clientPC[c] = "removed"
           \/ \E a \in Agent : session[a] = c /\ agentPC[a] = "hangup"
    PROVE  Tracked(c)'
<1>0. c \in Peer
    BY DEF Peer
<1>1. CASE c \in closing
    <2>1. c \in closing'
        <3>1. ASSUME NEW d \in Client, ClientStep(d) \/ ClientReplies(d)
              PROVE  UNCHANGED closing
            BY <3>1 DEF ClientStep, ClientConnects, ClientTurnedAway, Registers,
                RegisterFails, MonitorSeesJoin, MonitorTicks, ProbeStarts,
                ProbeSucceeds, ProbeFails, MonitorRemoves, MonitorCloses, ClientReplies
        <3>2. ASSUME NEW a \in Agent, AgentStep(a) PROVE UNCHANGED closing
            BY <3>2 DEF AgentStep, AgentJoins, AgentRefused, SaysJoined,
                SayJoinedFails, AwaitsProbe, Notifies, NotifyFails, ReadsConsent,
                ConsentError, ConsentTimeout, GrantsAgent, EndsUnapproved, HangsUp,
                Relays, BridgeLosesPeer, BridgeOverLimit, BridgeCloses, BridgeFrees,
                GiveUp
        <3>3. ASSUME NEW p \in Peer, PeerVanishes(p) \/ ExpiredCloses(p)
              PROVE  c \in closing'
            BY <1>0, <1>1, <3>3 DEF PeerVanishes, ExpiredCloses, Close
        <3>4. CASE Expires
            <4>1. closing = {}
                BY <3>4 DEF Expires
            <4> QED BY <1>1, <4>1
        <3>5. CASE TimePasses \/ UNCHANGED vars
            BY <1>1, <3>5 DEF TimePasses, vars
        <3> QED BY <1>1, <3>1, <3>2, <3>3, <3>4, <3>5, StepCases
    <2> QED BY <2>1 DEF Tracked
<1>2. CASE clientPC[c] = "removed"
    <2>1. clientPC'[c] = "removed"
        <3>1. ASSUME NEW d \in Client, ClientStep(d) \/ ClientReplies(d)
              PROVE  clientPC'[c] = "removed"
            BY <1>0, <1>2, <3>1 DEF ClientStep, ClientConnects, ClientTurnedAway,
                Registers, RegisterFails, MonitorSeesJoin, MonitorTicks, ProbeStarts,
                ProbeSucceeds, ProbeFails, MonitorRemoves, MonitorCloses,
                ClientReplies, ClientGoesTo, Close, TypeOK
        <3>2. ASSUME NEW a \in Agent, AgentStep(a) PROVE UNCHANGED clientPC
            BY <3>2, AgentStepFrame
        <3>3. ASSUME NEW p \in Peer, PeerVanishes(p) \/ ExpiredCloses(p)
              PROVE  UNCHANGED clientPC
            BY <3>3 DEF PeerVanishes, ExpiredCloses
        <3>4. CASE Expires \/ TimePasses \/ UNCHANGED vars
            BY <1>2, <3>4 DEF Expires, TimePasses, vars
        <3> QED BY <1>2, <3>1, <3>2, <3>3, <3>4, StepCases
    <2> QED BY <2>1 DEF Tracked
<1>3. ASSUME NEW a \in Agent, session[a] = c, agentPC[a] = "hangup"
      PROVE  Tracked(c)'
    <2>1. agentPC'[a] = "hangup" /\ session'[a] = c
        <3>1. CASE AgentStep(a)
            BY <1>0, <1>3, <3>1 DEF AgentStep, AgentJoins, AgentRefused, SaysJoined,
                SayJoinedFails, AwaitsProbe, Notifies, NotifyFails, ReadsConsent,
                ConsentError, ConsentTimeout, GrantsAgent, EndsUnapproved, HangsUp,
                Relays, BridgeLosesPeer, BridgeOverLimit, BridgeCloses, BridgeFrees,
                Close, TypeOK
        <3>2. CASE ~ AgentStep(a)
            BY <1>3, <3>2, NoAgentStep, AgentStepFrame
        <3> QED BY <3>1, <3>2
    <2> QED BY <2>1 DEF Tracked
<1> QED BY <1>1, <1>2, <1>3

\* A step that removes the code of a session that is not registered.
StaleRemoval(c) ==
    \E d \in Client \ Registered : code[d] = code[c] /\ RemovesCodeOf(d)

\* A registered session whose connection is live leaves the registry only at the
\* hands of one who is going to close it, or of a stale removal.
LEMMA RegisteredStaysTracked ==
    ASSUME TypeOK, Linked, Coded, Tidy, [Next]_vars,
           NEW c \in Client, c \in Registered, conn[c] = "open", c \notin gone
    PROVE  Tracked(c)' \/ StaleRemoval(c)
<1>0. /\ code[c] # None
      /\ \A d \in Client \ {c} : code[d] = code[c] => d \notin Registered
    BY StoreAssumption
    DEF Coded, StoreCoded, RegistryConsistent, Registered, TypeOK, StoreTypeOK
<1>1. ASSUME NEW d \in Client, d # c, Remove(code[d]), RemovesCodeOf(d)
      PROVE  Tracked(c)' \/ StaleRemoval(c)
    <2>1. CASE code[d] = code[c]
        BY <1>0, <1>1, <2>1 DEF StaleRemoval
    <2>2. CASE code[d] # code[c]
        BY <1>1, <2>2, RemoveOwn DEF Coded, StoreCoded, Tracked
    <2> QED BY <2>1, <2>2
<1>2. UNCHANGED sessions => Tracked(c)'
    BY DEF Registered, Tracked
<1>3. ASSUME NEW d \in Client, ClientStep(d) \/ ClientReplies(d)
      PROVE  Tracked(c)' \/ StaleRemoval(c)
    <2>1. CASE ClientConnects(d)
        BY <2>1, StoreAssumption DEF ClientConnects, Create, Unused, Registered, Tracked, TypeOK,
            StoreTypeOK
    <2>2. CASE RegisterFails(d)
        <3>1. d # c /\ RemovesCodeOf(d)
            BY <2>2 DEF RegisterFails, Unreachable, RemovesCodeOf, ClientGoesTo, TypeOK
        <3> QED BY <1>1, <2>2, <3>1 DEF RegisterFails
    <2>3. CASE MonitorRemoves(d)
        <3>1. CASE d = c
            BY <2>3, <3>1 DEF MonitorRemoves, ClientGoesTo, Tracked, TypeOK
        <3>2. RemovesCodeOf(d)
            BY <2>3 DEF MonitorRemoves, RemovesCodeOf, ClientGoesTo, TypeOK
        <3> QED BY <1>1, <2>3, <3>1, <3>2 DEF MonitorRemoves
    <2> QED
        BY <1>2, <1>3, <2>1, <2>2, <2>3
        DEF ClientStep, ClientTurnedAway, Registers, MonitorSeesJoin, MonitorTicks,
            ProbeStarts, ProbeSucceeds, ProbeFails, MonitorCloses, ClientReplies,
            storeVars
<1>4. ASSUME NEW a \in Agent, AgentStep(a) PROVE Tracked(c)' \/ StaleRemoval(c)
    <2>1. CASE AgentJoins(a)
        BY <1>2, <2>1 DEF AgentJoins, Join
    <2>2. CASE SayJoinedFails(a) \/ NotifyFails(a) \/ ConsentError(a)
               \/ ConsentTimeout(a) \/ EndsUnapproved(a)
        <3>1. GiveUp(a) /\ session[a] \in Client /\ agentPC[a] # "hangup"
            BY <2>2 DEF SayJoinedFails, NotifyFails, ConsentError, ConsentTimeout,
                EndsUnapproved, Linked, TypeOK
        <3>2. agentPC'[a] = "hangup" /\ session'[a] = session[a]
            BY <3>1 DEF GiveUp, AgentGoesTo, TypeOK
        <3>3. CASE session[a] = c
            BY <3>2, <3>3 DEF Tracked
        <3>4. RemovesCodeOf(session[a])
            BY <3>1, <3>2 DEF RemovesCodeOf
        <3> QED BY <1>1, <3>1, <3>3, <3>4 DEF GiveUp
    <2>3. CASE BridgeFrees(a)
        <3>1. session[a] \in Client /\ session[a] # c
            BY <2>3 DEF BridgeFrees, Tidy, Linked, TypeOK
        <3>2. RemovesCodeOf(session[a])
            BY <2>3 DEF BridgeFrees, RemovesCodeOf, AgentGoesTo, TypeOK
        <3> QED BY <1>1, <2>3, <3>1, <3>2 DEF BridgeFrees
    <2> QED
        BY <1>2, <1>4, <2>1, <2>2, <2>3
        DEF AgentStep, AgentRefused, SaysJoined, AwaitsProbe, Notifies, ReadsConsent,
            GrantsAgent, HangsUp, Relays, BridgeLosesPeer, BridgeOverLimit,
            BridgeCloses, storeVars
<1>5. CASE Expires
    <2>1. c \in overdue => c \in closing'
        BY <1>5 DEF Expires, ConnsOf
    <2>2. c \notin overdue => c \in Registered'
        BY <1>5 DEF Expires, ExpireOnce, Registered
    <2> QED BY <2>1, <2>2 DEF Tracked
<1>6. ASSUME NEW p \in Peer, PeerVanishes(p) \/ ExpiredCloses(p) PROVE Tracked(c)'
    BY <1>2, <1>6 DEF PeerVanishes, ExpiredCloses, storeVars
<1>7. CASE TimePasses \/ UNCHANGED vars
    BY <1>2, <1>7 DEF TimePasses, TTLPasses, vars, storeVars
<1> QED BY <1>3, <1>4, <1>5, <1>6, <1>7, StepCases

\* Only ClientConnects opens the connection of a client, and nobody comes back.
LEMMA LiveBefore ==
    ASSUME TypeOK, [Next]_vars, NEW c \in Client, ~ ClientConnects(c),
           conn'[c] = "open", c \notin gone'
    PROVE  conn[c] = "open" /\ c \notin gone
<1> USE DEF TypeOK, Close, Peer
<1>1. ASSUME NEW d \in Client, ClientStep(d) \/ ClientReplies(d)
      PROVE  conn[c] = "open" /\ c \notin gone
    BY <1>1, StoreAssumption
    DEF ClientStep, ClientConnects, ClientTurnedAway, Registers, RegisterFails,
        MonitorSeesJoin, MonitorTicks, ProbeStarts, ProbeSucceeds, ProbeFails,
        MonitorRemoves, MonitorCloses, ClientReplies
<1>2. ASSUME NEW a \in Agent, AgentStep(a)
      PROVE  conn[c] = "open" /\ c \notin gone
    BY <1>2, StoreAssumption
    DEF AgentStep, AgentJoins, AgentRefused, SaysJoined, SayJoinedFails, AwaitsProbe,
        Notifies, NotifyFails, ReadsConsent, ConsentError, ConsentTimeout,
        GrantsAgent, EndsUnapproved, HangsUp, Relays, BridgeLosesPeer,
        BridgeOverLimit, BridgeCloses, BridgeFrees, GiveUp
<1>3. ASSUME NEW p \in Peer, PeerVanishes(p) \/ ExpiredCloses(p)
      PROVE  conn[c] = "open" /\ c \notin gone
    BY <1>3 DEF PeerVanishes, ExpiredCloses
<1>4. CASE Expires \/ TimePasses \/ UNCHANGED vars
    BY <1>4 DEF Expires, TimePasses, vars
<1> QED BY <1>1, <1>2, <1>3, <1>4, StepCases

LEMMA OrphaningStep ==
    ASSUME TypeOK, Linked, Coded, Tidy, [Next]_vars, NEW c \in Client, Orphaned(c)'
    PROVE  Orphaned(c) \/ StaleRemoval(c)
<1>1. CASE ClientConnects(c)
    BY <1>1
    DEF ClientConnects, Create, Registered, Tracked, Orphaned, TypeOK, StoreTypeOK
<1>2. CASE ~ ClientConnects(c)
    <2>1. conn[c] = "open" /\ c \notin gone
        BY <1>2, LiveBefore DEF Orphaned
    <2>2. CASE Tracked(c)
        BY <2>1, <2>2, RegisteredStaysTracked, PendingCloseStays DEF Tracked, Orphaned
    <2> QED BY <2>1, <2>2 DEF Orphaned
<1> QED BY <1>1, <1>2

\* Whatever is drawn, fails, expires or races, and for any number of clients, agents
\* and codes: a live client is taken out of the registry with nobody about to close its
\* connection by nothing but a removal that was meant for an older session of the same
\* code (session.go:58-77, 111-119).
THEOREM OrphansAreMistaken == Spec => OnlyStaleRemovalsOrphan
<1>1. Init => Tidy
    BY DEF Init, Tidy
<1>2. TypeOK /\ Linked /\ Coded /\ Tidy /\ [Next]_vars =>
          [\A c \in Client :
              Orphaned(c)' =>
                  \/ Orphaned(c)
                  \/ \E d \in Client \ Registered :
                        code[d] = code[c] /\ RemovesCodeOf(d)]_vars
    BY OrphaningStep DEF StaleRemoval
<1> QED BY <1>1, <1>2, TypeInit, LinkedInit, CodedInit, TypeStep, LinkedStep,
           CodedStep, TidyStep, PTL DEF Spec, OnlyStaleRemovalsOrphan

--------------------------------------------------------------------------------
(* What is asked and answered *)

\* A connection is open to whoever has been given a session; a prompt is up, and an
\* answer is there, only between the notification of the client and the verdict.
Asking ==
    /\ \A c \in Client :
          /\ clientPC[c] = "off" <=> conn[c] = "none"
          /\ clientPC[c] = "off" => c \notin closing
          /\ agent[c] = None => prompt[c] = None /\ reply[c] = "none"
          /\ prompt[c] # None =>
                reply[c] = "none" /\ agentPC[prompt[c]] \in {"consent", "hangup", "done"}
    /\ \A a \in Agent :
          agentPC[a] \in {"joined", "await_probe", "notify"} =>
              prompt[session[a]] = None /\ reply[session[a]] = "none"

Inv == TypeOK /\ Linked /\ Coded /\ Approval /\ Asking

LEMMA AskingInit == Init => Asking
BY DEF Init, StoreInit, Asking, Peer

\* A client's goroutine, and the user's answer.
LEMMA AskingClientStep ==
    ASSUME Inv, NEW c \in Client, ClientStep(c) \/ ClientReplies(c)
    PROVE  Asking'
<1> USE StoreAssumption DEF Inv, TypeOK, Asking, ClientGoesTo, agentVars, userVars, Peer
<1>1. CASE ClientConnects(c)
    BY <1>1 DEF ClientConnects, Create
<1>2. CASE ClientTurnedAway(c)
    BY <1>2 DEF ClientTurnedAway, storeVars
<1>3. CASE Registers(c) \/ MonitorSeesJoin(c) \/ MonitorTicks(c) \/ ProbeStarts(c)
           \/ ProbeSucceeds(c) \/ ProbeFails(c)
    BY <1>3 DEF Registers, MonitorSeesJoin, MonitorTicks, ProbeStarts, ProbeGoesOn,
                ProbeSucceeds, MonitorGoesOn, ProbeFails, storeVars
<1>4. CASE RegisterFails(c) \/ MonitorRemoves(c)
    BY <1>4 DEF RegisterFails, MonitorRemoves, Remove
<1>5. CASE MonitorCloses(c)
    BY <1>5 DEF MonitorCloses, Close, storeVars
<1>6. CASE ClientReplies(c)
    BY <1>6 DEF ClientReplies, storeVars, Approval, Linked
<1> QED BY <1>1, <1>2, <1>3, <1>4, <1>5, <1>6 DEF ClientStep

\* An agent's goroutine; its session is its own.
LEMMA AskingAgentStep ==
    ASSUME Inv, NEW a \in Agent, AgentStep(a)
    PROVE  Asking'
<1> USE StoreAssumption DEF Inv, TypeOK, Asking, AgentGoesTo, agentVars, userVars, Peer
<1>1. CASE AgentJoins(a)
    <2>1. PICK s \in Client :
              /\ agent[s] = None
              /\ session' = [session EXCEPT ![a] = s]
              /\ agent' = [agent EXCEPT ![s] = a]
        BY <1>1, JoinLinks
    <2>2. \A c \in Client : prompt[c] # a
        BY <1>1 DEF AgentJoins
    <2> QED BY <1>1, <2>1, <2>2 DEF AgentJoins, StoreTypeOK, Linked
<1>2. CASE AgentRefused(a)
    BY <1>2 DEF AgentRefused, storeVars
<1>3. CASE SaysJoined(a) \/ AwaitsProbe(a) \/ GrantsAgent(a) \/ Relays(a)
           \/ BridgeLosesPeer(a) \/ BridgeOverLimit(a)
    BY <1>3 DEF SaysJoined, AwaitsProbe, GrantsAgent, Relays, BridgeLosesPeer,
                BridgeOverLimit, storeVars
<1>4. CASE Notifies(a)
    BY <1>4 DEF Notifies, storeVars, Linked
<1>5. CASE ReadsConsent(a)
    BY <1>5 DEF ReadsConsent, Verdict, storeVars, Approval, Linked
<1>6. CASE SayJoinedFails(a) \/ NotifyFails(a) \/ ConsentError(a)
           \/ ConsentTimeout(a) \/ EndsUnapproved(a)
    BY <1>6 DEF SayJoinedFails, NotifyFails, ConsentError, ConsentTimeout,
                EndsUnapproved, GiveUp, Remove
<1>7. CASE HangsUp(a) \/ BridgeCloses(a)
    <2>1. session[a] \in Client /\ conn[session[a]] # "none"
        BY <1>7 DEF HangsUp, BridgeCloses, Linked, Coded
    <2> QED BY <1>7, <2>1 DEF HangsUp, BridgeCloses, BridgeEnds, Close, storeVars
<1>8. CASE BridgeFrees(a)
    BY <1>8 DEF BridgeFrees, Remove
<1> QED BY <1>1, <1>2, <1>3, <1>4, <1>5, <1>6, <1>7, <1>8 DEF AgentStep

LEMMA AskingOtherStep ==
    ASSUME Inv,
           \/ \E p \in Peer : PeerVanishes(p) \/ ExpiredCloses(p)
           \/ Expires \/ TimePasses \/ UNCHANGED vars
    PROVE  Asking'
<1> USE StoreAssumption DEF Inv, TypeOK, Asking, agentVars, userVars
<1>1. ASSUME NEW p \in Peer, PeerVanishes(p) PROVE Asking'
    BY <1>1 DEF PeerVanishes, storeVars
<1>2. ASSUME NEW p \in Peer, ExpiredCloses(p) PROVE Asking'
    BY <1>2 DEF ExpiredCloses, Close, storeVars, Peer
<1>3. CASE Expires
    <2>1. \A c \in Client : c \in Registered => clientPC[c] # "off"
        BY DEF Coded, StoreCoded, RegistryConsistent, Registered
    <2>2. \A c \in Client : c \in closing' => c \in Registered
        BY <1>3 DEF Expires, ConnsOf, Joined, Coded, StoreCoded, StoreTypeOK
    <2> QED BY <1>3, <2>1, <2>2 DEF Expires, ExpireOnce
<1>4. CASE TimePasses
    BY <1>4 DEF TimePasses, TTLPasses
<1>5. CASE UNCHANGED vars
    BY <1>5 DEF vars, storeVars
<1> QED BY <1>1, <1>2, <1>3, <1>4, <1>5

LEMMA InvStep == Inv /\ [Next]_vars => Inv'
<1> SUFFICES ASSUME Inv, [Next]_vars PROVE Inv'
    OBVIOUS
<1>1. Asking'
    BY StepCases, AskingClientStep, AskingAgentStep, AskingOtherStep
<1> QED BY <1>1, TypeStep, LinkedStep, CodedStep, ApprovalStep DEF Inv

LEMMA InvHolds == Spec => []Inv
<1>1. Init => Inv
    BY TypeInit, LinkedInit, CodedInit, ApprovalInit, AskingInit DEF Inv
<1> QED BY <1>1, InvStep, PTL DEF Spec

--------------------------------------------------------------------------------
(* What moves a connection *)

LinkMap == [c \in Client |-> LinkOf(c)]

Granting == {c \in Client : approved[c] # None}

LinkSame == LinkMap' = LinkMap /\ Granting' = Granting

Moved == Links!LinksNext \/ LinkSame

\* The stage of a connection in state n whose agent's goroutine is at pc.
Stage(n, pc) ==
    IF n = "none" THEN "none"
    ELSE IF n = "closed" \/ pc \in {"bridge_over", "freeing", "hangup", "done"} THEN "over"
    ELSE IF pc = "bridge" THEN "bridge"
    ELSE IF pc \in {"consent", "granted", "denied"} THEN "asked"
    ELSE "pending"

\* Since no other agent has joined the session, its own agent decides.
LEMMA LinkIsStage ==
    ASSUME Linked, NEW a \in Agent, session[a] \in Client
    PROVE  LinkOf(session[a]) = Stage(conn[session[a]], agentPC[a])
<1>1. \A b \in Agent : session[b] = session[a] => b = a
    BY StoreAssumption DEF Linked
<1> QED BY <1>1 DEF LinkOf, JoinedBy, Stage

LEMMA AllStay ==
    ASSUME \A c \in Client : LinkOf(c)' = LinkOf(c), Granting' = Granting
    PROVE  LinkSame
BY DEF LinkSame, LinkMap

LEMMA OneMoves ==
    ASSUME NEW c \in Client, \A d \in Client \ {c} : LinkOf(d)' = LinkOf(d)
    PROVE  /\ LinkMap[c] = LinkOf(c)
           /\ LinkMap' = [LinkMap EXCEPT ![c] = LinkOf(c)']
<1>1. \A d \in Client : LinkMap'[d] = IF d = c THEN LinkOf(c)' ELSE LinkMap[d]
    BY DEF LinkMap
<1> QED BY <1>1 DEF LinkMap

\* A move between the stages of the promise.
LEMMA MoveIsPromised ==
    ASSUME NEW c \in Client, \A d \in Client \ {c} : LinkOf(d)' = LinkOf(d),
           Granting' = Granting,
           \/ LinkOf(c)' = LinkOf(c)
           \/ LinkOf(c) = "none" /\ LinkOf(c)' = "pending"
           \/ LinkOf(c) = "pending" /\ LinkOf(c)' = "asked"
           \/ LinkOf(c) = "asked" /\ LinkOf(c)' = "bridge" /\ c \in Granting
           \/ LinkOf(c)' = "over"
    PROVE  Moved
<1>1. LinkOf(c) \in Links!States
    BY DEF LinkOf, Links!States
<1>2. /\ LinkMap[c] = LinkOf(c)
      /\ LinkMap' = [LinkMap EXCEPT ![c] = LinkOf(c)']
    BY OneMoves
<1>3. CASE LinkOf(c)' = LinkOf(c)
    BY <1>3, AllStay DEF Moved
<1>4. CASE LinkOf(c)' # LinkOf(c)
    BY <1>1, <1>2, <1>4
    DEF Moved, LinkMap, Granting, Links!LinksNext, Links!Registers, Links!Asks,
        Links!Opens, Links!Ends, Links!GoesOn
<1> QED BY <1>3, <1>4

--------------------------------------------------------------------------------
(* The steps *)

\* A client's goroutine: its own connection opens or closes.
LEMMA ClientKeepsLinks ==
    ASSUME Inv, NEW c \in Client, ClientStep(c)
    PROVE  Moved
<1>1. /\ UNCHANGED <<session, agentPC, approved>>
      /\ \A d \in Client \ {c} : conn'[d] = conn[d]
      /\ \/ conn'[c] = conn[c]
         \/ conn'[c] = "closed"
         \/ clientPC[c] = "off" /\ conn'[c] = "open"
    BY DEF Inv, TypeOK, Peer, ClientStep, ClientConnects, ClientTurnedAway, Registers,
        RegisterFails, MonitorSeesJoin, MonitorTicks, ProbeStarts, ProbeSucceeds,
        ProbeFails, MonitorRemoves, MonitorCloses, Close, storeVars, agentVars,
        userVars
<1>2. \A d \in Client : conn'[d] = conn[d] => LinkOf(d)' = LinkOf(d)
    BY <1>1 DEF LinkOf, JoinedBy
<1>3. Granting' = Granting
    BY <1>1 DEF Granting
<1>4. CASE conn'[c] = conn[c]
    BY <1>1, <1>2, <1>3, <1>4, MoveIsPromised
<1>5. CASE conn'[c] = "closed"
    <2>1. LinkOf(c)' = "over"
        BY <1>5 DEF LinkOf
    <2> QED BY <1>1, <1>2, <1>3, <2>1, MoveIsPromised
<1>6. CASE clientPC[c] = "off" /\ conn'[c] = "open"
    <2>1. conn[c] = "none"
        BY <1>6 DEF Inv, Asking
    <2>2. \A a \in Agent : session[a] # c
        BY <1>6, StoreAssumption DEF Inv, Coded
    <2>3. LinkOf(c) = "none" /\ LinkOf(c)' = "pending"
        BY <1>1, <1>6, <2>1, <2>2 DEF LinkOf, JoinedBy
    <2> QED BY <1>1, <1>2, <1>3, <2>3, MoveIsPromised
<1> QED BY <1>1, <1>4, <1>5, <1>6

\* The user's Yes grants; the agent it is for may have given up.
LEMMA ReplyKeepsLinks ==
    ASSUME Inv, NEW c \in Client, ClientReplies(c)
    PROVE  Moved
<1>1. UNCHANGED <<session, agentPC, conn>>
    BY DEF ClientReplies, agentVars
<1>2. \A d \in Client : LinkOf(d)' = LinkOf(d)
    BY <1>1 DEF LinkOf, JoinedBy
<1>3. CASE UNCHANGED approved
    BY <1>2, <1>3, AllStay DEF Moved, Granting
<1>4. CASE approved' = [approved EXCEPT ![c] = prompt[c]]
    <2>1. prompt[c] \in Agent /\ session[prompt[c]] = c
        BY DEF ClientReplies, Inv, TypeOK, Approval
    <2>2. LinkOf(c) = Stage(conn[c], agentPC[prompt[c]])
        BY <2>1, LinkIsStage DEF Inv
    <2>3. LinkOf(c) \in {"asked", "over"}
        BY <2>2 DEF ClientReplies, Inv, Asking, Stage
    <2>4. Granting' = Granting \cup {c}
        BY <1>4 DEF ClientReplies, Granting, Inv, TypeOK
    <2>5. LinkMap' = LinkMap /\ LinkMap[c] = LinkOf(c)
        BY <1>2 DEF LinkMap
    <2> QED BY <2>3, <2>4, <2>5
            DEF Moved, LinkMap, Granting, Links!LinksNext, Links!Grants
<1> QED BY <1>3, <1>4 DEF ClientReplies

\* How the goroutine of an agent and its session's connection move together.
LEMMA AgentMoves ==
    ASSUME Inv, NEW a \in Agent, AgentStep(a), ~ AgentJoins(a), session[a] # None
    PROVE  LET old == Stage(conn[session[a]], agentPC[a])
               new == Stage(conn'[session[a]], agentPC'[a])
           IN  \/ new = old
               \/ old = "pending" /\ new = "asked"
               \/ old = "asked" /\ new = "bridge" /\ agentPC[a] = "granted"
               \/ new = "over"
<1> DEFINE c == session[a]
<1>1. c \in Client /\ c \in Peer /\ conn[c] # "none" /\ agentPC[a] # "idle"
    BY DEF Inv, TypeOK, Linked, Coded, Asking, Peer
<1> USE <1>1 DEF Inv, TypeOK, AgentGoesTo, Stage
<1>2. CASE AgentRefused(a) \/ SaysJoined(a) \/ AwaitsProbe(a) \/ Notifies(a)
           \/ ReadsConsent(a) \/ GrantsAgent(a) \/ Relays(a)
    BY <1>2 DEF AgentRefused, SaysJoined, AwaitsProbe, Notifies, ReadsConsent,
                Verdict, GrantsAgent, Relays
<1>3. CASE SayJoinedFails(a) \/ NotifyFails(a) \/ ConsentError(a)
           \/ ConsentTimeout(a) \/ EndsUnapproved(a)
    BY <1>3 DEF SayJoinedFails, NotifyFails, ConsentError, ConsentTimeout,
                EndsUnapproved, GiveUp
<1>4. CASE BridgeLosesPeer(a) \/ BridgeOverLimit(a) \/ BridgeFrees(a)
    BY <1>4 DEF BridgeLosesPeer, BridgeOverLimit, BridgeFrees
<1>5. CASE HangsUp(a) \/ BridgeCloses(a)
    BY <1>5 DEF HangsUp, BridgeCloses, BridgeEnds, Close
<1> QED BY <1>2, <1>3, <1>4, <1>5 DEF AgentStep

\* Only the connection of the session can be meant, and only the agent's own.
LEMMA AgentFrame ==
    ASSUME Inv, NEW a \in Agent, AgentStep(a)
    PROVE  /\ UNCHANGED approved
           /\ \A d \in Client : d # session[a] => conn'[d] = conn[d]
<1> USE StoreAssumption DEF Inv, TypeOK, Peer, agentVars, userVars
<1>1. CASE AgentJoins(a) \/ AgentRefused(a) \/ SaysJoined(a) \/ AwaitsProbe(a)
           \/ Notifies(a) \/ ReadsConsent(a) \/ GrantsAgent(a) \/ Relays(a)
    BY <1>1 DEF AgentJoins, AgentRefused, SaysJoined, AwaitsProbe, Notifies,
                ReadsConsent, GrantsAgent, Relays
<1>2. CASE SayJoinedFails(a) \/ NotifyFails(a) \/ ConsentError(a)
           \/ ConsentTimeout(a) \/ EndsUnapproved(a)
    BY <1>2 DEF SayJoinedFails, NotifyFails, ConsentError, ConsentTimeout,
                EndsUnapproved, GiveUp
<1>3. CASE BridgeLosesPeer(a) \/ BridgeOverLimit(a) \/ BridgeFrees(a)
    BY <1>3 DEF BridgeLosesPeer, BridgeOverLimit, BridgeFrees
<1>4. CASE HangsUp(a) \/ BridgeCloses(a)
    BY <1>4 DEF HangsUp, BridgeCloses, BridgeEnds, Close
<1> QED BY <1>1, <1>2, <1>3, <1>4 DEF AgentStep

LEMMA AgentKeepsLinks ==
    ASSUME Inv, Inv', NEW a \in Agent, AgentStep(a)
    PROVE  Moved
<1>0. Granting' = Granting
    BY AgentFrame DEF Granting
<1>1. CASE AgentJoins(a)
    <2>1. PICK s \in Client :
              /\ agent[s] = None
              /\ session' = [session EXCEPT ![a] = s]
        BY <1>1, JoinLinks DEF Inv
    <2>2. /\ session[a] = None /\ session'[a] = s
          /\ agentPC' = [agentPC EXCEPT ![a] = "joined"] /\ agentPC'[a] = "joined"
        BY <1>1, <2>1 DEF AgentJoins, AgentGoesTo, Inv, TypeOK, Linked
    <2>3. \A d \in Client : conn'[d] = conn[d]
        BY <2>2, StoreAssumption, AgentFrame
    <2>4. \A d \in Client \ {s} : LinkOf(d)' = LinkOf(d)
        <3>1. SUFFICES ASSUME NEW d \in Client \ {s} PROVE LinkOf(d)' = LinkOf(d)
            OBVIOUS
        <3>2. \A b \in Agent : /\ session'[b] = d <=> session[b] = d
                               /\ session[b] = d => agentPC'[b] = agentPC[b]
            BY <2>1, <2>2, StoreAssumption DEF Inv, TypeOK
        <3> QED BY <2>3, <3>2 DEF LinkOf, JoinedBy
    <2>5. \A b \in Agent : session[b] # s
        BY <2>1, StoreAssumption DEF Inv, Linked
    <2>6. LinkOf(s) = Stage(conn[s], "idle")
        BY <2>5 DEF LinkOf, JoinedBy, Stage
    <2>7. LinkOf(s)' = Stage(conn'[s], "joined")
        <3>1. \A b \in Agent : session'[b] = s => b = a
            BY <2>1, <2>5 DEF Inv, TypeOK
        <3> QED BY <2>2, <3>1 DEF LinkOf, JoinedBy, Stage
    <2>8. LinkOf(s)' = LinkOf(s)
        BY <2>3, <2>6, <2>7 DEF Stage
    <2> QED BY <1>0, <2>4, <2>8, MoveIsPromised
<1>2. CASE ~ AgentJoins(a)
    <2>1. UNCHANGED session /\ \A b \in Agent \ {a} : agentPC'[b] = agentPC[b]
        BY <1>2, AgentStepFrame DEF Inv
    <2>2. CASE session[a] = None
        <3>1. \A d \in Client : LinkOf(d)' = LinkOf(d)
            <4>1. SUFFICES ASSUME NEW d \in Client PROVE LinkOf(d)' = LinkOf(d)
                OBVIOUS
            <4>2. conn'[d] = conn[d]
                BY <2>2, StoreAssumption, AgentFrame
            <4>3. \A b \in Agent : session[b] = d => agentPC'[b] = agentPC[b]
                BY <2>1, <2>2, StoreAssumption
            <4> QED BY <2>1, <4>2, <4>3 DEF LinkOf, JoinedBy
        <3> QED BY <1>0, <3>1, AllStay DEF Moved
    <2>3. CASE session[a] # None
        <3>1. PICK c \in Client : c = session[a]
            BY <2>3 DEF Inv, TypeOK
        <3>2. \A d \in Client \ {c} : LinkOf(d)' = LinkOf(d)
            <4>1. SUFFICES ASSUME NEW d \in Client \ {c} PROVE LinkOf(d)' = LinkOf(d)
                OBVIOUS
            <4>2. conn'[d] = conn[d]
                BY <3>1, AgentFrame
            <4>3. \A b \in Agent : session'[b] = d <=> session[b] = d
                BY <2>1
            <4>4. \A b \in Agent : session[b] = d => agentPC'[b] = agentPC[b]
                BY <2>1, <3>1
            <4> QED BY <4>2, <4>3, <4>4 DEF LinkOf, JoinedBy
        <3>3. LinkOf(c) = Stage(conn[c], agentPC[a])
            BY <3>1, LinkIsStage DEF Inv
        <3>4. LinkOf(c)' = Stage(conn'[c], agentPC'[a])
            <4>1. \A b \in Agent : session'[b] = c => b = a
                BY <2>1, <3>1, StoreAssumption DEF Inv, Linked
            <4> QED BY <2>1, <3>1, <4>1 DEF LinkOf, JoinedBy, Stage
        <3>5. agentPC[a] = "granted" => c \in Granting
            BY <3>1, StoreAssumption DEF Inv, Approval, Granting
        <3>6. \/ LinkOf(c)' = LinkOf(c)
              \/ LinkOf(c) = "pending" /\ LinkOf(c)' = "asked"
              \/ LinkOf(c) = "asked" /\ LinkOf(c)' = "bridge" /\ c \in Granting
              \/ LinkOf(c)' = "over"
            BY <1>2, <2>3, <3>3, <3>4, <3>5, <3>1, AgentMoves
        <3> QED BY <1>0, <3>1, <3>2, <3>6, MoveIsPromised
    <2> QED BY <2>2, <2>3
<1> QED BY <1>1, <1>2

LEMMA OtherKeepsLinks ==
    ASSUME Inv,
           \/ \E p \in Peer : PeerVanishes(p) \/ ExpiredCloses(p)
           \/ Expires \/ TimePasses \/ UNCHANGED vars
    PROVE  Moved
<1>1. ASSUME UNCHANGED <<session, agentPC, conn, approved>> PROVE Moved
    <2>1. \A c \in Client : LinkOf(c)' = LinkOf(c)
        BY <1>1 DEF LinkOf, JoinedBy
    <2>2. Granting' = Granting
        BY <1>1 DEF Granting
    <2> QED BY <2>1, <2>2, AllStay DEF Moved
<1>2. ASSUME NEW p \in Peer, ExpiredCloses(p) PROVE Moved
    <2>1. UNCHANGED <<session, agentPC, approved>> /\ Granting' = Granting
        BY <1>2 DEF ExpiredCloses, agentVars, userVars, Granting
    <2>2. \A d \in Client : IF d = p THEN conn'[d] = "closed" ELSE conn'[d] = conn[d]
        BY <1>2 DEF ExpiredCloses, Close, Peer
    <2>3. \A d \in Client \ {p} : LinkOf(d)' = LinkOf(d)
        <3>1. SUFFICES ASSUME NEW d \in Client \ {p} PROVE LinkOf(d)' = LinkOf(d)
            OBVIOUS
        <3>2. conn'[d] = conn[d]
            BY <2>2
        <3> QED BY <2>1, <3>2 DEF LinkOf, JoinedBy
    <2>4. CASE p \in Client
        <3>1. LinkOf(p)' = "over"
            BY <2>2, <2>4 DEF LinkOf
        <3> QED BY <2>1, <2>3, <2>4, <3>1, MoveIsPromised
    <2>5. CASE p \notin Client
        BY <2>1, <2>3, <2>5, AllStay DEF Moved
    <2> QED BY <2>4, <2>5
<1>3. ASSUME NEW p \in Peer, PeerVanishes(p) PROVE Moved
    BY <1>1, <1>3 DEF PeerVanishes, agentVars, userVars
<1>4. CASE Expires \/ TimePasses \/ UNCHANGED vars
    BY <1>1, <1>4 DEF Expires, TimePasses, vars, agentVars, userVars
<1> QED BY <1>2, <1>3, <1>4

\* Whatever the server does moves one client's connection from one stage of a
\* session to the next or none: the user is asked before anything is relayed, the
\* bridge opens only on the user's grant, and what is over stays over
\* (main.go:210-357, relay.go:31-74).
THEOREM ServerKeepsLinks == Spec => IsLinks
<1>1. Init => Links!LinksInit
    BY DEF Init, Links!LinksInit, LinkOf, Peer
<1>2. Inv /\ Inv' /\ [Next]_vars => [Links!LinksNext]_(Links!linkVars)
    BY StepCases, ClientKeepsLinks, ReplyKeepsLinks, AgentKeepsLinks, OtherKeepsLinks
    DEF Moved, LinkSame, LinkMap, Granting, Links!linkVars
<1> QED BY <1>1, <1>2, InvHolds, PTL DEF Spec, IsLinks, Links!LinksSpec

--------------------------------------------------------------------------------
(* The audit log *)

\* An event of p is in the log, or is the next that its handler writes.
Written(event, p) == due[p] = event \/ OnRecord(event, p)

Bridging == {"bridge", "bridge_over", "freeing"}

Event == {"session_created", "client_lost", "agent_joined", "join_rejected",
          "consent_granted", "consent_denied", "session_ended"}

TrailTypeOK ==
    /\ trail \in Seq([event : Event, by : Peer])
    /\ due \in [Peer -> Event \cup {Nothing}]

\* How far the log is, from where the handler of an agent is.
Handled(a) ==
    /\ agentPC[a] = "idle" => due[a] = Nothing
    /\ agentPC[a] \notin {"idle", "done"} => Written("agent_joined", a)
    /\ due[a] = "agent_joined" => agentPC[a] = "joined"
    /\ agentPC[a] \in Bridging => Written("consent_granted", a)
    /\ due[a] = "consent_granted" => agentPC[a] = "bridge"
    /\ Written("consent_granted", a) =>
          /\ \/ agentPC[a] \in Bridging
             \/ agentPC[a] = "done" /\ Written("session_ended", a)
          /\ session[a] # None /\ approved[session[a]] = a
    /\ Written("session_ended", a) => agentPC[a] = "done"
    /\ a \in relayed => OnRecord("agent_joined", a) /\ OnRecord("consent_granted", a)

Trailed == \A a \in Agent : Handled(a)

TrailInv == TypeOK /\ Linked /\ Approval /\ TrailTypeOK /\ Trailed

\* What the user has said of an agent stays so: no other agent joins the session,
\* and so the prompt is never of another.
LEMMA ApprovedStays ==
    ASSUME TypeOK, Linked, Approval, [Next]_vars, NEW a \in Agent,
           session[a] # None, approved[session[a]] = a
    PROVE  session'[a] = session[a] /\ approved'[session[a]] = a
<1>1. session[a] \in Client
    BY DEF TypeOK
<1>2. CASE \A b \in Agent : ~ AgentStep(b)
    <2>1. session' = session
        BY <1>2, NoAgentStep
    <2>2. approved' = approved \/ \E c \in Client : ClientReplies(c)
        BY <1>2, StepCases
        DEF ClientStep, ClientConnects, ClientTurnedAway, Registers, RegisterFails,
            MonitorSeesJoin, MonitorTicks, ProbeStarts, ProbeSucceeds, ProbeFails,
            MonitorRemoves, MonitorCloses, PeerVanishes, ExpiredCloses, Expires,
            TimePasses, userVars, vars
    <2>3. ASSUME NEW c \in Client, ClientReplies(c) PROVE approved'[session[a]] = a
        <3>1. prompt[c] \in Agent /\ session[prompt[c]] = c
            BY <2>3 DEF ClientReplies, TypeOK, Approval
        <3>2. c = session[a] => prompt[c] = a
            BY <3>1 DEF Linked
        <3> QED BY <2>3, <1>1, <3>2 DEF ClientReplies, TypeOK
    <2> QED BY <2>1, <2>2, <2>3
<1>3. ASSUME NEW b \in Agent, AgentStep(b)
      PROVE  session'[a] = session[a] /\ approved'[session[a]] = a
    <2>1. approved' = approved
        BY <1>3
        DEF AgentStep, AgentJoins, AgentRefused, SaysJoined, SayJoinedFails,
            AwaitsProbe, Notifies, NotifyFails, ReadsConsent, ConsentError,
            ConsentTimeout, GrantsAgent, EndsUnapproved, HangsUp, Relays,
            BridgeLosesPeer, BridgeOverLimit, BridgeCloses, BridgeFrees, GiveUp,
            userVars
    <2>2. a = b => ~ AgentJoins(b)
        BY DEF AgentJoins, Linked
    <2> QED BY <1>3, <2>1, <2>2, AgentStepFrame
<1> QED BY <1>2, <1>3

\* The ways of an agent's handler, with what of them the log tells apart.
LEMMA HandlerWays ==
    ASSUME TypeOK, NEW a \in Agent, AgentStep(a)
    PROVE  /\ \/ agentPC[a] = "idle" /\ agentPC'[a] \in {"joined", "done"}
              \/ agentPC[a] = "granted" /\ agentPC'[a] = "bridge"
              \/ agentPC[a] = "bridge" /\ agentPC'[a] \in {"bridge", "bridge_over"}
              \/ agentPC[a] = "bridge_over" /\ agentPC'[a] = "freeing"
              \/ agentPC[a] = "freeing" /\ agentPC'[a] = "done"
              \/ agentPC[a] = "hangup" /\ agentPC'[a] = "done"
              \/ /\ agentPC[a] \in AgentPC \ (Bridging \cup {"idle", "hangup", "done"})
                 /\ agentPC'[a] \in AgentPC \ (Bridging \cup {"idle", "joined", "done"})
           /\ relayed' \in {relayed, relayed \cup {a}}
           /\ relayed' # relayed => agentPC[a] = "bridge"
<1> USE DEF TypeOK, AgentGoesTo, Bridging, AgentPC
<1>1. CASE AgentJoins(a) \/ AgentRefused(a)
    BY <1>1 DEF AgentJoins, AgentRefused
<1>2. CASE SaysJoined(a) \/ AwaitsProbe(a) \/ Notifies(a) \/ GrantsAgent(a) \/ HangsUp(a)
    BY <1>2 DEF SaysJoined, AwaitsProbe, Notifies, GrantsAgent, HangsUp
<1>3. CASE ReadsConsent(a)
    BY <1>3 DEF ReadsConsent, Verdict
<1>4. CASE SayJoinedFails(a) \/ NotifyFails(a) \/ ConsentError(a)
           \/ ConsentTimeout(a) \/ EndsUnapproved(a)
    BY <1>4 DEF SayJoinedFails, NotifyFails, ConsentError, ConsentTimeout,
                EndsUnapproved, GiveUp
<1>5. CASE Relays(a)
    BY <1>5 DEF Relays
<1>6. CASE BridgeLosesPeer(a) \/ BridgeOverLimit(a) \/ BridgeCloses(a) \/ BridgeFrees(a)
    BY <1>6 DEF BridgeLosesPeer, BridgeOverLimit, BridgeCloses, BridgeFrees
<1> QED BY <1>1, <1>2, <1>3, <1>4, <1>5, <1>6 DEF AgentStep

\* Writing a record puts it on record, and what was stays.
LEMMA LoggedIsOnRecord ==
    ASSUME TrailTypeOK, NEW p \in Peer, Logs(p), NEW e \in Event, NEW q \in Peer
    PROVE  OnRecord(e, q)' <=> OnRecord(e, q) \/ (q = p /\ e = due[p])
<1> DEFINE r == [event |-> due[p], by |-> p]
<1>1. r \in [event : Event, by : Peer]
    BY DEF TrailTypeOK, Logs
<1>2. trail' = Append(trail, r)
    BY DEF Logs
<1>3. r = [event |-> e, by |-> q] <=> q = p /\ e = due[p]
    OBVIOUS
<1> HIDE DEF r
<1>4. /\ Len(trail') = Len(trail) + 1
      /\ Len(trail) \in Nat
      /\ trail'[Len(trail) + 1] = r
      /\ \A i \in 1 .. Len(trail) : trail'[i] = trail[i]
      /\ DOMAIN trail = 1 .. Len(trail)
      /\ DOMAIN trail' = 1 .. Len(trail')
    BY <1>1, <1>2 DEF TrailTypeOK
<1>5. DOMAIN trail' = DOMAIN trail \cup {Len(trail) + 1}
    BY <1>4
<1> QED BY <1>3, <1>4, <1>5 DEF OnRecord

\* The log adds nothing to what the server does.
LEMMA LoggingIsApart == [AuditNext]_auditVars => [Next]_vars
BY DEF AuditNext, auditVars, ClientActs, AgentActs, Logs, Unlogged, Next

\* A step that is of no agent's handler, and no call of Log.
LEMMA OthersKeepTrail ==
    ASSUME TrailInv, [Next]_vars, UNCHANGED <<agentVars, trail>>,
           \A b \in Agent : due'[b] = due[b]
    PROVE  Trailed'
<1>1. UNCHANGED <<agentPC, session, relayed, trail>>
    BY DEF agentVars
<1>2. SUFFICES ASSUME NEW a \in Agent, Handled(a)
               PROVE  /\ Written("agent_joined", a)' = Written("agent_joined", a)
                      /\ Written("consent_granted", a)' = Written("consent_granted", a)
                      /\ Written("session_ended", a)' = Written("session_ended", a)
                      /\ Written("consent_granted", a) =>
                            session'[a] # None /\ approved'[session'[a]] = a
    BY <1>1, <1>2 DEF TrailInv, Trailed, Handled, OnRecord
<1>3. Written("consent_granted", a) => session[a] # None /\ approved[session[a]] = a
    BY <1>2 DEF Handled
<1> QED BY <1>3, ApprovedStays DEF TrailInv, Written, OnRecord

LEMMA LogKeepsTrail ==
    ASSUME TrailInv, NEW p \in Peer, Logs(p)
    PROVE  Trailed'
<1>1. UNCHANGED <<agentPC, session, relayed, approved>> /\ due[p] # Nothing
    BY DEF Logs, vars, agentVars, userVars
<1>2. due' = [due EXCEPT ![p] = Nothing]
    BY DEF Logs
<1>3. SUFFICES ASSUME NEW a \in Agent
               PROVE  /\ agentPC[a] = "idle" => due'[a] = Nothing
                      /\ \A e \in {"agent_joined", "consent_granted", "session_ended"} :
                            /\ Written(e, a)' <=> Written(e, a)
                            /\ OnRecord(e, a) => OnRecord(e, a)'
                            /\ due'[a] = e => due[a] = e
    BY <1>1, <1>3 DEF TrailInv, Trailed, Handled
<1>4. a \in Peer /\ p \in Peer
    BY DEF Peer
<1>5. due'[a] = IF a = p THEN Nothing ELSE due[a]
    BY <1>2, <1>4 DEF TrailInv, TrailTypeOK
<1>6. ASSUME NEW e \in {"agent_joined", "consent_granted", "session_ended"}
      PROVE  /\ Written(e, a)' <=> Written(e, a)
             /\ OnRecord(e, a) => OnRecord(e, a)'
             /\ due'[a] = e => due[a] = e
    <2>1. OnRecord(e, a)' <=> OnRecord(e, a) \/ (a = p /\ e = due[p])
        <3>1. e \in Event
            BY DEF Event
        <3> QED BY <1>4, <3>1, LoggedIsOnRecord DEF TrailInv
    <2>2. e # Nothing
        BY DEF Nothing
    <2> QED BY <1>5, <2>1, <2>2 DEF Written
<1>7. agentPC[a] = "idle" => due'[a] = Nothing
    BY <1>5 DEF TrailInv, Trailed, Handled
<1> QED BY <1>6, <1>7

LEMMA HandlerKeepsTrail ==
    ASSUME TrailInv, NEW a \in Agent, AgentActs(a)
    PROVE  Trailed'
<1>1. /\ AgentStep(a) /\ [Next]_vars /\ trail' = trail /\ due[a] = Nothing
      /\ due' = [due EXCEPT ![a] = AgentEvent(agentPC[a], agentPC'[a])]
    BY DEF AgentActs, Next
<1>2. a \in Peer /\ \A b \in Agent : b \in Peer
    BY DEF Peer
<1>3. due'[a] = AgentEvent(agentPC[a], agentPC'[a])
    BY <1>1, <1>2 DEF TrailInv, TrailTypeOK
<1>4. ASSUME NEW b \in Agent, session[b] # None, approved[session[b]] = b
      PROVE  session'[b] # None /\ approved'[session'[b]] = b
    BY <1>1, <1>4, ApprovedStays DEF TrailInv
<1>5. ASSUME NEW b \in Agent, b # a PROVE Handled(b)'
    <2>1. /\ agentPC'[b] = agentPC[b] /\ due'[b] = due[b]
          /\ b \in relayed' <=> b \in relayed
        BY <1>1, <1>2, <1>5, AgentStepFrame, HandlerWays DEF TrailInv, TrailTypeOK
    <2>2. Handled(b)
        BY DEF TrailInv, Trailed
    <2> QED BY <1>1, <1>4, <2>1, <2>2 DEF Handled, Written, OnRecord
<1>6. Handled(a)'
    <2> USE DEF Bridging
    <2>1. Handled(a)
        BY DEF TrailInv, Trailed
    <2>2. agentPC[a] # "done"
        BY <1>1, HandlerWays DEF TrailInv
    <2>3. ~ OnRecord("session_ended", a)
        BY <2>1, <2>2 DEF Handled, Written
    <2>4. session[a] # None /\ approved[session[a]] = a =>
             session'[a] # None /\ approved'[session'[a]] = a
        BY <1>4
    <2>5. /\ OnRecord("agent_joined", a)' <=> OnRecord("agent_joined", a)
          /\ OnRecord("consent_granted", a)' <=> OnRecord("consent_granted", a)
          /\ OnRecord("session_ended", a)' <=> OnRecord("session_ended", a)
        BY <1>1 DEF OnRecord
    <2>6. agentPC[a] \in {"granted", "bridge"} => session[a] # None /\ approved[session[a]] = a
        BY DEF TrailInv, Approval
    <2>7. a \in relayed' => a \in relayed \/ agentPC[a] = "bridge"
        BY <1>1, HandlerWays DEF TrailInv
    <2> USE <1>1, <1>3, <2>1, <2>3, <2>4, <2>5, <2>7 DEF Handled, Written, Nothing
    <2>8. CASE agentPC[a] = "idle" /\ agentPC'[a] \in {"joined", "done"}
        <3>1. due'[a] = IF agentPC'[a] = "joined" THEN "agent_joined" ELSE "join_rejected"
            BY <2>8 DEF AgentEvent
        <3> QED BY <2>8, <3>1
    <2>9. CASE agentPC[a] = "granted" /\ agentPC'[a] = "bridge"
        <3>1. due'[a] = "consent_granted"
            BY <2>9 DEF AgentEvent
        <3> QED BY <2>6, <2>9, <3>1
    <2>10. CASE agentPC[a] \in {"bridge", "bridge_over"} /\ agentPC'[a] \in Bridging
        <3>1. due'[a] = Nothing
            BY <2>10 DEF AgentEvent
        <3> QED BY <2>10, <3>1
    <2>11. CASE agentPC[a] = "freeing" /\ agentPC'[a] = "done"
        <3>1. due'[a] = "session_ended"
            BY <2>11 DEF AgentEvent
        <3> QED BY <2>11, <3>1
    <2>12. CASE /\ agentPC[a] \in AgentPC \ (Bridging \cup {"idle", "done"})
                /\ agentPC'[a] \in AgentPC \ (Bridging \cup {"idle", "joined"})
        <3>1. due'[a] \in {Nothing, "consent_denied"}
            BY <2>12 DEF AgentEvent, AgentPC
        <3> QED BY <2>12, <3>1
    <2> QED BY HandlerWays, <2>8, <2>9, <2>10, <2>11, <2>12 DEF TrailInv, AgentPC
<1> QED BY <1>5, <1>6 DEF Trailed

LEMMA TrailTypeStep ==
    ASSUME TrailTypeOK, [AuditNext]_auditVars
    PROVE  TrailTypeOK'
<1> USE DEF TrailTypeOK
<1>1. ASSUME NEW c \in Client, ClientActs(c) PROVE TrailTypeOK'
    BY <1>1 DEF ClientActs, ClientEvent, Event
<1>2. ASSUME NEW a \in Agent, AgentActs(a) PROVE TrailTypeOK'
    BY <1>2 DEF AgentActs, AgentEvent, Event
<1>3. ASSUME NEW p \in Peer, Logs(p) PROVE TrailTypeOK'
    <2>1. [event |-> due[p], by |-> p] \in [event : Event, by : Peer]
        BY <1>3 DEF Logs
    <2> QED BY <1>3, <2>1 DEF Logs
<1>4. CASE Unlogged \/ UNCHANGED auditVars
    BY <1>4 DEF Unlogged, auditVars
<1> QED BY <1>1, <1>2, <1>3, <1>4 DEF AuditNext

LEMMA TrailStep == TrailInv /\ [AuditNext]_auditVars => TrailInv'
<1> SUFFICES ASSUME TrailInv, [AuditNext]_auditVars PROVE TrailInv'
    OBVIOUS
<1>1. [Next]_vars
    BY LoggingIsApart
<1>2. (TypeOK /\ Linked /\ Approval /\ TrailTypeOK)'
    BY <1>1, TypeStep, LinkedStep, ApprovalStep, TrailTypeStep DEF TrailInv
<1>3. ASSUME NEW c \in Client, ClientActs(c) PROVE Trailed'
    <2>1. UNCHANGED agentVars
        BY <1>3 DEF ClientActs, ClientStep, ClientConnects, ClientTurnedAway, Registers,
            RegisterFails, MonitorSeesJoin, MonitorTicks, ProbeStarts, ProbeSucceeds,
            ProbeFails, MonitorRemoves, MonitorCloses
    <2>2. \A a \in Agent : due'[a] = due[a]
        BY <1>3, StoreAssumption DEF ClientActs, TrailInv, TrailTypeOK, Peer
    <2> QED BY <1>1, <1>3, <2>1, <2>2, OthersKeepTrail DEF ClientActs
<1>4. ASSUME Unlogged \/ UNCHANGED auditVars PROVE Trailed'
    <2>1. UNCHANGED <<agentVars, trail, due>>
        BY <1>4 DEF Unlogged, ClientReplies, PeerVanishes, ExpiredCloses, Expires,
            TimePasses, Quiet, vars, auditVars
    <2> QED BY <1>1, <2>1, OthersKeepTrail
<1> QED BY <1>2, <1>3, <1>4, LogKeepsTrail, HandlerKeepsTrail DEF AuditNext, TrailInv

\* The log of the server is true of every session it speaks of: before anything
\* passes it says who joined and that the user consented, a grant on record was the
\* user's, and its end is on record when the handler has returned
\* (main.go:268-323, audit.go).
THEOREM LogTellsTheTruth == AuditSpec => []GrantsAreOnRecord
<1>1. AuditInit => TrailInv
    <2> SUFFICES ASSUME AuditInit PROVE TrailInv
        OBVIOUS
    <2>1. TypeOK /\ Linked /\ Approval
        BY TypeInit, LinkedInit, ApprovalInit DEF AuditInit
    <2>2. TrailTypeOK
        BY DEF AuditInit, TrailTypeOK
    <2>3. Trailed
        BY DEF AuditInit, Init, Trailed, Handled, Written, OnRecord, Nothing, Peer,
               Bridging
    <2> QED BY <2>1, <2>2, <2>3 DEF TrailInv
<1>2. TrailInv => GrantsAreOnRecord
    BY DEF TrailInv, Trailed, Handled, Written, Bridging, GrantsAreOnRecord, Finished,
           Nothing
<1> QED BY <1>1, <1>2, TrailStep, PTL DEF AuditSpec

================================================================================
