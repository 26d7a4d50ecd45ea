----------------------------- MODULE RelayServer -------------------------------
(***************************************************************************)
(* The signalling and relay server (server/main.go, server/session,        *)
(* server/relay): one goroutine per client connection (clientHandler, then *)
(* monitorPendingClient), one per agent connection (agentHandler, which    *)
(* ends in relay.Bridge), and Store.expireLoop.  They share the registry   *)
(* of SessionStore, the connections and each session's probe mutex.        *)
(*                                                                         *)
(* A step is a call that another goroutine can observe: a critical         *)
(* section, a write, a read, or the closing of connections.  A peer may    *)
(* vanish at any moment; writes to it may still be accepted by the         *)
(* network, or fail.                                                       *)
(***************************************************************************)
EXTENDS SessionStore

VARIABLES
    clientPC,  \* where the goroutine of a client connection is
    agentPC,   \* where the goroutine of an agent connection is
    session,   \* the session an agent joined (agentHandler's sess)
    conn,      \* the server's end of each connection
    gone,      \* peers that crashed or lost the network
    prompt,    \* the agent a client was told of by agent_connected
    reply,     \* the client's message waiting to be read
    approved,  \* the agent the user at the client approved
    relayed,   \* agents for which the bridge has copied a message
    closing    \* connections expireLoop still has to close

agentVars == <<agentPC, session, relayed>>

userVars == <<prompt, reply, approved>>

vars == <<storeVars, clientPC, agentVars, conn, gone, userVars, closing>>

Peer == Client \cup Agent

\* "probing" is the critical section of probeMu in ProbePending.
ClientPC == {"off", "registering", "waiting", "ticked", "probing", "lost",
             "removed", "done"}

AgentPC == {"idle", "joined", "await_probe", "notify", "consent", "granted",
            "denied", "bridge", "bridge_over", "freeing", "hangup", "done"}

Reply == {"none", "granted", "denied", "malformed"}

TypeOK ==
    /\ StoreTypeOK
    /\ clientPC \in [Client -> ClientPC]
    /\ agentPC \in [Agent -> AgentPC]
    /\ session \in [Agent -> Client \cup {None}]
    /\ conn \in [Peer -> {"none", "open", "closed"}]
    /\ gone \in SUBSET Peer
    /\ prompt \in [Client -> Agent \cup {None}]
    /\ reply \in [Client -> Reply]
    /\ approved \in [Client -> Agent \cup {None}]
    /\ relayed \in SUBSET Agent
    /\ closing \in SUBSET Peer

Init ==
    /\ StoreInit
    /\ clientPC = [c \in Client |-> "off"]
    /\ agentPC = [a \in Agent |-> "idle"]
    /\ session = [a \in Agent |-> None]
    /\ conn = [p \in Peer |-> "none"]
    /\ gone = {}
    /\ prompt = [c \in Client |-> None]
    /\ reply = [c \in Client |-> "none"]
    /\ approved = [c \in Client |-> None]
    /\ relayed = {}
    /\ closing = {}

WriteMaySucceed(p) == conn[p] = "open"

\* Reading from or writing to p may return an error.
Unreachable(p) == conn[p] = "closed" \/ p \in gone

ClientGoesTo(c, pc) == clientPC' = [clientPC EXCEPT ![c] = pc]

AgentGoesTo(a, pc) == agentPC' = [agentPC EXCEPT ![a] = pc]

Close(ps) ==
    conn' = [p \in Peer |-> IF p \in ps THEN "closed" ELSE conn[p]]

--------------------------------------------------------------------------------
(* clientHandler *)

\* The upgrade is accepted and the session created.
ClientConnects(c) ==
    /\ clientPC[c] = "off"
    /\ Create(c)
    /\ conn' = [conn EXCEPT ![c] = "open"]
    /\ ClientGoesTo(c, "registering")
    /\ UNCHANGED <<agentVars, gone, userVars, closing>>

\* store.Create failed: the connection is closed at once.
ClientTurnedAway(c) ==
    /\ clientPC[c] = "off"
    /\ CodeSpaceExhausted
    /\ conn' = [conn EXCEPT ![c] = "closed"]
    /\ ClientGoesTo(c, "done")
    /\ UNCHANGED <<storeVars, agentVars, gone, userVars, closing>>

\* "registered" is written and monitorPendingClient started.
Registers(c) ==
    /\ clientPC[c] = "registering"
    /\ WriteMaySucceed(c)
    /\ ClientGoesTo(c, "waiting")
    /\ UNCHANGED <<storeVars, agentVars, conn, gone, userVars, closing>>

RegisterFails(c) ==
    /\ clientPC[c] = "registering"
    /\ Unreachable(c)
    /\ Remove(code[c])
    /\ ClientGoesTo(c, "done")
    /\ UNCHANGED <<agentVars, conn, gone, userVars, closing>>

--------------------------------------------------------------------------------
(* monitorPendingClient; its select may take the tick although Joined() is ready *)

MonitorSeesJoin(c) ==
    /\ clientPC[c] = "waiting"
    /\ Joined(c)
    /\ ClientGoesTo(c, "done")
    /\ UNCHANGED <<storeVars, agentVars, conn, gone, userVars, closing>>

MonitorTicks(c) ==
    /\ clientPC[c] = "waiting"
    /\ ClientGoesTo(c, "ticked")
    /\ UNCHANGED <<storeVars, agentVars, conn, gone, userVars, closing>>

ProbeGoesOn(c) == IF Joined(c) THEN "done" ELSE "probing"

\* ProbePending takes probeMu, looks at joined, and only then pings.
ProbeStarts(c) ==
    /\ clientPC[c] = "ticked"
    /\ ClientGoesTo(c, ProbeGoesOn(c))
    /\ UNCHANGED <<storeVars, agentVars, conn, gone, userVars, closing>>

\* Slip: the monitor does not loop.
MonitorGoesOnNever == "done"

MonitorGoesOn == "waiting"

\* The pong arrived in time; the mutex is released and the loop goes on.
ProbeSucceeds(c) ==
    /\ clientPC[c] = "probing"
    /\ ~ Unreachable(c)
    /\ ClientGoesTo(c, MonitorGoesOn)
    /\ UNCHANGED <<storeVars, agentVars, conn, gone, userVars, closing>>

\* The ping failed or took 5 s; whether an agent joined meanwhile is not asked.
ProbeFails(c) ==
    /\ clientPC[c] = "probing"
    /\ ClientGoesTo(c, "lost")
    /\ UNCHANGED <<storeVars, agentVars, conn, gone, userVars, closing>>

MonitorRemoves(c) ==
    /\ clientPC[c] = "lost"
    /\ Remove(code[c])
    /\ ClientGoesTo(c, "removed")
    /\ UNCHANGED <<agentVars, conn, gone, userVars, closing>>

MonitorCloses(c) ==
    /\ clientPC[c] = "removed"
    /\ Close({c})
    /\ ClientGoesTo(c, "done")
    /\ UNCHANGED <<storeVars, agentVars, gone, userVars, closing>>

--------------------------------------------------------------------------------
(* agentHandler *)

\* An admitted request presents a code and store.Join claims the session.
AgentJoins(a) ==
    /\ agentPC[a] = "idle"
    /\ \E k \in Code :
          /\ Join(k, a)
          /\ session' = [session EXCEPT ![a] = sessions[k]]
    /\ conn' = [conn EXCEPT ![a] = "open"]
    /\ AgentGoesTo(a, "joined")
    /\ UNCHANGED <<clientPC, relayed, gone, userVars, closing>>

\* The code is unknown or claimed: an error is written, the connection closed.
AgentRefused(a) ==
    /\ agentPC[a] = "idle"
    /\ \E k \in Code : ~ Joinable(k)
    /\ conn' = [conn EXCEPT ![a] = "closed"]
    /\ AgentGoesTo(a, "done")
    /\ UNCHANGED <<storeVars, clientPC, session, relayed, gone, userVars, closing>>

\* The ways out of the handshake: the code is freed first, then whatever must
\* still be told is written and both connections are closed.
GiveUp(a) ==
    /\ Remove(code[session[a]])
    /\ AgentGoesTo(a, "hangup")
    /\ UNCHANGED <<clientPC, session, relayed, conn, gone, closing>>

\* "joined" is written to the agent.
SaysJoined(a) ==
    /\ agentPC[a] = "joined"
    /\ WriteMaySucceed(a)
    /\ AgentGoesTo(a, "await_probe")
    /\ UNCHANGED <<storeVars, clientPC, session, relayed, conn, gone, userVars,
                   closing>>

SayJoinedFails(a) ==
    /\ agentPC[a] = "joined"
    /\ Unreachable(a)
    /\ GiveUp(a)
    /\ UNCHANGED userVars

\* Slip: the handshake does not wait for a ping in flight.
ProbeIgnored(c) == TRUE

\* probeMu is free.
NoProbe(c) == clientPC[c] # "probing"

\* WaitPendingProbe takes and releases probeMu.
AwaitsProbe(a) ==
    /\ agentPC[a] = "await_probe"
    /\ NoProbe(session[a])
    /\ AgentGoesTo(a, "notify")
    /\ UNCHANGED <<storeVars, clientPC, session, relayed, conn, gone, userVars,
                   closing>>

\* "agent_connected" is written to the client, which prompts its user.
Notifies(a) ==
    /\ agentPC[a] = "notify"
    /\ WriteMaySucceed(session[a])
    /\ prompt' = [prompt EXCEPT ![session[a]] = a]
    /\ AgentGoesTo(a, "consent")
    /\ UNCHANGED <<storeVars, clientPC, session, relayed, conn, gone, reply,
                   approved, closing>>

NotifyFails(a) ==
    /\ agentPC[a] = "notify"
    /\ Unreachable(session[a])
    /\ GiveUp(a)
    /\ UNCHANGED userVars

\* Slip: any well-formed answer is taken for a grant.
VerdictOfAnything(r) == "granted"

\* *msg.Granted, as the control state it leads to.
Verdict(r) == r

\* readClientConsent returns the granted value of a well-formed consent.
ReadsConsent(a) ==
    /\ agentPC[a] = "consent"
    /\ conn[session[a]] = "open"
    /\ reply[session[a]] \in {"granted", "denied"}
    /\ AgentGoesTo(a, Verdict(reply[session[a]]))
    /\ reply' = [reply EXCEPT ![session[a]] = "none"]
    /\ UNCHANGED <<storeVars, clientPC, session, relayed, conn, gone, prompt,
                   approved, closing>>

\* readClientConsent returns an error: some other message came, or the client is
\* out of reach.
ConsentError(a) ==
    /\ agentPC[a] = "consent"
    /\ reply[session[a]] = "malformed" \/ Unreachable(session[a])
    /\ GiveUp(a)
    /\ UNCHANGED userVars

\* Slip: the wait has no deadline.
ConsentWaitsForever(a) == FALSE

\* consentTimeout passes, even with the answer on its way.
ConsentTimeout(a) ==
    /\ agentPC[a] = "consent"
    /\ GiveUp(a)
    /\ UNCHANGED userVars

\* The verdict is written to the agent; only a grant opens the bridge.
GrantsAgent(a) ==
    /\ agentPC[a] = "granted"
    /\ WriteMaySucceed(a)
    /\ AgentGoesTo(a, "bridge")
    /\ UNCHANGED <<storeVars, clientPC, session, relayed, conn, gone, userVars,
                   closing>>

EndsUnapproved(a) ==
    /\ \/ agentPC[a] = "denied"
       \/ agentPC[a] = "granted" /\ Unreachable(a)
    /\ GiveUp(a)
    /\ UNCHANGED userVars

\* Both connections are closed after the code was freed.
HangsUp(a) ==
    /\ agentPC[a] = "hangup"
    /\ Close({a, session[a]})
    /\ AgentGoesTo(a, "done")
    /\ UNCHANGED <<storeVars, clientPC, session, relayed, gone, userVars, closing>>

--------------------------------------------------------------------------------
(* relay.Bridge, run by agentHandler *)

\* A pump copies a message, in either direction.
Relays(a) ==
    /\ agentPC[a] = "bridge"
    /\ conn[a] = "open" /\ conn[session[a]] = "open"
    /\ relayed' = relayed \cup {a}
    /\ UNCHANGED <<storeVars, clientPC, agentPC, session, conn, gone, userVars,
                   closing>>

\* A pump's read or write fails because an end is out of reach; its cancel ends
\* the other pump.
BridgeLosesPeer(a) ==
    /\ agentPC[a] = "bridge"
    /\ Unreachable(a) \/ Unreachable(session[a])
    /\ AgentGoesTo(a, "bridge_over")
    /\ UNCHANGED <<storeVars, clientPC, session, relayed, conn, gone, userVars,
                   closing>>

\* A message longer than MaxMessageBytes ends the bridge as well.
BridgeOverLimit(a) ==
    /\ agentPC[a] = "bridge"
    /\ AgentGoesTo(a, "bridge_over")
    /\ UNCHANGED <<storeVars, clientPC, session, relayed, conn, gone, userVars,
                   closing>>

\* Slip: only the agent's side is hung up.
BridgeEndsLeft(a) == {a}

BridgeEnds(a) == {a, session[a]}

BridgeCloses(a) ==
    /\ agentPC[a] = "bridge_over"
    /\ Close(BridgeEnds(a))
    /\ AgentGoesTo(a, "freeing")
    /\ UNCHANGED <<storeVars, clientPC, session, relayed, gone, userVars, closing>>

\* onDone, deferred to the end of Bridge.
BridgeFrees(a) ==
    /\ agentPC[a] = "freeing"
    /\ Remove(code[session[a]])
    /\ AgentGoesTo(a, "done")
    /\ UNCHANGED <<clientPC, session, relayed, conn, gone, userVars, closing>>

--------------------------------------------------------------------------------
(* expireLoop *)

\* Slip: nobody closes an expired session.
ConnsForgotten(ss) == {}

\* The connections of some sessions; AgentConn is nil in a pending one.
ConnsOf(ss) == ss \cup {agent[s] : s \in {t \in ss : Joined(t)}}

\* The sweep; the loop is back at its ticker only when all is closed.
Expires ==
    /\ closing = {}
    /\ overdue # {}
    /\ closing' = ConnsOf(overdue)
    /\ ExpireOnce
    /\ UNCHANGED <<clientPC, agentVars, conn, gone, userVars>>

ExpiredCloses(p) ==
    /\ p \in closing
    /\ closing' = closing \ {p}
    /\ Close({p})
    /\ UNCHANGED <<storeVars, clientPC, agentVars, gone, userVars>>

TimePasses ==
    /\ TTLPasses
    /\ UNCHANGED <<clientPC, agentVars, conn, gone, userVars, closing>>

--------------------------------------------------------------------------------
(* The peers *)

PeerVanishes(p) ==
    /\ conn[p] = "open"
    /\ p \notin gone
    /\ gone' = gone \cup {p}
    /\ UNCHANGED <<storeVars, clientPC, agentVars, conn, userVars, closing>>

\* The client answers agent_connected: the user approves this very agent, or
\* does not; some other message may arrive instead.
ClientReplies(c) ==
    /\ prompt[c] # None
    /\ conn[c] = "open"
    /\ c \notin gone
    /\ \/ /\ reply' = [reply EXCEPT ![c] = "granted"]
          /\ approved' = [approved EXCEPT ![c] = prompt[c]]
       \/ /\ reply' \in {[reply EXCEPT ![c] = r] : r \in {"denied", "malformed"}}
          /\ UNCHANGED approved
    /\ prompt' = [prompt EXCEPT ![c] = None]
    /\ UNCHANGED <<storeVars, clientPC, agentVars, conn, gone, closing>>

--------------------------------------------------------------------------------

ClientStep(c) ==
    \/ ClientConnects(c) \/ ClientTurnedAway(c) \/ Registers(c) \/ RegisterFails(c)
    \/ MonitorSeesJoin(c) \/ MonitorTicks(c) \/ ProbeStarts(c)
    \/ ProbeSucceeds(c) \/ ProbeFails(c) \/ MonitorRemoves(c) \/ MonitorCloses(c)

AgentStep(a) ==
    \/ AgentJoins(a) \/ AgentRefused(a)
    \/ SaysJoined(a) \/ SayJoinedFails(a) \/ AwaitsProbe(a)
    \/ Notifies(a) \/ NotifyFails(a) \/ ReadsConsent(a) \/ ConsentError(a) \/ ConsentTimeout(a)
    \/ GrantsAgent(a) \/ EndsUnapproved(a) \/ HangsUp(a)
    \/ Relays(a) \/ BridgeLosesPeer(a) \/ BridgeOverLimit(a)
    \/ BridgeCloses(a) \/ BridgeFrees(a)

\* Every connection has been dealt with: the server is back to listening.
Quiet ==
    /\ \A c \in Client : clientPC[c] = "done"
    /\ \A a \in Agent : agentPC[a] = "done"
    /\ overdue = {} /\ closing = {}
    /\ UNCHANGED vars

Next ==
    \/ \E c \in Client : ClientStep(c) \/ ClientReplies(c)
    \/ \E a \in Agent : AgentStep(a)
    \/ \E p \in Peer : PeerVanishes(p) \/ ExpiredCloses(p)
    \/ Expires
    \/ TimePasses
    \/ Quiet

Spec == Init /\ [][Next]_vars

\* Goroutines run, the ticker of a monitor fires, a ping, a consent wait, a write
\* and a read all return: the first two have deadlines, and the TCP keep-alive
\* of net/http's listener ends the others when the peer is gone.  That a write
\* returns, and a bridge that has lost a peer ends, supposes that a peer that is
\* there reads: one that stalls is a matter of RelayBridge.  Peers and users owe
\* nothing else.
ServerFairness ==
    /\ \A c \in Client :
          /\ WF_vars(Registers(c) \/ RegisterFails(c))
          /\ WF_vars(MonitorSeesJoin(c) \/ MonitorTicks(c))
          /\ WF_vars(ProbeStarts(c))
          /\ WF_vars(ProbeSucceeds(c) \/ ProbeFails(c))
          /\ WF_vars(MonitorRemoves(c))
          /\ WF_vars(MonitorCloses(c))
    /\ \A a \in Agent :
          /\ WF_vars(SaysJoined(a) \/ SayJoinedFails(a))
          /\ WF_vars(AwaitsProbe(a))
          /\ WF_vars(Notifies(a) \/ NotifyFails(a))
          /\ WF_vars(ReadsConsent(a) \/ ConsentError(a) \/ ConsentTimeout(a))
          /\ WF_vars(GrantsAgent(a) \/ EndsUnapproved(a))
          /\ WF_vars(HangsUp(a))
          /\ WF_vars(BridgeLosesPeer(a))
          /\ WF_vars(BridgeCloses(a))
          /\ WF_vars(BridgeFrees(a))
    /\ WF_vars(Expires)
    /\ \A p \in Peer : WF_vars(ExpiredCloses(p))

--------------------------------------------------------------------------------
(* Safety *)

\* An agent whose session is being set up or relayed uses the client's
\* connection.
InHandshake == {"notify", "consent", "granted", "denied", "bridge"}

\* Nothing passes between a client and an agent, in either direction, unless
\* the user at that client approved that very agent (main.go:325-327).
ApprovedBeforeRelay ==
    \A a \in Agent : a \in relayed => approved[session[a]] = a

\* From the notification on, no ping of monitorPendingClient uses the client's
\* connection (session.go:126-128).
ProbeExcludesRelay ==
    \A a \in Agent :
        agentPC[a] \in InHandshake => clientPC[session[a]] # "probing"

\* A code is single-use: no two agents ever join the same session
\* (session.go:79-80).
OneAgentPerSession ==
    \A a, b \in Agent :
        session[a] # None /\ session[a] = session[b] => a = b

\* The session is in the registry, where an agent, a probe or expireOnce finds it, or
\* some goroutine is about to close its connection.
Tracked(c) ==
    \/ c \in Registered
    \/ c \in closing
    \/ clientPC[c] = "removed"
    \/ \E a \in Agent : session[a] = c /\ agentPC[a] = "hangup"

\* A live client that no agent can join and no sweep will end.
Orphaned(c) == conn[c] = "open" /\ c \notin gone /\ ~ Tracked(c)

\* No connection is orphaned: what the lock of Create is there for
\* (session.go:62-64). It is not so when a code is drawn again while a handler of
\* the session that had it before has still to remove it.
LiveSessionIsTracked == \A c \in Client : ~ Orphaned(c)

\* In this step a goroutine that ends with session d removes the code of d.
RemovesCodeOf(d) ==
    \/ clientPC[d] = "registering" /\ clientPC'[d] = "done"
    \/ clientPC[d] = "lost" /\ clientPC'[d] = "removed"
    \/ \E a \in Agent :
          /\ session[a] = d
          /\ \/ agentPC[a] # "hangup" /\ agentPC'[a] = "hangup"
             \/ agentPC[a] = "freeing" /\ agentPC'[a] = "done"

\* In one way only does a live client become an orphan: the goroutine of an older
\* session, out of the registry itself, removes the code that both have been given.
\* No registration, failure, probe, timeout or sweep does it, whatever their order
\* (session.go:62-64, 113).
OnlyStaleRemovalsOrphan ==
    [][\A c \in Client :
          Orphaned(c)' =>
              \/ Orphaned(c)
              \/ \E d \in Client \ Registered :
                    code[d] = code[c] /\ RemovesCodeOf(d)]_vars

\* When the goroutine of an agent is done, its session's code is free and
\* neither end is left open (README.md, step 7 of the session lifecycle).
DoneMeansClean ==
    \A a \in Agent :
        agentPC[a] = "done" /\ session[a] # None =>
            /\ session[a] \notin Registered
            /\ conn[a] = "closed" /\ conn[session[a]] = "closed"

--------------------------------------------------------------------------------
(* What a session is to its ends *)

JoinedBy(c, pcs) == \E a \in Agent : session[a] = c /\ agentPC[a] \in pcs

\* The client is told by agent_connected; the end of the bridge, or of the
\* handshake, is the end of the session, whatever is still to be closed.
LinkOf(c) ==
    IF conn[c] = "none" THEN "none"
    ELSE IF \/ conn[c] = "closed"
            \/ JoinedBy(c, {"bridge_over", "freeing", "hangup", "done"})
         THEN "over"
    ELSE IF JoinedBy(c, {"bridge"}) THEN "bridge"
    ELSE IF JoinedBy(c, {"consent", "granted", "denied"}) THEN "asked"
    ELSE "pending"

Links ==
    INSTANCE SessionLinks WITH
        Connection <- Client,
        link <- [c \in Client |-> LinkOf(c)],
        granted <- {c \in Client : approved[c] # None}

\* Of a connection's life an end sees four stages in this order, it is asked before
\* anything is relayed, a grant opens the bridge and nothing else does, and what is
\* over stays over, whichever goroutine ends it (main.go:210-357).
IsLinks == Links!LinksSpec

--------------------------------------------------------------------------------
(* Liveness, under ServerFairness, for AuditTrail *)

HungUp(a) ==
    session[a] # None /\ conn[a] = "closed" /\ conn[session[a]] = "closed"

SharesCode(s) == s # None /\ \E d \in Client \ {s} : code[d] = code[s]

\* A client that vanished, waiting or in a session, loses its code
\* (deployment.md:96-97).
GoneClientIsReaped ==
    \A c \in Client : c \in gone /\ c \in Registered ~> c \notin Registered

\* When either end of a joined session vanishes, or the session passes its time
\* limit, both ends are hung up, whatever its handler waits for (deployment.md:95,
\* relay.go:35-36, session.go:181-202); of the time limit this is claimed only as long
\* as no other session has been given the same code, see LiveSessionIsTracked.
LostSessionEnds ==
    \A a \in Agent :
        /\ session[a] # None /\ {a, session[a]} \cap gone # {} ~> HungUp(a)
        /\ session[a] \in overdue ~> HungUp(a) \/ SharesCode(session[a])

\* Whatever the client does, the wait for its consent comes to an end.
ConsentIsResolved ==
    \A a \in Agent : agentPC[a] = "consent" ~> agentPC[a] \in {"bridge", "done"}

================================================================================
