------------------------------- MODULE AuditTrail -------------------------------
(***************************************************************************)
(* The audit log of the relay server (server/audit/audit.go and its calls  *)
(* in server/main.go): RelayServer with the records its handlers write.    *)
(* A handler writes a record after what it is about, in a step of its own, *)
(* and does nothing else before it has; the log's mutex makes one sequence *)
(* of all.  That the file can be written to is assumed: what cannot is     *)
(* lost.                                                                   *)
(***************************************************************************)
EXTENDS RelayServer, Sequences

VARIABLES
    trail,  \* the records, each with the connection whose handler wrote it
    due     \* the record the handler of a connection is about to write

auditVars == <<vars, trail, due>>

Nothing == "nothing"

AuditInit ==
    /\ Init
    /\ trail = <<>>
    /\ due = [p \in Peer |-> Nothing]

--------------------------------------------------------------------------------

\* What clientHandler and monitorPendingClient log after a step.
ClientEvent(from, to) ==
    CASE from = "off" /\ to = "registering" -> "session_created"
      [] from = "removed"                   -> "client_lost"
      [] OTHER                              -> Nothing

\* Slip: a grant is logged when the session is over.
AgentEventLate(from, to) ==
    CASE from = "idle" -> "agent_joined"
      [] from = "freeing" -> "consent_granted"
      [] OTHER -> Nothing

\* What agentHandler logs after a step. Of the ways out of the handshake only those
\* of endUnapprovedSession are logged.
AgentEvent(from, to) ==
    CASE from = "idle" /\ to = "joined"    -> "agent_joined"
      [] from = "idle" /\ to = "done"      -> "join_rejected"
      [] from = "granted" /\ to = "bridge" -> "consent_granted"
      [] from = "freeing"                  -> "session_ended"
      [] from \in {"consent", "granted", "denied"} /\ to = "hangup" -> "consent_denied"
      [] OTHER                             -> Nothing

ClientActs(c) ==
    /\ due[c] = Nothing
    /\ ClientStep(c)
    /\ due' = [due EXCEPT ![c] = ClientEvent(clientPC[c], clientPC'[c])]
    /\ UNCHANGED trail

AgentActs(a) ==
    /\ due[a] = Nothing
    /\ AgentStep(a)
    /\ due' = [due EXCEPT ![a] = AgentEvent(agentPC[a], agentPC'[a])]
    /\ UNCHANGED trail

\* audit.Log.
Logs(p) ==
    /\ due[p] # Nothing
    /\ trail' = Append(trail, [event |-> due[p], by |-> p])
    /\ due' = [due EXCEPT ![p] = Nothing]
    /\ UNCHANGED vars

\* What the log does not see: the peers, and expireLoop, whose sessions end without
\* a record unless an agent has joined them.
Unlogged ==
    /\ \/ \E c \in Client : ClientReplies(c)
       \/ \E p \in Peer : PeerVanishes(p) \/ ExpiredCloses(p)
       \/ Expires
       \/ TimePasses
       \/ Quiet /\ \A p \in Peer : due[p] = Nothing
    /\ UNCHANGED <<trail, due>>

AuditNext ==
    \/ \E c \in Client : ClientActs(c)
    \/ \E a \in Agent : AgentActs(a)
    \/ \E p \in Peer : Logs(p)
    \/ Unlogged

AuditSpec == AuditInit /\ [][AuditNext]_auditVars

\* RelayServer's fairness is about its own steps; a call of Log returns, too, and the
\* handler goes on.
AuditFairSpec ==
    /\ AuditSpec
    /\ ServerFairness
    /\ \A p \in Peer : WF_auditVars(Logs(p))

--------------------------------------------------------------------------------

OnRecord(event, p) == \E i \in DOMAIN trail : trail[i] = [event |-> event, by |-> p]

Finished(a) == agentPC[a] = "done" /\ due[a] = Nothing

\* What a reader of the log concludes of a session is so: before anything passes
\* between a client and an agent the log says that this agent joined and that the user
\* consented, and nothing of an end; a grant on record is the user's to this very
\* agent, and the session's end follows it however it ends: a lost peer, the limit of
\* a message, the sweep, or nothing relayed at all (main.go:268-323, relay.go:33-47).
GrantsAreOnRecord ==
    \A a \in Agent :
        /\ a \in relayed => OnRecord("agent_joined", a) /\ OnRecord("consent_granted", a)
        /\ agentPC[a] = "bridge" => ~ OnRecord("session_ended", a)
        /\ OnRecord("consent_granted", a) => approved[session[a]] = a
        /\ Finished(a) /\ OnRecord("consent_granted", a) => OnRecord("session_ended", a)

================================================================================
