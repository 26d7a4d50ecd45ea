----------------------------- MODULE SessionStore ------------------------------
(***************************************************************************)
(* The code registry of the server (server/session/session.go).            *)
(*                                                                         *)
(* Every client connection is given one Session, so a session is named by  *)
(* its client.  Each operation below is one critical section of Store.mu.  *)
(* The clock is abstracted to the set of registered sessions whose TTL has *)
(* passed.                                                                 *)
(***************************************************************************)
EXTENDS Naturals, FiniteSets

CONSTANTS
    Client,  \* client connections, and so sessions
    Agent,   \* agent connections
    Code,    \* the code space
    None

ASSUME StoreAssumption ==
    /\ None \notin Client \cup Agent \cup Code
    /\ Client \cap Agent = {}

VARIABLES
    sessions,  \* Store.sessions: code -> session
    code,      \* Session.Code, None before Create
    agent,     \* Session.AgentConn, None while JoinedAt is zero
    overdue    \* the registered sessions that are past their TTL

storeVars == <<sessions, code, agent, overdue>>

Registered == {s \in Client : \E k \in Code : sessions[k] = s}

Joined(s) == agent[s] # None

StoreTypeOK ==
    /\ sessions \in [Code -> Client \cup {None}]
    /\ code \in [Client -> Code \cup {None}]
    /\ agent \in [Client -> Agent \cup {None}]
    /\ overdue \in SUBSET Client

StoreInit ==
    /\ sessions = [k \in Code |-> None]
    /\ code = [s \in Client |-> None]
    /\ agent = [s \in Client |-> None]
    /\ overdue = {}

--------------------------------------------------------------------------------

\* Slip: the draw is not compared with the codes in use.
UnusedUnchecked(k) == TRUE

\* A draw generateCodeLocked accepts: a code nobody has now. The session that had it
\* before may still be at its end.
Unused(k) == sessions[k] = None

\* Create: draw an unused code and insert the session, under one lock.
Create(s) ==
    /\ code[s] = None
    /\ \E k \in Code :
          /\ Unused(k)
          /\ sessions' = [sessions EXCEPT ![k] = s]
          /\ code' = [code EXCEPT ![s] = k]
    /\ UNCHANGED <<agent, overdue>>

\* Twenty draws in a row hit codes in use.
CodeSpaceExhausted == Registered # {}

\* Slip: a second agent is let in.
JoinableTwice(k) == sessions[k] # None

Joinable(k) == sessions[k] # None /\ ~ Joined(sessions[k])

\* Join: the first agent to present the code claims the session, and its TTL
\* starts again from JoinedAt.
Join(k, a) ==
    /\ Joinable(k)
    /\ agent' = [agent EXCEPT ![sessions[k]] = a]
    /\ overdue' = overdue \ {sessions[k]}
    /\ UNCHANGED <<sessions, code>>

\* Remove deletes whatever session the code now names.
Remove(k) ==
    /\ sessions' = [sessions EXCEPT ![k] = None]
    /\ overdue' = overdue \ {sessions[k]}
    /\ UNCHANGED <<code, agent>>

\* expireOnce removes every session past its TTL and returns them.
ExpireOnce ==
    /\ sessions' = [k \in Code |->
                       IF sessions[k] \in overdue THEN None ELSE sessions[k]]
    /\ overdue' = {}
    /\ UNCHANGED <<code, agent>>

\* Time passes the TTL of some registered sessions.
TTLPasses ==
    /\ \E late \in SUBSET (Registered \ overdue) :
          late # {} /\ overdue' = overdue \cup late
    /\ UNCHANGED <<sessions, code, agent>>

StoreNext ==
    \/ \E s \in Client : Create(s)
    \/ \E k \in Code : Remove(k) \/ (\E a \in Agent : Join(k, a))
    \/ ExpireOnce
    \/ TTLPasses

StoreSpec == StoreInit /\ [][StoreNext]_storeVars

--------------------------------------------------------------------------------

\* The registry never holds a session under a code other than its own, and so
\* never holds one twice (session.go:62-64).
RegistryConsistent ==
    \A k \in Code : sessions[k] # None => code[sessions[k]] = k

================================================================================
