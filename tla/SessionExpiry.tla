----------------------------- MODULE SessionExpiry -----------------------------
(***************************************************************************)
(* The code registry with its clock: SessionStore has the two lifetimes as *)
(* a set of sessions past them, here are the times they are computed from  *)
(* and the ticker of expireLoop (server/session/session.go).  The loop     *)
(* closes the connections it has expired before it is back at its ticker,  *)
(* whose channel holds one tick.                                           *)
(***************************************************************************)
EXTENDS Naturals

CONSTANTS
    Session, Agent, Code, None,
    PendingTTL, ActiveTTL,
    SweepEvery,   \* the interval of the ticker
    MaxClose,     \* how long the closing of expired connections takes at most
    MaxTime       \* bound on the clock

ASSUME ExpiryAssumption ==
    /\ None \notin Session \cup Agent \cup Code
    /\ Session \cap Agent = {}
    /\ {PendingTTL, ActiveTTL, SweepEvery} \subseteq Nat \ {0}
    /\ {MaxClose, MaxTime} \subseteq Nat

VARIABLES
    sessions, code, agent,   \* as in SessionStore
    createdAt, joinedAt,     \* of each session; 0 is Go's zero time
    now,
    lastTick,                \* when the ticker fired last
    tick,                    \* the ticker's channel is full
    lastSweep,               \* when expireOnce ran last
    busy                     \* expireLoop is closing connections

registryVars == <<sessions, code, agent, createdAt, joinedAt>>

loopVars == <<lastTick, tick, lastSweep, busy>>

vars == <<registryVars, now, loopVars>>

TypeOK ==
    /\ sessions \in [Code -> Session \cup {None}]
    /\ code \in [Session -> Code \cup {None}]
    /\ agent \in [Session -> Agent \cup {None}]
    /\ createdAt \in [Session -> Nat] /\ joinedAt \in [Session -> Nat]
    /\ {now, lastTick, lastSweep} \subseteq Nat
    /\ tick \in BOOLEAN /\ busy \in BOOLEAN

Init ==
    /\ sessions = [k \in Code |-> None]
    /\ code = [s \in Session |-> None]
    /\ agent = [s \in Session |-> None]
    /\ createdAt = [s \in Session |-> 0] /\ joinedAt = [s \in Session |-> 0]
    /\ now = 1 /\ lastTick = 1 /\ lastSweep = 0
    /\ tick = FALSE /\ busy = FALSE

Registered == {s \in Session : \E k \in Code : sessions[k] = s}

Joined(s) == joinedAt[s] # 0

\* Slip: the time of the join does not count.
DeadlineFromCreation(s) ==
    createdAt[s] + (IF Joined(s) THEN ActiveTTL ELSE PendingTTL)

\* The last moment of a session's lifetime.
Deadline(s) ==
    IF Joined(s) THEN joinedAt[s] + ActiveTTL ELSE createdAt[s] + PendingTTL

Expired(s) == now > Deadline(s)

--------------------------------------------------------------------------------
(* The registry *)

Create(s) ==
    /\ code[s] = None
    /\ \E k \in Code :
          /\ sessions[k] = None
          /\ sessions' = [sessions EXCEPT ![k] = s]
          /\ code' = [code EXCEPT ![s] = k]
    /\ createdAt' = [createdAt EXCEPT ![s] = now]
    /\ UNCHANGED <<agent, joinedAt, now, loopVars>>

\* A session that is past its deadline and was not swept yet can be joined.
Join(k, a) ==
    /\ sessions[k] # None
    /\ ~ Joined(sessions[k])
    /\ agent' = [agent EXCEPT ![sessions[k]] = a]
    /\ joinedAt' = [joinedAt EXCEPT ![sessions[k]] = now]
    /\ UNCHANGED <<sessions, code, createdAt, now, loopVars>>

Remove(k) ==
    /\ sessions[k] # None
    /\ sessions' = [sessions EXCEPT ![k] = None]
    /\ UNCHANGED <<code, agent, createdAt, joinedAt, now, loopVars>>

--------------------------------------------------------------------------------
(* expireLoop *)

CanSweep == tick /\ ~ busy

\* expireOnce(time.Now()), and the closing begins.
Sweep ==
    /\ CanSweep
    /\ sessions' = [k \in Code |->
                       IF sessions[k] # None /\ Expired(sessions[k])
                       THEN None ELSE sessions[k]]
    /\ tick' = FALSE
    /\ lastSweep' = now
    /\ busy' = TRUE
    /\ UNCHANGED <<code, agent, createdAt, joinedAt, now, lastTick>>

ClosesAll ==
    /\ busy
    /\ busy' = FALSE
    /\ UNCHANGED <<registryVars, now, lastTick, tick, lastSweep>>

\* Slip: a tick nobody waits for is lost.
KeptIfAwaited == tick \/ ~ busy

\* The channel of a time.Ticker has room for one tick.
Kept == TRUE

\* A sweep that can run does, before the clock moves on.
Clock ==
    /\ now < MaxTime
    /\ ~ CanSweep
    /\ busy => now < lastSweep + MaxClose
    /\ now' = now + 1
    /\ IF now' = lastTick + SweepEvery
       THEN lastTick' = now' /\ tick' = Kept
       ELSE UNCHANGED <<lastTick, tick>>
    /\ UNCHANGED <<registryVars, lastSweep, busy>>

Next ==
    \/ \E s \in Session : Create(s)
    \/ \E k \in Code : Remove(k) \/ \E a \in Agent : Join(k, a)
    \/ Sweep \/ ClosesAll \/ Clock

Spec == Init /\ [][Next]_vars

--------------------------------------------------------------------------------

Store ==
    INSTANCE SessionStore WITH
        Client <- Session,
        overdue <- {s \in Registered : Expired(s)}

\* The registry with times is the registry RelayServer works with: a join starts
\* the lifetime anew, also of a session whose own has passed, and a sweep takes
\* exactly the sessions past theirs (session.go:182-202).
IsStore == Store!StoreSpec

\* How late a sweep can be: an interval, or the closing before it.
Lateness == IF SweepEvery > MaxClose THEN SweepEvery ELSE MaxClose

\* A session outlives its lifetime, pending or joined, by no more than one sweep
\* interval, whatever ticks are lost while the loop closes the connections of
\* others, provided that closing does not take longer still (session.go:163-180).
LifetimeIsBounded ==
    \A s \in Registered : now <= Deadline(s) + Lateness

================================================================================
