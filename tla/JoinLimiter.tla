------------------------------ MODULE JoinLimiter ------------------------------
(***************************************************************************)
(* The failed-join rate limiter of the server (attemptLimiter in           *)
(* server/main.go), together with the way agentHandler drives it: a        *)
(* request is first checked with Blocked and, if its join fails, reported  *)
(* with Fail in a second critical section.  Any number of other requests   *)
(* may run between the two.                                                *)
(*                                                                         *)
(* Time is counted in units long enough that reading the clock and then    *)
(* taking the limiter's mutex happen in one unit.  The first unit is 1, so *)
(* that 0 is Go's zero time.Time.                                          *)
(***************************************************************************)
EXTENDS Naturals

CONSTANTS
    Requester,   \* the keys of the limiter: client IP addresses
    Limit,       \* JOIN_ATTEMPT_LIMIT
    Window,      \* JOIN_ATTEMPT_WINDOW
    Block,       \* JOIN_ATTEMPT_BLOCK
    MaxClock,    \* bound on the clock
    MaxInFlight  \* bound on the admitted requests of one requester

ASSUME LimiterAssumption ==
    /\ Limit \in Nat \ {0}
    /\ Window \in Nat \ {0}
    /\ Block \in Nat \ {0}
    /\ MaxClock \in Nat
    /\ MaxInFlight \in Nat

VARIABLES
    clock,        \* the wall clock
    sweepDue,     \* cleanupLoop's ticker has fired and was not received yet
    byRequester,  \* attemptLimiter.byRequester; Absent for a missing key
    inFlight      \* requests admitted by Blocked whose join is undecided

limiterVars == <<clock, sweepDue, byRequester, inFlight>>

AttemptState == [windowStart : Nat, count : Nat, blockedUntil : Nat]

\* A missing map entry reads as Go's zero attemptState.
Absent == [windowStart |-> 0, count |-> 0, blockedUntil |-> 0]

LimiterTypeOK ==
    /\ clock \in 1 .. MaxClock + 1
    /\ sweepDue \in BOOLEAN
    /\ byRequester \in [Requester -> AttemptState]
    /\ inFlight \in [Requester -> 0 .. MaxInFlight]

LimiterInit ==
    /\ clock = 1
    /\ sweepDue = FALSE
    /\ byRequester = [r \in Requester |-> Absent]
    /\ inFlight = [r \in Requester |-> 0]

--------------------------------------------------------------------------------
(* The decisions of the limiter on one entry *)

BlockedAt(state, t) == t < state.blockedUntil

\* now.Sub(WindowStart) > window; WindowStart never lies after t.
Stale(state, t) == t > state.windowStart + Window

\* Slip: a window that is never closed.
WindowOverNever(state, t) == state.windowStart = 0

WindowOver(state, t) == state.windowStart = 0 \/ Stale(state, t)

\* Slip: the limit is off by one.
OverLimitLate(count) == count > Limit + 1

\* state.Count > l.limit
OverLimit(count) == count > Limit

Counted(state, t) ==
    IF WindowOver(state, t)
    THEN [windowStart |-> t, count |-> 1, blockedUntil |-> 0]
    ELSE [state EXCEPT !.count = @ + 1]

\* What Fail stores for an entry at time t.
FailResult(state, t) ==
    IF BlockedAt(state, t)
    THEN state
    ELSE LET counted == Counted(state, t)
         IN  IF OverLimit(counted.count)
             THEN [counted EXCEPT !.blockedUntil = t + Block]
             ELSE counted

\* Slips: one half of the condition below is dropped.
EvictableUnblocked(state, t) == t > state.blockedUntil

EvictableStale(state, t) == Stale(state, t)

\* What cleanupLoop deletes: neither blocked nor within its window.
Evictable(state, t) ==
    /\ t > state.blockedUntil
    /\ Stale(state, t)

Blocked(r) == BlockedAt(byRequester[r], clock)

--------------------------------------------------------------------------------
(* Actions *)

\* agentHandler calls Blocked and goes on with the request.
Admit(r) ==
    /\ ~ Blocked(r)
    /\ inFlight[r] < MaxInFlight
    /\ inFlight' = [inFlight EXCEPT ![r] = @ + 1]
    /\ UNCHANGED <<clock, sweepDue, byRequester>>

\* A request of r has passed Blocked and has not returned.
Undecided(r) == inFlight[r] > 0

\* Bad code format, bad token, or store.Join refused: agentHandler calls Fail.
FailedJoin(r) ==
    /\ Undecided(r)
    /\ inFlight' = [inFlight EXCEPT ![r] = @ - 1]
    /\ byRequester' = [byRequester EXCEPT ![r] = FailResult(@, clock)]
    /\ UNCHANGED <<clock, sweepDue>>

\* The join succeeded, or the WebSocket upgrade did not: nothing is recorded.
OtherEnd(r) ==
    /\ Undecided(r)
    /\ inFlight' = [inFlight EXCEPT ![r] = @ - 1]
    /\ UNCHANGED <<clock, sweepDue, byRequester>>

\* The clock advances; the ticker's channel holds at most one tick.
Tick ==
    /\ clock <= MaxClock
    /\ clock' = clock + 1
    /\ sweepDue' = (sweepDue \/ clock % Block = 0)
    /\ UNCHANGED <<byRequester, inFlight>>

\* cleanupLoop receives a tick and sweeps the map under the mutex.
Cleanup ==
    /\ sweepDue
    /\ sweepDue' = FALSE
    /\ byRequester' = [r \in Requester |->
           IF Evictable(byRequester[r], clock) THEN Absent ELSE byRequester[r]]
    /\ UNCHANGED <<clock, inFlight>>

LimiterNext ==
    \/ \E r \in Requester : Admit(r) \/ FailedJoin(r) \/ OtherEnd(r)
    \/ Tick
    \/ Cleanup

LimiterSpec == LimiterInit /\ [][LimiterNext]_limiterVars

================================================================================
