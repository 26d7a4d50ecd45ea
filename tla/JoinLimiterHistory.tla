-------------------------- MODULE JoinLimiterHistory ---------------------------
(***************************************************************************)
(* JoinLimiter with two history variables that no action reads:            *)
(*   uncleaned  the entries as they would be had cleanupLoop never run;    *)
(*   recorded   when each requester's last failures that were counted had  *)
(*              been reported, the most recent first; 0 where there was    *)
(*              none, and for those from more than one Window ago.         *)
(* They let the promises of the limiter relate a decision to what led to   *)
(* it.                                                                     *)
(***************************************************************************)
EXTENDS JoinLimiter

\* How many failures are remembered.
Depth == 1 .. 2 * Limit + 2

VARIABLES uncleaned, recorded

historyVars == <<clock, sweepDue, byRequester, inFlight, uncleaned, recorded>>

HInit ==
    /\ LimiterInit
    /\ uncleaned = byRequester
    /\ recorded = [r \in Requester |-> [i \in Depth |-> 0]]

HAdmit(r) == Admit(r) /\ UNCHANGED <<uncleaned, recorded>>

HOtherEnd(r) == OtherEnd(r) /\ UNCHANGED <<uncleaned, recorded>>

HCleanup == Cleanup /\ UNCHANGED <<uncleaned, recorded>>

Shifted(times, t) == [i \in Depth |-> IF i = 1 THEN t ELSE times[i - 1]]

HFailedJoin(r) ==
    /\ FailedJoin(r)
    /\ uncleaned' = [uncleaned EXCEPT ![r] = FailResult(@, clock)]
    /\ recorded' = IF Blocked(r)
                   THEN recorded
                   ELSE [recorded EXCEPT ![r] = Shifted(@, clock)]

Recent(times, t) == [i \in Depth |-> IF times[i] + Window >= t THEN times[i] ELSE 0]

HTick ==
    /\ Tick
    /\ recorded' = [r \in Requester |-> Recent(recorded[r], clock')]
    /\ UNCHANGED uncleaned

HNext ==
    \/ \E r \in Requester : HAdmit(r) \/ HFailedJoin(r) \/ HOtherEnd(r)
    \/ HTick
    \/ HCleanup

HSpec == HInit /\ [][HNext]_historyVars

--------------------------------------------------------------------------------

\* Eviction is invisible: for every requester the limiter gives the verdict it
\* would give with no cleanupLoop at all, and the next failure is treated the
\* same (main.go:533-548 deletes entries other requests are about to consult).
EvictionInvisible ==
    \A r \in Requester :
        /\ Blocked(r) <=> BlockedAt(uncleaned[r], clock)
        /\ FailResult(byRequester[r], clock) = FailResult(uncleaned[r], clock)

\* A block lasts until the deadline set when it began: neither the failures of
\* requests admitted before it, nor a sweep, shorten, extend or drop it
\* (main.go:518-521, 542).
BlockLasts ==
    [][\A r \in Requester :
          Blocked(r) => byRequester'[r] = byRequester[r]]_historyVars

\* Nobody is blocked for old failures: a block begins only if more than Limit
\* failures of that requester were recorded within one Window (main.go:522-529).
BlockEarned ==
    [][\A r \in Requester :
          (~ Blocked(r) /\ Blocked(r)') => recorded'[r][Limit + 1] # 0]_historyVars

\* What the fixed counting window guarantees of the recorded failures: no more
\* than 2 * Limit + 1 fall in any span of one Window, provided a block outlasts
\* the window (main.go:522-529).
BurstBound ==
    Block >= Window => \A r \in Requester : recorded[r][2 * Limit + 2] = 0

================================================================================
