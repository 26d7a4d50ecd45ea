--------------------------- MODULE ServerClockProofs ---------------------------
(***************************************************************************)
(* What the server does by the clock.  First the promises of the           *)
(* failed-join limiter, for any number of requesters and any limit,        *)
(* window, block and clock bound; then those of the session registry, for  *)
(* any lifetimes, any interval between sweeps and any time it takes to     *)
(* close connections.                                                      *)
(***************************************************************************)
EXTENDS JoinLimiterHistory, SessionExpiry, TLAPS

(* The failed-join limiter *)

HistoryTypeOK ==
    /\ LimiterTypeOK
    /\ uncleaned \in [Requester -> AttemptState]
    /\ recorded \in [Requester -> [Depth -> Nat]]

\* What Fail stores is again an entry.
LEMMA FailResultType ==
    ASSUME NEW state \in AttemptState, NEW t \in Nat
    PROVE  FailResult(state, t) \in AttemptState
BY LimiterAssumption
   DEF FailResult, Counted, WindowOver, Stale, OverLimit, BlockedAt, AttemptState

LEMMA AbsentType == Absent \in AttemptState
BY DEF Absent, AttemptState

LEMMA DepthType == Depth \subseteq Nat \ {0} /\ {1, 2, Limit + 1, 2 * Limit + 2} \subseteq Depth
BY LimiterAssumption DEF Depth

LEMMA TimesType ==
    ASSUME NEW times \in [Depth -> Nat], NEW t \in Nat
    PROVE  Shifted(times, t) \in [Depth -> Nat] /\ Recent(times, t) \in [Depth -> Nat]
<1>1. \A i \in Depth : i # 1 => i - 1 \in Depth
    BY LimiterAssumption DEF Depth
<1>2. Shifted(times, t) \in [Depth -> Nat]
    BY <1>1 DEF Shifted
<1>3. Recent(times, t) \in [Depth -> Nat]
    BY LimiterAssumption DEF Recent
<1> QED BY <1>2, <1>3

\* One step of the limiter preserves the types.
LEMMA LimiterTypeStep == HistoryTypeOK /\ [HNext]_historyVars => HistoryTypeOK'
<1> SUFFICES ASSUME HistoryTypeOK, [HNext]_historyVars PROVE HistoryTypeOK'
    OBVIOUS
<1> USE LimiterAssumption DEF HistoryTypeOK, LimiterTypeOK
<1>admit. ASSUME NEW r \in Requester, HAdmit(r) PROVE HistoryTypeOK'
    BY <1>admit DEF HAdmit, Admit
<1>fails. ASSUME NEW r \in Requester, HFailedJoin(r) PROVE HistoryTypeOK'
    <2>1. /\ FailResult(byRequester[r], clock) \in AttemptState
          /\ FailResult(uncleaned[r], clock) \in AttemptState
        BY FailResultType
    <2>2. Shifted(recorded[r], clock) \in [Depth -> Nat]
        BY TimesType
    <2>3. recorded' \in [Requester -> [Depth -> Nat]]
        BY <1>fails, <2>2 DEF HFailedJoin
    <2>4. uncleaned' \in [Requester -> AttemptState] /\ LimiterTypeOK'
        BY <1>fails, <2>1 DEF HFailedJoin, FailedJoin, Undecided
    <2> QED BY <2>3, <2>4
<1>otherEnd. ASSUME NEW r \in Requester, HOtherEnd(r) PROVE HistoryTypeOK'
    BY <1>otherEnd DEF HOtherEnd, OtherEnd, Undecided
<1>tick. CASE HTick
    <2>1. \A r \in Requester : Recent(recorded[r], clock + 1) \in [Depth -> Nat]
        BY TimesType
    <2> QED BY <1>tick, <2>1 DEF HTick, Tick
<1>cleanup. CASE HCleanup
    BY <1>cleanup, AbsentType DEF HCleanup, Cleanup
<1>still. CASE UNCHANGED historyVars
    BY <1>still DEF historyVars
<1> QED BY <1>admit, <1>fails, <1>otherEnd, <1>tick, <1>cleanup, <1>still DEF HNext

LEMMA LimiterTypeInit == HInit => HistoryTypeOK
<1> SUFFICES ASSUME HInit PROVE HistoryTypeOK
    OBVIOUS
<1>entries. byRequester \in [Requester -> AttemptState]
    BY AbsentType DEF HInit, LimiterInit
<1>clock. clock \in 1 .. MaxClock + 1
    BY LimiterAssumption DEF HInit, LimiterInit
<1>requests. inFlight \in [Requester -> 0 .. MaxInFlight]
    BY LimiterAssumption DEF HInit, LimiterInit
<1>due. sweepDue \in BOOLEAN
    BY DEF HInit, LimiterInit
<1> QED BY <1>entries, <1>clock, <1>requests, <1>due DEF HInit, HistoryTypeOK, LimiterTypeOK

\* The limiter's state is well typed (main.go:473-485).
THEOREM LimiterTypeCorrect == HSpec => []LimiterTypeOK
<1>1. HSpec => []HistoryTypeOK
    BY LimiterTypeInit, LimiterTypeStep, PTL DEF HSpec
<1>2. HistoryTypeOK => LimiterTypeOK
    BY DEF HistoryTypeOK
<1> QED BY <1>1, <1>2, PTL

--------------------------------------------------------------------------------

\* The inductive form of EvictionInvisible: the entry kept is the entry there
\* would be, or the latter no longer says anything.
EvictionInv ==
    \A r \in Requester :
        \/ byRequester[r] = uncleaned[r]
        \/ byRequester[r] = Absent /\ Evictable(uncleaned[r], clock)

\* An entry that may be evicted has the same verdict and the same next failure
\* as no entry.
LEMMA EvictableIsAbsent ==
    ASSUME NEW state \in AttemptState, NEW t \in Nat \ {0}, Evictable(state, t)
    PROVE  /\ ~ BlockedAt(state, t)
           /\ ~ BlockedAt(Absent, t)
           /\ FailResult(state, t) = FailResult(Absent, t)
<1>1. ~ BlockedAt(state, t) /\ ~ BlockedAt(Absent, t)
    BY DEF BlockedAt, Absent, Evictable, AttemptState
<1>2. WindowOver(state, t) /\ WindowOver(Absent, t)
    BY DEF WindowOver, Absent, Evictable
<1> QED BY <1>1, <1>2 DEF FailResult, Counted

LEMMA EvictionInit == HInit => EvictionInv
BY DEF HInit, EvictionInv

LEMMA EvictionStep ==
    HistoryTypeOK /\ EvictionInv /\ [HNext]_historyVars => EvictionInv'
<1> SUFFICES ASSUME HistoryTypeOK, EvictionInv, [HNext]_historyVars,
                    NEW q \in Requester
             PROVE  \/ byRequester'[q] = uncleaned'[q]
                    \/ byRequester'[q] = Absent /\ Evictable(uncleaned'[q], clock')
    BY DEF EvictionInv
<1> USE LimiterAssumption DEF HistoryTypeOK, LimiterTypeOK
<1>a. clock \in Nat \ {0}
    OBVIOUS
<1>b. \/ byRequester[q] = uncleaned[q]
      \/ byRequester[q] = Absent /\ Evictable(uncleaned[q], clock)
    BY DEF EvictionInv
<1>1. ASSUME NEW r \in Requester, HAdmit(r) \/ HOtherEnd(r)
      PROVE  UNCHANGED <<clock, byRequester, uncleaned>>
    BY <1>1 DEF HAdmit, Admit, HOtherEnd, OtherEnd
<1>2. ASSUME NEW r \in Requester, HFailedJoin(r)
      PROVE  \/ byRequester'[q] = uncleaned'[q]
             \/ byRequester'[q] = Absent /\ Evictable(uncleaned'[q], clock')
    <2>1. FailResult(byRequester[q], clock) = FailResult(uncleaned[q], clock)
        BY <1>a, <1>b, EvictableIsAbsent
    <2> QED BY <1>2, <1>b, <2>1 DEF HFailedJoin, FailedJoin
<1>3. ASSUME HTick
      PROVE  \/ byRequester'[q] = uncleaned'[q]
             \/ byRequester'[q] = Absent /\ Evictable(uncleaned'[q], clock')
    <2>1. UNCHANGED <<byRequester, uncleaned>> /\ clock' = clock + 1
        BY <1>3 DEF HTick, Tick
    <2>2. Evictable(uncleaned[q], clock) => Evictable(uncleaned[q], clock')
        BY <1>a, <2>1 DEF Evictable, Stale, AttemptState
    <2> QED BY <1>b, <2>1, <2>2
<1>4. ASSUME HCleanup
      PROVE  \/ byRequester'[q] = uncleaned'[q]
             \/ byRequester'[q] = Absent /\ Evictable(uncleaned'[q], clock')
    <2>1. /\ UNCHANGED <<clock, uncleaned>>
          /\ byRequester'[q] = IF Evictable(byRequester[q], clock)
                               THEN Absent ELSE byRequester[q]
        BY <1>4 DEF HCleanup, Cleanup
    <2> QED BY <1>b, <2>1
<1>5. CASE UNCHANGED historyVars
    BY <1>5, <1>b DEF historyVars
<1> QED
    <2>1. UNCHANGED <<clock, byRequester, uncleaned>> =>
              \/ byRequester'[q] = uncleaned'[q]
              \/ byRequester'[q] = Absent /\ Evictable(uncleaned'[q], clock')
        BY <1>b
    <2> QED BY <1>1, <1>2, <1>3, <1>4, <1>5, <2>1 DEF HNext

\* The verdicts of the limiter do not depend on when, or whether, cleanupLoop
\* runs (main.go:533-548).
THEOREM SweepsAreInvisible == HSpec => []EvictionInvisible
<1>1. HistoryTypeOK /\ EvictionInv => EvictionInvisible
    <2> SUFFICES ASSUME HistoryTypeOK, EvictionInv, NEW r \in Requester
                 PROVE  /\ Blocked(r) <=> BlockedAt(uncleaned[r], clock)
                        /\ FailResult(byRequester[r], clock)
                              = FailResult(uncleaned[r], clock)
        BY DEF EvictionInvisible
    <2>1. clock \in Nat \ {0} /\ uncleaned[r] \in AttemptState
        BY LimiterAssumption DEF HistoryTypeOK, LimiterTypeOK
    <2> QED BY <2>1, EvictableIsAbsent DEF EvictionInv, Blocked
<1>2. HSpec => [](HistoryTypeOK /\ EvictionInv)
    BY LimiterTypeInit, LimiterTypeStep, EvictionInit, EvictionStep, PTL DEF HSpec
<1> QED BY <1>1, <1>2, PTL

--------------------------------------------------------------------------------

\* A block, once begun, keeps its deadline until it is over (main.go:518-521,
\* 542).
THEOREM BlocksLast == HSpec => BlockLasts
<1>1. HistoryTypeOK /\ [HNext]_historyVars
         => [\A r \in Requester :
                Blocked(r) => byRequester'[r] = byRequester[r]]_historyVars
    <2> SUFFICES ASSUME HistoryTypeOK, HNext, NEW q \in Requester, Blocked(q)
                 PROVE  byRequester'[q] = byRequester[q]
        BY DEF Blocked
    <2> USE LimiterAssumption DEF HistoryTypeOK, LimiterTypeOK
    <2>1. ASSUME NEW r \in Requester, HAdmit(r) \/ HOtherEnd(r) \/ HTick
          PROVE  byRequester'[q] = byRequester[q]
        BY <2>1 DEF HAdmit, Admit, HOtherEnd, OtherEnd, HTick, Tick
    <2>2. ASSUME NEW r \in Requester, HFailedJoin(r)
          PROVE  byRequester'[q] = byRequester[q]
        <3>1. FailResult(byRequester[q], clock) = byRequester[q]
            BY DEF FailResult, Blocked
        <3> QED BY <2>2, <3>1 DEF HFailedJoin, FailedJoin
    <2>3. CASE HCleanup
        <3>1. ~ Evictable(byRequester[q], clock)
            BY DEF Evictable, Blocked, BlockedAt, AttemptState
        <3> QED BY <2>3, <3>1 DEF HCleanup, Cleanup
    <2> QED BY <2>1, <2>2, <2>3 DEF HNext
<1>2. HSpec => []HistoryTypeOK
    BY LimiterTypeInit, LimiterTypeStep, PTL DEF HSpec
<1> QED BY <1>1, <1>2, PTL DEF HSpec, BlockLasts

--------------------------------------------------------------------------------
(* How many failures pass *)

\* Times are in order, and none is kept for longer than a Window.
InOrder(times, t) ==
    /\ times \in [Depth -> Nat]
    /\ \A i \in Depth :
          /\ times[i] = 0 \/ (times[i] <= t /\ times[i] + Window >= t)
          /\ \A j \in Depth : i <= j => times[j] <= times[i]

\* The entry counts the last of the failures: those since its window has begun, the
\* first of which began it; and of those before them no more than Limit are recent.
Counts(times, state, t) ==
    LET start == state.windowStart
        count == state.count
    IN  /\ start = 0 <=> count = 0
        /\ start <= t
        /\ count = 0 => \A i \in Depth : times[i] = 0
        /\ \A i \in Depth :
              /\ i <= count => times[i] >= start \/ t > start + Window
              /\ i > count => times[i] < start \/ start = 0
              /\ i >= count => times[i] <= start
              /\ times[i] <= start + Window

\* A block that outlasts the window leaves room for one failure more, in the last
\* moment of the window, and only if all others have come in its first one.
Bounded(times, state) ==
    LET start == state.windowStart
        count == state.count
    IN  /\ count > Limit => /\ state.blockedUntil >= start + Block
                            /\ state.blockedUntil >= times[1] + Block
        /\ count <= Limit + 2
        /\ count = Limit + 2 => times[2] <= start /\ state.blockedUntil > start + Window
        /\ \A i \in Depth : i > count + Limit => times[i] = 0
        /\ times[2 * Limit + 2] = 0

BurstInv ==
    \A r \in Requester :
        /\ InOrder(recorded[r], clock)
        /\ Counts(recorded[r], uncleaned[r], clock)
        /\ Block >= Window => Bounded(recorded[r], uncleaned[r])

\* Time goes by for the history of one requester.
LEMMA TimesAge ==
    ASSUME NEW times, NEW state \in AttemptState, NEW t \in Nat \ {0},
           InOrder(times, t), Counts(times, state, t)
    PROVE  /\ InOrder(Recent(times, t + 1), t + 1)
           /\ Counts(Recent(times, t + 1), state, t + 1)
           /\ Bounded(times, state) => Bounded(Recent(times, t + 1), state)
<1> DEFINE aged == Recent(times, t + 1)
<1>1. {Window, Limit, Block} \subseteq Nat \ {0}
    BY LimiterAssumption
<1>2. /\ aged \in [Depth -> Nat]
      /\ \A i \in Depth : aged[i] = IF times[i] + Window >= t + 1 THEN times[i] ELSE 0
    BY <1>1 DEF Recent, InOrder
<1>3. \A i \in Depth : aged[i] <= times[i] /\ times[i] \in Nat
    BY <1>1, <1>2 DEF InOrder
<1> HIDE DEF aged
<1>4. InOrder(aged, t + 1)
    BY <1>1, <1>2, <1>3 DEF InOrder, Depth
<1>5. Counts(aged, state, t + 1)
    BY <1>1, <1>2, <1>3 DEF InOrder, Counts, AttemptState
<1>6. Bounded(times, state) => Bounded(aged, state)
    BY <1>1, <1>2, <1>3, DepthType DEF Bounded, AttemptState
<1> QED BY <1>4, <1>5, <1>6 DEF aged

\* A failure is counted.
LEMMA TimesShift ==
    ASSUME NEW times, NEW state \in AttemptState, NEW t \in Nat \ {0},
           InOrder(times, t), Counts(times, state, t), ~ BlockedAt(state, t)
    PROVE  /\ InOrder(Shifted(times, t), t)
           /\ Counts(Shifted(times, t), FailResult(state, t), t)
           /\ Block >= Window /\ Bounded(times, state)
                 => Bounded(Shifted(times, t), FailResult(state, t))
<1> DEFINE more == Shifted(times, t)
           next == FailResult(state, t)
<1>1. {Window, Block, Limit} \subseteq Nat \ {0} /\ next \in AttemptState
    BY LimiterAssumption, FailResultType
<1>2. /\ more \in [Depth -> Nat]
      /\ more[1] = t
      /\ \A i \in Depth : i # 1 => i - 1 \in Depth /\ more[i] = times[i - 1]
    BY <1>1, DepthType DEF Shifted, InOrder, Depth
<1>3. \A i \in Depth : times[i] \in Nat
    BY DEF InOrder
<1>a. next.blockedUntil = IF next.count > Limit THEN t + Block ELSE Counted(state, t).blockedUntil
    BY <1>1 DEF FailResult, Counted, OverLimit, AttemptState
<1>b. Block >= Window /\ Bounded(times, state) =>
         {state.count, state.blockedUntil, state.windowStart} \subseteq Nat
    BY DEF AttemptState
<1> HIDE DEF more
<1>4. InOrder(more, t)
    <2>1. \A i \in Depth :
             /\ times[i] = 0 \/ (times[i] <= t /\ times[i] + Window >= t)
             /\ \A j \in Depth : i <= j => times[j] <= times[i]
        BY DEF InOrder
    <2>2. \A i \in Depth : more[i] = 0 \/ (more[i] <= t /\ more[i] + Window >= t)
        BY <1>1, <1>2, <2>1
    <2>3. ASSUME NEW i \in Depth, NEW j \in Depth, i <= j PROVE more[j] <= more[i]
        <3>1. CASE i = 1
            BY <1>1, <1>2, <1>3, <2>1, <3>1
        <3>2. CASE i # 1
            <4>1. i - 1 <= j - 1 /\ j # 1
                BY <2>3, <3>2 DEF Depth
            <4> QED BY <1>2, <2>1, <3>2, <4>1
        <3> QED BY <3>1, <3>2
    <2> QED BY <1>2, <2>2, <2>3 DEF InOrder
<1>5. CASE WindowOver(state, t)
    <2>1. next.windowStart = t /\ next.count = 1
        BY <1>1, <1>5 DEF FailResult, Counted, OverLimit
    <2> HIDE DEF next
    <2>3. Counts(more, next, t)
        <3>1. ASSUME NEW i \in Depth, i # 1 PROVE more[i] < t
            <4>1. i - 1 \in Depth /\ more[i] = times[i - 1] /\ times[i - 1] \in Nat
                BY <1>2, <1>3, <3>1
            <4>2. state.windowStart = 0 => times[i - 1] = 0
                BY <4>1 DEF Counts
            <4>3. times[i - 1] <= state.windowStart + Window
                BY <4>1 DEF Counts
            <4>4. state.windowStart = 0 \/ t > state.windowStart + Window
                BY <1>5 DEF WindowOver, Stale
            <4>5. state.windowStart \in Nat /\ Window \in Nat
                BY <1>1 DEF AttemptState
            <4>6. times[i - 1] < t
                BY <4>1, <4>2, <4>3, <4>4, <4>5
            <4> QED BY <4>1, <4>6
        <3>2. ASSUME NEW i \in Depth
              PROVE  /\ i <= 1 => more[i] >= t \/ t > t + Window
                     /\ i > 1 => more[i] < t \/ t = 0
                     /\ i >= 1 => more[i] <= t
                     /\ more[i] <= t + Window
            <4>1. i \in Nat \ {0} /\ more[i] \in Nat /\ Window \in Nat
                BY <1>1, <1>2, DepthType
            <4> QED BY <1>2, <3>1, <4>1
        <3> QED BY <2>1, <3>2 DEF Counts
    <2>4. ASSUME Block >= Window, Bounded(times, state),
                 NEW i \in Depth, i > Limit + 1
          PROVE  more[i] = 0
        <3> DEFINE k == i - 1
        <3>1. k \in Depth /\ k \in Nat /\ k >= Limit + 1 /\ k >= 2 /\ more[i] = times[k]
            BY <1>1, <1>2, <2>4 DEF Depth
        <3>2. CASE state.windowStart = 0
            BY <3>1, <3>2 DEF Counts
        <3>3. CASE t > state.windowStart + Window
            <4>1. times[k] <= state.windowStart
                <5>1. CASE k >= state.count
                    BY <3>1, <5>1 DEF Counts
                <5>2. CASE k < state.count
                    <6>1. state.count = Limit + 2
                        BY <1>1, <2>4, <3>1, <5>2 DEF Bounded, AttemptState
                    <6>2. times[2] <= state.windowStart /\ times[k] <= times[2]
                        BY <2>4, <3>1, <6>1, DepthType DEF Bounded, InOrder
                    <6> QED BY <1>3, <3>1, <6>2, DepthType DEF AttemptState
                <5> QED BY <3>1, <5>1, <5>2 DEF AttemptState
            <4> QED BY <1>1, <1>3, <3>1, <3>3, <4>1 DEF InOrder, AttemptState
        <3> QED BY <1>5, <3>2, <3>3 DEF WindowOver, Stale
    <2>5. ASSUME Block >= Window, Bounded(times, state) PROVE Bounded(more, next)
        BY <1>1, <2>1, <2>4, <2>5, DepthType DEF Bounded, Depth
    <2> QED BY <1>4, <2>3, <2>4, <2>5 DEF more, next
<1>6. CASE ~ WindowOver(state, t)
    <2> DEFINE start == state.windowStart
               count == state.count
    <2>1. /\ next.windowStart = start /\ next.count = count + 1
          /\ start \in Nat \ {0} /\ count \in Nat \ {0} /\ t <= start + Window
        BY <1>1, <1>6
           DEF FailResult, Counted, OverLimit, WindowOver, Stale, Counts, AttemptState
    <2> HIDE DEF next
    <2>2. Counts(more, next, t)
        <3>1. ASSUME NEW i \in Depth
              PROVE  /\ i <= count + 1 => more[i] >= start \/ t > start + Window
                     /\ i > count + 1 => more[i] < start \/ start = 0
                     /\ i >= count + 1 => more[i] <= start
                     /\ more[i] <= start + Window
            <4>1. CASE i = 1
                BY <1>2, <2>1, <4>1 DEF Counts
            <4>2. CASE i # 1
                <5>1. i - 1 \in Depth /\ more[i] = times[i - 1] /\ i \in Nat
                    BY <1>2, <4>2 DEF Depth
                <5> QED BY <2>1, <5>1 DEF Counts
            <4> QED BY <4>1, <4>2
        <3> QED BY <2>1, <3>1 DEF Counts
    <2>3. ASSUME Block >= Window, Bounded(times, state) PROVE Bounded(more, next)
        <3>1. next.count > Limit => next.blockedUntil = t + Block
            BY <1>a DEF next
        <3>2. start <= t
            BY DEF Counts
        <3>3. state.blockedUntil <= t /\ state.blockedUntil \in Nat
            <4>1. state.blockedUntil \in Nat
                BY DEF AttemptState
            <4> QED BY <4>1 DEF BlockedAt
        <3>4. count <= Limit + 1
            <4>1. /\ count <= Limit + 2
                  /\ count = Limit + 2 => state.blockedUntil > start + Window
                BY <2>3 DEF Bounded
            <4>2. {Limit, Window, count, start, t, state.blockedUntil} \subseteq Nat
                BY <1>1, <2>1, <3>3
            <4> HIDE DEF start, count
            <4> QED BY <2>1, <3>3, <4>1, <4>2
        <3>5. more[2] = times[1] /\ times[1] \in Nat
            BY <1>2, <1>3, DepthType
        <3>6. count = Limit + 1 => t = start + Window /\ more[2] <= start
            <4>1. count = Limit + 1 => /\ state.blockedUntil >= start + Block
                                       /\ state.blockedUntil >= times[1] + Block
                BY <1>1, <2>3 DEF Bounded
            <4>2. /\ {Limit, Window, Block, count, start, t} \subseteq Nat
                  /\ {state.blockedUntil, times[1]} \subseteq Nat
                BY <1>1, <2>1, <3>3, <3>5
            <4> HIDE DEF start, count
            <4> QED BY <2>1, <2>3, <3>3, <3>5, <4>1, <4>2
        <3>7. ASSUME NEW i \in Depth, i > count + 1 + Limit PROVE more[i] = 0
            <4>1. i # 1 /\ i - 1 > count + Limit /\ i - 1 \in Depth
                BY <1>1, <2>1, <3>7 DEF Depth
            <4> QED BY <1>2, <2>3, <4>1 DEF Bounded
        <3>8. more[2 * Limit + 2] = 0
            <4>1. /\ 2 * Limit + 1 \in Depth /\ more[2 * Limit + 2] = times[2 * Limit + 1]
                  /\ times[2 * Limit + 1] \in Nat
                BY <1>1, <1>2, <1>3, DepthType DEF Depth
            <4>2. CASE count <= Limit
                BY <1>1, <2>1, <2>3, <4>1, <4>2 DEF Bounded
            <4>3. CASE count = Limit + 1
                <5>1. times[2 * Limit + 1] < start
                    BY <1>1, <2>1, <4>1, <4>3 DEF Counts
                <5> QED BY <1>1, <2>1, <3>6, <4>1, <4>3, <5>1 DEF InOrder
            <4> QED BY <1>1, <2>1, <3>4, <4>2, <4>3
        <3> QED BY <1>1, <1>2, <2>1, <3>1, <3>2, <3>4, <3>6, <3>7, <3>8 DEF Bounded
    <2> QED BY <1>4, <2>2, <2>3 DEF more, next
<1> QED BY <1>5, <1>6

LEMMA BurstInit == HInit => BurstInv
<1> SUFFICES ASSUME HInit, NEW r \in Requester
             PROVE  /\ InOrder(recorded[r], clock)
                    /\ Counts(recorded[r], uncleaned[r], clock)
                    /\ Bounded(recorded[r], uncleaned[r])
    BY DEF BurstInv
<1>1. /\ recorded[r] = [i \in Depth |-> 0] /\ uncleaned[r] = Absent /\ clock = 1
      /\ {Window, Limit} \subseteq Nat \ {0}
    BY LimiterAssumption DEF HInit, LimiterInit
<1>2. \A i \in Depth : i \in Nat \ {0}
    BY DepthType
<1> QED BY <1>1, <1>2, DepthType DEF InOrder, Counts, Bounded, Absent

LEMMA BurstStep ==
    HistoryTypeOK /\ EvictionInv /\ BurstInv /\ [HNext]_historyVars => BurstInv'
<1> SUFFICES ASSUME HistoryTypeOK, EvictionInv, BurstInv, [HNext]_historyVars,
                    NEW q \in Requester
             PROVE  /\ InOrder(recorded'[q], clock')
                    /\ Counts(recorded'[q], uncleaned'[q], clock')
                    /\ Block >= Window => Bounded(recorded'[q], uncleaned'[q])
    BY DEF BurstInv
<1>a. clock \in Nat \ {0} /\ uncleaned[q] \in AttemptState
    BY LimiterAssumption DEF HistoryTypeOK, LimiterTypeOK
<1>b. /\ InOrder(recorded[q], clock)
      /\ Counts(recorded[q], uncleaned[q], clock)
      /\ Block >= Window => Bounded(recorded[q], uncleaned[q])
    BY DEF BurstInv
<1>c. UNCHANGED <<clock, uncleaned, recorded>> =>
          /\ InOrder(recorded'[q], clock')
          /\ Counts(recorded'[q], uncleaned'[q], clock')
          /\ Block >= Window => Bounded(recorded'[q], uncleaned'[q])
    BY <1>b
<1>others. ASSUME NEW r \in Requester, HAdmit(r) \/ HOtherEnd(r)
           PROVE  UNCHANGED <<clock, uncleaned, recorded>>
    BY <1>others DEF HAdmit, Admit, HOtherEnd, OtherEnd
<1>cleanup. CASE HCleanup
    BY <1>cleanup, <1>c DEF HCleanup, Cleanup
<1>still. CASE UNCHANGED historyVars
    BY <1>still, <1>c DEF historyVars
<1>tick. CASE HTick
    <2>1. /\ clock' = clock + 1 /\ uncleaned' = uncleaned
          /\ recorded'[q] = Recent(recorded[q], clock + 1)
        BY <1>tick DEF HTick, Tick
    <2> QED BY <1>a, <1>b, <2>1, TimesAge
<1>fails. ASSUME NEW r \in Requester, HFailedJoin(r)
          PROVE  /\ InOrder(recorded'[q], clock')
                 /\ Counts(recorded'[q], uncleaned'[q], clock')
                 /\ Block >= Window => Bounded(recorded'[q], uncleaned'[q])
    <2>1. clock' = clock
        BY <1>fails DEF HFailedJoin, FailedJoin
    <2>2. CASE q # r
        <3>1. recorded'[q] = recorded[q] /\ uncleaned'[q] = uncleaned[q]
            BY <1>fails, <2>2 DEF HFailedJoin
        <3> QED BY <1>b, <2>1, <3>1
    <2>3. CASE q = r /\ Blocked(q)
        <3>1. BlockedAt(uncleaned[q], clock)
            BY <1>a, <2>3, EvictableIsAbsent DEF EvictionInv, Blocked
        <3>2. recorded'[q] = recorded[q] /\ uncleaned'[q] = uncleaned[q]
            BY <1>fails, <2>3, <3>1 DEF HFailedJoin, FailResult, HistoryTypeOK
        <3> QED BY <1>b, <2>1, <3>2
    <2>4. CASE q = r /\ ~ Blocked(q)
        <3>1. ~ BlockedAt(uncleaned[q], clock)
            BY <1>a, <2>4, EvictableIsAbsent DEF EvictionInv, Blocked
        <3>2. /\ uncleaned'[q] = FailResult(uncleaned[q], clock)
              /\ recorded'[q] = Shifted(recorded[q], clock)
            BY <1>fails, <2>4 DEF HFailedJoin, HistoryTypeOK
        <3> QED BY <1>a, <1>b, <2>1, <3>1, <3>2, TimesShift
    <2> QED BY <2>2, <2>3, <2>4
<1> QED BY <1>others, <1>cleanup, <1>still, <1>tick, <1>fails, <1>c DEF HNext

LimiterInv == HistoryTypeOK /\ EvictionInv /\ BurstInv

LEMMA LimiterInvHolds == HSpec => []LimiterInv
<1> USE DEF LimiterInv
<1>first. HInit => LimiterInv
    BY LimiterTypeInit, EvictionInit, BurstInit
<1>step. LimiterInv /\ [HNext]_historyVars => LimiterInv'
    BY LimiterTypeStep, EvictionStep, BurstStep
<1> QED BY <1>first, <1>step, PTL DEF HSpec

\* With blocks no shorter than the window, no requester has more than twice the limit
\* and one failure counted within any span of one window (main.go:522-529).
THEOREM BurstsAreBounded == HSpec => []BurstBound
<1>1. LimiterInv => BurstBound
    BY DEF LimiterInv, BurstInv, Bounded, BurstBound
<1> QED BY <1>1, LimiterInvHolds, PTL

\* Whoever becomes blocked has failed more often than the limit allows within the
\* last window, however long or short a block is (main.go:522-529).
THEOREM BlocksAreEarned == HSpec => BlockEarned
<1>1. LimiterInv /\ LimiterInv' /\ [HNext]_historyVars
         => [\A r \in Requester :
                (~ Blocked(r) /\ Blocked(r)') => recorded'[r][Limit + 1] # 0]_historyVars
    <2> SUFFICES ASSUME LimiterInv, LimiterInv', HNext, NEW q \in Requester,
                        ~ Blocked(q), Blocked(q)'
                 PROVE  recorded'[q][Limit + 1] # 0
        OBVIOUS
    <2>a. /\ clock \in Nat \ {0} /\ uncleaned[q] \in AttemptState
          /\ byRequester[q] \in AttemptState
        BY LimiterAssumption DEF LimiterInv, HistoryTypeOK, LimiterTypeOK
    <2>others. ASSUME NEW r \in Requester, HAdmit(r) \/ HOtherEnd(r) PROVE FALSE
        BY <2>others DEF HAdmit, Admit, HOtherEnd, OtherEnd, Blocked
    <2>tick. CASE HTick
        BY <2>tick, <2>a DEF HTick, Tick, Blocked, BlockedAt, AttemptState
    <2>cleanup. CASE HCleanup
        BY <2>cleanup, <2>a DEF HCleanup, Cleanup, Blocked, BlockedAt, Absent
    <2>fails. ASSUME NEW r \in Requester, HFailedJoin(r)
              PROVE  recorded'[q][Limit + 1] # 0
        <3>1. /\ clock' = clock
              /\ byRequester' = [byRequester EXCEPT ![r] = FailResult(@, clock)]
              /\ uncleaned' = [uncleaned EXCEPT ![r] = FailResult(@, clock)]
            BY <2>fails DEF HFailedJoin, FailedJoin
        <3>2. q = r
            BY <3>1 DEF Blocked, LimiterInv, HistoryTypeOK, LimiterTypeOK
        <3>3. byRequester'[q] = FailResult(byRequester[q], clock)
            BY <3>1, <3>2 DEF LimiterInv, HistoryTypeOK, LimiterTypeOK
        <3>4. uncleaned'[q] = FailResult(byRequester[q], clock)
            BY <2>a, <3>1, <3>2, EvictableIsAbsent
            DEF LimiterInv, HistoryTypeOK, EvictionInv
        <3> DEFINE counted == Counted(byRequester[q], clock)
        <3>5. OverLimit(counted.count)
            BY <2>a, <3>1, <3>3
            DEF Blocked, FailResult, Counted, BlockedAt, AttemptState
        <3>6. uncleaned'[q] = [counted EXCEPT !.blockedUntil = clock + Block]
            BY <3>4, <3>5 DEF FailResult, Blocked
        <3>7. /\ uncleaned'[q].count > Limit
              /\ uncleaned'[q].windowStart \in Nat \ {0}
              /\ clock <= uncleaned'[q].windowStart + Window
            BY <2>a, <3>5, <3>6, LimiterAssumption
            DEF Counted, OverLimit, WindowOver, Stale, AttemptState
        <3>8. Counts(recorded'[q], uncleaned'[q], clock') /\ recorded'[q][Limit + 1] \in Nat
            BY DepthType DEF LimiterInv, BurstInv, HistoryTypeOK
        <3>9. uncleaned'[q].count \in Nat
            BY DEF LimiterInv, HistoryTypeOK, AttemptState
        <3>10. Limit + 1 \in Depth /\ Limit + 1 <= uncleaned'[q].count
            BY <3>7, <3>9, DepthType, LimiterAssumption
        <3> QED BY <2>a, <3>1, <3>7, <3>8, <3>10, LimiterAssumption DEF Counts
    <2> QED BY <2>others, <2>tick, <2>cleanup, <2>fails DEF HNext
<1> QED BY <1>1, LimiterInvHolds, PTL DEF HSpec, BlockEarned

--------------------------------------------------------------------------------
(* The session registry: types *)

LEMMA ExpiryTypeInit == Init => TypeOK
<1> SUFFICES ASSUME Init PROVE TypeOK
    OBVIOUS
<1>loop. tick \in BOOLEAN /\ busy \in BOOLEAN
    BY Zenon DEF Init
<1> QED BY <1>loop DEF Init, TypeOK

\* One operation of the registry, of the loop or of time preserves the types.
LEMMA ExpiryTypeStep == TypeOK /\ [Next]_vars => TypeOK'
<1> SUFFICES ASSUME TypeOK, [Next]_vars PROVE TypeOK'
    OBVIOUS
<1> USE DEF TypeOK, registryVars, loopVars
<1>registered. CASE \E s \in Session : Create(s)
    BY <1>registered DEF Create
<1>bound. CASE \E k \in Code : Remove(k) \/ \E a \in Agent : Join(k, a)
    BY <1>bound DEF Remove, Join
<1>loop. CASE Sweep \/ ClosesAll \/ UNCHANGED vars
    BY <1>loop DEF Sweep, ClosesAll, vars
<1>clock. CASE Clock
    <2> tick' \in BOOLEAN
        BY <1>clock, Zenon DEF Clock, Kept
    <2> QED BY <1>clock DEF Clock
<1> QED BY <1>registered, <1>bound, <1>loop, <1>clock DEF Next

\* The times, the map and the loop's state have their types (session.go:18-34).
THEOREM TypeCorrect == Spec => []TypeOK
BY ExpiryTypeInit, ExpiryTypeStep, PTL DEF Spec

--------------------------------------------------------------------------------
(* Sessions *)

\* What the fields of a session say of each other.
Fields ==
    /\ now >= 1
    /\ \A k \in Code : sessions[k] # None => code[sessions[k]] = k
    /\ \A s \in Session :
          /\ code[s] = None => joinedAt[s] = 0
          /\ joinedAt[s] = 0 <=> agent[s] = None

LEMMA FieldsStep == TypeOK /\ Fields /\ [Next]_vars => Fields'
<1> SUFFICES ASSUME TypeOK, Fields, [Next]_vars PROVE Fields'
    OBVIOUS
<1>0. None \notin Session \cup Agent \cup Code /\ now \in Nat
    BY ExpiryAssumption DEF TypeOK
<1> USE DEF TypeOK, Fields, registryVars, loopVars
<1>create. ASSUME NEW s \in Session, Create(s) PROVE Fields'
    BY <1>0, <1>create DEF Create
<1>join. ASSUME NEW k \in Code, NEW a \in Agent, Join(k, a) PROVE Fields'
    BY <1>0, <1>join DEF Join
<1>remove. ASSUME NEW k \in Code, Remove(k) PROVE Fields'
    BY <1>0, <1>remove DEF Remove
<1>sweep. CASE Sweep
    BY <1>0, <1>sweep DEF Sweep
<1>closes. CASE ClosesAll
    BY <1>closes DEF ClosesAll
<1>clock. CASE Clock
    BY <1>0, <1>clock DEF Clock
<1>still. CASE UNCHANGED vars
    BY <1>still DEF vars
<1> QED BY <1>create, <1>join, <1>remove, <1>sweep, <1>closes, <1>clock, <1>still DEF Next

LEMMA FieldsHold == Spec => [](TypeOK /\ Fields)
<1>1. Init => Fields
    BY DEF Init, Fields
<1> QED BY <1>1, TypeCorrect, FieldsStep, PTL DEF Spec

--------------------------------------------------------------------------------
(* Sweeps *)

LoopInv ==
    /\ lastTick <= now /\ now < lastTick + SweepEvery
    /\ lastSweep <= now
    /\ busy => now <= lastSweep + MaxClose
    /\ tick => now <= lastSweep + MaxClose \/ now = lastTick

\* The last sweep left no session that had expired by then; one that had by the
\* last tick finds the channel full; and if it had by the tick before, the loop
\* has been closing ever since.
Tended(s) ==
    /\ Deadline(s) >= lastSweep
    /\ Deadline(s) < lastTick => tick
    /\ tick => now <= lastSweep + MaxClose \/ now <= Deadline(s) + SweepEvery

SweepInv == LoopInv /\ \A s \in Registered : Tended(s)

LEMMA DeadlineType ==
    ASSUME TypeOK, NEW s \in Session
    PROVE  Deadline(s) \in Nat
BY ExpiryAssumption DEF TypeOK, Deadline

\* A session that goes on as it was has the deadline it had.
LEMMA SameDeadline ==
    ASSUME NEW s, createdAt'[s] = createdAt[s], joinedAt'[s] = joinedAt[s]
    PROVE  Deadline(s)' = Deadline(s)
BY DEF Deadline, Joined

LEMMA SweepStep == TypeOK /\ Fields /\ SweepInv /\ [Next]_vars => SweepInv'
<1> SUFFICES ASSUME TypeOK, Fields, SweepInv, [Next]_vars PROVE SweepInv'
    OBVIOUS
<1>0. /\ SweepEvery \in Nat \ {0} /\ MaxClose \in Nat
      /\ PendingTTL \in Nat \ {0} /\ ActiveTTL \in Nat \ {0}
      /\ now \in Nat /\ lastTick \in Nat /\ lastSweep \in Nat
      /\ tick \in BOOLEAN /\ busy \in BOOLEAN
      /\ None \notin Session
    BY ExpiryAssumption DEF TypeOK
\* Where the loop stands still, so do the sessions whose times do.
<1>a. ASSUME UNCHANGED <<now, loopVars>>,
             NEW t \in Registered, createdAt'[t] = createdAt[t], joinedAt'[t] = joinedAt[t]
      PROVE  Tended(t)'
    <2>1. Deadline(t)' = Deadline(t)
        BY <1>a, SameDeadline
    <2> QED BY <2>1, <1>a DEF SweepInv, Tended, loopVars
\* A lifetime that begins now is out of every sweep's sight.
<1>b. ASSUME UNCHANGED <<now, loopVars>>, NEW t, Deadline(t)' \in Nat, Deadline(t)' >= now
      PROVE  Tended(t)'
    BY <1>0, <1>b DEF SweepInv, LoopInv, Tended, loopVars
<1>c. ASSUME UNCHANGED <<now, loopVars>> PROVE LoopInv'
    BY <1>c DEF SweepInv, LoopInv, loopVars
<1>create. ASSUME NEW s \in Session, Create(s) PROVE SweepInv'
    <2>0. UNCHANGED <<now, loopVars>>
        BY <1>create DEF Create
    <2>1. ASSUME NEW t \in Registered' PROVE Tended(t)'
        <3>1. CASE t = s
            <4>1. createdAt'[s] = now /\ joinedAt'[s] = 0
                BY <1>create DEF Create, TypeOK, Fields
            <4>2. Deadline(s)' = now + PendingTTL
                BY <4>1 DEF Deadline, Joined
            <4> QED BY <3>1, <4>2, <2>0, <1>0, <1>b
        <3>2. CASE t # s
            <4>1. t \in Registered /\ createdAt'[t] = createdAt[t] /\ joinedAt'[t] = joinedAt[t]
                BY <3>2, <1>create DEF Create, TypeOK, Registered
            <4> QED BY <4>1, <2>0, <1>a
        <3> QED BY <3>1, <3>2
    <2> QED BY <2>0, <2>1, <1>c DEF SweepInv
<1>join. ASSUME NEW k \in Code, NEW a \in Agent, Join(k, a) PROVE SweepInv'
    <2>0. UNCHANGED <<now, loopVars>>
        BY <1>join DEF Join
    <2>1. ASSUME NEW t \in Registered' PROVE Tended(t)'
        <3>0. t \in Registered /\ createdAt'[t] = createdAt[t]
            BY <1>join DEF Join, Registered
        <3>1. CASE t = sessions[k]
            <4>1. joinedAt'[t] = now
                BY <3>1, <1>join, <1>0 DEF Join, TypeOK
            <4>2. Deadline(t)' = now + ActiveTTL
                BY <4>1, <1>0 DEF Deadline, Joined, Fields
            <4> QED BY <4>2, <2>0, <1>0, <1>b
        <3>2. CASE t # sessions[k]
            <4>1. joinedAt'[t] = joinedAt[t]
                BY <3>2, <3>0, <1>join DEF Join, TypeOK, Registered
            <4> QED BY <4>1, <3>0, <2>0, <1>a
        <3> QED BY <3>1, <3>2
    <2> QED BY <2>0, <2>1, <1>c DEF SweepInv
<1>remove. ASSUME NEW k \in Code, Remove(k) PROVE SweepInv'
    <2>1. ASSUME NEW t \in Registered' PROVE Tended(t)'
        <3>1. t \in Registered /\ createdAt'[t] = createdAt[t] /\ joinedAt'[t] = joinedAt[t]
            BY <1>remove, <1>0 DEF Remove, TypeOK, Registered
        <3> QED BY <3>1, <1>remove, <1>a DEF Remove
    <2> QED BY <2>1, <1>remove, <1>c DEF SweepInv, Remove
<1>sweep. CASE Sweep
    <2>1. LoopInv'
        BY <1>sweep, <1>0 DEF Sweep, SweepInv, LoopInv
    <2>2. ASSUME NEW t \in Registered' PROVE Tended(t)'
        <3>1. t \in Registered /\ ~ Expired(t)
            BY <1>sweep, <1>0 DEF Sweep, Registered
        <3>2. Deadline(t)' = Deadline(t) /\ Deadline(t) \in Nat
            BY <3>1, <1>sweep, SameDeadline, DeadlineType DEF Sweep, Registered
        <3> QED
            BY <3>1, <3>2, <1>sweep, <1>0 DEF Sweep, Tended, Expired, SweepInv, LoopInv
    <2> QED BY <2>1, <2>2 DEF SweepInv
<1>closes. CASE ClosesAll
    <2>1. LoopInv'
        BY <1>closes, <1>0 DEF ClosesAll, SweepInv, LoopInv
    <2>2. ASSUME NEW t \in Registered' PROVE Tended(t)'
        <3>1. t \in Registered /\ Deadline(t)' = Deadline(t)
            BY <1>closes, SameDeadline DEF ClosesAll, Registered, registryVars
        <3> QED BY <3>1, <1>closes DEF ClosesAll, Tended, SweepInv
    <2> QED BY <2>1, <2>2 DEF SweepInv
<1>clock. CASE Clock
    <2>1. now' = now + 1 /\ lastSweep' = lastSweep /\ busy' = busy
        BY <1>clock DEF Clock
    <2>2. tick => now < lastSweep + MaxClose
        BY <1>clock DEF Clock, CanSweep
    <2>3. LoopInv'
        BY <1>clock, <1>0, <2>1, <2>2 DEF Clock, Kept, SweepInv, LoopInv
    <2>4. ASSUME NEW t \in Registered' PROVE Tended(t)'
        <3>1. t \in Registered /\ Deadline(t)' = Deadline(t) /\ Deadline(t) \in Nat
            BY <1>clock, SameDeadline, DeadlineType DEF Clock, Registered, registryVars
        <3> DEFINE d == Deadline(t)
        <3>2. /\ d \in Nat /\ d >= lastSweep /\ (d < lastTick => tick)
              /\ now < lastTick + SweepEvery
            BY <3>1 DEF SweepInv, Tended, LoopInv
        <3>3. \/ lastTick' = now' /\ tick' /\ now' = lastTick + SweepEvery
              \/ lastTick' = lastTick /\ tick' = tick
            BY <1>clock DEF Clock, Kept
        <3> HIDE DEF d
        <3>4. /\ d >= lastSweep' /\ (d < lastTick' => tick')
              /\ tick' => now' <= lastSweep' + MaxClose \/ now' <= d + SweepEvery
            BY <3>2, <3>3, <2>1, <2>2, <1>0
        <3> QED BY <3>1, <3>4 DEF Tended, d
    <2> QED BY <2>3, <2>4 DEF SweepInv
<1>still. CASE UNCHANGED vars
    <2>1. UNCHANGED <<now, loopVars>>
        BY <1>still DEF vars
    <2>2. ASSUME NEW t \in Registered' PROVE Tended(t)'
        BY <1>still, <2>1, <1>a DEF vars, registryVars, Registered
    <2> QED BY <2>1, <2>2, <1>c DEF SweepInv
<1> QED BY <1>create, <1>join, <1>remove, <1>sweep, <1>closes, <1>clock, <1>still DEF Next

\* For any lifetimes and any interval, a session is gone one interval after its
\* lifetime, or when the closing that was under way is over (session.go:163-202).
THEOREM SessionsEndInTime == Spec => []LifetimeIsBounded
<1>1. Init => SweepInv
    <2>1. Init => LoopInv /\ Registered = {}
        BY ExpiryAssumption DEF Init, LoopInv, Registered
    <2> QED BY <2>1 DEF SweepInv
<1>2. TypeOK /\ SweepInv => LifetimeIsBounded
    <2> SUFFICES ASSUME TypeOK, SweepInv, NEW s \in Registered
                 PROVE  now <= Deadline(s) + Lateness
        BY DEF LifetimeIsBounded
    <2>1. Deadline(s) \in Nat /\ Tended(s)
        BY DeadlineType DEF SweepInv, Registered
    <2> QED
        BY <2>1, ExpiryAssumption DEF TypeOK, SweepInv, LoopInv, Tended, Lateness
<1> QED BY <1>1, <1>2, FieldsHold, SweepStep, PTL DEF Spec

--------------------------------------------------------------------------------
(* The registry *)

LEMMA StoreStep == TypeOK /\ Fields /\ [Next]_vars => [Store!StoreNext]_(Store!storeVars)
<1> SUFFICES ASSUME TypeOK, Fields, [Next]_vars
             PROVE  Store!StoreNext \/ UNCHANGED Store!storeVars
    OBVIOUS
<1> DEFINE overdue == {s \in Registered : Expired(s)}
<1>0. None \notin Session \cup Agent \cup Code /\ now \in Nat
    BY ExpiryAssumption DEF TypeOK
<1> USE DEF registryVars, loopVars
<1>create. ASSUME NEW s \in Session, Create(s) PROVE Store!Create(s)
    <2>1. s \notin Registered
        BY <1>create, <1>0 DEF Create, Registered, Fields
    <2>2. Registered' = Registered \cup {s}
        BY <1>create, <1>0 DEF Create, Registered, TypeOK
    <2>3. ASSUME NEW t \in Registered PROVE Expired(t)' <=> Expired(t)
        <3>1. Deadline(t)' = Deadline(t)
            BY <2>1, <1>create, SameDeadline DEF Create, Registered, TypeOK
        <3> QED BY <3>1, <1>create DEF Expired, Create
    <2>4. ~ Expired(s)'
        <3>1. createdAt'[s] = now /\ joinedAt'[s] = 0 /\ now' = now
            BY <1>create DEF Create, TypeOK, Fields
        <3> QED BY <3>1, <1>0, ExpiryAssumption DEF Expired, Deadline, Joined
    <2>5. overdue' = overdue
        BY <2>2, <2>3, <2>4
    <2> QED BY <2>5, <1>create DEF Create, Store!Create, Store!Unused
<1>join. ASSUME NEW k \in Code, NEW a \in Agent, Join(k, a) PROVE Store!Join(k, a)
    <2>kept. Registered' = Registered /\ sessions[k] \in Session
        BY <1>join DEF Join, Registered, TypeOK
    <2>rest. ASSUME NEW t \in Registered, t # sessions[k] PROVE Expired(t)' <=> Expired(t)
        <3>1. Deadline(t)' = Deadline(t)
            BY <2>rest, <1>join, SameDeadline DEF Join, Registered, TypeOK
        <3> QED BY <3>1, <1>join DEF Expired, Join
    <2>renewed. ~ Expired(sessions[k])'
        <3>1. joinedAt'[sessions[k]] = now /\ now' = now /\ sessions' = sessions
            BY <1>join, <2>kept DEF Join, TypeOK
        <3> QED BY <3>1, <1>0, ExpiryAssumption DEF Expired, Deadline, Joined, Fields
    <2>overdue. overdue' = overdue \ {sessions[k]}
        <3>1. sessions' = sessions
            BY <1>join DEF Join
        <3> QED BY <2>kept, <2>rest, <2>renewed, <3>1
    <2>free. agent[sessions[k]] = None
        BY <1>join, <2>kept DEF Join, Joined, Fields
    <2> QED BY <2>overdue, <2>free, <1>join DEF Join, Store!Join, Store!Joinable, Store!Joined
<1>remove. ASSUME NEW k \in Code, Remove(k) PROVE Store!Remove(k)
    <2>1. Registered' = Registered \ {sessions[k]}
        BY <1>remove, <1>0 DEF Remove, Registered, TypeOK, Fields
    <2>2. ASSUME NEW t \in Registered PROVE Expired(t)' <=> Expired(t)
        <3>1. Deadline(t)' = Deadline(t)
            BY <1>remove, SameDeadline DEF Remove
        <3> QED BY <3>1, <1>remove DEF Expired, Remove
    <2>3. overdue' = overdue \ {sessions[k]}
        BY <2>1, <2>2
    <2> QED BY <2>3, <1>remove DEF Remove, Store!Remove
<1>sweep. CASE Sweep
    <2>1. ASSUME NEW t \in Registered PROVE Expired(t)' <=> Expired(t)
        <3>1. Deadline(t)' = Deadline(t)
            BY <1>sweep, SameDeadline DEF Sweep
        <3> QED BY <3>1, <1>sweep DEF Expired, Sweep
    <2>2. Registered' = Registered \ overdue
        BY <1>sweep, <1>0 DEF Sweep, Registered, TypeOK
    <2>3. overdue' = {}
        BY <2>1, <2>2
    <2>4. \A k \in Code : sessions[k] \in overdue <=> sessions[k] # None /\ Expired(sessions[k])
        BY <1>0 DEF Registered, TypeOK
    <2>5. sessions' = [k \in Code |-> IF sessions[k] \in overdue THEN None ELSE sessions[k]]
        BY <1>sweep, <2>4 DEF Sweep
    <2>6. Store!ExpireOnce
        BY <1>sweep, <2>3, <2>5 DEF Sweep, Store!ExpireOnce
    <2> QED BY <2>6 DEF Store!StoreNext
<1>still. ASSUME UNCHANGED registryVars, now' = now PROVE UNCHANGED Store!storeVars
    <2>1. overdue' = overdue
        BY <1>still DEF Registered, Expired, Deadline, Joined
    <2> QED BY <2>1, <1>still DEF Store!storeVars
<1>clock. CASE Clock
    <2>1. Registered' = Registered /\ now' = now + 1
        BY <1>clock DEF Clock, Registered
    <2>2. ASSUME NEW t \in Registered, Expired(t) PROVE Expired(t)'
        <3>1. Deadline(t)' = Deadline(t) /\ Deadline(t) \in Nat
            BY <1>clock, SameDeadline, DeadlineType DEF Clock, Registered
        <3> QED BY <3>1, <2>1, <2>2, <1>0 DEF Expired
    <2> DEFINE late == overdue' \ overdue
    <2>3. overdue' = overdue \cup late /\ late \in SUBSET (Registered \ overdue)
        BY <2>1, <2>2
    <2>4. UNCHANGED <<sessions, code, agent>>
        BY <1>clock DEF Clock
    <2>5. CASE late = {}
        BY <2>3, <2>4, <2>5 DEF Store!storeVars
    <2>6. CASE late # {}
        <3>1. Store!TTLPasses
            <4> HIDE DEF late
            <4> QED BY <2>3, <2>4, <2>6 DEF Store!TTLPasses, Store!Registered, Registered
        <3> QED BY <3>1 DEF Store!StoreNext
    <2> QED BY <2>5, <2>6
<1> QED
    BY <1>create, <1>join, <1>remove, <1>sweep, <1>still, <1>clock
    DEF Next, ClosesAll, vars, Store!StoreNext

\* The registry with its times implements the registry RelayServer works with, for
\* any lifetimes and any ticker (session.go:58-202).
THEOREM ImplementsStore == Spec => IsStore
<1>1. Init => Store!StoreInit
    <2> SUFFICES ASSUME Init PROVE Store!StoreInit
        OBVIOUS
    <2>1. Registered = {}
        BY ExpiryAssumption DEF Init, Registered
    <2> QED BY <2>1 DEF Init, Store!StoreInit
<1> QED BY <1>1, FieldsHold, StoreStep, PTL DEF Spec, IsStore, Store!StoreSpec

================================================================================
