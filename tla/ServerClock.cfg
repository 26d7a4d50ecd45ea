\* Limiter: two requesters, two failures allowed in a window of 2, blocks of 3: the
\* clock runs through three sweeps, two blocks and four windows.
\* Registry: two sessions; sweeps that come late, and one that takes longer than the
\* interval, so that ticks are lost; time for three sweeps.
CONSTANTS
    Requester = {r1, r2}
    Limit = 2
    Window = 2
    Block = 3
    MaxClock = 8
    MaxInFlight = 2
    Session = {s1, s2}
    Agent = {a}
    Code = {k1, k2}
    None = None
    PendingTTL = 2
    ActiveTTL = 4
    SweepEvery = 2
    MaxClose = 3
    MaxTime = 11
SPECIFICATION MCSpec
INVARIANTS
    EvictionInvisible
    BurstBound
    LifetimeIsBounded
PROPERTIES
    BlockLasts
    BlockEarned
    IsStore
CHECK_DEADLOCK FALSE
