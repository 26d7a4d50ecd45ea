---------------------------- MODULE AdaptiveQuality ----------------------------
(***************************************************************************)
(* The quality of the frames (client/relay/encoder.go): every encode takes *)
(* some share of the time a frame may take, and adapt lowers or raises the *)
(* quality of the next one by it.                                          *)
(***************************************************************************)
EXTENDS Integers

CONSTANTS
    Cap,    \* REMOTEMASTER_QUALITY, the cap
    Floor,  \* webpMinQuality
    Down, Up

ASSUME QualityAssumption ==
    /\ {Cap, Floor} \subseteq 1 .. 100
    /\ {Down, Up} \subseteq Nat \ {0}

VARIABLES
    q,
    took   \* how long the encode of the last tick took, if it had one

qualityVars == <<q, took>>

NoEncode == "none"

QualityInit == q = Cap /\ took = NoEncode

\* The duration of an encode, as adapt sees it: above 80% of the budget, below
\* 40%, or between.
Slow == "slow"
Between == "between"
Fast == "fast"

Durations == {Slow, Between, Fast}

Lowered(p) == IF p - Down < Floor THEN Floor ELSE p - Down

Raised(p) == IF p + Up > Cap THEN Cap ELSE p + Up

Adapted(p, d) ==
    IF d = Slow THEN Lowered(p)
    ELSE IF d = Fast /\ p < Cap THEN Raised(p)
    ELSE p

\* An encode at quality p. A busy machine takes any time for it, however little there is
\* to encode.
EncodesAt(p) ==
    \E d \in Durations : took' = d /\ q' = Adapted(p, d)

\* An encoder encodes, a new one if the last was of another size.
Encodes == EncodesAt(q)

EncodesAnew == EncodesAt(Cap)

================================================================================
