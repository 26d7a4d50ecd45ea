----------------------------- MODULE ServerClockMC -----------------------------
(***************************************************************************)
(* The two parts of the server that go by the clock, for TLC.  The limiter *)
(* and the registry have no state in common and neither calls the other:   *)
(* each is explored with the other at rest, for all interleavings of the   *)
(* two would show no more about either.                                    *)
(***************************************************************************)
EXTENDS JoinLimiterHistory, SessionExpiry

VARIABLE part  \* the one that moves

LimiterMoves == part = "limiter" /\ HNext /\ UNCHANGED <<vars, part>>

RegistryMoves == part = "registry" /\ Next /\ UNCHANGED <<historyVars, part>>

MCInit == part \in {"limiter", "registry"} /\ HInit /\ Init

MCSpec == MCInit /\ [][LimiterMoves \/ RegistryMoves]_<<historyVars, vars, part>>

================================================================================
