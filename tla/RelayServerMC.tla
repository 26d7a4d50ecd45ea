----------------------------- MODULE RelayServerMC -----------------------------
(***************************************************************************)
(* RelayServer for TLC: clients are alike, and so are codes.               *)
(***************************************************************************)
EXTENDS RelayServer, TLC

Alike == Permutations(Client) \cup Permutations(Code)

================================================================================
