------------------------------ MODULE SessionLinks ------------------------------
(***************************************************************************)
(* What a session is to both of its ends: a client's connection waits for  *)
(* an agent, the client is asked, and only its grant opens the bridge.     *)
(* RelayServer keeps this promise for the connections of all clients, and  *)
(* RemoteControl, which has the server as one program sees it, relies on   *)
(* no other.                                                               *)
(***************************************************************************)

CONSTANT Connection

VARIABLES
    link,     \* where a connection is
    granted   \* connections whose user has granted control

linkVars == <<link, granted>>

States == {"none", "pending", "asked", "bridge", "over"}

LinksInit ==
    /\ link = [c \in Connection |-> "none"]
    /\ granted = {}

GoesOn(c, from, to) ==
    /\ link[c] \in from
    /\ link' = [link EXCEPT ![c] = to]
    /\ UNCHANGED granted

Registers(c) == GoesOn(c, {"none"}, "pending")

Asks(c) == GoesOn(c, {"pending"}, "asked")

\* The session may be over before the answer is read.
Grants(c) ==
    /\ link[c] \in {"asked", "over"}
    /\ granted' = granted \cup {c}
    /\ UNCHANGED link

Opens(c) == c \in granted /\ GoesOn(c, {"asked"}, "bridge")

Ends(c) == GoesOn(c, States \ {"over"}, "over")

LinksNext ==
    \E c \in Connection :
        Registers(c) \/ Asks(c) \/ Grants(c) \/ Opens(c) \/ Ends(c)

LinksSpec == LinksInit /\ [][LinksNext]_linkVars

================================================================================
