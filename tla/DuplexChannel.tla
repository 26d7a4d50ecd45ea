----------------------------- MODULE DuplexChannel -----------------------------
(***************************************************************************)
(* What the bridge of a session promises: in each direction the messages   *)
(* come out whole and in the order they went in, none lost, repeated or    *)
(* made up, until the direction is over.  Only its very last message may   *)
(* have been cut short.                                                    *)
(***************************************************************************)
EXTENDS Naturals, Sequences

CONSTANTS
    Dir,       \* the directions
    MaxParts   \* the parts of the longest message

VARIABLES
    sent,  \* the messages put in, per direction
    got,   \* the messages taken out
    live   \* whether more may come out

channelVars == <<sent, got, live>>

\* Messages are numbered in the order in which they are sent.
Message == [id : Nat, parts : 0 .. MaxParts]

Init ==
    /\ sent = [d \in Dir |-> <<>>]
    /\ got = [d \in Dir |-> <<>>]
    /\ live = [d \in Dir |-> TRUE]

Send(d, parts) ==
    /\ sent' = [sent EXCEPT ![d] = Append(@, [id |-> Len(@) + 1, parts |-> parts])]
    /\ UNCHANGED <<got, live>>

NextOut(d) == sent[d][Len(got[d]) + 1]

Deliver(d) ==
    /\ live[d]
    /\ Len(got[d]) < Len(sent[d])
    /\ got' = [got EXCEPT ![d] = Append(@, NextOut(d))]
    /\ UNCHANGED <<sent, live>>

\* The direction ends within a message, of which some parts have come out.
Cut(d, parts) ==
    /\ live[d]
    /\ Len(got[d]) < Len(sent[d])
    /\ parts < NextOut(d).parts
    /\ got' = [got EXCEPT ![d] = Append(@, [NextOut(d) EXCEPT !.parts = parts])]
    /\ live' = [live EXCEPT ![d] = FALSE]
    /\ UNCHANGED sent

End(d) ==
    /\ live[d]
    /\ live' = [live EXCEPT ![d] = FALSE]
    /\ UNCHANGED <<sent, got>>

Next ==
    \E d \in Dir :
        \/ \E parts \in 0 .. MaxParts : Send(d, parts) \/ Cut(d, parts)
        \/ Deliver(d)
        \/ End(d)

Spec == Init /\ [][Next]_channelVars

================================================================================
