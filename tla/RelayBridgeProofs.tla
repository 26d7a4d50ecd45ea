--------------------------- MODULE RelayBridgeProofs ---------------------------
(***************************************************************************)
(* That the bridge is a lossless channel in each direction and is torn     *)
(* down in order, for any limit and any number of messages.                *)
(***************************************************************************)
EXTENDS RelayBridge, TLAPS

--------------------------------------------------------------------------------
(* Types *)

\* A pump begins no message that was not sent, and has one at hand while it copies.
Counted ==
    \A d \in Dir :
        /\ taken[d] <= Len(sent[d])
        /\ pump[d] \in {"copying", "finishing"} => taken[d] >= 1
        /\ Len(sent[d]) <= MaxSent

Typed == TypeOK /\ Counted

LEMMA AtHandIsSent ==
    ASSUME Typed, NEW d \in Dir, pump[d] \in {"copying", "finishing"}
    PROVE  AtHand(d) \in Message
BY BridgeAssumption DEF Typed, TypeOK, Counted, AtHand

LEMMA TypedInit == Init => Typed
<1> SUFFICES ASSUME Init PROVE Typed
    OBVIOUS
<1>1. <<>> \in Seq(Message) /\ Len(<<>>) = 0
    OBVIOUS
<1>2. \A d \in Dir : /\ sent[d] = <<>> /\ got[d] = <<>> /\ taken[d] = 0
                     /\ copied[d] = 0 /\ pump[d] = "reading"
    BY DEF Init
<1>3. TypeOK
    <2>1. sent \in [Dir -> Seq(Message)] /\ got \in [Dir -> Seq(Message)]
        BY <1>1, ZenonT(30) DEF Init
    <2>2. taken \in [Dir -> 0 .. MaxSent] /\ copied \in [Dir -> 0 .. Limit]
        BY BridgeAssumption DEF Init
    <2>3. /\ pump \in [Dir -> {"reading", "copying", "finishing", "over"}]
          /\ cancelled \in BOOLEAN
          /\ main \in {"pumping", "closing", "half", "freeing", "done"}
          /\ open \in [End -> BOOLEAN]
          /\ gone \in SUBSET End /\ stalled \in SUBSET End
        BY DEF Init
    <2> QED BY <2>1, <2>2, <2>3 DEF TypeOK
<1>4. Counted
    BY BridgeAssumption, <1>1, <1>2 DEF Counted
<1> QED BY <1>3, <1>4 DEF Typed

LEMMA TypedStep == Typed /\ [Next]_vars => Typed'
<1> SUFFICES ASSUME Typed, [Next]_vars PROVE Typed'
    OBVIOUS
<1> USE BridgeAssumption DEF Typed, TypeOK, Counted, pumpVars, peerVars, PumpGoesTo, PumpEnds, Cancels
<1>1. ASSUME NEW d \in Dir, NEW parts \in 1 .. Limit + 1, PeerSends(d, parts)
      PROVE  Typed'
    <2>1. [id |-> Len(sent[d]) + 1, parts |-> parts] \in Message
        BY <1>1 DEF PeerSends, Message
    <2>2. /\ sent' \in [Dir -> Seq(Message)]
          /\ \A c \in Dir : Len(sent[c]) <= Len(sent'[c]) /\ Len(sent'[c]) <= MaxSent
        BY <1>1, <2>1 DEF PeerSends
    <2> QED BY <1>1, <2>2 DEF PeerSends
<1>2. ASSUME NEW d \in Dir, Reads(d) PROVE Typed'
    BY <1>2 DEF Reads
<1>3. ASSUME NEW d \in Dir, ReadFails(d) PROVE Typed'
    BY <1>3 DEF ReadFails
<1>4. ASSUME NEW d \in Dir, CopiesPart(d) PROVE Typed'
    BY <1>4 DEF CopiesPart, LimitReached
<1>exceeds. ASSUME NEW d \in Dir, ExceedsLimit(d) PROVE Typed'
    BY <1>exceeds DEF ExceedsLimit
<1>5. ASSUME NEW d \in Dir, CopyEnds(d) PROVE Typed'
    BY <1>5 DEF CopyEnds
<1>6. ASSUME NEW d \in Dir, WriteFails(d) PROVE Typed'
    BY <1>6 DEF WriteFails
<1>7. ASSUME NEW d \in Dir, CopyFails(d) PROVE Typed'
    <2>1. [AtHand(d) EXCEPT !.parts = copied[d]] \in Message
        <3>1. AtHand(d) \in Message
            BY <1>7, AtHandIsSent DEF CopyFails
        <3>2. copied[d] \in 0 .. Limit + 1
            OBVIOUS
        <3> HIDE DEF Typed, TypeOK, Counted
        <3> QED BY <3>1, <3>2 DEF Message
    <2>2. got' \in [Dir -> Seq(Message)]
        BY <1>7, <2>1 DEF CopyFails
    <2> QED BY <1>7, <2>2 DEF CopyFails, PumpCuts
<1>8. ASSUME NEW d \in Dir, Finishes(d) PROVE Typed'
    <2>1. got' \in [Dir -> Seq(Message)]
        BY <1>8, AtHandIsSent DEF Finishes, Flushes
    <2> QED BY <1>8, <2>1 DEF Finishes
<1>9. ASSUME NEW d \in Dir, FinishFails(d) PROVE Typed'
    BY <1>9 DEF FinishFails
<1>10. ASSUME NEW e \in End, PeerVanishes(e) \/ PeerStalls(e) PROVE Typed'
    BY <1>10 DEF PeerVanishes, PeerStalls
<1>11. CASE BridgeStep
    BY <1>11 DEF BridgeStep, WaitsForPumps, ClosesClient, ClosesAgent, Closes, Frees
<1>12. CASE UNCHANGED vars
    BY <1>12 DEF vars
<1> QED
    BY <1>1, <1>2, <1>3, <1>4, <1>exceeds, <1>5, <1>6, <1>7, <1>8, <1>9, <1>10, <1>11, <1>12
    DEF Next, PumpStep

LEMMA TypedHolds == Spec => []Typed
BY TypedInit, TypedStep, PTL DEF Spec

\* The state of both pumps and of Bridge has its types (relay.go:29-100).
THEOREM TypeCorrect == Spec => []TypeOK
<1>1. Typed => TypeOK
    BY DEF Typed
<1> QED BY <1>1, TypedHolds, PTL

--------------------------------------------------------------------------------
(* The teardown *)

\* The connections are closed one after the other, client first.
Teardown ==
    /\ main # "pumping" => PumpsOver
    /\ main \in {"half", "freeing", "done"} => ~ open["client"]
    /\ main \in {"freeing", "done"} => ~ open["agent"]

LEMMA TeardownStep == Typed /\ Teardown /\ [Next]_vars => Teardown'
<1> SUFFICES ASSUME Typed, Teardown, [Next]_vars PROVE Teardown'
    OBVIOUS
<1> USE DEF Typed, TypeOK, Teardown, PumpsOver, pumpVars, peerVars, PumpGoesTo, PumpEnds, End
<1>1. ASSUME NEW d \in Dir, PumpStep(d) PROVE Teardown'
    <2>1. pump[d] # "over" /\ main = "pumping" /\ main' = main
        BY <1>1 DEF PumpStep, Reads, ReadFails, CopiesPart, CopyEnds, WriteFails,
                    ExceedsLimit, CopyFails, Finishes, FinishFails
    <2> QED BY <2>1
<1>2. ASSUME NEW d \in Dir, NEW parts \in 1 .. Limit + 1, PeerSends(d, parts)
      PROVE  Teardown'
    BY <1>2 DEF PeerSends
<1>3. ASSUME NEW e \in End, PeerVanishes(e) \/ PeerStalls(e) PROVE Teardown'
    BY <1>3 DEF PeerVanishes, PeerStalls
<1>4. CASE BridgeStep
    BY <1>4 DEF BridgeStep, WaitsForPumps, ClosesClient, ClosesAgent, Closes, Frees
<1>5. CASE UNCHANGED vars
    BY <1>5 DEF vars
<1> QED BY <1>1, <1>2, <1>3, <1>4, <1>5 DEF Next

\* Bridge closes no connection a pump may still use, and frees the code when both
\* are closed (relay.go:44-48).
THEOREM TornDownInOrder == Spec => []ClosedInOrder
<1>1. Init => Teardown
    BY DEF Init, Teardown
<1>2. Teardown => ClosedInOrder
    BY DEF Teardown, ClosedInOrder, PumpsOver, End
<1> QED BY <1>1, <1>2, TypedHolds, TeardownStep, PTL DEF Spec

--------------------------------------------------------------------------------
(* The channel *)

\* A pump that goes on has let out all the messages it began to read, but for the
\* one at hand.
InStep ==
    \A d \in Dir :
        pump[d] # "over" =>
            Len(got[d]) = IF pump[d] = "reading" THEN taken[d] ELSE taken[d] - 1

LEMMA InStepStep == Typed /\ InStep /\ [Next]_vars => InStep'
<1> SUFFICES ASSUME Typed, InStep, [Next]_vars PROVE InStep'
    OBVIOUS
<1> USE DEF Typed, TypeOK, Counted, InStep, pumpVars, peerVars, PumpGoesTo, PumpEnds
<1>1. ASSUME NEW d \in Dir, Reads(d) PROVE InStep'
    BY <1>1 DEF Reads
<1>2. ASSUME NEW d \in Dir, ReadFails(d) \/ WriteFails(d) \/ FinishFails(d)
      PROVE  InStep'
    BY <1>2 DEF ReadFails, WriteFails, FinishFails
<1>3. ASSUME NEW d \in Dir, CopiesPart(d) \/ CopyEnds(d) \/ ExceedsLimit(d)
      PROVE  InStep'
    BY <1>3 DEF CopiesPart, CopyEnds, ExceedsLimit
<1>4. ASSUME NEW d \in Dir, CopyFails(d) PROVE InStep'
    <2>1. \A c \in Dir \ {d} : got'[c] = got[c] /\ pump'[c] = pump[c]
        BY <1>4 DEF CopyFails, PumpCuts
    <2>2. pump'[d] = "over" /\ taken' = taken
        BY <1>4 DEF CopyFails, PumpCuts
    <2> QED BY <2>1, <2>2
<1>5. ASSUME NEW d \in Dir, Finishes(d) PROVE InStep'
    <2>1. AtHand(d) \in Message
        BY <1>5, AtHandIsSent DEF Finishes
    <2>2. Len(got'[d]) = Len(got[d]) + 1 /\ \A c \in Dir \ {d} : got'[c] = got[c]
        BY <1>5, <2>1 DEF Finishes, Flushes
    <2> QED BY <1>5, <2>2 DEF Finishes
<1>6. ASSUME NEW d \in Dir, NEW parts \in 1 .. Limit + 1, PeerSends(d, parts)
      PROVE  InStep'
    BY <1>6 DEF PeerSends
<1>7. ASSUME NEW e \in End, PeerVanishes(e) \/ PeerStalls(e) PROVE InStep'
    BY <1>7 DEF PeerVanishes, PeerStalls
<1>8. CASE BridgeStep
    BY <1>8 DEF BridgeStep, WaitsForPumps, ClosesClient, ClosesAgent, Closes, Frees
<1>9. CASE UNCHANGED vars
    BY <1>9 DEF vars
<1> QED
    BY <1>1, <1>2, <1>3, <1>4, <1>5, <1>6, <1>7, <1>8, <1>9 DEF Next, PumpStep

\* The message at hand is the next to come out.
LEMMA NextIsAtHand ==
    ASSUME Typed, InStep, NEW d \in Dir, pump[d] \in {"copying", "finishing"}
    PROVE  Len(got[d]) < Len(sent[d]) /\ Channel!NextOut(d) = AtHand(d)
<1>1. Len(got[d]) = taken[d] - 1 /\ taken[d] \in Nat /\ Len(sent[d]) \in Nat
    <2>1. Len(got[d]) = taken[d] - 1
        BY DEF InStep
    <2>2. taken[d] \in Nat
        BY BridgeAssumption DEF Typed, TypeOK
    <2>3. sent[d] \in Seq(Message)
        BY DEF Typed, TypeOK
    <2> QED BY <2>1, <2>2, <2>3
<1>2. taken[d] <= Len(sent[d]) /\ taken[d] >= 1
    BY DEF Typed, Counted
<1>3. Len(got[d]) + 1 = taken[d]
    BY <1>1
<1>4. Len(got[d]) < Len(sent[d])
    BY <1>1, <1>2
<1>5. Channel!NextOut(d) = AtHand(d)
    BY <1>3 DEF Channel!NextOut, AtHand
<1> QED BY <1>4, <1>5

LEMMA StepIsChannelStep ==
    Typed /\ InStep /\ [Next]_vars => [Channel!Next]_(Channel!channelVars)
<1> SUFFICES ASSUME Typed, InStep, [Next]_vars
             PROVE  Channel!Next \/ UNCHANGED Channel!channelVars
    OBVIOUS
<1> DEFINE Live == [d \in Dir |-> pump[d] # "over"]
<1> USE BridgeAssumption
    DEF Typed, TypeOK, pumpVars, peerVars, PumpGoesTo, PumpEnds, Channel!channelVars
<1>1. ASSUME NEW d \in Dir, NEW parts \in 1 .. Limit + 1, PeerSends(d, parts)
      PROVE  Channel!Next
    <2>1. Channel!Send(d, parts)
        BY <1>1 DEF PeerSends, Channel!Send
    <2> QED BY <2>1 DEF Channel!Next
<1>2. ASSUME NEW d \in Dir, ReadFails(d) \/ WriteFails(d) \/ FinishFails(d)
      PROVE  Channel!Next
    <2>1. /\ Live[d] /\ Live' = [Live EXCEPT ![d] = FALSE]
          /\ UNCHANGED <<sent, got>>
        BY <1>2 DEF ReadFails, WriteFails, FinishFails
    <2>2. Channel!End(d)
        BY <2>1 DEF Channel!End
    <2> QED BY <2>2 DEF Channel!Next
<1>3. ASSUME NEW d \in Dir,
             Reads(d) \/ CopiesPart(d) \/ CopyEnds(d) \/ ExceedsLimit(d)
      PROVE  UNCHANGED Channel!channelVars
    <2>1. Live' = Live /\ UNCHANGED <<sent, got>>
        BY <1>3 DEF Reads, CopiesPart, CopyEnds, ExceedsLimit
    <2> QED BY <2>1
<1>4. ASSUME NEW d \in Dir, CopyFails(d) PROVE Channel!Next
    <2>copying. pump[d] = "copying" /\ pump' = [pump EXCEPT ![d] = "over"]
        BY <1>4 DEF CopyFails, PumpCuts
    <2>live. Live[d] /\ Live' = [Live EXCEPT ![d] = FALSE]
        BY <2>copying
    <2>part. PICK n \in 0 .. Limit + 1 : n = copied[d]
        OBVIOUS
    <2>got. /\ UNCHANGED sent
            /\ got' = [got EXCEPT ![d] = Append(@, [AtHand(d) EXCEPT !.parts = copied[d]])]
            /\ copied[d] < AtHand(d).parts
        BY <1>4, Zenon DEF CopyFails
    <2>next. Len(got[d]) < Len(sent[d]) /\ Channel!NextOut(d) = AtHand(d)
        BY <1>4, NextIsAtHand DEF CopyFails
    <2>cut. Channel!Cut(d, n)
        BY <2>live, <2>part, <2>got, <2>next, Zenon DEF Channel!Cut
    <2> QED BY <2>cut, Zenon DEF Channel!Next
<1>5. ASSUME NEW d \in Dir, Finishes(d) PROVE Channel!Next
    <2>1. /\ Live[d] /\ Live' = Live
          /\ UNCHANGED sent
          /\ got' = [got EXCEPT ![d] = Append(@, AtHand(d))]
        BY <1>5 DEF Finishes, Flushes
    <2>2. Len(got[d]) < Len(sent[d]) /\ Channel!NextOut(d) = AtHand(d)
        BY <1>5, NextIsAtHand DEF Finishes
    <2>3. Channel!Deliver(d)
        BY <2>1, <2>2 DEF Channel!Deliver
    <2> QED BY <2>3 DEF Channel!Next
<1>6. ASSUME NEW e \in End, PeerVanishes(e) \/ PeerStalls(e) PROVE UNCHANGED Channel!channelVars
    BY <1>6 DEF PeerVanishes, PeerStalls
<1>7. CASE BridgeStep
    BY <1>7 DEF BridgeStep, WaitsForPumps, ClosesClient, ClosesAgent, Closes, Frees
<1>8. CASE UNCHANGED vars
    BY <1>8 DEF vars
<1> QED
    BY <1>1, <1>2, <1>3, <1>4, <1>5, <1>6, <1>7, <1>8 DEF Next, PumpStep

\* In each direction messages come out whole and in order, none lost, repeated or
\* made up, but that the last may be cut short (relay.go:26-28, 50-100).
THEOREM BridgeIsChannel == Spec => IsChannel
<1>1. Init => Channel!Init
    BY DEF Init, Channel!Init
<1>2. Init => InStep
    BY DEF Init, InStep
<1> QED
    BY <1>1, <1>2, TypedHolds, InStepStep, StepIsChannelStep, PTL
    DEF Spec, IsChannel, Channel!Spec

================================================================================
