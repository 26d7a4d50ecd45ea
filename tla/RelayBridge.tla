------------------------------ MODULE RelayBridge ------------------------------
(***************************************************************************)
(* The bridge of an approved session (server/relay/relay.go): one pump     *)
(* per direction, each of which copies a message part by part from the     *)
(* reader of one connection to a writer of the other.  RelayServer has the *)
(* bridge as one step; here are the steps of its two goroutines.           *)
(***************************************************************************)
EXTENDS Naturals, Sequences

CONSTANTS
    Limit,    \* MaxMessageBytes, in parts of copyBufferSize
    MaxSent   \* bound: the messages sent in one direction

ASSUME BridgeAssumption == Limit \in Nat \ {0} /\ MaxSent \in Nat

Dir == {"toAgent", "toClient"}

End == {"client", "agent"}

Src(d) == IF d = "toAgent" THEN "client" ELSE "agent"

Dst(d) == IF d = "toAgent" THEN "agent" ELSE "client"

VARIABLES
    sent,       \* what the peer at Src(d) has sent
    taken,      \* how many messages of it the pump has begun to read
    copied,     \* the parts of the message at hand that have been written
    got,        \* the messages that have come out at Dst(d)
    pump,       \* where each pump is
    cancelled,  \* the context the pumps share
    main,       \* where Bridge itself is
    open,       \* the server's ends of the connections
    gone,       \* peers that crashed or lost the network
    stalled     \* peers that read nothing more, their buffers full

pumpVars == <<taken, copied, got, pump, cancelled>>

peerVars == <<gone, stalled>>

vars == <<sent, pumpVars, main, open, peerVars>>

Message == [id : 1 .. MaxSent, parts : 0 .. Limit + 1]

TypeOK ==
    /\ sent \in [Dir -> Seq(Message)]
    /\ got \in [Dir -> Seq(Message)]
    /\ taken \in [Dir -> 0 .. MaxSent]
    /\ copied \in [Dir -> 0 .. Limit]
    /\ pump \in [Dir -> {"reading", "copying", "finishing", "over"}]
    /\ cancelled \in BOOLEAN
    /\ main \in {"pumping", "closing", "half", "freeing", "done"}
    /\ open \in [End -> BOOLEAN]
    /\ gone \in SUBSET End
    /\ stalled \in SUBSET End

Init ==
    /\ sent = [d \in Dir |-> <<>>]
    /\ taken = [d \in Dir |-> 0]
    /\ copied = [d \in Dir |-> 0]
    /\ got = [d \in Dir |-> <<>>]
    /\ pump = [d \in Dir |-> "reading"]
    /\ cancelled = FALSE
    /\ main = "pumping"
    /\ open = [e \in End |-> TRUE]
    /\ gone = {}
    /\ stalled = {}

Reachable(e) == open[e] /\ e \notin gone

--------------------------------------------------------------------------------
(* The peers *)

PeerSends(d, parts) ==
    /\ Reachable(Src(d))
    /\ Len(sent[d]) < MaxSent
    /\ sent' = [sent EXCEPT ![d] = Append(@, [id |-> Len(@) + 1, parts |-> parts])]
    /\ UNCHANGED <<pumpVars, main, open, peerVars>>

PeerVanishes(e) ==
    /\ open[e]
    /\ e \notin gone
    /\ gone' = gone \cup {e}
    /\ UNCHANGED <<sent, pumpVars, main, open, stalled>>

\* A peer that is suspended or hangs keeps its connection and reads nothing more.
\* One that goes on after a while is a slow one: it delays the pump's step.
PeerStalls(e) ==
    /\ Reachable(e)
    /\ e \notin stalled
    /\ stalled' = stalled \cup {e}
    /\ UNCHANGED <<sent, pumpVars, main, open, gone>>

--------------------------------------------------------------------------------
(* A pump *)

PumpGoesTo(d, pc) == pump' = [pump EXCEPT ![d] = pc]

\* Slip: a pump that ends leaves the other alone.
CancelsNever == cancelled

\* The deferred cancel of a pump that returns.
Cancels == TRUE

PumpEnds(d) == PumpGoesTo(d, "over") /\ cancelled' = Cancels

\* src.Reader returns the next message. What a peer sent before it vanished may
\* still be read.
Reads(d) ==
    /\ pump[d] = "reading"
    /\ open[Src(d)]
    /\ ~ cancelled
    /\ taken[d] < Len(sent[d])
    /\ taken' = [taken EXCEPT ![d] = @ + 1]
    /\ copied' = [copied EXCEPT ![d] = 0]
    /\ PumpGoesTo(d, "copying")
    /\ UNCHANGED <<sent, got, cancelled, main, open, peerVars>>

ReadFails(d) ==
    /\ pump[d] = "reading"
    /\ ~ Reachable(Src(d)) \/ cancelled
    /\ PumpEnds(d)
    /\ UNCHANGED <<sent, taken, copied, got, main, open, peerVars>>

AtHand(d) == sent[d][taken[d]]

\* The reader fails on what comes after SetReadLimit.
LimitReached(d) == copied[d] = Limit

\* A write to a peer that vanished may still be accepted.  One to a peer that
\* does not read blocks: the pump sets no deadline.
TakesWrites(e) == open[e] /\ e \notin stalled

\* A part goes from the reader to the writer.
CopiesPart(d) ==
    /\ pump[d] = "copying"
    /\ copied[d] < AtHand(d).parts /\ ~ LimitReached(d)
    /\ open[Src(d)] /\ TakesWrites(Dst(d))
    /\ ~ cancelled
    /\ copied' = [copied EXCEPT ![d] = @ + 1]
    /\ UNCHANGED <<sent, taken, got, pump, cancelled, main, open, peerVars>>

CopyEnds(d) ==
    /\ pump[d] = "copying"
    /\ copied[d] = AtHand(d).parts
    /\ PumpGoesTo(d, "finishing")
    /\ UNCHANGED <<sent, taken, copied, got, cancelled, main, open, peerVars>>

\* The writer cannot be had, or a part cannot be written.
WriteFails(d) ==
    /\ pump[d] = "copying"
    /\ ~ Reachable(Dst(d)) \/ cancelled
    /\ PumpEnds(d)
    /\ UNCHANGED <<sent, taken, copied, got, main, open, peerVars>>

\* Slip: after a copy that failed the pump goes on with the next message.
PumpCutsOn(d) == PumpGoesTo(d, "reading") /\ UNCHANGED cancelled

PumpCuts(d) == PumpEnds(d)

\* A message that exceeds the limit closes the connection it comes from.
ExceedsLimit(d) ==
    /\ pump[d] = "copying"
    /\ copied[d] < AtHand(d).parts /\ LimitReached(d)
    /\ open[Src(d)]
    /\ ~ cancelled
    /\ open' = [open EXCEPT ![Src(d)] = FALSE]
    /\ UNCHANGED <<sent, pumpVars, main, peerVars>>

\* The source fails within the message: w.Close sends what was written as if it
\* were all.
CopyFails(d) ==
    /\ pump[d] = "copying"
    /\ copied[d] < AtHand(d).parts
    /\ ~ Reachable(Src(d))
    /\ TakesWrites(Dst(d)) /\ ~ cancelled
    /\ got' = [got EXCEPT ![d] = Append(@, [AtHand(d) EXCEPT !.parts = copied[d]])]
    /\ PumpCuts(d)
    /\ UNCHANGED <<sent, taken, copied, main, open, peerVars>>

\* Slip: the writer is not closed, and what it has buffered is lost.
FlushForgotten(d) == UNCHANGED got

Flushes(d) == got' = [got EXCEPT ![d] = Append(@, AtHand(d))]

\* w.Close sends the end of the message.
Finishes(d) ==
    /\ pump[d] = "finishing"
    /\ TakesWrites(Dst(d))
    /\ ~ cancelled
    /\ Flushes(d)
    /\ PumpGoesTo(d, "reading")
    /\ UNCHANGED <<sent, taken, copied, cancelled, main, open, peerVars>>

FinishFails(d) ==
    /\ pump[d] = "finishing"
    /\ ~ Reachable(Dst(d)) \/ cancelled
    /\ PumpEnds(d)
    /\ UNCHANGED <<sent, taken, copied, got, main, open, peerVars>>

--------------------------------------------------------------------------------
(* Bridge *)

\* Slip: Bridge goes on when its own pump has returned.
PumpsOverOwn == pump["toAgent"] = "over"

PumpsOver == \A d \in Dir : pump[d] = "over"

WaitsForPumps ==
    /\ main = "pumping"
    /\ PumpsOver
    /\ main' = "closing"
    /\ UNCHANGED <<sent, pumpVars, open, peerVars>>

Closes(e, from, to) ==
    /\ main = from
    /\ main' = to
    /\ open' = [open EXCEPT ![e] = FALSE]
    /\ UNCHANGED <<sent, pumpVars, peerVars>>

ClosesClient == Closes("client", "closing", "half")

ClosesAgent == Closes("agent", "half", "freeing")

\* onDone.
Frees ==
    /\ main = "freeing"
    /\ main' = "done"
    /\ UNCHANGED <<sent, pumpVars, open, peerVars>>

PumpStep(d) ==
    \/ Reads(d) \/ ReadFails(d)
    \/ CopiesPart(d) \/ CopyEnds(d) \/ WriteFails(d)
    \/ ExceedsLimit(d) \/ CopyFails(d)
    \/ Finishes(d) \/ FinishFails(d)

BridgeStep == WaitsForPumps \/ ClosesClient \/ ClosesAgent \/ Frees

Next ==
    \/ \E d \in Dir : PumpStep(d) \/ \E parts \in 1 .. Limit + 1 : PeerSends(d, parts)
    \/ \E e \in End : PeerVanishes(e) \/ PeerStalls(e)
    \/ BridgeStep

Spec == Init /\ [][Next]_vars

\* A pump goes on as long as it can, which it cannot while it writes to a peer
\* that does not read.  The peers owe nothing, neither to send nor to read.
FairSpec ==
    /\ Spec
    /\ \A d \in Dir : WF_vars(PumpStep(d))
    /\ WF_vars(BridgeStep)

--------------------------------------------------------------------------------

Channel ==
    INSTANCE DuplexChannel WITH
        MaxParts <- Limit + 1,
        live <- [d \in Dir |-> pump[d] # "over"]

\* The bridge is the channel its two ends take it for (relay.go:26-28).
IsChannel == Channel!Spec

\* No goroutine of the bridge uses a connection once Bridge begins to close
\* them, and the code is not free before both are closed (relay.go:44-48).
ClosedInOrder ==
    /\ main # "pumping" => \A d \in Dir : pump[d] = "over"
    /\ main \in {"freeing", "done"} => \A e \in End : ~ open[e]

\* When one side is lost, both directions end and the session is freed, even if
\* the other side has nothing to say: the pump that fails ends the other.  But not
\* if the side that is left has stopped reading: a write to it does not return, and
\* the documentation's "either side disconnects" is not enough (relay.go:26-28,
\* 35-36, 52, 62-74; README.md:90-91).
BridgeIsFreedOrStuck ==
    \A e \in End : e \in gone ~> main = "done" \/ stalled \ gone # {}

\* What is sent comes out at the other end, unless the session ends or the peer
\* there has stopped reading (relay.go:54-79).
AllDelivered ==
    \A d \in Dir : \A i \in 1 .. MaxSent :
        Len(sent[d]) >= i ~>
            Len(got[d]) >= i \/ main = "done" \/ Dst(d) \in stalled

================================================================================
