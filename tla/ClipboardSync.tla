----------------------------- MODULE ClipboardSync -----------------------------
(***************************************************************************)
(* The text clipboard of the two ends of a session: clipboardLoop and      *)
(* applyRemoteClipboard of client/relay/client.go, pollClipboard and       *)
(* receiveClipboard of server/agent/viewer.js.  Between them the relay     *)
(* keeps messages in order and, outside an approved session, carries none. *)
(*                                                                         *)
(* The client program outlives a session, the viewer's page does not.      *)
(* Reading a clipboard, comparing what was read, recording a text and      *)
(* writing it to the clipboard are steps of their own, because the other   *)
(* goroutine, the user or the network may act between them.                *)
(***************************************************************************)
EXTENDS Naturals, Sequences

CONSTANTS
    Text,         \* clipboard contents, as GetText and readText return them
    None,         \* no text
    Long,         \* the texts of more than 256 KiB
    MayRefuse,    \* whether a clipboard may refuse a text
    Canon,        \* what the client reads back once a text is installed there
    MaxSessions,  \* bound on the sessions of one client program
    MaxCopies,    \* bound on what the users copy
    MaxReads,     \* bound on the viewer's pending readText calls
    MaxWire       \* bound on the messages on the way, and on pending writeText
                  \* calls

ASSUME ClipboardAssumption ==
    /\ None \notin Text
    /\ Long \subseteq Text
    /\ MayRefuse \in BOOLEAN
    /\ Canon \in [Text -> Text]
    /\ \A t \in Text : Canon[Canon[t]] = Canon[t]
    /\ {MaxSessions, MaxCopies, MaxReads, MaxWire} \subseteq Nat

VARIABLES
    session,     \* how many sessions have begun
    phase,       \* "off"; "waiting" for approval; "active": the bridge is open
    clip,        \* the contents of the clipboard at each side
    clientLast,  \* Client.lastClip; None while clipPrimed is false
    looping,     \* clipboardLoop has not returned
    polled,      \* what it got from GetText and has not compared yet
    applying,    \* the text applyRemoteClipboard recorded, to be installed
    viewerLast,  \* lastClipboard of the page
    reading,     \* the texts of the readText calls whose callback is to be run
    writing,     \* the writeText calls not carried out yet
    toViewer,    \* clipboard messages on the way
    toClient,
    copies,      \* how often a user copied
    own,         \* texts a user copied at each side in this session
    arrived,     \* texts each side received in this session
    crossed      \* in this session, a side sent while a message to it was on
                 \* the way

clientVars == <<clientLast, looping, polled, applying>>
viewerVars == <<viewerLast, reading, writing>>
wireVars == <<toViewer, toClient>>
historyVars == <<copies, own, arrived, crossed>>

vars == <<session, phase, clip, clientVars, viewerVars, wireVars, historyVars>>

Side == {"client", "viewer"}

TypeOK ==
    /\ session \in 0 .. MaxSessions
    /\ phase \in {"off", "waiting", "active"}
    /\ clip \in [Side -> Text]
    /\ clientLast \in Text \cup {None}
    /\ looping \in BOOLEAN
    /\ polled \in Text \cup {None}
    /\ applying \in Text \cup {None}
    /\ viewerLast \in Text \cup {None}
    /\ reading \in Seq(Text)
    /\ writing \in Seq(Text)
    /\ toViewer \in Seq(Text \ Long)
    /\ toClient \in Seq(Text \ Long)
    /\ copies \in 0 .. MaxCopies
    /\ own \in [Side -> SUBSET Text]
    /\ arrived \in [Side -> SUBSET Text]
    /\ crossed \in BOOLEAN

Init ==
    /\ session = 0
    /\ phase = "off"
    /\ clip \in [Side -> Text]
    /\ clip["client"] = Canon[clip["client"]]
    /\ clientLast = None
    /\ looping = FALSE
    /\ polled = None
    /\ applying = None
    /\ viewerLast = None
    /\ reading = <<>>
    /\ writing = <<>>
    /\ toViewer = <<>>
    /\ toClient = <<>>
    /\ copies = 0
    /\ own = [s \in Side |-> {}]
    /\ arrived = [s \in Side |-> {}]
    /\ crossed = FALSE

--------------------------------------------------------------------------------
(* The session, and the users *)

\* The agent opens a page, which joins the session of the client.  Run waited a
\* second or more before it registered again: time enough for what an earlier
\* session left to be done.
PageOpens ==
    /\ phase = "off"
    /\ session < MaxSessions
    /\ ~ looping /\ applying = None /\ writing = <<>>
    /\ session' = session + 1
    /\ phase' = "waiting"
    /\ viewerLast' = None
    /\ reading' = <<>>
    /\ UNCHANGED <<clip, clientVars, writing, wireVars, historyVars>>

\* Consent is granted: the loop starts, and the viewer may send.
Approved ==
    /\ phase = "waiting"
    /\ phase' = "active"
    /\ looping' = TRUE
    /\ UNCHANGED <<session, clip, clientLast, polled, applying, viewerVars,
                   wireVars, historyVars>>

\* Either end leaves, or consent is denied; messages on the way are lost.
SessionEnds ==
    /\ phase # "off"
    /\ phase' = "off"
    /\ toViewer' = <<>>
    /\ toClient' = <<>>
    /\ reading' = <<>>
    /\ own' = [s \in Side |-> {}]
    /\ arrived' = [s \in Side |-> {}]
    /\ crossed' = FALSE
    /\ UNCHANGED <<session, clip, clientVars, viewerLast, writing, copies>>

UserCopies(s) ==
    /\ copies < MaxCopies
    /\ copies' = copies + 1
    /\ \E t \in Text \ {clip[s]} :
          /\ s = "client" => Canon[t] = t
          /\ clip' = [clip EXCEPT ![s] = t]
          /\ own' = IF phase = "off" THEN own
                    ELSE [own EXCEPT ![s] = @ \cup {t}]
    /\ UNCHANGED <<session, phase, clientVars, viewerVars, wireVars, arrived,
                   crossed>>

--------------------------------------------------------------------------------
(* The client *)

\* A tick, and GetText; select may prefer the tick to a cancelled context.
ClientPolls ==
    /\ looping
    /\ polled = None
    /\ polled' = clip["client"]
    /\ UNCHANGED <<session, phase, clip, clientLast, looping, applying,
                   viewerVars, wireVars, historyVars>>

\* At most 256 KiB, the cap of both ends.
Fits(t) == t \notin Long

\* Slip: a first observation is treated as a change.
ClientChangedAlways(t) == t # clientLast

\* What noteLocalClipboard returns.
ClientChanged(t) == clientLast # None /\ t # clientLast

\* A text that is too long is not even noted.
ClientSkips ==
    /\ polled # None
    /\ ~ Fits(polled)
    /\ polled' = None
    /\ UNCHANGED <<session, phase, clip, clientLast, looping, applying,
                   viewerVars, wireVars, historyVars>>

\* noteLocalClipboard, and the write, which fails once the session is over.
ClientNotes ==
    /\ polled # None
    /\ Fits(polled)
    /\ Len(toViewer) < MaxWire
    /\ clientLast' = polled
    /\ polled' = None
    /\ IF ~ ClientChanged(polled)
       THEN UNCHANGED <<looping, toViewer, crossed>>
       ELSE IF phase = "active"
            THEN /\ toViewer' = Append(toViewer, polled)
                 /\ crossed' = (crossed \/ toClient # <<>>)
                 /\ UNCHANGED looping
            ELSE looping' = FALSE /\ UNCHANGED <<toViewer, crossed>>
    /\ UNCHANGED <<session, phase, clip, applying, viewerVars, toClient,
                   copies, own, arrived>>

LoopEnds ==
    /\ looping
    /\ polled = None
    /\ phase # "active"
    /\ looping' = FALSE
    /\ UNCHANGED <<session, phase, clip, clientLast, polled, applying,
                   viewerVars, wireVars, historyVars>>

\* Slip: clipPrimed is not set.
RecordedUnprimed(t) == IF clientLast = None THEN None ELSE t

\* lastClip once applyRemoteClipboard has recorded t.
Recorded(t) == t

\* readPump gets a message: applyRemoteClipboard records the text ...
ClientReceives ==
    /\ toClient # <<>>
    /\ applying = None
    /\ applying' = Head(toClient)
    /\ clientLast' = Recorded(Head(toClient))
    /\ toClient' = Tail(toClient)
    /\ arrived' = [arrived EXCEPT !["client"] = @ \cup {Head(toClient)}]
    /\ UNCHANGED <<session, phase, clip, looping, polled, viewerVars, toViewer,
                   copies, own, crossed>>

\* ... and then installs it, which fails while another program holds the
\* clipboard.
ClientInstalls ==
    /\ applying # None
    /\ \/ clip' = [clip EXCEPT !["client"] = Canon[applying]]
       \/ MayRefuse /\ UNCHANGED clip
    /\ applying' = None
    /\ UNCHANGED <<session, phase, clientLast, looping, polled, viewerVars,
                   wireVars, historyVars>>

--------------------------------------------------------------------------------
(* The viewer *)

\* pollClipboard calls readText, which resolves to what the clipboard holds.
ViewerReads ==
    /\ phase # "off"
    /\ Len(reading) < MaxReads
    /\ reading' = Append(reading, clip["viewer"])
    /\ UNCHANGED <<session, phase, clip, clientVars, viewerLast, writing,
                   wireVars, historyVars>>

\* A first observation only primes lastClipboard.
ViewerChanged(t) == viewerLast # None /\ t # viewerLast

\* The callback of the oldest call: only a change is sent, and only with control
\* enabled.
ViewerNotes ==
    /\ reading # <<>>
    /\ Len(toClient) < MaxWire
    /\ viewerLast' = Head(reading)
    /\ reading' = Tail(reading)
    /\ IF ViewerChanged(Head(reading)) /\ Fits(Head(reading)) /\ phase = "active"
       THEN /\ toClient' = Append(toClient, Head(reading))
            /\ crossed' = (crossed \/ toViewer # <<>>)
       ELSE UNCHANGED <<toClient, crossed>>
    /\ UNCHANGED <<session, phase, clip, clientVars, writing, toViewer,
                   copies, own, arrived>>

ViewerReceives ==
    /\ toViewer # <<>>
    /\ Len(writing) < MaxWire
    /\ viewerLast' = Head(toViewer)
    /\ writing' = Append(writing, Head(toViewer))
    /\ toViewer' = Tail(toViewer)
    /\ arrived' = [arrived EXCEPT !["viewer"] = @ \cup {Head(toViewer)}]
    /\ UNCHANGED <<session, phase, clip, clientVars, reading, toClient, copies,
                   own, crossed>>

\* writeText may be refused: the tab lost the focus or the permission.
ViewerInstalls ==
    /\ writing # <<>>
    /\ \/ clip' = [clip EXCEPT !["viewer"] = Head(writing)]
       \/ MayRefuse /\ UNCHANGED clip
    /\ writing' = Tail(writing)
    /\ UNCHANGED <<session, phase, clientVars, viewerLast, reading, wireVars,
                   historyVars>>

--------------------------------------------------------------------------------

ClientStep ==
    \/ ClientPolls \/ ClientSkips \/ ClientNotes \/ LoopEnds
    \/ ClientReceives \/ ClientInstalls

ViewerStep ==
    \/ ViewerReads \/ ViewerNotes
    \/ ViewerReceives \/ ViewerInstalls

Next ==
    \/ PageOpens \/ Approved \/ SessionEnds
    \/ \E s \in Side : UserCopies(s)
    \/ ClientStep
    \/ ViewerStep

Spec == Init /\ [][Next]_vars

\* Both loops go on, and what was begun is finished; users owe nothing.
FairSpec ==
    /\ Spec
    /\ WF_vars(ClientPolls)
    /\ WF_vars(ClientSkips \/ ClientNotes)
    /\ WF_vars(LoopEnds)
    /\ WF_vars(ClientReceives)
    /\ WF_vars(ClientInstalls)
    /\ WF_vars(ViewerReads)
    /\ WF_vars(ViewerNotes)
    /\ WF_vars(ViewerReceives)
    /\ WF_vars(ViewerInstalls)

--------------------------------------------------------------------------------

NoWire == toViewer = <<>> /\ toClient = <<>>

\* Nothing is under way, and each side has recorded what its clipboard holds.
Idle ==
    /\ phase = "active"
    /\ NoWire
    /\ polled = None /\ applying = None /\ writing = <<>> /\ reading = <<>>
    /\ clientLast = clip["client"]
    /\ viewerLast = clip["viewer"]

\* Unless messages crossed on the way, the two clipboards agree whenever the
\* sync is idle and a text has passed; a text too long to be sent is the
\* viewer's own (client.go:305-337, viewer.js:127-153).  Messages that cross
\* swap the clipboards for good.
AgreeUnlessCrossed ==
    Idle /\ ~ crossed /\ Fits(viewerLast)
         /\ arrived["client"] \cup arrived["viewer"] # {}
    => clip["client"] = clip["viewer"]

SentFrom(s) == IF s = "client" THEN toViewer ELSE toClient

\* Before a side has received anything, it sends nothing its user did not copy
\* in this session; on the client only in its first one (client.go:321-323,
\* viewer.js:122-124).
PrimingKeepsOldText ==
    \A s \in Side :
        arrived[s] = {} /\ (s = "client" => session = 1)
            => \A i \in DOMAIN SentFrom(s) : SentFrom(s)[i] \in own[s]

\* What protocol.md:91 says of recording installed text: no echo loops.  The
\* users copy a bounded number of texts, so messages must cease.
EchoesDieOut == <>[]NoWire

================================================================================
