--------------------------- MODULE ClipboardSyncProofs ---------------------------
(***************************************************************************)
(* That priming keeps back what was on the clipboards before a session,    *)
(* and that the two ends agree unless messages cross, for any texts, any   *)
(* number of them, and however reads, messages and copies interleave.      *)
(***************************************************************************)
EXTENDS ClipboardSync, TLAPS

LEMMA Empties ==
    /\ <<>> \in Seq(Text) /\ <<>> \in Seq(Text \ Long)
    /\ [s \in Side |-> {}] \in [Side -> SUBSET Text]
OBVIOUS

LEMMA Appended ==
    ASSUME NEW S, NEW s \in Seq(S), NEW e \in S
    PROVE  Append(s, e) \in Seq(S)
OBVIOUS

LEMMA AppendedAll ==
    ASSUME NEW S, NEW s \in Seq(S), NEW e \in S, NEW T, e \in T,
           \A i \in DOMAIN s : s[i] \in T
    PROVE  \A i \in DOMAIN Append(s, e) : Append(s, e)[i] \in T
OBVIOUS

LEMMA HeadAndTail ==
    ASSUME NEW S, NEW s \in Seq(S), s # <<>>
    PROVE  /\ Head(s) = s[1] /\ Head(s) \in S /\ Len(s) \in Nat \ {0}
           /\ DOMAIN s = 1 .. Len(s)
           /\ DOMAIN Tail(s) = 1 .. Len(s) - 1
           /\ \A i \in 1 .. Len(s) - 1 : Tail(s)[i] = s[i + 1]
OBVIOUS

LEMMA TypeInit == Init => TypeOK
<1> SUFFICES ASSUME Init PROVE TypeOK
    OBVIOUS
<1>1. MaxSessions \in Nat /\ MaxCopies \in Nat
    BY ClipboardAssumption
<1>2. session \in 0 .. MaxSessions /\ copies \in 0 .. MaxCopies
    BY <1>1 DEF Init
<1> QED BY <1>2, Empties DEF Init, TypeOK

LEMMA TypeStep == TypeOK /\ [Next]_vars => TypeOK'
<1> SUFFICES ASSUME TypeOK, [Next]_vars PROVE TypeOK'
    OBVIOUS
<1> USE ClipboardAssumption DEF TypeOK, clientVars, viewerVars, wireVars, historyVars
<1>1. CASE PageOpens \/ Approved
    <2>1. session' \in 0 .. MaxSessions
        BY <1>1 DEF PageOpens, Approved
    <2> QED BY <1>1, <2>1, Empties DEF PageOpens, Approved
<1>2. CASE SessionEnds
    BY <1>2, Empties DEF SessionEnds
<1>3. ASSUME NEW s \in Side, UserCopies(s) PROVE TypeOK'
    BY <1>3 DEF UserCopies, Side
<1>4. CASE ClientPolls \/ ClientSkips \/ LoopEnds
    BY <1>4 DEF ClientPolls, ClientSkips, LoopEnds, Side
<1>5. CASE ClientNotes
    <2>1. polled \in Text \ Long
        BY <1>5 DEF ClientNotes, Fits
    <2>2. toViewer' = toViewer \/ toViewer' = Append(toViewer, polled)
        BY <1>5 DEF ClientNotes
    <2>3. toViewer' \in Seq(Text \ Long)
        <3>1. Append(toViewer, polled) \in Seq(Text \ Long)
            BY <2>1, Appended, Zenon
        <3> QED BY <2>2, <3>1
    <2>4. crossed' \in BOOLEAN /\ looping' \in BOOLEAN
        BY <1>5, Zenon DEF ClientNotes
    <2> QED BY <1>5, <2>1, <2>3, <2>4 DEF ClientNotes
<1>6. CASE ClientReceives
    <2>1. Head(toClient) \in Text \ Long /\ Tail(toClient) \in Seq(Text \ Long)
        BY <1>6 DEF ClientReceives
    <2> QED BY <1>6, <2>1 DEF ClientReceives, Recorded, Side
<1>7. CASE ClientInstalls
    BY <1>7 DEF ClientInstalls, Side
<1>8. CASE ViewerReads
    BY <1>8 DEF ViewerReads, Side
<1>9. CASE ViewerNotes
    <2>1. Head(reading) \in Text /\ Tail(reading) \in Seq(Text)
        BY <1>9 DEF ViewerNotes
    <2>2. \/ toClient' = toClient
          \/ Head(reading) \notin Long /\ toClient' = Append(toClient, Head(reading))
        BY <1>9 DEF ViewerNotes, Fits
    <2>3. toClient' \in Seq(Text \ Long)
        <3>1. Head(reading) \notin Long =>
                 Append(toClient, Head(reading)) \in Seq(Text \ Long)
            BY <2>1, Appended, Zenon
        <3> QED BY <2>2, <3>1
    <2>4. crossed' \in BOOLEAN
        BY <1>9, Zenon DEF ViewerNotes
    <2> QED BY <1>9, <2>1, <2>3, <2>4 DEF ViewerNotes
<1>10. CASE ViewerReceives
    <2>1. Head(toViewer) \in Text \ Long /\ Tail(toViewer) \in Seq(Text \ Long)
        BY <1>10 DEF ViewerReceives
    <2> QED BY <1>10, <2>1 DEF ViewerReceives, Side
<1>11. CASE ViewerInstalls
    <2>1. Head(writing) \in Text /\ Tail(writing) \in Seq(Text)
        BY <1>11 DEF ViewerInstalls
    <2> QED BY <1>11, <2>1 DEF ViewerInstalls, Side
<1>12. CASE UNCHANGED vars
    BY <1>12 DEF vars
<1> QED BY <1>1, <1>2, <1>3, <1>4, <1>5, <1>6, <1>7, <1>8, <1>9, <1>10, <1>11, <1>12
        DEF Next, ClientStep, ViewerStep

\* Texts are installed, sent and compared as such (client.go:305-337).
THEOREM TypeCorrect == Spec => []TypeOK
BY TypeInit, TypeStep, PTL DEF Spec

--------------------------------------------------------------------------------
(* Between sessions *)

\* Outside a session nothing is on the way, and what has not been installed yet has
\* arrived in this session.
Bounded ==
    /\ phase = "off" => toViewer = <<>> /\ toClient = <<>> /\ reading = <<>>
    /\ polled # None => looping
    /\ phase # "off" /\ applying # None => arrived["client"] # {}
    /\ phase # "off" /\ writing # <<>> => arrived["viewer"] # {}
    /\ session = 0 => phase = "off" /\ ~ looping /\ clientLast = None

\* As long as the client has received nothing in its first session, its clipboard
\* holds what it held before, and so does all that was read and noted, unless the
\* user has copied; a read from before the copy is what is noted, if anything is.
ClientKeeps ==
    session = 1 /\ phase # "off" /\ arrived["client"] = {} =>
        /\ clip["client"] \notin own["client"] =>
              polled \in {None, clip["client"]} /\ clientLast \in {None, clip["client"]}
        /\ polled \notin own["client"] \cup {None} => clientLast \in {None, polled}
        /\ \A i \in DOMAIN toViewer : toViewer[i] \in own["client"]

\* The same of the page, in every session, with the order of the calls: those made
\* before the user copied come first.
ViewerKeeps ==
    phase # "off" /\ arrived["viewer"] = {} =>
        /\ clip["viewer"] \notin own["viewer"] =>
              /\ viewerLast \in {None, clip["viewer"]}
              /\ \A i \in DOMAIN reading : reading[i] = clip["viewer"]
        /\ \A i \in DOMAIN reading :
              reading[i] \notin own["viewer"] =>
                  /\ viewerLast \in {None, reading[i]}
                  /\ \A j \in 1 .. i : reading[j] = reading[i]
        /\ \A i \in DOMAIN toClient : toClient[i] \in own["viewer"]

PrimingInv == TypeOK /\ Bounded /\ ClientKeeps /\ ViewerKeeps

LEMMA PrimingInit == Init => Bounded /\ ClientKeeps /\ ViewerKeeps
BY DEF Init, Bounded, ClientKeeps, ViewerKeeps

\* What noting a text that was read comes down to, at either end.
LEMMA NotesFrame ==
    ASSUME ClientNotes
    PROVE  /\ polled # None /\ polled' = None /\ clientLast' = polled
           /\ UNCHANGED <<session, phase, clip, applying, viewerLast, reading, writing,
                          toClient, own, arrived>>
           /\ looping' = looping \/ ~ looping'
           /\ \/ toViewer' = toViewer
              \/ /\ toViewer' = Append(toViewer, polled)
                 /\ phase = "active" /\ clientLast # None /\ polled # clientLast
BY DEF ClientNotes, ClientChanged, viewerVars

LEMMA ViewerNotesFrame ==
    ASSUME ViewerNotes
    PROVE  /\ reading # <<>> /\ reading' = Tail(reading) /\ viewerLast' = Head(reading)
           /\ UNCHANGED <<session, phase, clip, clientLast, looping, polled, applying,
                          writing, toViewer, own, arrived>>
           /\ \/ toClient' = toClient
              \/ /\ toClient' = Append(toClient, Head(reading))
                 /\ phase = "active" /\ viewerLast # None /\ Head(reading) # viewerLast
BY DEF ViewerNotes, ViewerChanged, clientVars

LEMMA BoundedStep == PrimingInv /\ [Next]_vars => Bounded'
<1> SUFFICES ASSUME PrimingInv, [Next]_vars PROVE Bounded'
    OBVIOUS
<1> USE DEF PrimingInv, TypeOK, Bounded, clientVars, viewerVars, wireVars, historyVars
<1>1. CASE PageOpens \/ Approved \/ SessionEnds
    BY <1>1 DEF PageOpens, Approved, SessionEnds
<1>2. ASSUME NEW s \in Side, UserCopies(s) PROVE Bounded'
    BY <1>2 DEF UserCopies
<1>3. CASE ClientPolls \/ ClientSkips \/ LoopEnds
    BY <1>3 DEF ClientPolls, ClientSkips, LoopEnds
<1>4. CASE ClientNotes
    BY <1>4, NotesFrame
<1>5. CASE ClientReceives
    BY <1>5 DEF ClientReceives, Side
<1>6. CASE ClientInstalls
    BY <1>6 DEF ClientInstalls
<1>7. CASE ViewerReads \/ ViewerNotes
    BY <1>7 DEF ViewerReads, ViewerNotes
<1>8. CASE ViewerReceives
    BY <1>8 DEF ViewerReceives, Side
<1>9. CASE ViewerInstalls
    BY <1>9 DEF ViewerInstalls
<1>10. CASE UNCHANGED vars
    BY <1>10 DEF vars
<1> QED BY <1>1, <1>2, <1>3, <1>4, <1>5, <1>6, <1>7, <1>8, <1>9, <1>10
        DEF Next, ClientStep, ViewerStep

LEMMA ClientKeepsStep == PrimingInv /\ [Next]_vars => ClientKeeps'
<1> SUFFICES ASSUME PrimingInv, [Next]_vars,
                    session' = 1, phase' # "off", arrived'["client"] = {}
             PROVE  /\ clip'["client"] \notin own'["client"] =>
                          /\ polled' \in {None, clip'["client"]}
                          /\ clientLast' \in {None, clip'["client"]}
                    /\ polled' \notin own'["client"] \cup {None} =>
                          clientLast' \in {None, polled'}
                    /\ \A i \in DOMAIN toViewer' : toViewer'[i] \in own'["client"]
    BY DEF ClientKeeps
<1> USE ClipboardAssumption
    DEF PrimingInv, TypeOK, Bounded, ClientKeeps, clientVars, viewerVars, wireVars,
        historyVars
<1>1. CASE PageOpens
    BY <1>1 DEF PageOpens
<1>2. CASE Approved \/ SessionEnds
    BY <1>2 DEF Approved, SessionEnds
<1>3. ASSUME NEW s \in Side, UserCopies(s) PROVE ClientKeeps'
    BY <1>3 DEF UserCopies, Side
<1>4. CASE ClientPolls \/ ClientSkips \/ LoopEnds
    BY <1>4 DEF ClientPolls, ClientSkips, LoopEnds, Side
<1>5. CASE ClientNotes
    <2>1. polled \in Text /\ "client" \in Side
        BY <1>5, NotesFrame DEF Side
    <2>2. CASE toViewer' = toViewer
        BY <1>5, <2>1, <2>2, NotesFrame
    <2>3. CASE toViewer' # toViewer
        <3>1. polled \in own["client"]
            BY <1>5, <2>1, <2>3, NotesFrame
        <3>2. \A i \in DOMAIN toViewer' : toViewer'[i] \in own["client"]
            <4>1. toViewer \in Seq(Text) /\ \A i \in DOMAIN toViewer : toViewer[i] \in own["client"]
                BY <1>5, NotesFrame
            <4> QED BY <1>5, <2>1, <2>3, <3>1, <4>1, NotesFrame, AppendedAll
        <3> QED BY <1>5, <2>1, <3>1, <3>2, NotesFrame
    <2> QED BY <2>2, <2>3
<1>6. CASE ClientReceives
    BY <1>6 DEF ClientReceives, Side
<1>7. CASE ClientInstalls
    BY <1>7 DEF ClientInstalls, Side
<1>8. CASE ViewerReads \/ ViewerNotes
    BY <1>8 DEF ViewerReads, ViewerNotes
<1>9. CASE ViewerReceives
    BY <1>9 DEF ViewerReceives, Side
<1>10. CASE ViewerInstalls
    BY <1>10 DEF ViewerInstalls, Side
<1>11. CASE UNCHANGED vars
    BY <1>11 DEF vars
<1> QED BY <1>1, <1>2, <1>3, <1>4, <1>5, <1>6, <1>7, <1>8, <1>9, <1>10, <1>11
        DEF Next, ClientStep, ViewerStep

LEMMA ViewerKeepsStep == PrimingInv /\ [Next]_vars => ViewerKeeps'
<1> SUFFICES ASSUME PrimingInv, [Next]_vars, phase' # "off", arrived'["viewer"] = {}
             PROVE  ViewerKeeps'
    BY DEF ViewerKeeps
<1> USE ClipboardAssumption
    DEF PrimingInv, TypeOK, Bounded, ViewerKeeps, clientVars, viewerVars, wireVars,
        historyVars
<1>1. CASE PageOpens
    BY <1>1 DEF PageOpens
<1>2. CASE Approved \/ SessionEnds
    BY <1>2 DEF Approved, SessionEnds
<1>3. ASSUME NEW s \in Side, UserCopies(s) PROVE ViewerKeeps'
    BY <1>3 DEF UserCopies, Side
<1>4. CASE ClientPolls \/ ClientSkips \/ LoopEnds
    BY <1>4 DEF ClientPolls, ClientSkips, LoopEnds
<1>5. CASE ClientNotes
    BY <1>5, NotesFrame
<1>11. CASE ClientReceives
    <2>1. toClient' = Tail(toClient) /\ toClient # <<>>
          /\ UNCHANGED <<phase, clip, viewerLast, reading, own>>
          /\ arrived'["viewer"] = arrived["viewer"]
        BY <1>11 DEF ClientReceives, Side
    <2>2. \A i \in DOMAIN toClient' : toClient'[i] \in own["viewer"]
        BY <2>1
    <2> QED BY <2>1, <2>2
<1>12. CASE ClientInstalls
    BY <1>12 DEF ClientInstalls, Side
<1>6. CASE ViewerReads
    <2>reads. /\ reading' = Append(reading, clip["viewer"]) /\ clip["viewer"] \in Text
              /\ UNCHANGED <<phase, clip, viewerLast, toClient, own, arrived>>
        BY <1>6 DEF ViewerReads, Side
    <2>length. reading' \in Seq(Text) /\ DOMAIN reading' = 1 .. Len(reading) + 1
               /\ DOMAIN reading = 1 .. Len(reading) /\ Len(reading) \in Nat
        BY <2>reads
    <2>last. /\ \A i \in 1 .. Len(reading) : reading'[i] = reading[i]
             /\ reading'[Len(reading) + 1] = clip["viewer"]
        BY <2>reads
    <2>foreign. \A i \in DOMAIN reading' : clip["viewer"] \notin own["viewer"] =>
                    reading'[i] = clip["viewer"]
        BY <2>reads, <2>length, <2>last
    <2>holds. ASSUME NEW i \in DOMAIN reading', reading'[i] \notin own["viewer"]
              PROVE  /\ viewerLast \in {None, reading'[i]}
                     /\ \A j \in 1 .. i : reading'[j] = reading'[i]
        <3>1. CASE i \in DOMAIN reading
            BY <2>reads, <2>length, <2>last, <2>holds, <3>1
        <3>2. CASE i = Len(reading) + 1
            BY <2>reads, <2>length, <2>last, <2>foreign, <2>holds, <3>2
        <3> QED BY <2>length, <3>1, <3>2
    <2> QED BY <2>reads, <2>foreign, <2>holds
<1>7. CASE ViewerNotes
    <2> DEFINE h == Head(reading)
    <2>1. /\ h = reading[1] /\ h \in Text /\ Len(reading) \in Nat \ {0}
          /\ DOMAIN reading = 1 .. Len(reading)
          /\ DOMAIN reading' = 1 .. Len(reading) - 1
          /\ \A i \in 1 .. Len(reading) - 1 : reading'[i] = reading[i + 1]
        <3>1. reading # <<>> /\ reading' = Tail(reading) /\ reading \in Seq(Text)
            BY <1>7, ViewerNotesFrame
        <3> HIDE DEF PrimingInv, TypeOK, Bounded, ViewerKeeps
        <3> QED BY <3>1, HeadAndTail
    <2> HIDE DEF h
    <2>2. /\ clip["viewer"] \notin own["viewer"] =>
                \A i \in DOMAIN reading : reading[i] = clip["viewer"]
          /\ \A i \in DOMAIN reading :
                reading[i] \notin own["viewer"] =>
                    /\ viewerLast \in {None, reading[i]}
                    /\ \A j \in 1 .. i : reading[j] = reading[i]
          /\ \A i \in DOMAIN toClient : toClient[i] \in own["viewer"]
          /\ toClient \in Seq(Text)
        BY <1>7, ViewerNotesFrame
    <2> HIDE DEF PrimingInv, TypeOK, Bounded, ViewerKeeps
    <2>3. ASSUME clip["viewer"] \notin own["viewer"]
          PROVE  /\ h = clip["viewer"]
                 /\ \A i \in DOMAIN reading' : reading'[i] = clip["viewer"]
        <3>1. \A i \in DOMAIN reading : reading[i] = clip["viewer"]
            BY <2>2, <2>3
        <3>2. \A i \in 1 .. Len(reading) : reading[i] = clip["viewer"]
            BY <2>1, <3>1
        <3>3. \A i \in 1 .. Len(reading) - 1 : i + 1 \in 1 .. Len(reading)
            BY <2>1
        <3>4. \A i \in 1 .. Len(reading) - 1 : reading'[i] = clip["viewer"]
            BY <2>1, <3>2, <3>3
        <3> QED BY <2>1, <3>2, <3>4
    <2>4. ASSUME NEW i \in DOMAIN reading', reading'[i] \notin own["viewer"]
          PROVE  h = reading'[i] /\ \A j \in 1 .. i : reading'[j] = reading'[i]
        <3>1. i \in 1 .. Len(reading) - 1 /\ i + 1 \in DOMAIN reading
            BY <2>1
        <3>2. reading[i + 1] \notin own["viewer"] /\ reading'[i] = reading[i + 1]
            BY <2>1, <2>4, <3>1
        <3>3. \A j \in 1 .. i + 1 : reading[j] = reading[i + 1]
            BY <2>2, <3>1, <3>2
        <3>4. \A j \in 1 .. i : /\ j \in 1 .. Len(reading) - 1
                               /\ j + 1 \in 1 .. i + 1 /\ 1 \in 1 .. i + 1
            BY <2>1, <3>1
        <3>5. \A j \in 1 .. i : reading'[j] = reading[i + 1]
            BY <2>1, <3>3, <3>4
        <3>6. 1 \in 1 .. i + 1
            BY <3>1
        <3> QED BY <2>1, <3>2, <3>3, <3>5, <3>6
    <2>5. \A i \in DOMAIN toClient' : toClient'[i] \in own["viewer"]
        <3>1. CASE toClient' = toClient
            BY <2>2, <3>1
        <3>2. CASE toClient' # toClient
            <4>1. /\ toClient' = Append(toClient, h)
                  /\ viewerLast # None /\ h # viewerLast
                BY <1>7, <3>2, ViewerNotesFrame DEF h
            <4>2. 1 \in DOMAIN reading /\ reading[1] = h
                BY <2>1
            <4>3. h \in own["viewer"]
                BY <2>2, <4>1, <4>2
            <4> QED BY <2>1, <2>2, <4>1, <4>3, AppendedAll
        <3> QED BY <3>1, <3>2
    <2> QED BY <1>7, <2>3, <2>4, <2>5, ViewerNotesFrame DEF h, ViewerKeeps
<1>8. CASE ViewerReceives
    BY <1>8 DEF ViewerReceives, Side
<1>9. CASE ViewerInstalls
    BY <1>9 DEF ViewerInstalls, Side
<1>10. CASE UNCHANGED vars
    BY <1>10 DEF vars
<1> QED BY <1>1, <1>2, <1>3, <1>4, <1>5, <1>6, <1>7, <1>8, <1>9, <1>10, <1>11, <1>12
        DEF Next, ClientStep, ViewerStep

\* Nothing of what was on the client's clipboard before its first session, and nothing
\* of what was on the agent's before any, is sent to the other side unless a text has
\* come from there first (client.go:321-323, viewer.js:122-124).
THEOREM OldTextStays == Spec => []PrimingKeepsOldText
<1>1. Init => PrimingInv
    BY TypeInit, PrimingInit DEF PrimingInv
<1>2. PrimingInv /\ [Next]_vars => PrimingInv'
    BY TypeStep, BoundedStep, ClientKeepsStep, ViewerKeepsStep DEF PrimingInv
<1>3. PrimingInv => PrimingKeepsOldText
    BY DEF PrimingInv, Bounded, ClientKeeps, ViewerKeeps, PrimingKeepsOldText,
           SentFrom, Side
<1> QED BY <1>1, <1>2, <1>3, PTL DEF Spec

--------------------------------------------------------------------------------
(* Agreement *)

Newest(texts) == texts[Len(texts)]

Received == arrived["client"] \cup arrived["viewer"] # {}

\* As long as no messages have crossed, one end at a time has the newer text: it has
\* noted what it sent last, and when all of it has arrived so has the other. A text
\* too long to be sent may be noted at the viewer instead.
InAccord ==
    ~ crossed =>
        /\ ~ NoWire \/ Received => phase = "active"
        /\ toClient = <<>> \/ toViewer = <<>>
        /\ toClient # <<>> => viewerLast \in Long \cup {Newest(toClient)}
        /\ toViewer # <<>> => clientLast = Newest(toViewer)
        /\ NoWire /\ Received => clientLast # None /\ viewerLast \in Long \cup {clientLast}

LEMMA NewestSent ==
    ASSUME NEW S, NEW s \in Seq(S), NEW e \in S
    PROVE  Append(s, e) # <<>> /\ Newest(Append(s, e)) = e
BY DEF Newest

LEMMA NewestReceived ==
    ASSUME NEW S, NEW s \in Seq(S), s # <<>>
    PROVE  /\ Newest(s) \in S
           /\ Tail(s) = <<>> => Head(s) = Newest(s)
           /\ Tail(s) # <<>> => Newest(Tail(s)) = Newest(s)
<1>1. Len(s) \in Nat \ {0} /\ Len(Tail(s)) = Len(s) - 1 /\ Tail(s) \in Seq(S)
    OBVIOUS
<1>2. Newest(s) \in S
    BY <1>1 DEF Newest
<1>3. Tail(s) = <<>> => Len(Tail(s)) = 0
    <2>1. Len(<<>>) = 0
        OBVIOUS
    <2> QED BY <2>1, Zenon
<1>4. Tail(s) # <<>> => Len(Tail(s)) # 0
    BY <1>1
<1> QED BY <1>1, <1>2, <1>3, <1>4, HeadAndTail DEF Newest

LEMMA AccordClientNotes ==
    ASSUME TypeOK, InAccord, ClientNotes
    PROVE  InAccord'
<1> USE DEF TypeOK, InAccord, Received, NoWire
<1>1. polled \in Text \ Long
    BY DEF ClientNotes, Fits
<1>2. CASE ClientChanged(polled) /\ phase = "active"
    <2>1. /\ toViewer' = Append(toViewer, polled)
          /\ crossed' = (crossed \/ toClient # <<>>)
        BY <1>2, Zenon DEF ClientNotes
    <2>2. toViewer' # <<>> /\ Newest(toViewer') = polled
        BY <1>1, <2>1, NewestSent
    <2> QED BY <2>1, <2>2, NotesFrame DEF Newest
<1>3. CASE ~ (ClientChanged(polled) /\ phase = "active")
    <2>1. UNCHANGED <<toViewer, crossed>>
        BY <1>3 DEF ClientNotes
    <2>2. clientLast = None \/ clientLast = polled \/ phase # "active"
        BY <1>3 DEF ClientChanged
    <2>3. toViewer # <<>> => Newest(toViewer) \in Text
        BY NewestReceived
    <2> QED BY <1>1, <2>1, <2>2, <2>3, NotesFrame, ClipboardAssumption DEF Newest
<1> QED BY <1>2, <1>3

LEMMA AccordViewerNotes ==
    ASSUME TypeOK, InAccord, ViewerNotes
    PROVE  InAccord'
<1> USE DEF TypeOK, InAccord, Received, NoWire
<1> DEFINE h == Head(reading)
<1>1. h \in Text /\ viewerLast' = h
    BY HeadAndTail DEF ViewerNotes
<1>2. UNCHANGED <<phase, clientLast, toViewer, arrived>>
    BY ViewerNotesFrame
<1>3. CASE ViewerChanged(h) /\ Fits(h) /\ phase = "active"
    <2>1. /\ toClient' = Append(toClient, h)
          /\ crossed' = (crossed \/ toViewer # <<>>)
        BY <1>3, Zenon DEF ViewerNotes
    <2>2. toClient' # <<>> /\ Newest(toClient') = h
        <3> HIDE DEF h
        <3>1. h \in Text \ Long
            BY <1>1, <1>3 DEF Fits
        <3> QED BY <2>1, <3>1, NewestSent
    <2> HIDE DEF h
    <2> QED BY <1>1, <1>2, <1>3, <2>1, <2>2 DEF Newest
<1>4. CASE ~ (ViewerChanged(h) /\ Fits(h) /\ phase = "active")
    <2>1. UNCHANGED <<toClient, crossed>>
        BY <1>4 DEF ViewerNotes
    <2>2. viewerLast = None \/ viewerLast = h \/ h \in Long \/ phase # "active"
        BY <1>1, <1>4 DEF ViewerChanged, Fits
    <2>3. toClient # <<>> => Newest(toClient) \in Text
        BY NewestReceived
    <2> HIDE DEF h
    <2> QED BY <1>1, <1>2, <2>1, <2>2, <2>3, ClipboardAssumption DEF Newest
<1> QED BY <1>3, <1>4

LEMMA AccordStep == TypeOK /\ InAccord /\ [Next]_vars => InAccord'
<1> SUFFICES ASSUME TypeOK, InAccord, [Next]_vars PROVE InAccord'
    OBVIOUS
<1> USE DEF TypeOK, InAccord, Received, NoWire, clientVars, viewerVars, wireVars,
            historyVars
<1>1. CASE PageOpens \/ Approved \/ SessionEnds
    BY <1>1 DEF PageOpens, Approved, SessionEnds, Side, Newest
<1>2. ASSUME NEW s \in Side, UserCopies(s) PROVE InAccord'
    BY <1>2 DEF UserCopies, Newest
<1>3. CASE ClientPolls \/ ClientSkips \/ LoopEnds \/ ClientInstalls
    BY <1>3 DEF ClientPolls, ClientSkips, LoopEnds, ClientInstalls, Newest
<1>4. CASE ClientReceives
    <2>1. /\ toClient # <<>> /\ toClient' = Tail(toClient)
          /\ clientLast' = Head(toClient)
          /\ UNCHANGED <<phase, viewerLast, toViewer, crossed>>
        BY <1>4 DEF ClientReceives, Recorded
    <2>2. /\ Newest(toClient) \in Text \ Long
          /\ toClient' = <<>> => clientLast' = Newest(toClient)
          /\ toClient' # <<>> => Newest(toClient') = Newest(toClient)
        BY <2>1, NewestReceived
    <2> QED BY <2>1, <2>2, ClipboardAssumption DEF Newest
<1>5. CASE ViewerReceives
    <2>1. /\ toViewer # <<>> /\ toViewer' = Tail(toViewer)
          /\ viewerLast' = Head(toViewer)
          /\ UNCHANGED <<phase, clientLast, toClient, crossed>>
        BY <1>5 DEF ViewerReceives
    <2>2. /\ Newest(toViewer) \in Text \ Long
          /\ toViewer' = <<>> => viewerLast' = Newest(toViewer)
          /\ toViewer' # <<>> => Newest(toViewer') = Newest(toViewer)
        BY <2>1, NewestReceived
    <2> QED BY <2>1, <2>2, ClipboardAssumption DEF Newest
<1>6. CASE ViewerReads \/ ViewerInstalls
    BY <1>6 DEF ViewerReads, ViewerInstalls, Newest
<1>7. CASE UNCHANGED vars
    BY <1>7 DEF vars, Newest
<1> QED BY <1>1, <1>2, <1>3, <1>4, <1>5, <1>6, <1>7, AccordClientNotes, AccordViewerNotes
        DEF Next, ClientStep, ViewerStep

\* When texts have passed, none crossed another and nothing is under way, both ends
\* have the same text, whatever was refused, skipped or sent twice on the way
\* (client.go:305-337, viewer.js:127-153).
THEOREM ClipboardsAgree == Spec => []AgreeUnlessCrossed
<1>1. Init => InAccord
    BY DEF Init, InAccord, Received, NoWire, Side
<1>2. InAccord => AgreeUnlessCrossed
    BY DEF InAccord, AgreeUnlessCrossed, Idle, NoWire, Received, Fits
<1> QED BY <1>1, <1>2, TypeInit, TypeStep, AccordStep, PTL DEF Spec

================================================================================
