--------------------------- MODULE ScreenStreamProofs ---------------------------
(***************************************************************************)
(* That the differences the encoder sends are against what the page will   *)
(* show, for a frame of any size and colours, any number of messages under *)
(* way, and however the capture loop, the relay and the decoder interleave.*)
(***************************************************************************)
EXTENDS ScreenStream, SequenceTheorems, FiniteSetTheorems, TLAPS

(* Sequences *)

LEMMA Joined ==
    ASSUME NEW S, NEW s \in Seq(S), NEW t \in Seq(S)
    PROVE  /\ s \o t \in Seq(S) /\ DOMAIN (s \o t) = 1 .. Len(s) + Len(t)
           /\ DOMAIN s = 1 .. Len(s) /\ DOMAIN t = 1 .. Len(t)
           /\ Len(s) \in Nat /\ Len(t) \in Nat
           /\ \A i \in 1 .. Len(s) : (s \o t)[i] = s[i]
           /\ \A i \in 1 .. Len(t) : (s \o t)[Len(s) + i] = t[i]
OBVIOUS

LEMMA HeadAndTail ==
    ASSUME NEW S, NEW s \in Seq(S), s # <<>>
    PROVE  /\ Head(s) = s[1] /\ Head(s) \in S /\ Tail(s) \in Seq(S) /\ <<Head(s)>> \in Seq(S)
           /\ Len(s) \in Nat \ {0} /\ Len(Tail(s)) = Len(s) - 1
           /\ DOMAIN s = 1 .. Len(s) /\ DOMAIN Tail(s) = 1 .. Len(s) - 1
           /\ \A i \in 1 .. Len(s) - 1 : Tail(s)[i] = s[i + 1]
OBVIOUS

LEMMA HeadJoinsTail ==
    ASSUME NEW S, NEW s \in Seq(S), s # <<>>
    PROVE  <<Head(s)>> \o Tail(s) = s
<1> DEFINE t == <<Head(s)>> \o Tail(s)
<1>1. /\ t \in Seq(S) /\ Len(t) = Len(s)
      /\ \A i \in 1 .. Len(s) : t[i] = s[i]
    BY HeadAndTail
<1> HIDE DEF t
<1>2. t = s
    BY <1>1, SeqEqual
<1> QED BY <1>2 DEF t

LEMMA TailOfJoined ==
    ASSUME NEW S, NEW x \in S, NEW s \in Seq(S)
    PROVE  /\ <<x>> \o s # <<>> /\ <<x>> \o s \in Seq(S)
           /\ Head(<<x>> \o s) = x /\ Tail(<<x>> \o s) = s
<1> DEFINE t == <<x>> \o s
<1>1. t \in Seq(S) /\ Len(t) = Len(s) + 1 /\ t[1] = x /\ \A i \in 1 .. Len(s) : t[i + 1] = s[i]
    OBVIOUS
<1> HIDE DEF t
<1>2. t # <<>> /\ Head(t) = x
    BY <1>1
<1>3. Tail(t) \in Seq(S) /\ Len(Tail(t)) = Len(s) /\ \A i \in 1 .. Len(s) : Tail(t)[i] = s[i]
    BY <1>1, <1>2, HeadAndTail
<1>4. Tail(t) = s
    BY <1>3, SeqEqual
<1> QED BY <1>1, <1>2, <1>4 DEF t

--------------------------------------------------------------------------------
(* Frames *)

Canvas == [size : Sizes \cup {Blank}, pix : CanvasPix]

\* AddsUp, by the numbers of the frames.
LastFor(a, frames, i) ==
    /\ Covers(frames[i], a)
    /\ \A j \in DOMAIN frames : i < j => ~ Covers(frames[j], a)

Yields(frames, base, image) ==
    \A a \in Aspect :
        /\ \A i \in DOMAIN frames :
              LastFor(a, frames, i) => Of(frames[i], a) = Of(image, a)
        /\ (\A i \in DOMAIN frames : ~ Covers(frames[i], a)) => Of(base, a) = Of(image, a)

LEMMA AddsUpYields ==
    ASSUME NEW frames \in Seq(Frame), NEW base, NEW image
    PROVE  AddsUp(frames, base, image) <=> Yields(frames, base, image)
<1> DEFINE covering(a) == {i \in DOMAIN frames : Covers(frames[i], a)}
<1>1. DOMAIN frames \subseteq Nat
    OBVIOUS
<1>2. ASSUME NEW a \in Aspect, NEW i \in DOMAIN frames
      PROVE  LastFor(a, frames, i) <=> i \in covering(a) /\ \A j \in covering(a) : j <= i
    BY <1>1 DEF LastFor
<1>3. ASSUME NEW a \in Aspect
      PROVE  (\A i \in DOMAIN frames : ~ Covers(frames[i], a)) <=> covering(a) = {}
    OBVIOUS
<1>4. \A a \in Aspect : covering(a) \subseteq DOMAIN frames
    OBVIOUS
<1>5. AddsUp(frames, base, image) <=>
        \A a \in Aspect :
            /\ covering(a) = {} => Of(base, a) = Of(image, a)
            /\ \A i \in covering(a) :
                  (\A j \in covering(a) : j <= i) => Of(frames[i], a) = Of(image, a)
    BY DEF AddsUp
<1> HIDE DEF covering
<1> QED BY <1>2, <1>3, <1>4, <1>5 DEF Yields

LEMMA FrameParts ==
    ASSUME NEW f \in Frame
    PROVE  \/ f \in FullFrame /\ f.kind = "full" /\ f.size \in Sizes /\ f.pix \in Pix
           \/ f \in Region /\ f.kind = "region" /\ DOMAIN f.pix \subseteq Cells
                /\ \A c \in DOMAIN f.pix : f.pix[c] \in Colours
BY DEF Frame, FullFrame, Region

LEMMA CellsArePositive == 0 \notin Cells
BY EncoderAssumption, FS_CardinalityType

\* Drawing a frame changes what the frame covers, and nothing else.
LEMMA DrawnParts ==
    ASSUME NEW f \in Frame, NEW base \in Canvas, NEW a \in Aspect
    PROVE  Of(Draw(f, base), a) = IF Covers(f, a) THEN Of(f, a) ELSE Of(base, a)
<1>1. CASE f.kind = "full"
    BY <1>1 DEF Draw, Of, Covers
<1>2. CASE f.kind # "full"
    <2>1. DOMAIN f.pix \subseteq Cells
        BY <1>2, FrameParts
    <2>2. /\ Draw(f, base).size = base.size
          /\ \A c \in Cells : Draw(f, base).pix[c]
                                = IF c \in DOMAIN f.pix THEN f.pix[c] ELSE base.pix[c]
        BY <1>2 DEF Draw, Canvas, CanvasPix
    <2> QED BY <1>2, <2>1, <2>2, CellsArePositive DEF Of, Covers, Aspect
<1> QED BY <1>1, <1>2

LEMMA DrawnType ==
    ASSUME NEW f \in Frame, NEW base \in Canvas
    PROVE  Draw(f, base) \in Canvas
<1>1. CASE f \in FullFrame
    BY <1>1 DEF Draw, FullFrame, Canvas, CanvasPix, Pix
<1>2. CASE f \notin FullFrame
    <2>1. f.kind = "region" /\ \A c \in DOMAIN f.pix : f.pix[c] \in Colours
        BY <1>2, FrameParts
    <2> DEFINE pix == [c \in DOMAIN base.pix |->
                          IF c \in DOMAIN f.pix THEN f.pix[c] ELSE base.pix[c]]
    <2>2. DOMAIN base.pix = Cells /\ base.pix \in [Cells -> Colours \cup {Blank}]
        BY DEF Canvas, CanvasPix
    <2>3. pix \in CanvasPix
        BY <2>1, <2>2 DEF CanvasPix
    <2>4. Draw(f, base) = [base EXCEPT !.pix = pix]
        BY <2>1 DEF Draw
    <2> HIDE DEF pix
    <2> QED BY <2>3, <2>4 DEF Canvas
<1> QED BY <1>1, <1>2

\* The first of the frames is drawn: the rest adds up to the same.
LEMMA DrawsFirst ==
    ASSUME NEW s \in Seq(Frame), s # <<>>, NEW base \in Canvas, NEW image,
           Yields(s, base, image)
    PROVE  Yields(Tail(s), Draw(Head(s), base), image)
<1> DEFINE t == Tail(s)
           drawn == Draw(Head(s), base)
<1>1. /\ Head(s) = s[1] /\ Head(s) \in Frame /\ Len(s) \in Nat \ {0}
      /\ DOMAIN s = 1 .. Len(s) /\ DOMAIN t = 1 .. Len(s) - 1
      /\ \A i \in 1 .. Len(s) - 1 : t[i] = s[i + 1]
    BY HeadAndTail
<1>2. \A a \in Aspect :
         Of(drawn, a) = IF Covers(s[1], a) THEN Of(s[1], a) ELSE Of(base, a)
    BY <1>1, DrawnParts
<1> HIDE DEF t, drawn
<1>3. ASSUME NEW a \in Aspect, NEW i \in DOMAIN t, LastFor(a, t, i)
      PROVE  Of(t[i], a) = Of(image, a)
    <2>1. i + 1 \in DOMAIN s /\ t[i] = s[i + 1]
        BY <1>1
    <2>2. ASSUME NEW j \in DOMAIN s, i + 1 < j PROVE ~ Covers(s[j], a)
        <3>1. j - 1 \in DOMAIN t /\ i < j - 1 /\ t[j - 1] = s[j]
            BY <1>1, <2>2
        <3> QED BY <1>3, <3>1 DEF LastFor
    <2>3. LastFor(a, s, i + 1)
        BY <1>3, <2>1, <2>2 DEF LastFor
    <2> QED BY <2>1, <2>3 DEF Yields
<1>4. ASSUME NEW a \in Aspect, \A i \in DOMAIN t : ~ Covers(t[i], a)
      PROVE  Of(drawn, a) = Of(image, a)
    <2>1. ASSUME NEW j \in DOMAIN s, 1 < j PROVE ~ Covers(s[j], a)
        <3>1. j - 1 \in DOMAIN t /\ t[j - 1] = s[j]
            BY <1>1, <2>1
        <3> QED BY <1>4, <3>1
    <2>2. 1 \in DOMAIN s
        BY <1>1
    <2>3. CASE Covers(s[1], a)
        <3>1. LastFor(a, s, 1)
            BY <2>1, <2>3 DEF LastFor
        <3> QED BY <1>2, <2>2, <2>3, <3>1 DEF Yields
    <2>4. CASE ~ Covers(s[1], a)
        <3>1. \A j \in DOMAIN s : ~ Covers(s[j], a)
            BY <1>1, <2>1, <2>4
        <3> QED BY <1>2, <2>4, <3>1 DEF Yields
    <2> QED BY <2>3, <2>4
<1>5. Yields(t, drawn, image)
    BY <1>3, <1>4 DEF Yields
<1> QED BY <1>5 DEF t, drawn

\* Frames that have what changed as it is in the new image are sent after the others.
LEMMA SendsMore ==
    ASSUME NEW s \in Seq(Frame), NEW r \in Seq(Frame), NEW base, NEW old, NEW new,
           Yields(s, base, old) \/ \A a \in Aspect : \E i \in DOMAIN r : Covers(r[i], a),
           \A i \in DOMAIN r : \A a \in Aspect :
              Covers(r[i], a) => Of(r[i], a) = Of(new, a),
           \A a \in Aspect : Of(new, a) = Of(old, a) \/ \E i \in DOMAIN r : Covers(r[i], a)
    PROVE  Yields(s \o r, base, new)
<1> DEFINE t == s \o r
<1>1. /\ DOMAIN t = 1 .. Len(s) + Len(r) /\ DOMAIN s = 1 .. Len(s) /\ DOMAIN r = 1 .. Len(r)
      /\ Len(s) \in Nat /\ Len(r) \in Nat
      /\ \A i \in 1 .. Len(s) : t[i] = s[i]
      /\ \A i \in 1 .. Len(r) : t[Len(s) + i] = r[i]
    BY Joined
<1> HIDE DEF t
<1>2. ASSUME NEW a \in Aspect, NEW i \in DOMAIN t, LastFor(a, t, i)
      PROVE  Of(t[i], a) = Of(new, a)
    <2>1. CASE i > Len(s)
        <3>1. i - Len(s) \in DOMAIN r /\ t[i] = r[i - Len(s)]
            BY <1>1, <2>1
        <3> QED BY <1>2, <3>1 DEF LastFor
    <2>2. CASE i <= Len(s)
        <3>1. i \in DOMAIN s /\ t[i] = s[i]
            BY <1>1, <2>2
        <3>2. ASSUME NEW k \in DOMAIN r PROVE ~ Covers(r[k], a)
            <4>1. Len(s) + k \in DOMAIN t /\ i < Len(s) + k /\ t[Len(s) + k] = r[k]
                BY <1>1, <2>2
            <4> QED BY <1>2, <4>1 DEF LastFor
        <3>3. ASSUME NEW j \in DOMAIN s, i < j PROVE ~ Covers(s[j], a)
            <4>1. j \in DOMAIN t /\ t[j] = s[j]
                BY <1>1
            <4> QED BY <1>2, <3>3, <4>1 DEF LastFor
        <3>4. LastFor(a, s, i)
            BY <1>2, <3>1, <3>3 DEF LastFor
        <3> QED BY <3>1, <3>2, <3>4 DEF Yields
    <2> QED BY <1>1, <2>1, <2>2
<1>3. ASSUME NEW a \in Aspect, \A i \in DOMAIN t : ~ Covers(t[i], a)
      PROVE  Of(base, a) = Of(new, a)
    <2>1. ASSUME NEW k \in DOMAIN r PROVE ~ Covers(r[k], a)
        <3>1. Len(s) + k \in DOMAIN t /\ t[Len(s) + k] = r[k]
            BY <1>1
        <3> QED BY <1>3, <3>1
    <2>2. ASSUME NEW j \in DOMAIN s PROVE ~ Covers(s[j], a)
        <3>1. j \in DOMAIN t /\ t[j] = s[j]
            BY <1>1
        <3> QED BY <1>3, <3>1
    <2> QED BY <2>1, <2>2 DEF Yields
<1>4. Yields(t, base, new)
    BY <1>2, <1>3 DEF Yields
<1> QED BY <1>4 DEF t

\* What comes before a full frame does not matter.
LEMMA SkipsToFull ==
    ASSUME NEW p \in Seq(Frame), NEW q \in Seq(Frame), NEW t \in Seq(Frame),
           t # <<>>, t[1].kind = "full", NEW base, NEW image,
           Yields(p \o t, base, image)
    PROVE  Yields(q \o t, base, image)
<1> DEFINE u == p \o t
           v == q \o t
<1>1. /\ DOMAIN u = 1 .. Len(p) + Len(t) /\ DOMAIN t = 1 .. Len(t)
      /\ Len(p) \in Nat /\ Len(t) \in Nat
      /\ \A i \in 1 .. Len(t) : u[Len(p) + i] = t[i]
    BY Joined
<1>2. /\ DOMAIN v = 1 .. Len(q) + Len(t) /\ Len(q) \in Nat
      /\ \A i \in 1 .. Len(t) : v[Len(q) + i] = t[i]
    BY Joined
<1>3. 1 \in 1 .. Len(t)
    BY HeadAndTail
<1> HIDE DEF u, v
<1>4. Len(q) + 1 \in DOMAIN v /\ \A a \in Aspect : Covers(v[Len(q) + 1], a)
    BY <1>1, <1>2, <1>3 DEF Covers
<1>5. ASSUME NEW a \in Aspect, NEW i \in DOMAIN v, LastFor(a, v, i)
      PROVE  Of(v[i], a) = Of(image, a)
    <2> DEFINE k == i - Len(q)
    <2>1. ~ (i < Len(q) + 1)
        BY <1>4, <1>5 DEF LastFor
    <2>2. k \in 1 .. Len(t) /\ v[i] = t[k]
        BY <1>1, <1>2, <2>1
    <2>3. Len(p) + k \in DOMAIN u /\ u[Len(p) + k] = t[k]
        BY <1>1, <2>2
    <2>4. ASSUME NEW j \in DOMAIN u, Len(p) + k < j PROVE ~ Covers(u[j], a)
        <3> DEFINE m == j - Len(p)
        <3>1. m \in 1 .. Len(t) /\ u[j] = t[m] /\ k < m
            BY <1>1, <2>2, <2>4
        <3>2. Len(q) + m \in DOMAIN v /\ v[Len(q) + m] = t[m] /\ i < Len(q) + m
            BY <1>1, <1>2, <3>1
        <3> QED BY <1>5, <3>1, <3>2 DEF LastFor
    <2>5. LastFor(a, u, Len(p) + k)
        BY <1>5, <2>2, <2>3, <2>4 DEF LastFor
    <2> QED BY <2>2, <2>3, <2>5 DEF Yields, u
<1>6. Yields(v, base, image)
    BY <1>4, <1>5 DEF Yields
<1> QED BY <1>6 DEF v

--------------------------------------------------------------------------------
(* Types *)

\* The parts of TypeOK.
QueueTypeOK ==
    /\ queue \in Seq(Frame) /\ Len(queue) <= MaxQueue + 1
    /\ decoding \in Seq(Frame) /\ Len(decoding) <= 1
    /\ queue # <<>> => decoding # <<>>

FlagTypeOK ==
    /\ discard \in BOOLEAN
    /\ link \in {"open", "closing", "closed"}
    /\ dead \in BOOLEAN
    /\ status \in {"waiting", "connected", "frame error", "ended", "lost"}

LEMMA TypeParts ==
    TypeOK <=> EncoderTypeOK /\ QueueTypeOK /\ canvas \in Canvas /\ FlagTypeOK
BY DEF TypeOK, QueueTypeOK, FlagTypeOK, Canvas

LEMMA TypePartsNext ==
    EncoderTypeOK' /\ QueueTypeOK' /\ canvas' \in Canvas /\ FlagTypeOK' => TypeOK'
BY DEF TypeOK, QueueTypeOK, FlagTypeOK, Canvas

LEMMA FullIsFrame ==
    ASSUME NEW size \in Sizes, NEW pix \in Pix
    PROVE  Full(size, pix) \in Frame
BY DEF Full, Frame, FullFrame

LEMMA StripIsFrame ==
    ASSUME TypeOK, NEW c \in Cells
    PROVE  [kind |-> "region", pix |-> [d \in {c} |-> screen.pix[d]]] \in Frame
<1>1. [d \in {c} |-> screen.pix[d]] \in [{c} -> Colours]
    BY DEF TypeOK, EncoderTypeOK, Pix
<1>2. {c} \in SUBSET Cells
    OBVIOUS
<1> QED BY <1>1, <1>2 DEF Frame, Region

\* The strips hold the cells from top to bottom, each in one of them.
LEMMA StripsHold ==
    ASSUME TypeOK, NEW top \in Cells, NEW bottom \in Cells, top <= bottom
    PROVE  /\ Strips(top, bottom) \in Seq(Frame)
           /\ Len(Strips(top, bottom)) <= Cardinality(Cells)
           /\ \A i \in DOMAIN Strips(top, bottom) : \A a \in Aspect :
                 Covers(Strips(top, bottom)[i], a)
                    => a \in Cells /\ Strips(top, bottom)[i].pix[a] = screen.pix[a]
           /\ \A c \in top .. bottom :
                 \E i \in DOMAIN Strips(top, bottom) : Covers(Strips(top, bottom)[i], c)
<1> DEFINE n == bottom - top + 1
           s == Strips(top, bottom)
           Strip(c) == [kind |-> "region", pix |-> [d \in {c} |-> screen.pix[d]]]
<1>1. Cardinality(Cells) \in Nat /\ Cells = 1 .. Cardinality(Cells)
    BY EncoderAssumption, FS_CardinalityType
<1>2. n \in Nat /\ top \in Int /\ bottom \in Int /\ n <= Cardinality(Cells)
    BY <1>1
<1>3. \A i \in 1 .. n : top + i - 1 \in Cells /\ top + i - 1 \in top .. bottom
    BY <1>1, <1>2
<1>4. s = [i \in 1 .. n |-> Strip(top + i - 1)]
    BY DEF Strips
<1>5. \A c \in Cells : Strip(c) \in Frame
    BY StripIsFrame
<1>6. \A c \in Cells : /\ Strip(c).kind = "region" /\ DOMAIN Strip(c).pix = {c}
                       /\ Strip(c).pix[c] = screen.pix[c]
    OBVIOUS
<1> HIDE DEF Strip, s
<1>7. s \in Seq(Frame) /\ Len(s) <= Cardinality(Cells) /\ DOMAIN s = 1 .. n
    BY <1>1, <1>2, <1>3, <1>4, <1>5
<1>8. ASSUME NEW i \in DOMAIN s, NEW a \in Aspect, Covers(s[i], a)
      PROVE  a \in Cells /\ s[i].pix[a] = screen.pix[a]
    <2>1. top + i - 1 \in Cells /\ s[i] = Strip(top + i - 1)
        BY <1>3, <1>4, <1>7
    <2>2. a \in DOMAIN s[i].pix
        BY <1>6, <1>8, <2>1 DEF Covers
    <2> QED BY <1>6, <2>1, <2>2
<1>9. ASSUME NEW c \in top .. bottom PROVE \E i \in DOMAIN s : Covers(s[i], c)
    <2> DEFINE i == c - top + 1
    <2>1. i \in 1 .. n /\ top + i - 1 = c /\ c \in Cells
        BY <1>1, <1>2
    <2>2. s[i] = Strip(c)
        BY <1>4, <2>1
    <2> QED BY <1>6, <1>7, <2>1, <2>2 DEF Covers
<1> QED BY <1>7, <1>8, <1>9 DEF s

LEMMA TypeInit == Init => TypeOK
<1> SUFFICES ASSUME Init PROVE TypeOK
    OBVIOUS
<1>1. <<>> \in Seq(Frame) /\ Len(<<>>) = 0
    OBVIOUS
<1>2. Cardinality(Cells) \in Nat
    BY EncoderAssumption, FS_CardinalityType
<1>3. EncoderTypeOK
    BY <1>1, <1>2, EncoderAssumption DEF Init, EncoderInit, EncoderTypeOK
<1>4. canvas \in Canvas
    BY DEF Init, ViewerInit, Canvas, CanvasPix
<1>5. /\ queue \in Seq(Frame) /\ Len(queue) <= MaxQueue + 1
      /\ decoding \in Seq(Frame) /\ Len(decoding) <= 1 /\ queue = <<>>
    BY <1>1, ViewerAssumption DEF Init, ViewerInit
<1>6. /\ link = "open" /\ dead = FALSE /\ status = "waiting" /\ discard = FALSE
    BY DEF Init, ViewerInit
<1> QED BY <1>3, <1>4, <1>5, <1>6 DEF TypeOK, Canvas

\* What the encoder does to its own variables.
LEMMA EncoderTypeStep ==
    ASSUME TypeOK, Tick \/ Display \/ Clock
    PROVE  EncoderTypeOK'
<1> USE DEF EncoderTypeOK
<1>a. EncoderTypeOK /\ Cardinality(Cells) \in Nat /\ MaxWire \in Nat
    BY EncoderAssumption, FS_CardinalityType DEF TypeOK
<1>b. screen.size \in Sizes /\ screen.pix \in Pix
    BY <1>a
<1>c. ASSUME NEW f \in Frame, CanWrite, wire' = Append(wire, f)
      PROVE  wire' \in Seq(Frame) /\ Len(wire') <= MaxWire + Cardinality(Cells)
    BY <1>a, <1>c DEF CanWrite
<1>1. CASE IdleRefresh
    <2>1. prev \in Pix
        BY <1>1, <1>a DEF IdleRefresh, RefreshDue
    <2>2. Full(encSize, prev) \in Frame
        BY <2>1, <1>a, FullIsFrame
    <2>3. wire' \in Seq(Frame) /\ Len(wire') <= MaxWire + Cardinality(Cells)
        BY <1>1, <1>c, <2>2 DEF IdleRefresh
    <2> QED BY <1>1, <1>a, <2>3 DEF IdleRefresh
<1>2. CASE EncodeFull
    <2>2. Full(screen.size, screen.pix) \in Frame
        BY <1>b, FullIsFrame
    <2>3. wire' \in Seq(Frame) /\ Len(wire') <= MaxWire + Cardinality(Cells)
        BY <1>2, <1>c, <2>2 DEF EncodeFull
    <2> QED BY <1>2, <1>a, <1>b, <2>3 DEF EncodeFull, Hash
<1>3. CASE EncodeFullFails
    <2>1. faults' \in 0 .. MaxFaults
        BY <1>3, <1>a, EncoderAssumption DEF EncodeFullFails
    <2> QED BY <1>3, <1>a, <1>b, <2>1 DEF EncodeFullFails, Known
<1>4. CASE EncodeRegion
    <2>1. PICK top \in Differing, bottom \in Differing :
             Differing \subseteq top .. bottom /\ wire' = wire \o Strips(top, bottom)
        BY <1>4 DEF EncodeRegion
    <2>2. top \in Cells /\ bottom \in Cells /\ top <= bottom
        BY <2>1, EncoderAssumption, FS_CardinalityType DEF Differing
    <2>3. /\ Strips(top, bottom) \in Seq(Frame)
          /\ Len(Strips(top, bottom)) <= Cardinality(Cells)
        BY <2>2, StripsHold
    <2>4. Len(wire) < MaxWire
        BY <1>4 DEF EncodeRegion, CanWrite
    <2>5. wire' \in Seq(Frame) /\ Len(wire') = Len(wire) + Len(Strips(top, bottom))
        BY <1>a, <2>1, <2>3, ConcatProperties
    <2>6. Len(wire') <= MaxWire + Cardinality(Cells)
        BY <1>a, <2>3, <2>4, <2>5
    <2> QED BY <1>4, <1>a, <1>b, <2>5, <2>6 DEF EncodeRegion, Hash
<1>5. CASE EncodeRegionFails
    <2>1. faults' \in 0 .. MaxFaults
        BY <1>5, <1>a, EncoderAssumption DEF EncodeRegionFails
    <2> QED BY <1>5, <1>a, <1>b, <2>1 DEF EncodeRegionFails
<1>6. CASE EncodeNothing
    BY <1>6, <1>a, <1>b DEF EncodeNothing, Hash
<1>7. CASE Display
    <2>1. changes' \in 0 .. MaxChanges
        BY <1>7, <1>a, EncoderAssumption DEF Display, ScreenChanges
    <2> QED BY <1>7, <1>a, <2>1 DEF Display, ScreenChanges
<1>8. CASE Clock
    BY <1>8, <1>a DEF Clock, TimePasses
<1> QED BY <1>1, <1>2, <1>3, <1>4, <1>5, <1>6, <1>7, <1>8 DEF Tick

\* What the page does to its queue.
LEMMA EnqueueType ==
    ASSUME TypeOK, NEW frames \in Seq(Frame), frames # <<>>, Enqueue(frames),
           Len(frames) <= MaxQueue + 1
    PROVE  QueueTypeOK'
<1> USE DEF QueueTypeOK
<1>a. QueueTypeOK
    BY TypeParts
<1>1. CASE decoding = <<>>
    <2>1. decoding' = <<Head(frames)>> /\ queue' = Tail(frames)
        BY <1>1 DEF Enqueue
    <2>2. /\ Tail(frames) \in Seq(Frame) /\ Len(Tail(frames)) = Len(frames) - 1
          /\ <<Head(frames)>> \in Seq(Frame) /\ Len(frames) \in Nat
        BY HeadAndTail
    <2>3. Len(<<Head(frames)>>) = 1 /\ <<Head(frames)>> # <<>>
        OBVIOUS
    <2> QED BY <2>1, <2>2, <2>3, ViewerAssumption
<1>2. CASE decoding # <<>>
    BY <1>2, <1>a DEF Enqueue
<1> QED BY <1>1, <1>2

LEMMA DecodeNextType ==
    ASSUME TypeOK, DecodeNext
    PROVE  QueueTypeOK'
<1> USE DEF QueueTypeOK
<1>a. QueueTypeOK
    BY TypeParts
<1>1. CASE queue = <<>>
    <2>1. queue' = <<>> /\ decoding' = <<>>
        BY <1>1 DEF DecodeNext
    <2> QED BY <2>1, ViewerAssumption
<1>2. CASE queue # <<>>
    <2>1. queue' = Tail(queue) /\ decoding' = <<Head(queue)>> /\ queue \in Seq(Frame)
          /\ Len(queue) <= MaxQueue + 1
        BY <1>2, <1>a DEF DecodeNext
    <2>2. /\ Tail(queue) \in Seq(Frame) /\ Len(Tail(queue)) = Len(queue) - 1
          /\ <<Head(queue)>> \in Seq(Frame) /\ Len(queue) \in Nat
        BY <1>2, <2>1, HeadAndTail
    <2>3. Len(<<Head(queue)>>) = 1 /\ <<Head(queue)>> # <<>>
        OBVIOUS
    <2> QED BY <2>1, <2>2, <2>3, ViewerAssumption
<1> QED BY <1>1, <1>2

LEMMA DeliverType ==
    ASSUME TypeOK, Deliver
    PROVE  TypeOK'
<1>a. EncoderTypeOK /\ QueueTypeOK /\ canvas \in Canvas /\ FlagTypeOK
    BY TypeParts
<1>b. MaxQueue \in Nat
    BY ViewerAssumption
<1>1. /\ wire # <<>> /\ wire' = Tail(wire) /\ wire \in Seq(Frame)
      /\ UNCHANGED <<screen, lastHash, encSize, prev, age, changes, faults>>
    BY <1>a DEF Deliver, EncoderTypeOK
<1>2. Head(wire) \in Frame /\ Tail(wire) \in Seq(Frame)
    BY <1>1, HeadAndTail
<1>3. EncoderTypeOK'
    <2>1. Cardinality(Cells) \in Nat /\ MaxWire \in Nat
        BY EncoderAssumption, FS_CardinalityType
    <2>2. Len(wire') <= MaxWire + Cardinality(Cells)
        <3>1. Len(wire) <= MaxWire + Cardinality(Cells)
            BY <1>a DEF EncoderTypeOK
        <3>2. Len(wire) \in Nat /\ Len(wire') \in Nat /\ Len(wire') <= Len(wire)
            BY <1>1, HeadAndTail
        <3> QED BY <2>1, <3>1, <3>2
    <2> QED BY <1>a, <1>1, <1>2, <2>2 DEF EncoderTypeOK
<1>4. CASE ReceiveFull(Head(wire))
    <2>1. <<Head(wire)>> \in Seq(Frame) /\ <<Head(wire)>> # <<>> /\ Len(<<Head(wire)>>) = 1
        BY <1>2
    <2>2. Enqueue(<<Head(wire)>>)
        BY <1>4 DEF ReceiveFull
    <2>3. QueueTypeOK'
        <3>1. Len(<<Head(wire)>>) <= MaxQueue + 1
            BY <1>b, <2>1
        <3> QED BY <2>1, <2>2, <3>1, EnqueueType
    <2>4. canvas' = canvas /\ FlagTypeOK'
        BY <1>4, <1>a DEF ReceiveFull, FlagTypeOK
    <2> QED BY <1>3, <1>a, <2>3, <2>4, TypePartsNext
<1>5. CASE ReceiveRegion(Head(wire))
    <2>1. queue \in Seq(Frame) /\ Len(queue) \in Nat
        BY <1>a DEF QueueTypeOK
    <2>2. Len(queue) <= MaxQueue
        BY <1>5, <1>b, <2>1 DEF ReceiveRegion, QueueFull
    <2>3. /\ Append(queue, Head(wire)) \in Seq(Frame) /\ Append(queue, Head(wire)) # <<>>
          /\ Len(Append(queue, Head(wire))) = Len(queue) + 1
        BY <1>2, <2>1, AppendProperties
    <2>4. Len(Append(queue, Head(wire))) <= MaxQueue + 1
        BY <1>b, <2>1, <2>2, <2>3
    <2>5. Enqueue(Append(queue, Head(wire)))
        BY <1>5 DEF ReceiveRegion
    <2>6. QueueTypeOK'
        BY <2>3, <2>4, <2>5, EnqueueType
    <2>7. canvas' = canvas /\ FlagTypeOK'
        BY <1>5, <1>a DEF ReceiveRegion, FlagTypeOK
    <2> QED BY <1>3, <1>a, <2>6, <2>7, TypePartsNext
<1>6. CASE DropRegions(Head(wire))
    <2>1. QueueTypeOK'
        <3>1. <<>> \in Seq(Frame) /\ Len(<<>>) = 0
            OBVIOUS
        <3>2. (queue' = queue \/ queue' = <<>>) /\ decoding' = decoding
            BY <1>6 DEF DropRegions
        <3>3. CASE queue' = queue
            BY <1>a, <3>2, <3>3 DEF QueueTypeOK
        <3>4. CASE queue' = <<>>
            <4>1. queue' \in Seq(Frame) /\ Len(queue') <= MaxQueue + 1
                BY <1>b, <3>1, <3>4
            <4> QED BY <1>a, <3>2, <3>4, <4>1 DEF QueueTypeOK
        <3> QED BY <3>2, <3>3, <3>4
    <2>2. canvas' = canvas /\ FlagTypeOK'
        BY <1>6, <1>a DEF DropRegions, FlagTypeOK
    <2> QED BY <1>3, <1>a, <2>1, <2>2, TypePartsNext
<1> QED BY <1>4, <1>5, <1>6 DEF Deliver

LEMMA TypeStep ==
    ASSUME TypeOK, [Next]_vars
    PROVE  TypeOK'
<1>a. EncoderTypeOK /\ QueueTypeOK /\ canvas \in Canvas /\ FlagTypeOK
    BY TypeParts
<1>b. UNCHANGED encoderVars => EncoderTypeOK'
    BY <1>a DEF encoderVars, EncoderTypeOK
<1>c. UNCHANGED viewerVars => QueueTypeOK' /\ canvas' \in Canvas /\ FlagTypeOK'
    BY <1>a DEF viewerVars, QueueTypeOK, FlagTypeOK
<1>1. CASE Captures \/ Display \/ Clock
    <2>1. EncoderTypeOK' /\ UNCHANGED viewerVars
        BY <1>1, EncoderTypeStep DEF Captures, Display, Clock
    <2> QED BY <1>c, <2>1, TypePartsNext
<1>2. CASE Deliver
    BY <1>2, DeliverType
<1>3. CASE Draws
    <2>1. /\ DecodeNext /\ canvas' = Draw(decoding[1], canvas) /\ decoding # <<>>
          /\ UNCHANGED encoderVars
        BY <1>3 DEF Draws, Drawn
    <2>2. decoding[1] \in Frame
        BY <1>a, <2>1, HeadAndTail DEF QueueTypeOK
    <2>3. canvas' \in Canvas
        BY <1>a, <2>1, <2>2, DrawnType
    <2>4. FlagTypeOK'
        BY <1>a, <1>3 DEF Draws, Drawn, FlagTypeOK
    <2> QED BY <1>b, <2>1, <2>3, <2>4, DecodeNextType, TypePartsNext
<1>4. CASE FailsToDraw
    <2>1. DecodeNext /\ canvas' = canvas
        BY <1>4 DEF FailsToDraw, DecodeFails
    <2>2. faults' \in 0 .. MaxFaults
        <3>1. faults \in Nat /\ MaxFaults \in Nat
            BY <1>a, EncoderAssumption DEF EncoderTypeOK
        <3>2. faults < MaxFaults /\ faults' = faults + 1
            BY <1>4 DEF FailsToDraw
        <3> QED BY <3>1, <3>2
    <2>3. EncoderTypeOK'
        BY <1>4, <1>a, <2>2 DEF FailsToDraw, EncoderTypeOK
    <2>4. FlagTypeOK'
        BY <1>a, <1>4 DEF FailsToDraw, DecodeFails, FlagTypeOK
    <2> QED BY <1>a, <2>1, <2>3, <2>4, DecodeNextType, TypePartsNext
<1>5. CASE Ends
    <2>1. EncoderTypeOK'
        BY <1>b, <1>5 DEF Ends
    <2>2. CASE SessionOver
        <3>1. UNCHANGED <<queue, discard, decoding, canvas>>
            BY <2>2 DEF SessionOver
        <3>2. QueueTypeOK'
            BY <1>a, <3>1 DEF QueueTypeOK
        <3>3. FlagTypeOK'
            BY <1>a, <2>2 DEF SessionOver, FlagTypeOK
        <3> QED BY <1>a, <2>1, <3>1, <3>2, <3>3, TypePartsNext
    <2>3. CASE Closed
        <3>1. <<>> \in Seq(Frame) /\ Len(<<>>) = 0
            OBVIOUS
        <3>2. queue' = <<>> /\ UNCHANGED <<decoding, canvas>>
            BY <2>3 DEF Closed
        <3>3. QueueTypeOK'
            BY <1>a, <3>1, <3>2, ViewerAssumption DEF QueueTypeOK
        <3>4. FlagTypeOK'
            BY <1>a, <2>3 DEF Closed, FlagTypeOK
        <3> QED BY <1>a, <2>1, <3>2, <3>3, <3>4, TypePartsNext
    <2> QED BY <1>5, <2>2, <2>3 DEF Ends
<1>6. CASE UNCHANGED vars
    <2>1. UNCHANGED encoderVars /\ UNCHANGED viewerVars
        BY <1>6 DEF vars
    <2> QED BY <1>b, <1>c, <2>1, TypePartsNext
<1> QED BY <1>1, <1>2, <1>3, <1>4, <1>5, <1>6 DEF Next

--------------------------------------------------------------------------------
(* What is under way *)

LEMMA Regrouped ==
    ASSUME NEW s \in Seq(Frame), NEW t \in Seq(Frame), NEW u \in Seq(Frame)
    PROVE  (s \o t) \o u = s \o (t \o u) /\ s \o t \in Seq(Frame)
BY ConcatAssociative, ConcatProperties

LEMMA ComingType ==
    ASSUME TypeOK
    PROVE  /\ decoding \in Seq(Frame) /\ queue \in Seq(Frame) /\ wire \in Seq(Frame)
           /\ Coming \in Seq(Frame)
           /\ Coming = decoding \o (queue \o wire)
<1>1. decoding \in Seq(Frame) /\ queue \in Seq(Frame) /\ wire \in Seq(Frame)
    BY DEF TypeOK, EncoderTypeOK
<1> QED BY <1>1, ConcatProperties, ConcatAssociative DEF Coming

LEMMA InStepYields ==
    ASSUME TypeOK
    PROVE  InStep <=> (prev # None => Yields(Coming, canvas, InMind))
BY ComingType, AddsUpYields DEF InStep

LEMMA InStepYieldsNext ==
    ASSUME TypeOK'
    PROVE  InStep' <=> (prev' # None => Yields(Coming', canvas', InMind'))
<1>1. Coming' \in Seq(Frame)
    <2>1. decoding' \in Seq(Frame) /\ queue' \in Seq(Frame) /\ wire' \in Seq(Frame)
        BY DEF TypeOK, EncoderTypeOK
    <2> QED BY <2>1, ConcatProperties DEF Coming
<1>2. InStep' <=> (prev' # None => AddsUp(Coming', canvas', InMind'))
    BY DEF InStep
<1>3. AddsUp(Coming', canvas', InMind') <=> Yields(Coming', canvas', InMind')
    BY <1>1, AddsUpYields
<1> QED BY <1>2, <1>3

\* Nothing that counts has changed.
LEMMA SameStep ==
    ASSUME InStep, UNCHANGED <<prev, encSize, Coming, canvas>>
    PROVE  InStep'
<1>1. InMind' = InMind
    BY DEF InMind
<1> QED BY <1>1 DEF InStep

\* Messages are put on the wire.
LEMMA SendStep ==
    ASSUME TypeOK, TypeOK', NEW r \in Seq(Frame), wire' = wire \o r, UNCHANGED viewerVars,
           \/ InStep /\ prev # None
           \/ \A a \in Aspect : \E i \in DOMAIN r : Covers(r[i], a),
           \A i \in DOMAIN r : \A a \in Aspect :
              Covers(r[i], a) => Of(r[i], a) = Of(InMind', a),
           \A a \in Aspect :
              Of(InMind', a) = Of(InMind, a) \/ \E i \in DOMAIN r : Covers(r[i], a)
    PROVE  InStep'
<1>1. Coming \in Seq(Frame)
    BY ComingType
<1>2. Coming' = Coming \o r
    <2>1. /\ decoding \in Seq(Frame) /\ queue \in Seq(Frame) /\ wire \in Seq(Frame)
          /\ decoding \o queue \in Seq(Frame)
        BY ComingType, ConcatProperties
    <2>2. Coming' = (decoding \o queue) \o (wire \o r)
        BY DEF Coming, viewerVars
    <2> DEFINE joined == decoding \o queue
    <2>3. (joined \o wire) \o r = joined \o (wire \o r)
        BY <2>1, Regrouped
    <2> QED BY <2>2, <2>3 DEF Coming
<1>3. \/ Yields(Coming, canvas, InMind)
      \/ \A a \in Aspect : \E i \in DOMAIN r : Covers(r[i], a)
    BY InStepYields
<1>4. Yields(Coming \o r, canvas, InMind')
    BY <1>1, <1>3, SendsMore
<1>5. canvas' = canvas
    BY DEF viewerVars
<1> QED BY <1>2, <1>4, <1>5, InStepYieldsNext

\* A whole frame is put on the wire.
LEMMA SendFullStep ==
    ASSUME TypeOK, TypeOK', NEW size \in Sizes, NEW pix \in Pix,
           wire' = Append(wire, Full(size, pix)), encSize' = size, prev' = pix,
           UNCHANGED viewerVars
    PROVE  InStep'
<1> DEFINE f == Full(size, pix)
           r == <<f>>
<1>1. f \in Frame /\ f.kind = "full" /\ f.size = size /\ f.pix = pix
    BY FullIsFrame DEF Full
<1>2. wire \in Seq(Frame)
    BY ComingType
<1>3. r \in Seq(Frame) /\ wire' = wire \o r
    BY <1>1, <1>2, AppendIsConcat
<1>4. DOMAIN r = {1} /\ r[1] = f
    OBVIOUS
<1>5. InMind' = [size |-> size, pix |-> pix]
    BY DEF InMind
<1>6. \A a \in Aspect : Covers(f, a) /\ Of(f, a) = Of(InMind', a)
    BY <1>1, <1>5 DEF Covers, Of
<1> HIDE DEF r, f
<1>7. \A a \in Aspect : \E i \in DOMAIN r : Covers(r[i], a)
    BY <1>4, <1>6
<1>8. \A i \in DOMAIN r : \A a \in Aspect : Covers(r[i], a) => Of(r[i], a) = Of(InMind', a)
    BY <1>4, <1>6
<1> QED BY <1>3, <1>7, <1>8, SendStep

LEMMA TickStep ==
    ASSUME TypeOK, TypeOK', InStep, Tick, UNCHANGED viewerVars, ~ EncodeRegionFails
    PROVE  InStep'
<1>a. EncoderTypeOK
    BY DEF TypeOK
<1>b. /\ screen.size \in Sizes /\ screen.pix \in Pix /\ encSize \in Sizes
      /\ prev \in Pix \cup {None}
    BY <1>a DEF EncoderTypeOK
<1>c. canvas' = canvas /\ (wire' = wire => Coming' = Coming)
    BY DEF viewerVars, Coming
<1>1. CASE IdleRefresh
    <2>1. prev \in Pix
        BY <1>1, <1>b DEF IdleRefresh, RefreshDue
    <2>2. wire' = Append(wire, Full(encSize, prev)) /\ UNCHANGED <<encSize, prev>>
        BY <1>1 DEF IdleRefresh
    <2> QED BY <1>b, <2>1, <2>2, SendFullStep
<1>2. CASE EncodeFull
    <2>1. /\ wire' = Append(wire, Full(screen.size, screen.pix))
          /\ encSize' = screen.size /\ prev' = screen.pix
        BY <1>2 DEF EncodeFull
    <2> QED BY <1>b, <2>1, SendFullStep
<1>3. CASE EncodeFullFails
    <2>1. encSize' = screen.size /\ prev' = Known /\ wire' = wire
        BY <1>3 DEF EncodeFullFails
    <2>2. CASE Resized
        BY <2>1, <2>2 DEF Known, InStep
    <2>3. CASE ~ Resized
        BY <1>c, <2>1, <2>3, SameStep DEF Known, Resized
    <2> QED BY <2>2, <2>3
<1>4. CASE EncodeRegion
    <2>1. PICK top \in Differing, bottom \in Differing :
             Differing \subseteq top .. bottom /\ wire' = wire \o Strips(top, bottom)
        BY <1>4 DEF EncodeRegion
    <2>2. encSize' = screen.size /\ prev' = screen.pix
        BY <1>4 DEF EncodeRegion
    <2>3. prev # None /\ encSize = screen.size
        BY <1>4 DEF EncodeRegion, NeedsFull, Known, Resized
    <2>4. top \in Cells /\ bottom \in Cells /\ top <= bottom
        BY <2>1, EncoderAssumption, FS_CardinalityType DEF Differing
    <2> DEFINE r == Strips(top, bottom)
    <2> HIDE DEF r
    <2>5. /\ r \in Seq(Frame)
          /\ \A i \in DOMAIN r : \A a \in Aspect :
                Covers(r[i], a) => a \in Cells /\ r[i].pix[a] = screen.pix[a]
          /\ \A c \in top .. bottom : \E i \in DOMAIN r : Covers(r[i], c)
        BY <2>4, StripsHold DEF r
    <2>6. InMind' = [size |-> encSize, pix |-> screen.pix]
        BY <2>2, <2>3 DEF InMind
    <2>7. \A i \in DOMAIN r : \A a \in Aspect :
             Covers(r[i], a) => Of(r[i], a) = Of(InMind', a)
        BY <2>5, <2>6, CellsArePositive DEF Of
    <2>8. ASSUME NEW a \in Aspect
          PROVE  Of(InMind', a) = Of(InMind, a) \/ \E i \in DOMAIN r : Covers(r[i], a)
        <3>1. CASE a = 0
            BY <2>6, <3>1 DEF Of, InMind
        <3>2. CASE a \in Differing
            BY <2>1, <2>5, <3>2
        <3>3. CASE a # 0 /\ a \notin Differing
            BY <2>6, <3>3 DEF Of, InMind, Differing, Aspect
        <3> QED BY <3>1, <3>2, <3>3
    <2>9. wire' = wire \o r
        BY <2>1 DEF r
    <2> QED BY <2>3, <2>5, <2>7, <2>8, <2>9, SendStep
<1>5. CASE EncodeNothing
    <2>1. encSize' = screen.size /\ prev' = prev /\ wire' = wire
        BY <1>5 DEF EncodeNothing
    <2>2. encSize = screen.size
        BY <1>5 DEF EncodeNothing, NeedsFull, Known, Resized
    <2> QED BY <1>c, <2>1, <2>2, SameStep
<1> QED BY <1>1, <1>2, <1>3, <1>4, <1>5 DEF Tick

\* The relay delivers a message, and the page queues it.
LEMMA DeliverStep ==
    ASSUME TypeOK, TypeOK', InStep, Deliver, ~ DropRegions(Head(wire))
    PROVE  InStep'
<1> DEFINE h == <<Head(wire)>>
           t == Tail(wire)
<1>1. /\ wire # <<>> /\ wire' = t /\ UNCHANGED <<encSize, prev>>
      /\ ReceiveFull(Head(wire)) \/ ReceiveRegion(Head(wire))
    BY DEF Deliver
<1>2. /\ decoding \in Seq(Frame) /\ queue \in Seq(Frame) /\ wire \in Seq(Frame)
      /\ Coming \in Seq(Frame) /\ Coming = decoding \o (queue \o wire)
      /\ queue # <<>> => decoding # <<>>
    BY ComingType DEF TypeOK
<1>3. Head(wire) = wire[1] /\ Head(wire) \in Frame /\ h \in Seq(Frame) /\ t \in Seq(Frame)
    BY <1>1, <1>2, HeadAndTail
<1>4. h \o t = wire
    BY <1>1, <1>2, HeadJoinsTail
<1>5. canvas' = canvas
    BY <1>1 DEF ReceiveFull, ReceiveRegion
<1>6. InMind' = InMind
    BY <1>1 DEF InMind
<1>7. CASE ReceiveFull(Head(wire))
    <2>1. CASE decoding = <<>>
        <3>1. queue = <<>>
            BY <1>2, <2>1
        <3>2. decoding' = <<Head(h)>> /\ queue' = Tail(h)
            BY <1>7, <2>1 DEF ReceiveFull, Enqueue
        <3>3. decoding' = h /\ queue' = <<>>
            BY <3>2
        <3>4. Coming' = h \o t
            BY <1>1, <1>3, <3>3, ConcatEmptySeq, ConcatProperties DEF Coming
        <3>5. Coming = wire
            BY <1>2, <2>1, <3>1, ConcatEmptySeq
        <3> QED BY <1>1, <1>4, <1>5, <3>4, <3>5, SameStep
    <2>2. CASE decoding # <<>>
        <3>1. decoding' = decoding /\ queue' = h
            BY <1>7, <2>2 DEF ReceiveFull, Enqueue
        <3>2. Coming' = decoding \o wire
            BY <1>1, <1>2, <1>3, <1>4, <3>1, ConcatAssociative DEF Coming
        <3>3. Coming = (decoding \o queue) \o wire /\ decoding \o queue \in Seq(Frame)
            BY <1>2, ConcatProperties DEF Coming
        <3>4. wire[1].kind = "full"
            BY <1>3, <1>7 DEF ReceiveFull
        <3>5. Yields(Coming, canvas, InMind) => Yields(decoding \o wire, canvas, InMind)
            BY <1>1, <1>2, <3>3, <3>4, SkipsToFull
        <3> QED BY <1>1, <1>5, <1>6, <3>2, <3>5, InStepYields, InStepYieldsNext
    <2> QED BY <2>1, <2>2
<1>8. CASE ReceiveRegion(Head(wire))
    <2> DEFINE q == Append(queue, Head(wire))
    <2>1. q = queue \o h /\ q \in Seq(Frame) /\ q # <<>>
        <3>1. q = queue \o h
            BY <1>2, <1>3, AppendIsConcat
        <3>2. q \in Seq(Frame) /\ q # <<>>
            BY <1>2, <1>3, AppendProperties
        <3> QED BY <3>1, <3>2
    <2>2. q \o t = queue \o wire
        BY <1>2, <1>3, <1>4, <2>1, Regrouped
    <2>3. Enqueue(q)
        BY <1>8 DEF ReceiveRegion
    <2> HIDE DEF q
    <2>4. decoding' \o queue' = decoding \o q
        <3>1. CASE decoding = <<>>
            <4>1. decoding' = <<Head(q)>> /\ queue' = Tail(q)
                BY <2>3, <3>1 DEF Enqueue
            <4>2. <<Head(q)>> \o Tail(q) = q
                BY <2>1, HeadJoinsTail
            <4>3. decoding \o q = q
                BY <2>1, <3>1, ConcatEmptySeq
            <4> QED BY <4>1, <4>2, <4>3
        <3>2. CASE decoding # <<>>
            BY <2>3, <3>2 DEF Enqueue
        <3> QED BY <3>1, <3>2
    <2>5. Coming' = (decoding \o q) \o t
        BY <1>1, <2>4 DEF Coming
    <2>6. Coming' = Coming
        <3> HIDE DEF t
        <3>1. decoding \in Seq(Frame) /\ q \in Seq(Frame) /\ t \in Seq(Frame)
            BY <1>2, <1>3, <2>1
        <3>2. (decoding \o q) \o t = decoding \o (q \o t)
            BY <3>1, Regrouped
        <3> QED BY <1>2, <2>2, <2>5, <3>2
    <2> QED BY <1>1, <1>5, <2>6, SameStep
<1> QED BY <1>1, <1>7, <1>8

\* The page draws what it has decoded.
LEMMA DrawStep ==
    ASSUME TypeOK, TypeOK', InStep, Draws
    PROVE  InStep'
<1> DEFINE d == decoding[1]
           rest == queue \o wire
<1>1. /\ decoding # <<>> /\ canvas' = Draw(d, canvas) /\ DecodeNext
      /\ UNCHANGED <<encSize, prev, wire>>
    BY DEF Draws, Drawn, encoderVars
<1>2. /\ decoding \in Seq(Frame) /\ queue \in Seq(Frame) /\ wire \in Seq(Frame)
      /\ Coming \in Seq(Frame) /\ Coming = decoding \o rest /\ rest \in Seq(Frame)
    BY ComingType, ConcatProperties
<1>3. Len(decoding) = 1 /\ d \in Frame /\ canvas \in Canvas
    <2>1. d \in Frame
        BY <1>1, <1>2, HeadAndTail
    <2> DEFINE n == Len(decoding)
    <2>2. n \in Nat \ {0}
        BY <1>1, <1>2, HeadAndTail
    <2>3. n <= 1
        BY DEF TypeOK
    <2> HIDE DEF n
    <2>4. n = 1
        BY <2>2, <2>3
    <2> QED BY <2>1, <2>4 DEF TypeOK, Canvas, n
<1>4. decoding = <<d>>
    <2>1. <<d>> \in Seq(Frame) /\ Len(<<d>>) = 1 /\ <<d>>[1] = d
        BY <1>3
    <2>2. \A i \in 1 .. Len(decoding) : decoding[i] = <<d>>[i]
        BY <1>3, <2>1
    <2> QED BY <1>2, <1>3, <2>1, <2>2, SeqEqual
<1>5. Coming # <<>> /\ Head(Coming) = d /\ Tail(Coming) = rest
    <2>1. Coming = <<d>> \o rest
        BY <1>2, <1>4
    <2> HIDE DEF d, rest
    <2> QED BY <1>2, <1>3, <2>1, TailOfJoined
<1>6. Coming' = rest
    <2>1. CASE queue = <<>>
        <3>1. decoding' = <<>> /\ queue' = <<>>
            BY <1>1, <2>1 DEF DecodeNext
        <3>2. Coming' = (<<>> \o <<>>) \o wire
            BY <1>1, <3>1 DEF Coming
        <3>3. <<>> \o <<>> = <<>>
            OBVIOUS
        <3> QED BY <2>1, <3>2, <3>3
    <2>2. CASE queue # <<>>
        <3>1. decoding' = <<Head(queue)>> /\ queue' = Tail(queue)
            BY <1>1, <2>2 DEF DecodeNext
        <3>2. <<Head(queue)>> \o Tail(queue) = queue
            BY <1>2, <2>2, HeadJoinsTail
        <3> QED BY <1>1, <3>1, <3>2 DEF Coming
    <2> QED BY <2>1, <2>2
<1>7. Yields(Coming, canvas, InMind) => Yields(rest, canvas', InMind)
    BY <1>1, <1>2, <1>3, <1>5, DrawsFirst
<1>8. InMind' = InMind
    BY <1>1 DEF InMind
<1> QED BY <1>1, <1>6, <1>7, <1>8, InStepYields, InStepYieldsNext

\* A step takes the page out of step with the encoder only by losing something.
LEMMA StepOrLoss ==
    ASSUME TypeOK, TypeOK', InStep, [Next]_vars, ~ Losses
    PROVE  InStep'
<1> USE DEF Losses
<1>1. CASE Display \/ Clock
    <2>1. UNCHANGED <<prev, encSize, wire>> /\ UNCHANGED viewerVars
        BY <1>1 DEF Display, ScreenChanges, Clock, TimePasses
    <2>2. UNCHANGED <<prev, encSize, Coming, canvas>>
        BY <2>1 DEF viewerVars, Coming
    <2> QED BY <2>2, SameStep
<1>2. CASE Captures
    BY <1>2, TickStep DEF Captures
<1>3. CASE Deliver
    <2>1. ~ DropRegions(Head(wire))
        BY <1>3 DEF Deliver
    <2> QED BY <1>3, <2>1, DeliverStep
<1>4. CASE Draws
    BY <1>4, DrawStep
<1>5. CASE Ends
    <2>1. SessionOver /\ UNCHANGED encoderVars
        BY <1>5 DEF Ends
    <2>2. UNCHANGED <<prev, encSize, Coming, canvas>>
        BY <2>1 DEF SessionOver, encoderVars, Coming
    <2> QED BY <2>2, SameStep
<1>6. CASE UNCHANGED vars
    <2>1. UNCHANGED <<prev, encSize, Coming, canvas>>
        BY <1>6 DEF vars, encoderVars, viewerVars, Coming
    <2> QED BY <2>1, SameStep
<1> QED BY <1>1, <1>2, <1>3, <1>4, <1>5, <1>6 DEF Next

--------------------------------------------------------------------------------
(* The theorems *)

\* The encoder's and the page's variables keep to their types: no more than
\* MaxQueue + 1 frames wait to be decoded, however fast they come
\* (viewer.js:180-191), and only behind one that is being decoded.
THEOREM TypeCorrect == Spec => []TypeOK
<1>step. TypeOK /\ [Next]_vars => TypeOK'
    BY TypeStep
<1> QED BY <1>step, TypeInit, PTL DEF Spec

\* What is under way to the page adds up to the frame the encoder has in mind, until
\* a region is lost: when one of its strips cannot be encoded, when the page drops
\* its backlog or cannot decode a frame, or when the connection closes
\* (encoder.go:91-96, viewer.js:160-163, 177-180).
THEOREM DiffsMatchPage == Spec => OnlyLossesDiverge
<1>1. TypeOK /\ TypeOK' /\ [Next]_vars => [InStep /\ ~ InStep' => Losses]_vars
    BY StepOrLoss
<1> QED BY <1>1, TypeCorrect, PTL DEF Spec, OnlyLossesDiverge

================================================================================
