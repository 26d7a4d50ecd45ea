-------------------------- MODULE HelpedMachineProofs --------------------------
(***************************************************************************)
(* What the helped person's machine does with the agent's mouse and keys,  *)
(* for displays and pages of any size, any mouse, any turns of the wheel   *)
(* and any number of messages on the way; and that its window stays in     *)
(* sight while it does, if it is not being minimised as that begins.       *)
(***************************************************************************)
EXTENDS InputPath, StatusWindow, TLAPS

(* Positions, in one dimension *)

LEMMA Times ==
    ASSUME NEW a \in Int, NEW b \in Int, NEW w \in Nat, a <= b
    PROVE  a * w <= b * w
OBVIOUS

LEMMA Distributes ==
    ASSUME NEW a \in Int, NEW b \in Int, NEW w \in Int
    PROVE  /\ (a + b) * w = a * w + b * w
           /\ w * (a + b) = w * a + w * b
           /\ a * w = w * a /\ a * w \in Int
OBVIOUS

LEMMA ThereAndBack ==
    ASSUME NEW N \in Nat, NEW D \in 1 .. N - 1, NEW c \in 0 .. D, NEW A \in Int,
           A * D <= c * N, c * N < (A + 1) * D,
           NEW v \in Int, v * (N + 1) <= A * (D + 1), A * (D + 1) < (v + 1) * (N + 1)
    PROVE  c - 1 <= v /\ v <= c
<1> DEFINE X == A * D
           Y == c * N
<1>1. X \in Int /\ A * (D + 1) = X + A /\ (A + 1) * D = X + D /\ Y \in Int
    OBVIOUS
<1>2. A <= N
    <2> SUFFICES ASSUME N + 1 <= A PROVE FALSE
        OBVIOUS
    <2>1. (N + 1) * D <= X
        BY Times
    <2>2. Y <= D * N
        BY Times
    <2>3. (N + 1) * D = D * N + D
        OBVIOUS
    <2> QED BY <2>1, <2>2, <2>3
<1>3. X <= Y /\ Y < X + D
    BY <1>1
<1>4. v <= c
    <2> SUFFICES ASSUME c + 1 <= v PROVE FALSE
        OBVIOUS
    <2>1. (c + 1) * (N + 1) <= v * (N + 1)
        BY Times
    <2>2. (c + 1) * (N + 1) = Y + c + N + 1
        OBVIOUS
    <2>3. Y + c + N + 1 <= X + A
        BY <2>1, <2>2, <1>1
    <2> HIDE DEF X, Y
    <2> QED BY <1>1, <1>2, <1>3, <2>3
<1>5. c - 1 <= v
    <2> SUFFICES ASSUME v + 1 <= c - 1 PROVE FALSE
        OBVIOUS
    <2>1. (v + 1) * (N + 1) <= (c - 1) * (N + 1)
        BY Times
    <2>2. (c - 1) * (N + 1) = Y + c - N - 1
        OBVIOUS
    <2>3. X + A < Y + c - N - 1
        BY <2>1, <2>2, <1>1
    <2>4. A + 1 <= c
        <3> HIDE DEF X, Y
        <3> QED BY <1>1, <1>3, <2>3
    <2>5. X + D <= c * D
        BY <1>1, <2>4, Times
    <2>6. c * D <= Y
        BY Times
    <2> QED BY <1>1, <1>3, <2>5, <2>6
<1> QED BY <1>4, <1>5

LEMMA Quotient ==
    ASSUME NEW a \in Int, NEW b \in Nat \ {0}
    PROVE  a \div b \in Int /\ (a \div b) * b <= a /\ a < (a \div b + 1) * b
<1> DEFINE quot == a \div b
<1>1. quot \in Int /\ 0 <= a % b /\ a % b < b /\ a = b * quot + (a % b)
    OBVIOUS
<1> HIDE DEF quot
<1>2. quot * b = b * quot /\ (quot + 1) * b = b * quot + b
    BY <1>1
<1> QED BY <1>1, <1>2 DEF quot

\* The pixel of S that Windows takes for what scaleToAbsolute makes of c.
Placed(c, S, N) == (((c * N) \div (IF S > 1 THEN S - 1 ELSE 1)) * S) \div (N + 1)

\* It is c, or next to it.
LEMMA PixelIsNear ==
    ASSUME NEW N \in Nat, NEW S \in 1 .. N, NEW n \in 0 .. S,
           NEW c, c = Within(n, 0, S - 1),
           NEW v, v = Placed(c, S, N)
    PROVE  /\ v \in Int
           /\ c = n \/ (c = S - 1 /\ n = S)
           /\ c - 1 <= v /\ v <= c
<1>1. c \in 0 .. S - 1 /\ (c = n \/ (c = S - 1 /\ n = S))
    BY DEF Within
<1>2. CASE S = 1
    <2>1. c = 0
        BY <1>1, <1>2
    <2> DEFINE A == (c * N) \div 1
    <2>2. A \in Int /\ A * 1 <= c * N /\ c * N < (A + 1) * 1
        BY <2>1, Quotient
    <2>3. A = 0 /\ v = (A * S) \div (N + 1)
        BY <1>2, <2>1, <2>2 DEF Placed
    <2> HIDE DEF A
    <2>4. v \in Int /\ v * (N + 1) <= 0 /\ 0 < (v + 1) * (N + 1)
        BY <1>2, <2>3, Quotient
    <2>5. v <= 0
        <3> SUFFICES ASSUME 1 <= v PROVE FALSE
            BY <2>4
        <3>1. 1 * (N + 1) <= v * (N + 1)
            BY <2>4, Times
        <3> QED BY <2>4, <3>1
    <2>6. v >= 0
        <3> SUFFICES ASSUME v + 1 <= 0 PROVE FALSE
            BY <2>4
        <3>1. (v + 1) * (N + 1) <= 0 * (N + 1)
            BY <2>4, Times
        <3> QED BY <2>4, <3>1
    <2> QED BY <1>1, <2>1, <2>4, <2>5, <2>6
<1>3. CASE S > 1
    <2> DEFINE A == (c * N) \div (S - 1)
    <2>a. c * N \in Int /\ S - 1 \in Nat \ {0}
        BY <1>1, <1>3
    <2>1. A \in Int /\ A * (S - 1) <= c * N /\ c * N < (A + 1) * (S - 1)
        BY <2>a, Quotient
    <2>2. v = (A * S) \div (N + 1)
        BY <1>3 DEF Placed
    <2> HIDE DEF A
    <2>3. v \in Int /\ v * (N + 1) <= A * S /\ A * S < (v + 1) * (N + 1)
        <3>1. A * S \in Int /\ N + 1 \in Nat \ {0}
            BY <2>1
        <3> QED BY <2>2, <3>1, Quotient
    <2> DEFINE D == S - 1
    <2>4. D \in 1 .. N - 1 /\ c \in 0 .. D /\ S = D + 1
        BY <1>1, <1>3
    <2> HIDE DEF D
    <2>5. /\ A * D <= c * N /\ c * N < (A + 1) * D
          /\ v * (N + 1) <= A * (D + 1) /\ A * (D + 1) < (v + 1) * (N + 1)
        BY <2>1, <2>3 DEF D
    <2>6. c - 1 <= v /\ v <= c
        BY <2>1, <2>3, <2>4, <2>5, ThereAndBack
    <2> QED BY <1>1, <2>3, <2>6
<1> QED BY <1>2, <1>3

LEMMA AimIsNear ==
    ASSUME NEW S \in Nat \ {0}, NEW F \in Nat \ {0}, NEW h \in 0 .. 1,
           NEW p \in Nat, p < F + h,
           NEW n, n = ((2 * p - h) * S + F) \div (2 * F)
    PROVE  /\ n \in Int /\ n <= S
           /\ \A c, v \in Int :
                 /\ c = n \/ (c = S - 1 /\ n = S)
                 /\ c - 1 <= v /\ v <= c
                 => /\ (v + 2) * (2 * F) >= (2 * p - h) * S
                    /\ (v - 1) * (2 * F) <= (2 * p - h) * S + 2 * S
<1> DEFINE W == 2 * F
           k == 2 * p - h
           L == k * S
           T == W * S
<1>1. /\ W \in Nat \ {0} /\ k \in Int /\ k <= W - 1 /\ F < W /\ W = 2 * F
      /\ n = (L + F) \div W
    OBVIOUS
<1>a. L \in Int /\ T \in Int
    BY <1>1, Distributes
<1>2. L <= T - S
    <2>1. k * S <= (W - 1) * S
        BY <1>1, Times
    <2>2. (W - 1) * S = T - S
        BY <1>1, Distributes
    <2> QED BY <2>1, <2>2
<1> HIDE DEF W, k
<1>3. n \in Int /\ n * W <= L + F /\ L + F < (n + 1) * W
    <2>1. L + F \in Int
        BY <1>1
    <2> HIDE DEF L
    <2> QED BY <1>1, <1>a, <2>1, Quotient
<1>4. n <= S
    <2> SUFFICES ASSUME S + 1 <= n PROVE FALSE
        BY <1>3
    <2>1. (S + 1) * W <= n * W
        BY <1>1, <1>3, Times
    <2>2. (S + 1) * W = T + W
        BY <1>1
    <2>3. T + W <= L + F
        BY <1>1, <1>3, <2>1, <2>2
    <2> HIDE DEF T, L
    <2> QED BY <1>1, <1>a, <1>2, <2>3
<1>5. ASSUME NEW c \in Int, NEW v \in Int,
             c = n \/ (c = S - 1 /\ n = S), c - 1 <= v, v <= c
      PROVE  (v + 2) * W >= L /\ (v - 1) * W <= L + 2 * S
    <2>apart. (c + 1) * W <= (v + 2) * W
        BY <1>1, <1>5, Times
    <2>above. (c + 1) * W >= L
        <3>1. CASE c = n
            <4> HIDE DEF L
            <4> QED BY <1>1, <1>a, <1>3, <3>1
        <3>2. CASE c = S - 1
            <4>1. (c + 1) * W = T
                BY <1>1, <3>2
            <4> HIDE DEF T, L
            <4> QED BY <1>1, <1>a, <1>2, <4>1
        <3> QED BY <1>5, <3>1, <3>2
    <2>below. (v - 1) * W <= (n - 1) * W
        BY <1>1, <1>3, <1>5, Times
    <2>product. (n - 1) * W = n * W - W
        BY <1>1, <1>3
    <2>whole. n * W \in Int /\ (v - 1) * W \in Int /\ (v + 2) * W \in Int /\ (c + 1) * W \in Int
        BY <1>1, <1>3, <1>5
    <2> HIDE DEF L
    <2> QED BY <1>1, <1>a, <1>3, <2>apart, <2>above, <2>below, <2>product, <2>whole
<1> QED BY <1>3, <1>4, <1>5 DEF W, k

--------------------------------------------------------------------------------
(* Numbers, bytes and calls *)

MouseTypes == {"move", "down", "up", "scroll"}

\* What the page sends, and means.
MouseEvents ==
    {e \in [type : MouseTypes, at : [Dim -> Int], point : Points, size : Sizes,
            button : 0 .. 4, delta : [Dim -> Turn]] :
        OnCanvas(e.point, e.size) /\ e.at = getCanvasPos(e.point, e.size)}

KeyEvents == [type : {"key"}, code : Codes, isDown : BOOLEAN]

Event == MouseEvents \cup KeyEvents

\* What is read of a position is modulo 2^16.
Sent(at) == <<at[1] % 65536, at[2] % 65536>>

\* The calls that an event asks for.
Asked(e) ==
    CASE e.type = "key" -> {KeyCall(VK[e.code], ~ e.isDown)}
      [] e.type = "move" -> {Call("move", Sent(e.at))}
      [] e.type \in {"down", "up"} ->
             {Call("move", Sent(e.at)), Call(e.type, <<BtnCode(e.button)>>)}
      [] e.type = "scroll" ->
             {Call("move", Sent(e.at))}
             \cup {Call("wheel", <<n>>) : n \in {n \in Int : Near(n, - e.delta[2])}}
             \cup {Call("hwheel", <<n>>) : n \in {n \in Int : Near(n, e.delta[1])}}
      [] OTHER -> {}

LEMMA ModuloWord ==
    ASSUME NEW n \in Nat, n <= 65535
    PROVE  n % 65536 = n
BY SMT

LEMMA TwoBytes ==
    ASSUME NEW n \in Int
    PROVE  256 * Hi(n) + Lo(n) = n % 65536
<1> DEFINE r == n % 65536
<1>1. r \in Int /\ r % 256 = n % 256
    BY SMT
<1> HIDE DEF r
<1>2. 256 * (r \div 256) + (r % 256) = r
    BY <1>1, SMT
<1>3. Hi(n) = r \div 256 /\ Lo(n) = r % 256
    BY <1>1, SMT DEF Hi, Lo, r
<1> QED BY <1>2, <1>3, SMT DEF r

LEMMA LinesFit ==
    ASSUME NEW delta \in Turn
    PROVE  /\ Int16(Lines(delta) % 65536) = Lines(delta)
           /\ Lines(delta) \in Int
           /\ Near(120 * Lines(delta), delta)
           /\ Near(-120 * Lines(delta), - delta)
<1> DEFINE l == Lines(delta)
<1>1. delta \in Int /\ -1310680 <= delta /\ delta <= 1310680
    <2>1. MaxTurn \in Int /\ - MaxTurn \in Int
        BY SMT DEF MaxTurn
    <2>2. delta \in Int /\ - MaxTurn <= delta /\ delta <= MaxTurn
        BY <2>1, SMT DEF Turn
    <2> QED BY <2>2, SMT DEF MaxTurn
<1>2. l \in Int /\ 80 * l <= 2 * delta + 40 /\ 2 * delta + 40 < 80 * l + 80
    BY <1>1, SMT DEF Lines
<1> HIDE DEF l
<1>3. -32768 <= l /\ l <= 32767
    BY <1>1, <1>2, SMT
<1>4. Int16(l % 65536) = l
    BY <1>2, <1>3, SMT DEF Int16
<1>5. Near(120 * l, delta)
    BY <1>1, <1>2, SMT DEF Near
<1>6. Near(-120 * l, - delta)
    BY <1>1, <1>2, SMT DEF Near
<1> QED BY <1>2, <1>4, <1>5, <1>6, SMT DEF l

LEMMA KeysAreTold ==
    ASSUME NEW code \in DOMAIN VK, NEW isUp \in BOOLEAN
    PROVE  /\ KeysReadAs(KeyCall(VK[code], isUp).data) = TakenFor(code)
           /\ KeyCall(VK[code], isUp).data[3] = isUp
<1> DEFINE data == <<VK[code], IsExtendedVK(VK[code]), isUp>>
<1>data. KeyCall(VK[code], isUp).data = data
    BY DEF KeyCall, Call
<1>parts. data[1] = VK[code] /\ (data[2] <=> IsExtendedVK(VK[code])) /\ data[3] = isUp
    OBVIOUS
<1> HIDE DEF data
<1>taken. ASSUME NEW c \in DOMAIN VK
          PROVE  VK[c] = VK[code] /\ (c \in Extended <=> IsExtendedVK(VK[code]))
                     <=> c \in TakenFor(code)
    BY DEF VK, Extended, IsExtendedVK, TakenFor
<1>known. TakenFor(code) \subseteq DOMAIN VK
    BY DEF VK, TakenFor
<1>read. KeysReadAs(data) = TakenFor(code)
    BY <1>parts, <1>taken, <1>known DEF KeysReadAs
<1> QED BY <1>data, <1>parts, <1>read

LEMMA Extents ==
    ASSUME NEW S \in Extent
    PROVE  S \in Nat \ {0} /\ S <= 65535
BY SMT DEF Extent

\* A canvas that gets events has pixels, and begins at most half a pixel off.
LEMMA CanvasNumbers ==
    ASSUME NEW p \in Points, NEW size \in Sizes, OnCanvas(p, size), NEW d \in Dim,
           NEW F, F = Fitted(size)[d], NEW h, h = Half(size)[d]
    PROVE  /\ F \in Nat \ {0} /\ h \in 0 .. 1 /\ size[d] \in Extent /\ p[d] \in Nat
           /\ p[d] < F + h
           /\ getCanvasPos(p, size)[d] = ((2 * p[d] - h) * size[d] + F) \div (2 * F)
<1>1. size \in [Dim -> Nat \ {0}] /\ p \in [Dim -> Nat] /\ size[d] \in Extent
    <2>1. \A n \in Extent : n \in Nat \ {0}
        BY Extents
    <2> QED BY <2>1, PathAssumption
<1> DEFINE D == IF Viewport[1] * size[2] <= Viewport[2] * size[1] THEN 1 ELSE 2
<1>2. Viewport \in [Dim -> Nat] /\ D \in Dim
    BY PathAssumption DEF Dim
<1>3. F = (size[d] * Viewport[D]) \div size[D] /\ F > 0 /\ p[d] < F + h
    BY DEF Fitted, OnCanvas
<1> HIDE DEF D
<1>4. F \in Nat \ {0}
    <2>1. size[d] * Viewport[D] \in Nat /\ size[D] \in Nat \ {0}
        BY <1>1, <1>2
    <2>2. F \in Int
        BY <1>3, <2>1, Quotient
    <2> QED BY <1>3, <2>2
<1>5. h = (Viewport[d] - F) % 2
    BY DEF Half
<1>6. h \in 0 .. 1
    BY <1>2, <1>4, <1>5
<1>7. getCanvasPos(p, size)[d] = ((2 * p[d] - h) * size[d] + F) \div (2 * F)
    BY DEF getCanvasPos
<1> QED BY <1>1, <1>3, <1>4, <1>6, <1>7

LEMMA CanvasPositions ==
    ASSUME NEW p \in Points, NEW size \in Sizes, OnCanvas(p, size)
    PROVE  getCanvasPos(p, size) \in [Dim -> Int]
<1>1. ASSUME NEW d \in Dim PROVE getCanvasPos(p, size)[d] \in Int
    <2> DEFINE F == Fitted(size)[d]
               h == Half(size)[d]
               num == (2 * p[d] - h) * size[d] + F
    <2>1. /\ F \in Nat \ {0} /\ h \in 0 .. 1 /\ size[d] \in Extent /\ p[d] \in Nat
          /\ getCanvasPos(p, size)[d] = num \div (2 * F)
        BY CanvasNumbers
    <2>2. size[d] \in Int
        BY <2>1, Extents
    <2> HIDE DEF F, h
    <2>3. num \in Int /\ 2 * F \in Nat \ {0}
        BY <2>1, <2>2
    <2> HIDE DEF num
    <2> QED BY <2>1, <2>3, Quotient
<1>2. getCanvasPos(p, size) = [d \in Dim |-> getCanvasPos(p, size)[d]]
    BY DEF getCanvasPos
<1> QED BY <1>1, <1>2

LEMMA Alone ==
    ASSUME NEW S, NEW x \in S
    PROVE  <<x>> \in Seq(S)
OBVIOUS

LEMMA Together ==
    ASSUME NEW S, NEW s \in Seq(S), NEW t \in Seq(S)
    PROVE  s \o t \in Seq(S)
OBVIOUS

LEMMA None ==
    ASSUME NEW S
    PROVE  <<>> \in Seq(S)
OBVIOUS

LEMMA CallsOfMouse ==
    ASSUME NEW e, e.type \in MouseTypes
    PROVE  CallsOf(e) = <<Call("move", e.at)>> \o Acts(e)
BY DEF CallsOf, MouseTypes

\* What is decoded is what was sent, and Inject makes the calls that the event asks
\* for.
LEMMA MovesAreAsked ==
    ASSUME NEW e \in MouseEvents, e.type = "move"
    PROVE  CallsOf(decodeEvent(Bytes(e))) \in Seq(Asked(e))
<1>1. e.at[1] \in Int /\ e.at[2] \in Int
    BY DEF MouseEvents, Dim
<1> DEFINE m == <<2, Hi(e.at[1]), Lo(e.at[1]), Hi(e.at[2]), Lo(e.at[2])>>
<1>2. Bytes(e) = m
    BY DEF Bytes
<1>3. Word(m, 2) = e.at[1] % 65536 /\ Word(m, 4) = e.at[2] % 65536
    BY <1>1, TwoBytes, SMT DEF Word
<1>4. decodeEvent(m) = [type |-> "move", at |-> <<Word(m, 2), Word(m, 4)>>]
    BY DEF decodeEvent
<1>5. decodeEvent(m) = [type |-> "move", at |-> Sent(e.at)]
    BY <1>3, <1>4, SMT DEF Sent
<1> HIDE DEF m
<1>6. CallsOf(decodeEvent(m)) = <<Call("move", Sent(e.at))>> \o <<>>
    <2>1. Acts(decodeEvent(m)) = <<>>
        BY <1>5 DEF Acts
    <2>2. decodeEvent(m).type \in MouseTypes /\ decodeEvent(m).at = Sent(e.at)
        BY <1>5 DEF MouseTypes
    <2> QED BY <2>1, <2>2, CallsOfMouse
<1>7. Call("move", Sent(e.at)) \in Asked(e)
    BY DEF Asked
<1> QED BY <1>2, <1>6, <1>7, Alone, Together, None

LEMMA ButtonsAreAsked ==
    ASSUME NEW e \in MouseEvents, e.type \in {"down", "up"}
    PROVE  /\ CallsOf(decodeEvent(Bytes(e))) \in Seq(Asked(e))
           /\ \E i \in DOMAIN CallsOf(decodeEvent(Bytes(e))) :
                 CallsOf(decodeEvent(Bytes(e)))[i] = Call(e.type, <<BtnCode(e.button)>>)
<1>1. e.at[1] \in Int /\ e.at[2] \in Int
    BY DEF MouseEvents, Dim
<1> DEFINE m == <<IF e.type = "down" THEN 3 ELSE 4,
                  Hi(e.at[1]), Lo(e.at[1]), Hi(e.at[2]), Lo(e.at[2]), BtnCode(e.button)>>
<1>2. Bytes(e) = m
    BY DEF Bytes
<1>3. Word(m, 2) = e.at[1] % 65536 /\ Word(m, 4) = e.at[2] % 65536
    BY <1>1, TwoBytes, SMT DEF Word
<1>a. m[1] = (IF e.type = "down" THEN 3 ELSE 4) /\ m[6] = BtnCode(e.button)
    OBVIOUS
<1> HIDE DEF m
<1>4. decodeEvent(m) = [type |-> e.type, at |-> <<Word(m, 2), Word(m, 4)>>, btn |-> m[6]]
    <2>1. CASE e.type = "down"
        BY <1>a, <2>1 DEF decodeEvent
    <2>2. CASE e.type = "up"
        BY <1>a, <2>2 DEF decodeEvent
    <2> QED BY <2>1, <2>2
<1>5. decodeEvent(m) = [type |-> e.type, at |-> Sent(e.at), btn |-> BtnCode(e.button)]
    BY <1>3, <1>4, <1>a, SMT DEF Sent
<1> DEFINE move == Call("move", Sent(e.at))
           press == Call(e.type, <<BtnCode(e.button)>>)
<1>6. CallsOf(decodeEvent(m)) = <<move>> \o <<press>>
    <2>1. Acts(decodeEvent(m)) = <<press>>
        BY <1>5 DEF Acts
    <2>2. decodeEvent(m).type \in MouseTypes /\ decodeEvent(m).at = Sent(e.at)
        BY <1>5 DEF MouseTypes
    <2> QED BY <2>1, <2>2, CallsOfMouse
<1>7. Asked(e) = {move, press}
    BY DEF Asked
<1> HIDE DEF move, press
<1>8. <<move>> \in Seq({move, press}) /\ <<press>> \in Seq({move, press})
    OBVIOUS
<1>9. /\ CallsOf(decodeEvent(m)) \in Seq({move, press})
      /\ 2 \in DOMAIN CallsOf(decodeEvent(m)) /\ CallsOf(decodeEvent(m))[2] = press
    BY <1>6, <1>8
<1> QED BY <1>2, <1>7, <1>9 DEF press

LEMMA TurnsAreAsked ==
    ASSUME NEW e \in MouseEvents, e.type = "scroll"
    PROVE  CallsOf(decodeEvent(Bytes(e))) \in Seq(Asked(e))
<1>1. /\ e.at[1] \in Int /\ e.at[2] \in Int
      /\ e.delta[1] \in Turn /\ e.delta[2] \in Turn
    BY DEF MouseEvents, Dim
<1> DEFINE l1 == Lines(e.delta[1])
           l2 == Lines(e.delta[2])
           m == <<5, Hi(e.at[1]), Lo(e.at[1]), Hi(e.at[2]), Lo(e.at[2]),
                     Hi(l1), Lo(l1), Hi(l2), Lo(l2)>>
<1>2. Bytes(e) = m
    BY DEF Bytes
<1>a. /\ l1 \in Int /\ Int16(l1 % 65536) = l1 /\ Near(120 * l1, e.delta[1])
      /\ l2 \in Int /\ Int16(l2 % 65536) = l2 /\ Near(-120 * l2, - e.delta[2])
    BY <1>1, LinesFit
<1> HIDE DEF l1, l2
<1>3. /\ Word(m, 2) = e.at[1] % 65536 /\ Word(m, 4) = e.at[2] % 65536
      /\ Word(m, 6) = l1 % 65536 /\ Word(m, 8) = l2 % 65536
    BY <1>1, <1>a, TwoBytes, SMT DEF Word
<1>4. decodeEvent(m) = [type |-> "scroll", at |-> <<Word(m, 2), Word(m, 4)>>,
                        delta |-> <<Int16(Word(m, 6)), Int16(Word(m, 8))>>]
    BY DEF decodeEvent
<1>5. decodeEvent(m) = [type |-> "scroll", at |-> Sent(e.at), delta |-> <<l1, l2>>]
    BY <1>a, <1>3, <1>4, SMT DEF Sent
<1> HIDE DEF m
<1> DEFINE move == Call("move", Sent(e.at))
           wheel == WheelCall("wheel", -120 * l2)
           hwheel == WheelCall("hwheel", 120 * l1)
<1>6. CallsOf(decodeEvent(m)) = <<move>> \o (wheel \o hwheel)
    <2>1. Acts(decodeEvent(m)) = wheel \o hwheel
        BY <1>5 DEF Acts
    <2>2. decodeEvent(m).type \in MouseTypes /\ decodeEvent(m).at = Sent(e.at)
        BY <1>5 DEF MouseTypes
    <2> QED BY <2>1, <2>2, CallsOfMouse
<1>b. -120 * l2 \in Int /\ 120 * l1 \in Int
    BY <1>a
<1>7. Asked(e) = {move}
                 \cup {Call("wheel", <<n>>) : n \in {n \in Int : Near(n, - e.delta[2])}}
                 \cup {Call("hwheel", <<n>>) : n \in {n \in Int : Near(n, e.delta[1])}}
    BY DEF Asked
<1>8. wheel \in Seq(Asked(e))
    <2>1. wheel = <<>> \/ wheel = <<Call("wheel", <<-120 * l2>>)>>
        BY DEF WheelCall
    <2>2. Call("wheel", <<-120 * l2>>) \in Asked(e)
        BY <1>a, <1>b, <1>7
    <2> HIDE DEF wheel
    <2> QED BY <2>1, <2>2, Alone, None
<1>9. hwheel \in Seq(Asked(e))
    <2>1. hwheel = <<>> \/ hwheel = <<Call("hwheel", <<120 * l1>>)>>
        BY DEF WheelCall
    <2>2. Call("hwheel", <<120 * l1>>) \in Asked(e)
        BY <1>a, <1>b, <1>7
    <2> HIDE DEF hwheel
    <2> QED BY <2>1, <2>2, Alone, None
<1>10. <<move>> \in Seq(Asked(e))
    BY <1>7
<1> HIDE DEF move, wheel, hwheel
<1> QED BY <1>2, <1>6, <1>8, <1>9, <1>10, Together

LEMMA KeysAreAsked ==
    ASSUME NEW e \in KeyEvents
    PROVE  CallsOf(decodeEvent(Bytes(e))) \in Seq(Asked(e))
<1>1. e.type = "key" /\ e.code \in DOMAIN VK /\ e.isDown \in BOOLEAN
    BY PathAssumption DEF KeyEvents
<1> DEFINE vk == VK[e.code]
           m == <<IF e.isDown THEN 6 ELSE 7, Hi(vk), Lo(vk)>>
<1>2. Bytes(e) = m
    BY <1>1 DEF Bytes
<1>3. vk \in 0 .. 255
    BY <1>1, SMT DEF VK
<1> HIDE DEF vk
<1>4. Word(m, 2) = vk % 65536
    BY <1>3, TwoBytes, SMT DEF Word
<1>5. vk % 65536 = vk
    BY <1>3, SMT
<1>6. decodeEvent(m) = [type |-> IF e.isDown THEN "keydown" ELSE "keyup", vk |-> Word(m, 2)]
    BY DEF decodeEvent
<1>7. CallsOf(decodeEvent(m)) = <<KeyCall(vk, ~ e.isDown)>>
    BY <1>1, <1>4, <1>5, <1>6, SMT DEF CallsOf
<1>8. KeyCall(vk, ~ e.isDown) \in Asked(e)
    BY <1>1 DEF Asked, vk
<1> QED
    <2> DEFINE call == KeyCall(vk, ~ e.isDown)
    <2> HIDE DEF call
    <2>1. <<call>> \in Seq(Asked(e))
        BY <1>8 DEF call
    <2> QED BY <1>2, <1>7, <2>1 DEF call

LEMMA AskedMeans ==
    ASSUME NEW e \in Event, NEW call \in Asked(e)
    PROVE  /\ call.does = "move" => OfMouse(e) /\ call.data = Sent(e.at)
           /\ call.does \in {"down", "up"}
                 => e.type = call.does /\ call.data[1] = BtnCode(e.button)
           /\ call.does = "key"
                 => e.type = "key" /\ call = KeyCall(VK[e.code], ~ e.isDown)
           /\ call.does = "wheel" => Near(call.data[1], - e.delta[2])
           /\ call.does = "hwheel" => Near(call.data[1], e.delta[1])
<1>1. CASE e \in KeyEvents
    <2>1. e.type = "key"
        BY <1>1 DEF KeyEvents
    <2>2. call = KeyCall(VK[e.code], ~ e.isDown)
        BY <2>1 DEF Asked
    <2>3. call.does = "key"
        BY <2>2 DEF KeyCall, Call
    <2> QED BY <2>1, <2>2, <2>3
<1>2. CASE e \in MouseEvents
    <2>mouse. e.type \in MouseTypes /\ OfMouse(e)
        BY <1>2 DEF MouseEvents, MouseTypes, OfMouse
    <2> DEFINE move == Call("move", Sent(e.at))
               press == Call(e.type, <<BtnCode(e.button)>>)
    <2>move. move.does = "move" /\ move.data = Sent(e.at)
        BY DEF Call
    <2>press. press.does = e.type /\ press.data[1] = BtnCode(e.button)
        BY DEF Call
    <2>moves. CASE e.type = "move"
        <3>1. call = move
            BY <2>moves DEF Asked
        <3> HIDE DEF move
        <3> QED BY <2>mouse, <2>move, <3>1
    <2>presses. CASE e.type \in {"down", "up"}
        <3>1. call \in {move, press}
            BY <2>presses DEF Asked
        <3> HIDE DEF move, press
        <3> QED BY <2>mouse, <2>move, <2>press, <2>presses, <3>1
    <2>scrolls. CASE e.type = "scroll"
        <3>1. \/ call = move
              \/ \E n \in Int : Near(n, - e.delta[2]) /\ call = Call("wheel", <<n>>)
              \/ \E n \in Int : Near(n, e.delta[1]) /\ call = Call("hwheel", <<n>>)
            BY <2>scrolls DEF Asked
        <3>2. CASE call = move
            <4> HIDE DEF move
            <4> QED BY <2>mouse, <2>move, <3>2
        <3>3. ASSUME NEW n \in Int, Near(n, - e.delta[2]), call = Call("wheel", <<n>>)
              PROVE  call.does = "wheel" /\ Near(call.data[1], - e.delta[2])
            BY <3>3 DEF Call
        <3>4. ASSUME NEW n \in Int, Near(n, e.delta[1]), call = Call("hwheel", <<n>>)
              PROVE  call.does = "hwheel" /\ Near(call.data[1], e.delta[1])
            BY <3>4 DEF Call
        <3> QED BY <3>1, <3>2, <3>3, <3>4
    <2> QED BY <2>mouse, <2>moves, <2>presses, <2>scrolls DEF MouseTypes
<1> QED BY <1>1, <1>2 DEF Event

LEMMA CallsAreAsked ==
    ASSUME NEW e \in Event
    PROVE  /\ CallsOf(decodeEvent(Bytes(e))) \in Seq(Asked(e))
           /\ e.type \in {"down", "up"}
                 => \E i \in DOMAIN CallsOf(decodeEvent(Bytes(e))) :
                       CallsOf(decodeEvent(Bytes(e)))[i] = Call(e.type, <<BtnCode(e.button)>>)
<1>1. CASE e \in KeyEvents
    <2>1. e.type = "key"
        BY <1>1 DEF KeyEvents
    <2> QED BY <1>1, <2>1, KeysAreAsked
<1>2. CASE e \in MouseEvents
    <2>1. e.type \in MouseTypes
        BY <1>2 DEF MouseEvents
    <2> QED BY <1>2, <2>1, MovesAreAsked, ButtonsAreAsked, TurnsAreAsked DEF MouseTypes
<1> QED BY <1>1, <1>2 DEF Event

--------------------------------------------------------------------------------
(* The state *)

Message == {[bytes |-> Bytes(e), meant |-> e] : e \in Event}

PathTypeOK ==
    /\ canvas \in Sizes /\ display \in Sizes
    /\ mouse \in Points
    /\ pressed \subseteq Buttons
    /\ pendingMove \in {NoEvent} \cup {e \in MouseEvents : e.type = "move"}
    /\ way \in Seq(Message)
    /\ meant \in {NoEvent} \cup Event
    /\ calls \in Seq(Asked(meant))
    /\ faults \in Nat

\* The event of the mouse is as the page makes it.
LEMMA MouseEventType ==
    ASSUME canvas \in Sizes, NEW type \in MouseTypes, NEW p \in Points, OnCanvas(p, canvas),
           NEW b \in 0 .. 4, NEW delta \in Deltas \cup {NoDelta}
    PROVE  MouseEvent(type, p, b, delta) \in MouseEvents
<1>1. getCanvasPos(p, canvas) \in [Dim -> Int]
    BY CanvasPositions
<1>2. delta \in [Dim -> Turn]
    <2>1. 0 \in Turn
        <3>1. MaxTurn \in Nat
            BY SMT DEF MaxTurn
        <3> QED BY <3>1 DEF Turn
    <2>2. NoDelta \in [Dim -> Turn]
        BY <2>1 DEF NoDelta, Dim
    <2> QED BY <2>2, PathAssumption
<1> DEFINE e == MouseEvent(type, p, b, delta)
<1>3. e \in [type : MouseTypes, at : [Dim -> Int], point : Points, size : Sizes,
            button : 0 .. 4, delta : [Dim -> Turn]]
    BY <1>1, <1>2 DEF MouseEvent
<1>4. e.point = p /\ e.size = canvas /\ e.at = getCanvasPos(p, canvas)
    BY DEF MouseEvent
<1> HIDE DEF e
<1>5. e \in MouseEvents
    BY <1>3, <1>4 DEF MouseEvents
<1> QED BY <1>5 DEF e

LEMMA SendsMessage ==
    ASSUME way \in Seq(Message), NEW e \in Event, Sends(e)
    PROVE  /\ way' \in Seq(Message)
           /\ way' = Append(way, [bytes |-> Bytes(e), meant |-> e])
<1>1. [bytes |-> Bytes(e), meant |-> e] \in Message
    BY DEF Message
<1> QED BY <1>1 DEF Sends

LEMMA HeadMessage ==
    ASSUME way \in Seq(Message), way # <<>>
    PROVE  /\ Head(way).meant \in Event /\ Head(way).bytes = Bytes(Head(way).meant)
           /\ Head(way) = way[1] /\ Tail(way) \in Seq(Message)
<1>1. Head(way) \in Message /\ Head(way) = way[1] /\ Tail(way) \in Seq(Message)
    OBVIOUS
<1> QED BY <1>1 DEF Message

LEMMA PathTypeInit == Init => PathTypeOK
<1> SUFFICES ASSUME Init PROVE PathTypeOK
    OBVIOUS
<1>1. way \in Seq(Message) /\ calls \in Seq(Asked(meant))
    BY None DEF Init
<1> QED BY <1>1 DEF Init, PathTypeOK

LEMMA PathTypeStep ==
    ASSUME PathTypeOK, [Next]_vars
    PROVE  PathTypeOK'
<1> USE DEF PathTypeOK
<1>1. ASSUME NEW p \in Points, MouseMoves(p) PROVE PathTypeOK'
    <2>1. MouseEvent("move", p, 0, NoDelta) \in MouseEvents
        BY <1>1, MouseEventType DEF MouseMoves, MouseTypes
    <2>2. MouseEvent("move", p, 0, NoDelta).type = "move"
        BY DEF MouseEvent
    <2> QED BY <1>1, <2>1, <2>2 DEF MouseMoves, Latest, machineVars
<1>2. CASE flushMove
    <2>1. way' \in Seq(Message)
        BY <1>2, SendsMessage DEF flushMove, Event
    <2> QED BY <1>2, <2>1 DEF flushMove, machineVars
<1>3. ASSUME NEW b \in Buttons, MouseDown(b) PROVE PathTypeOK'
    <2>1. MouseEvent("down", mouse, b, NoDelta) \in Event
        BY <1>3, MouseEventType, PathAssumption DEF MouseDown, MouseTypes, Event
    <2>2. way' \in Seq(Message)
        BY <1>3, <2>1, SendsMessage DEF MouseDown
    <2> QED BY <1>3, <2>2 DEF MouseDown, machineVars
<1>4. ASSUME NEW b \in Buttons, MouseUp(b) PROVE PathTypeOK'
    <2>1. MouseEvent("up", mouse, b, NoDelta) \in Event
        BY <1>4, MouseEventType, PathAssumption DEF MouseUp, MouseTypes, Event
    <2>2. way' \in Seq(Message)
        BY <1>4, <2>1, SendsMessage DEF MouseUp
    <2> QED BY <1>4, <2>2 DEF MouseUp, machineVars
<1>5. ASSUME NEW delta \in Deltas, Wheel(delta) PROVE PathTypeOK'
    <2>1. MouseEvent("scroll", mouse, 0, delta) \in Event
        BY <1>5, MouseEventType DEF Wheel, MouseTypes, Event
    <2>2. way' \in Seq(Message)
        BY <1>5, <2>1, SendsMessage DEF Wheel
    <2> QED BY <1>5, <2>2 DEF Wheel, machineVars
<1>6. ASSUME NEW code \in Codes, NEW isDown \in BOOLEAN, KeyChanges(code, isDown)
      PROVE  PathTypeOK'
    <2>1. [type |-> "key", code |-> code, isDown |-> isDown] \in Event
        BY DEF Event, KeyEvents
    <2>2. way' \in Seq(Message)
        BY <1>6, <2>1, SendsMessage DEF KeyChanges
    <2> QED BY <1>6, <2>2 DEF KeyChanges, pageVars, machineVars
<1>7. CASE CanvasResizes
    BY <1>7 DEF CanvasResizes, machineVars
<1>8. CASE Takes
    <2>1. meant' \in Event /\ way' \in Seq(Message)
        BY <1>8, HeadMessage DEF Takes
    <2>2. calls' = CallsOf(decodeEvent(Bytes(meant')))
        BY <1>8, HeadMessage DEF Takes
    <2>3. calls' \in Seq(Asked(meant'))
        BY <2>1, <2>2, CallsAreAsked
    <2> QED BY <1>8, <2>1, <2>3 DEF Takes, pageVars
<1>9. CASE CallSucceeds
    BY <1>9 DEF CallSucceeds, pageVars
<1>10. CASE CallFails
    BY <1>10, None DEF CallFails, pageVars
<1>11. CASE Disturbs
    BY <1>11 DEF Disturbs, pageVars
<1>12. CASE DisplayChanges
    BY <1>12 DEF DisplayChanges, pageVars
<1>13. CASE UNCHANGED vars
    BY <1>13 DEF vars, pageVars, machineVars
<1> QED
    BY <1>1, <1>2, <1>3, <1>4, <1>5, <1>6, <1>7, <1>8, <1>9, <1>10, <1>11, <1>12, <1>13
    DEF Next, PageStep, MachineStep

--------------------------------------------------------------------------------
(* The cursor *)

\* A cursor that is not astray is where the event that was taken last puts it.
Aimed == ~ astray => OfMouse(meant) /\ cursor = Pixel(Absolute(Sent(meant.at)))

LEMMA AimedStep ==
    ASSUME PathTypeOK, Aimed, [Next]_vars
    PROVE  Aimed'
<1>1. ASSUME UNCHANGED <<meant, display, cursor, astray>> PROVE Aimed'
    BY <1>1 DEF Aimed, Pixel, Absolute
<1>2. ASSUME astray' = TRUE PROVE Aimed'
    BY <1>2 DEF Aimed
<1>3. CASE CallSucceeds
    <2>1. CASE Head(calls).does = "move"
        <3>1. Head(calls) \in Asked(meant) /\ meant # NoEvent
            BY <1>3 DEF CallSucceeds, PathTypeOK, Asked, NoEvent
        <3>2. OfMouse(meant) /\ Head(calls).data = Sent(meant.at)
            BY <2>1, <3>1, AskedMeans DEF PathTypeOK
        <3>3. UNCHANGED <<meant, display>> /\ cursor' = Pixel(Absolute(Sent(meant.at)))
            BY <1>3, <2>1, <3>2 DEF CallSucceeds
        <3> QED BY <3>2, <3>3 DEF Aimed, Pixel, Absolute
    <2>2. CASE Head(calls).does # "move"
        BY <1>1, <1>3, <2>2 DEF CallSucceeds
    <2> QED BY <2>1, <2>2
<1> QED
    BY <1>1, <1>2, <1>3 DEF Next, PageStep, MachineStep, MouseMoves, flushMove, MouseDown,
       MouseUp, Wheel, KeyChanges, CanvasResizes, Takes, CallFails, Disturbs,
       DisplayChanges, vars, pageVars, machineVars

\* The last event of the mouse on the way, or else the last one taken, is where the
\* mouse is, unless an animation frame is still to tell.
Follows ==
    /\ pendingMove # NoEvent => pendingMove.point = mouse
    /\ pendingMove = NoEvent =>
          IF way = <<>>
          THEN OfMouse(meant) => meant.point = mouse
          ELSE OfMouse(way[Len(way)].meant) => way[Len(way)].meant.point = mouse

\* What is taken first of a sequence, and what is left.
LEMMA HeadAndTail ==
    ASSUME NEW S, NEW s \in Seq(S), s # <<>>
    PROVE  /\ Len(s) \in Nat \ {0} /\ Len(Tail(s)) = Len(s) - 1
           /\ Head(s) = s[1] /\ 1 \in DOMAIN s /\ Head(s) \in S /\ Tail(s) \in Seq(S)
           /\ \A i \in DOMAIN s : i = 1 \/ (i - 1 \in DOMAIN Tail(s) /\ Tail(s)[i - 1] = s[i])
           /\ \A i \in DOMAIN Tail(s) : i + 1 \in DOMAIN s /\ Tail(s)[i] = s[i + 1]
           /\ DOMAIN s \subseteq Nat \ {0} /\ DOMAIN Tail(s) \subseteq Nat \ {0}
OBVIOUS

LEMMA FollowsStep ==
    ASSUME PathTypeOK, Follows, [Next]_vars
    PROVE  Follows'
<1> USE DEF Follows
<1>1. ASSUME NEW e \in Event, way' = Append(way, [bytes |-> Bytes(e), meant |-> e]),
             OfMouse(e) => e.point = mouse',
             pendingMove' # NoEvent => pendingMove'.point = mouse'
      PROVE  Follows'
    <2>1. way' # <<>> /\ way'[Len(way')].meant = e
        BY <1>1 DEF PathTypeOK
    <2> QED BY <1>1, <2>1
<1>2. ASSUME NEW p \in Points, MouseMoves(p) PROVE Follows'
    <2>1. MouseEvent("move", p, 0, NoDelta).point = p
        BY DEF MouseEvent
    <2>2. MouseEvent("move", p, 0, NoDelta) # NoEvent
        BY DEF MouseEvent, NoEvent
    <2> QED BY <1>2, <2>1, <2>2 DEF MouseMoves, Latest
<1>3. CASE flushMove
    <2>1. pendingMove \in Event /\ pendingMove.point = mouse
        BY <1>3 DEF flushMove, PathTypeOK, Event
    <2> QED BY <1>1, <1>3, <2>1, SendsMessage DEF flushMove, PathTypeOK
<1>4. ASSUME NEW b \in Buttons, MouseDown(b) PROVE Follows'
    <2> DEFINE e == MouseEvent("down", mouse, b, NoDelta)
    <2>1. e \in Event
        BY <1>4, MouseEventType, PathAssumption
        DEF MouseDown, MouseTypes, Event, PathTypeOK
    <2>2. e.point = mouse /\ Sends(e)
        BY <1>4 DEF MouseEvent, MouseDown
    <2> HIDE DEF e
    <2> QED BY <1>1, <1>4, <2>1, <2>2, SendsMessage DEF MouseDown, PathTypeOK
<1>5. ASSUME NEW b \in Buttons, MouseUp(b) PROVE Follows'
    <2> DEFINE e == MouseEvent("up", mouse, b, NoDelta)
    <2>1. e \in Event
        BY <1>5, MouseEventType, PathAssumption
        DEF MouseUp, MouseTypes, Event, PathTypeOK
    <2>2. e.point = mouse /\ Sends(e)
        BY <1>5 DEF MouseEvent, MouseUp
    <2> HIDE DEF e
    <2> QED BY <1>1, <1>5, <2>1, <2>2, SendsMessage DEF MouseUp, PathTypeOK
<1>6. ASSUME NEW delta \in Deltas, Wheel(delta) PROVE Follows'
    <2> DEFINE e == MouseEvent("scroll", mouse, 0, delta)
    <2>1. e \in Event
        BY <1>6, MouseEventType DEF Wheel, MouseTypes, Event, PathTypeOK
    <2>2. e.point = mouse /\ Sends(e)
        BY <1>6 DEF MouseEvent, Wheel
    <2> HIDE DEF e
    <2> QED BY <1>1, <1>6, <2>1, <2>2, SendsMessage DEF Wheel, PathTypeOK
<1>7. ASSUME NEW code \in Codes, NEW isDown \in BOOLEAN, KeyChanges(code, isDown)
      PROVE  Follows'
    <2> DEFINE e == [type |-> "key", code |-> code, isDown |-> isDown]
    <2>1. e \in Event /\ ~ OfMouse(e)
        BY DEF Event, KeyEvents, OfMouse
    <2>2. Sends(e)
        BY <1>7 DEF KeyChanges
    <2> HIDE DEF e
    <2> QED BY <1>1, <1>7, <2>1, <2>2, SendsMessage DEF KeyChanges, pageVars, PathTypeOK
<1>8. CASE Takes
    <2>1. meant' = way[1].meant /\ way' = Tail(way) /\ UNCHANGED <<mouse, pendingMove>>
        BY <1>8, HeadMessage DEF Takes, pageVars, PathTypeOK
    <2>2. CASE Len(way) = 1
        <3>1. way' = <<>>
            BY <1>8, <2>1, <2>2 DEF Takes, PathTypeOK
        <3>2. way # <<>> /\ way[Len(way)].meant = meant'
            BY <1>8, <2>1, <2>2 DEF Takes
        <3> QED BY <2>1, <3>1, <3>2
    <2>3. CASE Len(way) # 1
        <3>1. way # <<>> /\ way' # <<>> /\ way'[Len(way')] = way[Len(way)]
            <4>1. way # <<>> /\ Len(way) > 1
                <5>1. way # <<>> /\ way \in Seq(Message)
                    BY <1>8 DEF Takes, PathTypeOK
                <5>2. Len(way) \in Nat \ {0}
                    BY <5>1, HeadAndTail
                <5> QED BY <2>3, <5>1, <5>2
            <4>2. Len(way') = Len(way) - 1 /\ way'[Len(way) - 1] = way[Len(way)]
                BY <2>1, <4>1 DEF PathTypeOK
            <4>3. way' # <<>>
                BY <4>1, <4>2 DEF PathTypeOK
            <4> QED BY <4>1, <4>2, <4>3
        <3> QED BY <2>1, <3>1
    <2> QED BY <2>2, <2>3
<1>9. ASSUME UNCHANGED <<mouse, pendingMove, way, meant>> PROVE Follows'
    BY <1>9
<1> QED
    BY <1>2, <1>3, <1>4, <1>5, <1>6, <1>7, <1>8, <1>9
    DEF Next, PageStep, MachineStep, CanvasResizes, CallSucceeds, CallFails, Disturbs,
        DisplayChanges, vars, pageVars, machineVars

--------------------------------------------------------------------------------
(* The buttons *)

\* An event that changes what the machine takes the button b for.
Changes(e, b) == e.type \in {"down", "up"} /\ BtnCode(e.button) = b

Pressing(e, b) == e.type = "down" <=> b \in pressed

NotOnWay(b) == \A i \in DOMAIN way : ~ Changes(way[i].meant, b)

ToCall(b) == \E i \in DOMAIN calls : calls[i].does \in {"down", "up"} /\ calls[i].data[1] = b

\* The last event on the way that changes a button says how it is; if there is none,
\* the call that is still to be made, and otherwise what the machine takes it for.
ButtonFollows(b) ==
    /\ \A i \in DOMAIN way :
          /\ Changes(way[i].meant, b)
          /\ \A j \in DOMAIN way : i < j => ~ Changes(way[j].meant, b)
          => Pressing(way[i].meant, b)
    /\ NotOnWay(b) /\ ToCall(b) => Pressing(meant, b)
    /\ NotOnWay(b) /\ ~ ToCall(b) => (b \in held <=> b \in pressed)

ButtonsFollow == faults = 0 => \A b \in {1, 2} : ButtonFollows(b)

\* A message that is sent changes no button, or the one that the agent changes.
LEMMA SentLast ==
    ASSUME PathTypeOK, NEW b \in {1, 2}, ButtonFollows(b), NEW e \in Event,
           way' = Append(way, [bytes |-> Bytes(e), meant |-> e]),
           UNCHANGED <<meant, calls, held>>,
           Changes(e, b) => (e.type = "down" <=> b \in pressed'),
           ~ Changes(e, b) => (b \in pressed' <=> b \in pressed)
    PROVE  ButtonFollows(b)'
<1>1. /\ Len(way') = Len(way) + 1 /\ way'[Len(way) + 1].meant = e
      /\ \A i \in DOMAIN way : i \in DOMAIN way' /\ way'[i] = way[i]
      /\ \A i \in DOMAIN way' : i \in DOMAIN way \/ i = Len(way) + 1
      /\ Len(way) + 1 \in DOMAIN way' /\ Len(way) \in Nat
      /\ \A i \in DOMAIN way : i \in Nat /\ i < Len(way) + 1
    BY DEF PathTypeOK
<1>2. CASE Changes(e, b)
    <2>1. ~ NotOnWay(b)'
        BY <1>1, <1>2 DEF NotOnWay
    <2>2. ASSUME NEW i \in DOMAIN way', Changes(way'[i].meant, b),
                 \A j \in DOMAIN way' : i < j => ~ Changes(way'[j].meant, b)
          PROVE  way'[i].meant.type = "down" <=> b \in pressed'
        BY <1>1, <1>2, <2>2
    <2> QED BY <2>1, <2>2 DEF ButtonFollows, Pressing
<1>3. CASE ~ Changes(e, b)
    <2>1. NotOnWay(b)' <=> NotOnWay(b)
        BY <1>1, <1>3 DEF NotOnWay
    <2>2. ASSUME NEW i \in DOMAIN way', Changes(way'[i].meant, b),
                 \A j \in DOMAIN way' : i < j => ~ Changes(way'[j].meant, b)
          PROVE  way'[i].meant.type = "down" <=> b \in pressed'
        <3>1. i \in DOMAIN way /\ way'[i] = way[i]
            BY <1>1, <1>3, <2>2
        <3>2. \A j \in DOMAIN way : i < j => ~ Changes(way[j].meant, b)
            BY <1>1, <2>2
        <3> QED BY <1>3, <2>2, <3>1, <3>2 DEF ButtonFollows, Pressing
    <2>3. ToCall(b)' <=> ToCall(b)
        BY DEF ToCall
    <2> QED BY <1>3, <2>1, <2>2, <2>3 DEF ButtonFollows, Pressing
<1> QED BY <1>2, <1>3

LEMMA ButtonFollowsTakes ==
    ASSUME PathTypeOK, NEW b \in {1, 2}, ButtonFollows(b), Takes
    PROVE  ButtonFollows(b)'
<1> DEFINE e == Head(way).meant
<1>1. /\ e \in Event /\ e = way[1].meant /\ way' = Tail(way) /\ meant' = e
      /\ calls' = CallsOf(decodeEvent(Bytes(e))) /\ calls = <<>>
      /\ UNCHANGED <<pressed, held>> /\ way # <<>> /\ way \in Seq(Message)
    BY HeadMessage DEF Takes, PathTypeOK, pageVars
<1> HIDE DEF e
<1>2. /\ 1 \in DOMAIN way
      /\ \A i \in DOMAIN way : i = 1 \/ (i - 1 \in DOMAIN way' /\ way'[i - 1] = way[i])
      /\ \A i \in DOMAIN way' : i + 1 \in DOMAIN way /\ way'[i] = way[i + 1]
      /\ DOMAIN way \subseteq Nat \ {0} /\ DOMAIN way' \subseteq Nat \ {0}
    BY <1>1, HeadAndTail
<1>3. ASSUME NEW i \in DOMAIN way', Changes(way'[i].meant, b),
             \A j \in DOMAIN way' : i < j => ~ Changes(way'[j].meant, b)
      PROVE  way'[i].meant.type = "down" <=> b \in pressed'
    <2>1. i + 1 \in DOMAIN way /\ way'[i] = way[i + 1] /\ i \in Nat \ {0}
        BY <1>2
    <2>2. ASSUME NEW j \in DOMAIN way, i + 1 < j PROVE ~ Changes(way[j].meant, b)
        <3>1. j - 1 \in DOMAIN way' /\ way'[j - 1] = way[j] /\ i < j - 1
            BY <1>2, <2>1, <2>2
        <3> QED BY <1>3, <3>1
    <2> QED BY <1>1, <1>3, <2>1, <2>2 DEF ButtonFollows, Pressing
<1>4. NotOnWay(b)' => \A j \in DOMAIN way : 1 < j => ~ Changes(way[j].meant, b)
    BY <1>2 DEF NotOnWay
<1>5. calls' \in Seq(Asked(e))
    BY <1>1, CallsAreAsked
<1>6. CASE Changes(e, b)
    <2>1. NotOnWay(b)' => Pressing(e, b)
        BY <1>1, <1>2, <1>4, <1>6 DEF ButtonFollows
    <2>2. ToCall(b)'
        <3>1. PICK i \in DOMAIN calls' : calls'[i] = Call(e.type, <<BtnCode(e.button)>>)
            BY <1>1, <1>6, CallsAreAsked DEF Changes
        <3>2. calls'[i].does = e.type /\ calls'[i].data[1] = BtnCode(e.button)
            BY <3>1 DEF Call
        <3> QED BY <1>6, <3>1, <3>2 DEF ToCall, Changes
    <2> QED BY <1>1, <1>3, <2>1, <2>2 DEF ButtonFollows, Pressing
<1>7. CASE ~ Changes(e, b)
    <2>1. ~ ToCall(b)'
        <3> SUFFICES ASSUME NEW i \in DOMAIN calls', calls'[i].does \in {"down", "up"},
                            calls'[i].data[1] = b
                     PROVE  FALSE
            BY DEF ToCall
        <3>1. calls'[i] \in Asked(e)
            BY <1>5
        <3> QED BY <1>1, <1>7, <3>1, AskedMeans DEF Changes
    <2>2. ~ ToCall(b)
        BY <1>1 DEF ToCall
    <2>3. NotOnWay(b)' => NotOnWay(b)
        <3> SUFFICES ASSUME NotOnWay(b)', NEW j \in DOMAIN way PROVE ~ Changes(way[j].meant, b)
            BY DEF NotOnWay
        <3>1. CASE j = 1
            BY <1>1, <1>7, <3>1
        <3>2. CASE j # 1
            BY <1>2, <1>4, <3>2
        <3> QED BY <3>1, <3>2
    <2> QED BY <1>1, <1>3, <2>1, <2>2, <2>3 DEF ButtonFollows, Pressing
<1> QED BY <1>6, <1>7

LEMMA ButtonFollowsCall ==
    ASSUME PathTypeOK, NEW b \in {1, 2}, ButtonFollows(b), CallSucceeds
    PROVE  ButtonFollows(b)'
<1> DEFINE call == Head(calls)
<1>1. /\ calls # <<>> /\ calls' = Tail(calls) /\ calls \in Seq(Asked(meant))
      /\ UNCHANGED <<way, pressed, meant>>
    BY DEF CallSucceeds, PathTypeOK, pageVars
<1>2. /\ call = calls[1] /\ 1 \in DOMAIN calls /\ call \in Asked(meant)
      /\ \A i \in DOMAIN calls : i = 1 \/ (i - 1 \in DOMAIN calls' /\ calls'[i - 1] = calls[i])
      /\ \A i \in DOMAIN calls' : i + 1 \in DOMAIN calls /\ calls'[i] = calls[i + 1]
    BY <1>1, HeadAndTail
<1>3. held' = CASE call.does = "down" -> held \cup {call.data[1]}
                [] call.does = "up"   -> held \ {call.data[1]}
                [] OTHER              -> held
    BY DEF CallSucceeds, Released
<1> HIDE DEF call
<1>4. ToCall(b)' => ToCall(b)
    BY <1>2 DEF ToCall
<1>5. NotOnWay(b)' <=> NotOnWay(b)
    BY <1>1 DEF NotOnWay
<1>6. CASE call.does \in {"down", "up"} /\ call.data[1] = b
    <2>1. ToCall(b)
        BY <1>2, <1>6 DEF ToCall
    <2>2. meant \in Event
        BY <1>2 DEF PathTypeOK, Asked, NoEvent
    <2>3. call.does = meant.type
        BY <1>2, <1>6, <2>2, AskedMeans
    <2>4. b \in held' <=> meant.type = "down"
        BY <1>3, <1>6, <2>3
    <2> QED BY <1>1, <1>5, <2>1, <2>4 DEF ButtonFollows, Pressing
<1>7. CASE ~ (call.does \in {"down", "up"} /\ call.data[1] = b)
    <2>1. b \in held' <=> b \in held
        BY <1>3, <1>7
    <2>2. ToCall(b) => ToCall(b)'
        BY <1>2, <1>7 DEF ToCall
    <2> QED BY <1>1, <1>4, <1>5, <2>1, <2>2 DEF ButtonFollows, Pressing
<1> QED BY <1>6, <1>7

LEMMA ButtonFollowsPage ==
    ASSUME PathTypeOK, NEW b \in {1, 2}, ButtonFollows(b), PageStep
    PROVE  ButtonFollows(b)'
<1>1. ASSUME UNCHANGED <<way, pressed, meant, calls, held>> PROVE ButtonFollows(b)'
    BY <1>1 DEF ButtonFollows, NotOnWay, ToCall, Pressing
<1>2. CASE flushMove
    <2>1. pendingMove \in Event /\ ~ Changes(pendingMove, b)
        BY <1>2 DEF flushMove, PathTypeOK, Event, Changes
    <2>2. way' = Append(way, [bytes |-> Bytes(pendingMove), meant |-> pendingMove])
        BY <1>2 DEF flushMove, Sends
    <2> QED BY <1>2, <2>1, <2>2, SentLast DEF flushMove, machineVars
<1>3. ASSUME NEW a \in Buttons, MouseDown(a) PROVE ButtonFollows(b)'
    <2> DEFINE e == MouseEvent("down", mouse, a, NoDelta)
    <2>event. e \in Event
        BY <1>3, MouseEventType, PathAssumption
        DEF MouseDown, MouseTypes, Event, PathTypeOK
    <2>sent. /\ e.type = "down" /\ e.button = a
             /\ way' = Append(way, [bytes |-> Bytes(e), meant |-> e])
        BY <1>3 DEF MouseEvent, MouseDown, Sends
    <2> HIDE DEF e
    <2>changes. Changes(e, b) <=> a = b
        BY <2>sent, PathAssumption DEF Changes, BtnCode
    <2>pressed. pressed' = pressed \cup {a} /\ UNCHANGED <<meant, calls, held>>
        BY <1>3 DEF MouseDown, machineVars
    <2> QED BY <2>event, <2>sent, <2>changes, <2>pressed, SentLast
<1>4. ASSUME NEW a \in Buttons, MouseUp(a) PROVE ButtonFollows(b)'
    <2> DEFINE e == MouseEvent("up", mouse, a, NoDelta)
    <2>event. e \in Event
        BY <1>4, MouseEventType, PathAssumption
        DEF MouseUp, MouseTypes, Event, PathTypeOK
    <2>sent. /\ e.type = "up" /\ e.button = a
             /\ way' = Append(way, [bytes |-> Bytes(e), meant |-> e])
        BY <1>4 DEF MouseEvent, MouseUp, Sends
    <2> HIDE DEF e
    <2>changes. Changes(e, b) <=> a = b
        BY <2>sent, PathAssumption DEF Changes, BtnCode
    <2>pressed. pressed' = pressed \ {a} /\ UNCHANGED <<meant, calls, held>>
        BY <1>4 DEF MouseUp, machineVars
    <2> QED BY <2>event, <2>sent, <2>changes, <2>pressed, SentLast
<1>5. ASSUME NEW delta \in Deltas, Wheel(delta) PROVE ButtonFollows(b)'
    <2> DEFINE e == MouseEvent("scroll", mouse, 0, delta)
    <2>1. e \in Event
        BY <1>5, MouseEventType DEF Wheel, MouseTypes, Event, PathTypeOK
    <2>2. e.type = "scroll" /\ way' = Append(way, [bytes |-> Bytes(e), meant |-> e])
        BY <1>5 DEF MouseEvent, Wheel, Sends
    <2> HIDE DEF e
    <2> QED BY <1>5, <2>1, <2>2, SentLast DEF Wheel, machineVars, Changes
<1>6. ASSUME NEW code \in Codes, NEW isDown \in BOOLEAN, KeyChanges(code, isDown)
      PROVE  ButtonFollows(b)'
    <2> DEFINE e == [type |-> "key", code |-> code, isDown |-> isDown]
    <2>1. e \in Event /\ e.type = "key"
        BY DEF Event, KeyEvents
    <2>2. way' = Append(way, [bytes |-> Bytes(e), meant |-> e])
        BY <1>6 DEF KeyChanges, Sends
    <2> HIDE DEF e
    <2> QED BY <1>6, <2>1, <2>2, SentLast DEF KeyChanges, pageVars, machineVars, Changes
<1> QED
    BY <1>1, <1>2, <1>3, <1>4, <1>5, <1>6
    DEF PageStep, MouseMoves, CanvasResizes, machineVars

LEMMA ButtonsStep ==
    ASSUME PathTypeOK, ButtonsFollow, [Next]_vars
    PROVE  ButtonsFollow'
<1>1. CASE CallFails
    BY <1>1 DEF CallFails, PathTypeOK, ButtonsFollow
<1>2. ASSUME NEW b \in {1, 2}, faults = 0, ~ CallFails PROVE ButtonFollows(b)'
    <2>1. ButtonFollows(b)
        BY <1>2 DEF ButtonsFollow
    <2>2. CASE UNCHANGED <<way, pressed, meant, calls, held>>
        BY <2>1, <2>2 DEF ButtonFollows, NotOnWay, ToCall, Pressing
    <2> QED
        BY <1>2, <2>1, <2>2, ButtonFollowsTakes, ButtonFollowsCall, ButtonFollowsPage
        DEF Next, MachineStep, Disturbs, DisplayChanges, vars, pageVars, machineVars
<1>3. ~ CallFails => faults' = faults
    BY DEF Next, PageStep, MachineStep, MouseMoves, flushMove, MouseDown, MouseUp, Wheel,
       KeyChanges, CanvasResizes, Takes, CallSucceeds, Disturbs, DisplayChanges, vars,
       machineVars
<1> QED BY <1>1, <1>2, <1>3 DEF ButtonsFollow

--------------------------------------------------------------------------------
(* What is shown *)

\* In each dimension the cursor is put at the pixel of the display that is aimed at, or
\* next to it.
LEMMA AimedShows ==
    ASSUME NEW e \in MouseEvents, display = e.size, ~ BeforeCanvas(e),
           cursor = Pixel(Absolute(Sent(e.at)))
    PROVE  Shows(e.point, e.size, cursor)
<1>1. ASSUME NEW d \in Dim, NEW F, F = Fitted(e.size)[d], NEW h, h = Half(e.size)[d]
      PROVE  /\ (cursor[d] + 2) * (2 * F) >= (2 * e.point[d] - h) * e.size[d]
             /\ (cursor[d] - 1) * (2 * F) <= (2 * e.point[d] - h) * e.size[d] + 2 * e.size[d]
    <2> DEFINE S == e.size[d]
               p == e.point[d]
               n == e.at[d]
               N == 65535
               c == Within(n, 0, S - 1)
               v == Placed(c, S, N)
    <2>1. /\ e.point \in Points /\ e.size \in Sizes /\ OnCanvas(e.point, e.size)
          /\ e.at = getCanvasPos(e.point, e.size) /\ n \in Int /\ n >= 0
        BY <1>1 DEF MouseEvents, BeforeCanvas
    <2>2. /\ F \in Nat \ {0} /\ h \in 0 .. 1 /\ S \in Extent /\ p \in Nat /\ p < F + h
          /\ n = ((2 * p - h) * S + F) \div (2 * F)
        BY <1>1, <2>1, CanvasNumbers
    <2>3. S <= 65535 /\ N = 65535
        BY <2>2, Extents
    <2>4. S \in Nat \ {0}
        BY <2>2, Extents
    <2>5. Sent(e.at)[d] = n % 65536
        BY <1>1, SMT DEF Sent, Dim
    <2> HIDE DEF n, S, p, N
    <2>6. /\ n \in Int /\ n <= S
          /\ \A x, y \in Int :
                /\ x = n \/ (x = S - 1 /\ n = S)
                /\ x - 1 <= y /\ y <= x
                => /\ (y + 2) * (2 * F) >= (2 * p - h) * S
                   /\ (y - 1) * (2 * F) <= (2 * p - h) * S + 2 * S
        BY <2>2, <2>4, AimIsNear
    <2>a. n \in Int /\ n >= 0 /\ n <= S
        BY <2>1, <2>6
    <2>b. S <= N /\ N \in Nat
        <3>1. N \in Nat
            BY SMT DEF N
        <3> QED BY <2>3, <3>1
    <2>7. n \in 0 .. S /\ S \in 1 .. N /\ N \in Nat
        BY <2>4, <2>a, <2>b
    <2>c. n % 65536 = n
        <3>1. n \in Nat /\ n <= 65535
            BY <2>3, <2>4, <2>a, SMT
        <3> QED BY <3>1, ModuloWord
    <2>8. cursor[d] = v
        <3>1. cursor[d] = (Absolute(Sent(e.at))[d] * S) \div 65536
            BY <1>1 DEF Pixel, S
        <3>2. Absolute(Sent(e.at))[d]
                = (Within(Sent(e.at)[d], 0, S - 1) * 65535)
                      \div (IF S > 1 THEN S - 1 ELSE 1)
            BY <1>1 DEF Absolute, S
        <3>3. N = 65535 /\ N + 1 = 65536
            BY SMT DEF N
        <3> QED BY <2>5, <2>c, <3>1, <3>2, <3>3, SMT DEF Placed
    <2>9. /\ v \in Int
          /\ c = n \/ (c = S - 1 /\ n = S)
          /\ c - 1 <= v /\ v <= c
        <3>1. c = Within(n, 0, S - 1)
            OBVIOUS
        <3> HIDE DEF c
        <3>2. v = Placed(c, S, N)
            OBVIOUS
        <3> HIDE DEF v
        <3> QED BY <2>7, <3>1, <3>2, PixelIsNear
    <2>10. c \in Int
        BY <2>4, <2>6 DEF Within
    <2> HIDE DEF c, v
    <2> QED BY <2>6, <2>8, <2>9, <2>10 DEF S, p
<1> QED BY <1>1 DEF Shows

PathInv == PathTypeOK /\ Aimed /\ Follows /\ ButtonsFollow

LEMMA PathInvInit == Init => PathInv
<1> SUFFICES ASSUME Init PROVE PathInv
    OBVIOUS
<1>1. PathTypeOK
    BY PathTypeInit
<1>2. Aimed
    BY DEF Init, Aimed
<1>3. Follows
    BY DEF Init, Follows, OfMouse, NoEvent
<1>4. ButtonsFollow
    BY DEF Init, ButtonsFollow, ButtonFollows, NotOnWay, ToCall
<1> QED BY <1>1, <1>2, <1>3, <1>4 DEF PathInv

LEMMA PathInvStep == PathInv /\ [Next]_vars => PathInv'
BY PathTypeStep, AimedStep, FollowsStep, ButtonsStep DEF PathInv

LEMMA PathInvHolds == Spec => []PathInv
BY PathInvInit, PathInvStep, PTL DEF Spec

LEMMA InvLands == PathInv => LandsWhereAimed
<1> SUFFICES ASSUME PathInv, Lands, ~ BeforeCanvas(meant)
             PROVE  Shows(meant.point, meant.size, cursor)
    BY DEF LandsWhereAimed
<1>1. meant \in MouseEvents
    BY DEF PathInv, PathTypeOK, Lands, OfMouse, NoEvent, Event, KeyEvents
<1> QED BY <1>1, AimedShows DEF PathInv, Aimed, Lands

\* Whatever the sizes of the display and of the room in the page, wherever the mouse is
\* and however often the display changes, the cursor is put at the pixel of the display
\* that the agent points at, or next to it, through the rounding of the page, the two
\* bytes of a coordinate and the 65536 steps of SendInput.
THEOREM AimIsTrue == Spec => []LandsWhereAimed
<1>1. PathInv => LandsWhereAimed
    BY InvLands
<1> QED BY <1>1, PathInvHolds, PTL

\* However the moves of the mouse, the clicks and the animation frames follow each
\* other, once nothing is on the way the cursor is where the mouse was moved last.
THEOREM CursorComesToMouse == Spec => []CursorFollows
<1>1. PathInv => CursorFollows
    <2> SUFFICES ASSUME PathInv, Quiet, Lands, canvas = display, ~ BeforeCanvas(meant)
                 PROVE  Shows(mouse, canvas, cursor)
        BY DEF CursorFollows
    <2>1. meant.point = mouse /\ meant.size = canvas
        BY DEF PathInv, Follows, Quiet, Lands
    <2>2. Shows(meant.point, meant.size, cursor)
        BY InvLands DEF LandsWhereAimed
    <2> QED BY <2>1, <2>2
<1> QED BY <1>1, PathInvHolds, PTL

\* Of every key, every turn of the wheel and any number of presses and releases: a key
\* is told from its twin, a turn is as large as it was meant, and the machine and the
\* agent agree on the buttons when nothing is on the way and nothing has failed.
THEOREM InputArrives == Spec => []ArrivesAsMeant
<1>1. PathInv => ArrivesAsMeant
    <2> SUFFICES ASSUME PathInv PROVE ArrivesAsMeant
        OBVIOUS
    <2>1. ASSUME NEW i \in DOMAIN calls, NEW call, call = calls[i]
          PROVE  /\ call.does = "key"
                       => /\ KeysReadAs(call.data) = TakenFor(meant.code)
                          /\ call.data[3] <=> ~ meant.isDown
                 /\ call.does = "wheel" => Near(call.data[1], - meant.delta[2])
                 /\ call.does = "hwheel" => Near(call.data[1], meant.delta[1])
        <3>1. call \in Asked(meant)
            BY <2>1 DEF PathInv, PathTypeOK
        <3>2. meant \in Event
            BY <3>1 DEF PathInv, PathTypeOK, Asked, NoEvent
        <3>3. meant.type = "key" => meant.code \in DOMAIN VK /\ meant.isDown \in BOOLEAN
            BY <3>2, PathAssumption DEF Event, KeyEvents, MouseEvents, MouseTypes
        <3> QED BY <3>1, <3>2, <3>3, AskedMeans, KeysAreTold
    <2>2. ASSUME way = <<>>, calls = <<>>, faults = 0, NEW b \in {1, 2}
          PROVE  b \in held <=> b \in pressed
        <3>1. NotOnWay(b) /\ ~ ToCall(b)
            BY <2>2 DEF NotOnWay, ToCall
        <3> QED BY <2>2, <3>1 DEF PathInv, ButtonsFollow, ButtonFollows
    <2> QED BY <2>1, <2>2 DEF ArrivesAsMeant
<1> QED BY <1>1, PathInvHolds, PTL

--------------------------------------------------------------------------------
(* The window *)

Phases == {"dialing", "waiting", "approved", "controlled", "sharing", "ending", "over",
           "backoff"}

Contents ==
    [code : Code \cup {"", "------", "NOCONN"}, status : {"", "sharing", "elevated"},
     active : BOOLEAN]

\* The window is there from the prompt on, and knows of control before Run does.
WindowInv ==
    /\ pc \in Phases
    /\ content \in Contents
    /\ pc = "approved" \/ Controlled => HasWindow
    /\ Controlled => content.active

\* No writer but Run itself touches the mark of control.
LEMMA WritesKeepActive ==
    ASSUME content \in Contents, NEW k \in Code \cup {"", "------", "NOCONN"},
           NEW s \in {"", "sharing", "elevated"}, NEW a \in BOOLEAN
    PROVE  /\ [content EXCEPT !.code = k, !.status = ""] \in Contents
           /\ [content EXCEPT !.code = k, !.status = ""].active = content.active
           /\ [content EXCEPT !.code = k] \in Contents
           /\ [content EXCEPT !.code = k].active = content.active
           /\ [content EXCEPT !.status = s] \in Contents
           /\ [content EXCEPT !.status = s].active = content.active
           /\ [content EXCEPT !.active = a] \in Contents
           /\ [content EXCEPT !.active = a].active = a
BY DEF Contents

LEMMA WindowStepInv ==
    ASSUME WindowInv, [WindowNext]_allWindowVars
    PROVE  WindowInv'
<1> USE DEF WindowInv, Phases, Controlled, HasWindow
<1>1. ASSUME NEW k \in Code, Registered(k) PROVE WindowInv'
    BY <1>1, WritesKeepActive DEF Registered, SetCode, Writes, windowVars, threadVars
<1>2. CASE CannotReach
    BY <1>2, WritesKeepActive DEF CannotReach, GoesTo, SetCode, Writes, windowVars, threadVars
<1>3. CASE Approved
    BY <1>3 DEF Approved, Promptable, GoesTo, windowVars
<1>4. CASE GivesUp
    BY <1>4 DEF GivesUp, GoesTo, windowVars
<1>5. CASE ControlBegins
    BY <1>5, WritesKeepActive DEF ControlBegins, GoesTo, SetControlActive, Writes
<1>6. CASE Shares
    BY <1>6, WritesKeepActive DEF Shares, GoesTo, SetStatus, Writes, windowVars
<1>7. CASE StopsSharing
    BY <1>7 DEF StopsSharing, GoesTo, windowVars
<1>8. CASE ControlEnds
    BY <1>8, WritesKeepActive DEF ControlEnds, GoesTo, SetControlActive, Writes
<1>9. CASE Disconnected
    BY <1>9, WritesKeepActive DEF Disconnected, GoesTo, SetCode, Writes, windowVars, threadVars
<1>10. CASE Redials
    BY <1>10 DEF Redials, GoesTo, windowVars
<1>11. CASE ReaderEnds
    <2> DEFINE ended == [content EXCEPT !.code = "------", !.status = ""]
    <2>1. content' \in Contents /\ content'.active = content.active
        <3>1. content' = ended \/ content' = content
            BY <1>11 DEF ReaderEnds, SetCode, Writes
        <3>2. ended \in Contents /\ ended.active = content.active
            BY WritesKeepActive
        <3> HIDE DEF ended
        <3> QED BY <3>1, <3>2
    <2>2. pc' = pc /\ ui' = ui
        BY <1>11 DEF ReaderEnds, SetCode
    <2> HIDE DEF Phases
    <2> QED BY <2>1, <2>2
<1>12. CASE FocusMoves
    BY <1>12 DEF FocusMoves, windowVars, threadVars
<1>13. CASE Looks
    BY <1>13 DEF Looks, windowVars, threadVars
<1>14. CASE Tells
    BY <1>14, WritesKeepActive DEF Tells, SetStatus, Writes, windowVars, threadVars
<1>15. CASE WatchEnds
    BY <1>15 DEF WatchEnds, windowVars, threadVars
<1>16. CASE EntersRun
    BY <1>16, WritesKeepActive DEF EntersRun, windowVars, threadVars
<1>17. CASE Opens
    BY <1>17 DEF Opens, windowVars, threadVars
<1>18. CASE Paints
    BY <1>18 DEF Paints, threadVars
<1>19. CASE AcceptsMinimise
    BY <1>19 DEF AcceptsMinimise, threadVars
<1>20. CASE Minimises
    BY <1>20 DEF Minimises, threadVars
<1>21. CASE Restores
    BY <1>21 DEF Restores, threadVars
<1>22. CASE UNCHANGED allWindowVars
    BY <1>22 DEF allWindowVars, windowVars, threadVars
<1> QED
    BY <1>1, <1>2, <1>3, <1>4, <1>5, <1>6, <1>7, <1>8, <1>9, <1>10, <1>11, <1>12, <1>13,
       <1>14, <1>15, <1>16, <1>17, <1>18, <1>19, <1>20, <1>21, <1>22
    DEF WindowNext, RunStep, WatchStep, WindowStep

LEMMA SightKept ==
    ASSUME WindowInv, [WindowNext]_allWindowVars,
           Controlled', IF Controlled THEN InSight ELSE ~ minimising
    PROVE  InSight'
<1> USE DEF WindowInv, Phases, Controlled, HasWindow, InSight
<1>begins. CASE ControlBegins
    BY <1>begins DEF ControlBegins, GoesTo, SetControlActive
<1>other. CASE ~ ControlBegins
    <2>1. Controlled
        BY <1>other DEF WindowNext, RunStep, WatchStep, WindowStep, Registered, CannotReach,
           Approved, GivesUp, Shares, StopsSharing, ControlEnds, Disconnected, Redials,
           GoesTo, ReaderEnds, FocusMoves, Looks, Tells, WatchEnds, EntersRun, Opens, Paints,
           AcceptsMinimise, Minimises, Restores, threadVars, allWindowVars
    <2> DEFINE Same == UNCHANGED <<ui, topmost, minimised, minimising>>
    <2>run. RunStep => Same
        BY <2>1, <1>other DEF RunStep, Registered, CannotReach, Approved, GivesUp,
           Shares, StopsSharing, ControlEnds, Disconnected, Redials, GoesTo, SetStatus,
           windowVars
    <2>others. ReaderEnds \/ FocusMoves \/ WatchStep => Same
        BY DEF ReaderEnds, FocusMoves, WatchStep, Looks, Tells, WatchEnds,
           SetCode, SetStatus, windowVars
    <2>none. EntersRun \/ Opens \/ AcceptsMinimise \/ Minimises \/ Restores => FALSE
        <3>1. ~ AcceptsMinimise
            BY <2>1, Zenon DEF AcceptsMinimise, MayMinimise
        <3>2. InSight
            BY <2>1
        <3> QED BY <3>1, <3>2 DEF EntersRun, Opens, Minimises, Restores
    <2>paints. Paints => Same
        BY DEF Paints
    <2>idle. CASE UNCHANGED allWindowVars
        BY <2>1, <2>idle DEF allWindowVars, windowVars
    <2> QED
        <3>1. CASE Same
            BY <2>1, <3>1
        <3> QED BY <1>other, <2>run, <2>others, <2>none, <2>paints, <2>idle, <3>1 DEF WindowNext, WindowStep
<1> QED BY <1>begins, <1>other

\* However control begins and ends, and whatever the other goroutines write: unless the
\* window is being minimised as control begins, it is in sight and on top from then on
\* until control ends.
THEOREM ControlIsInSight == WindowSpec => ControlStaysInSight
<1>1. WindowInit => WindowInv
    <2> SUFFICES ASSUME WindowInit PROVE WindowInv
        OBVIOUS
    <2>1. content \in Contents
        BY DEF WindowInit, Contents, Blank
    <2>2. pc \in Phases /\ pc # "approved" /\ ~ Controlled
        BY DEF WindowInit, Phases, Controlled
    <2> QED BY <2>1, <2>2 DEF WindowInv
<1>2. WindowInv /\ [WindowNext]_allWindowVars => WindowInv'
    BY WindowStepInv
<1>3. WindowInv /\ [WindowNext]_allWindowVars
          => [Controlled' /\ (IF Controlled THEN InSight ELSE ~ minimising)
                  => InSight']_allWindowVars
    BY SightKept
<1> QED BY <1>1, <1>2, <1>3, PTL DEF WindowSpec, ControlStaysInSight

================================================================================
