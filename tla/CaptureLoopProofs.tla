---------------------------- MODULE CaptureLoopProofs ----------------------------
(***************************************************************************)
(* The safety of the capture loop for any number and order of failures and *)
(* changes of the display, and for frames of any size.                     *)
(***************************************************************************)
EXTENDS CaptureLoop, TLAPS

--------------------------------------------------------------------------------
(* The objects of the capturer *)

\* A set of objects is of the size the capturer takes the display to have, and no
\* capture gets past ensure without one.
Held ==
    /\ NothingLeaks
    /\ initialized => bitmap = size
    /\ pc \in {"ready", "blitted"} => initialized

LEMMA HeldInit == CaptureInit => Held
BY DEF CaptureInit, Held, NothingLeaks

\* Whatever is given back is all there is.
LEMMA ReleaseKeeps ==
    ASSUME Held, Release, pc' \notin {"ready", "blitted"}
    PROVE  Held'
BY DEF Release, TakenBack, Held, NothingLeaks

LEMMA CaptureKeeps == Held /\ CaptureStep => Held'
<1> SUFFICES ASSUME Held, CaptureStep PROVE Held'
    OBVIOUS
<1>1. CASE Begins
    <2>1. CASE SizeKnown
        BY <1>1, <2>1 DEF Begins, SizeKnown, Held, NothingLeaks
    <2>2. CASE ~ SizeKnown
        BY <1>1, <2>2, ReleaseKeeps DEF Begins
    <2> QED BY <2>1, <2>2
<1>2. CASE BlitFails
    BY <1>2, ReleaseKeeps DEF BlitFails, Returns
<1>3. CASE MetricsFail \/ Reuses \/ Blits
    BY <1>3 DEF MetricsFail, Reuses, Blits, fieldVars, Held, NothingLeaks
<1>4. ASSUME NEW ok \in BOOLEAN, Makes(ok) \/ ReadsBack(ok) PROVE Held'
    BY <1>4 DEF Makes, ReadsBack, Returns, fieldVars, Held, NothingLeaks
<1>5. ASSUME NEW made, CannotMake(made) PROVE Held'
    BY <1>5 DEF CannotMake, LeftOver, Returns, fieldVars, Held, NothingLeaks
<1> QED BY <1>1, <1>2, <1>3, <1>4, <1>5 DEF CaptureStep

LEMMA OthersKeep == Held /\ Others => Held'
<1>1. Held /\ DisplayChanges => Held'
    BY DEF DisplayChanges, fieldVars, Held, NothingLeaks
<1>2. Held /\ Close => Held'
    BY ReleaseKeeps DEF Close
<1> QED BY <1>1, <1>2 DEF Others

LEMMA HeldStep == Held /\ [Next]_vars => Held'
<1>1. Held /\ UNCHANGED captureVars => Held'
    BY DEF captureVars, fieldVars, Held, NothingLeaks
<1>2. Held /\ Captures => Held'
    BY CaptureKeeps DEF Captures
<1>3. LoopStep \/ TimePasses => Captures \/ UNCHANGED captureVars
    BY DEF LoopStep, SkipsFrame, IdleRefresh, Rebuilds, EncodeFull, Diffs, Scans,
           EncodeRegion, TimePasses
<1> QED BY <1>1, <1>2, <1>3, OthersKeep DEF Next, vars

\* In a session of any length, whichever calls of Windows fail and however often the
\* display changes, the capturer holds all that Windows has given out and copies into
\* a bitmap of the size it asks for (capture_windows.go:127-148, 160-214, 232-243).
THEOREM CapturerHoldsAll == Spec => []NothingLeaks
<1>1. Init => Held
    BY HeldInit DEF Init
<1>2. Held => NothingLeaks
    BY DEF Held
<1> QED BY <1>1, <1>2, HeldStep, PTL DEF Spec

--------------------------------------------------------------------------------
(* One scan *)

LEMMA TypeInit == ScanInit => TypeOK
BY FrameAssumption DEF ScanInit, TypeOK

LEMMA TypeStep == TypeOK /\ [ScanStep]_scanVars => TypeOK'
<1> SUFFICES ASSUME TypeOK, [ScanStep]_scanVars PROVE TypeOK'
    OBVIOUS
<1> USE FrameAssumption DEF TypeOK
<1>1. CASE SkipRow
    BY <1>1 DEF SkipRow, MoreRows
<1>2. CASE ScanRow
    BY <1>2 DEF ScanRow, MoreRows
<1>3. CASE UNCHANGED scanVars
    BY <1>3 DEF scanVars
<1> QED BY <1>1, <1>2, <1>3 DEF ScanStep

--------------------------------------------------------------------------------

\* Nothing scanned differs; something scanned differs.
Clean == \A r \in 0 .. y - 1 : Dirty(r) = {}

Touched ==
    /\ \A r \in 0 .. y - 1 : \A x \in Dirty(r) :
          x0 <= x /\ x <= x1 /\ y0 <= r /\ r <= y1
    /\ \E r \in 0 .. y - 1 : x0 \in Dirty(r)
    /\ \E r \in 0 .. y - 1 : x1 \in Dirty(r)
    /\ y0 < y /\ Dirty(y0) # {}
    /\ y1 < y /\ Dirty(y1) # {}

LEMMA BoxInit == ScanInit => BoxIsExact
BY FrameAssumption DEF ScanInit, BoxIsExact

\* A clean row changes nothing that the box is about.
LEMMA SkipKeeps == TypeOK /\ BoxIsExact /\ SkipRow => BoxIsExact'
<1> SUFFICES ASSUME TypeOK, BoxIsExact, SkipRow PROVE BoxIsExact'
    OBVIOUS
<1> USE FrameAssumption DEF TypeOK
<1>1. /\ y' = y + 1 /\ Dirty(y) = {}
      /\ UNCHANGED <<differs, x0, y0, x1, y1>>
    BY DEF SkipRow
<1>2. \A r : Dirty(r)' = Dirty(r)
    BY <1>1 DEF Dirty
<1>3. 0 .. y' - 1 = (0 .. y - 1) \cup {y}
    BY <1>1
<1>4. CASE Clean
    <2>1. Clean'
        BY <1>1, <1>2, <1>3, <1>4 DEF Clean
    <2>2. x0 = W /\ y0 = H /\ x1 = -1 /\ y1 = -1
        BY <1>4 DEF Clean, BoxIsExact
    <2> QED BY <1>1, <2>1, <2>2 DEF Clean, BoxIsExact
<1>5. CASE ~ Clean
    <2>touched. Touched
        BY <1>5 DEF Clean, Touched, BoxIsExact
    <2>dirty. ~ Clean'
        BY <1>2, <1>3, <1>5 DEF Clean
    <2>within. \A r \in 0 .. y' - 1 : \A x \in Dirty(r)' :
                   x0' <= x /\ x <= x1' /\ y0' <= r /\ r <= y1'
        BY <1>1, <1>2, <1>3, <2>touched DEF Touched
    <2>edges. /\ \E r \in 0 .. y' - 1 : x0' \in Dirty(r)'
              /\ \E r \in 0 .. y' - 1 : x1' \in Dirty(r)'
        BY <1>1, <1>2, <1>3, <2>touched DEF Touched
    <2>rows. y0' < y' /\ Dirty(y0)' # {} /\ y1' < y' /\ Dirty(y1)' # {}
        BY <1>1, <1>2, <2>touched DEF Touched
    <2> QED BY <2>dirty, <2>within, <2>edges, <2>rows DEF Clean, BoxIsExact
<1> QED BY <1>4, <1>5

\* The new edges bound the row scanned and what the box held before, and are
\* taken from one of the two.
LEMMA ScanKeeps == TypeOK /\ BoxIsExact /\ ScanRow => BoxIsExact'
<1> SUFFICES ASSUME TypeOK, BoxIsExact, ScanRow PROVE BoxIsExact'
    OBVIOUS
<1> USE FrameAssumption DEF TypeOK
<1>1. /\ y < H /\ y' = y + 1 /\ Dirty(y) # {} /\ differs' = differs
      /\ y0' = (IF y0 = H THEN y ELSE y0) /\ y1' = y
      /\ x0' \in 0 .. W /\ IsLeftEdge(x0', y)
      /\ x1' \in -1 .. W - 1 /\ IsRightEdge(x1', y)
    BY DEF ScanRow, MoreRows
<1>2. \A r : Dirty(r)' = Dirty(r)
    BY <1>1 DEF Dirty
<1>3. 0 .. y' - 1 = (0 .. y - 1) \cup {y}
    BY <1>1
<1>4. ~ Clean'
    BY <1>1, <1>2, <1>3 DEF Clean
<1>5. \A x \in Dirty(y) : x \in 0 .. W - 1 /\ x0' <= x /\ x <= x1'
    <2>1. \A x \in Dirty(y) : x \in 0 .. W - 1
        BY DEF Dirty, Col
    <2>2. \A x \in Dirty(y) : x0' <= x
        BY <1>1 DEF IsLeftEdge
    <2>3. \A x \in Dirty(y) : x <= x1'
        BY <1>1 DEF IsRightEdge
    <2> QED BY <2>1, <2>2, <2>3
<1>6. x0' <= x0 /\ x1 <= x1'
    BY <1>1 DEF IsLeftEdge, IsRightEdge
<1>7. CASE Clean
    <2>1. x0 = W /\ y0 = H /\ x1 = -1 /\ y1 = -1
        BY <1>7 DEF Clean, BoxIsExact
    <2>2. x0' \in Dirty(y) /\ x1' \in Dirty(y)
        BY <1>1, <1>5, <2>1 DEF IsLeftEdge, IsRightEdge
    <2>3. y0' = y
        BY <1>1, <2>1
    <2>4. \A r \in 0 .. y' - 1 : \A x \in Dirty(r)' :
              x0' <= x /\ x <= x1' /\ y0' <= r /\ r <= y1'
        BY <1>1, <1>2, <1>3, <1>5, <1>7, <2>3 DEF Clean
    <2> QED BY <1>1, <1>2, <1>3, <1>4, <2>2, <2>3, <2>4 DEF Clean, BoxIsExact
<1>8. CASE ~ Clean
    <2>1. Touched
        BY <1>8 DEF Clean, Touched, BoxIsExact
    <2>2. y0' = y0 /\ y0 < y /\ y1 < y
        BY <1>1, <2>1 DEF Touched
    <2>3. \A r \in 0 .. y - 1 : \A x \in Dirty(r) : x \in 0 .. W - 1
        BY DEF Dirty, Col
    <2>4. \A r \in 0 .. y' - 1 : \A x \in Dirty(r)' :
              x0' <= x /\ x <= x1' /\ y0' <= r /\ r <= y1'
        <3> SUFFICES ASSUME NEW r \in 0 .. y' - 1, NEW x \in Dirty(r)
                     PROVE  x0' <= x /\ x <= x1' /\ y0' <= r /\ r <= y1'
            BY <1>2
        <3>1. CASE r = y
            BY <1>1, <1>5, <2>2, <3>1
        <3>2. CASE r # y
            <4>1. r \in 0 .. y - 1
                BY <1>3, <3>2
            <4>2. x \in 0 .. W - 1
                BY <2>3, <4>1
            <4>3. x0 <= x /\ x <= x1 /\ y0 <= r /\ r <= y1
                BY <2>1, <4>1 DEF Touched
            <4> QED BY <1>1, <1>6, <2>2, <4>1, <4>2, <4>3
        <3> QED BY <3>1, <3>2
    <2>5. /\ \E r \in 0 .. y' - 1 : x0' \in Dirty(r)'
          /\ \E r \in 0 .. y' - 1 : x1' \in Dirty(r)'
        <3>1. x0' = x0 \/ x0' \in Dirty(y)
            BY <1>1 DEF IsLeftEdge
        <3>2. x1' = x1 \/ x1' \in Dirty(y)
            BY <1>1 DEF IsRightEdge
        <3> QED BY <1>2, <1>3, <2>1, <3>1, <3>2 DEF Touched
    <2>6. y0' < y' /\ (Dirty(y0) # {})' /\ y1' < y' /\ (Dirty(y1) # {})'
        <3>1. Dirty(y0) # {}
            BY <2>1 DEF Touched
        <3>2. (Dirty(y0))' = Dirty(y0) /\ (Dirty(y1))' = Dirty(y)
            BY <1>1, <2>2 DEF Dirty
        <3> QED BY <1>1, <2>2, <3>1, <3>2
    <2> QED BY <1>4, <2>4, <2>5, <2>6 DEF Clean, BoxIsExact
<1> QED BY <1>7, <1>8

LEMMA BoxStep == TypeOK /\ BoxIsExact /\ [ScanStep]_scanVars => BoxIsExact'
<1> SUFFICES ASSUME TypeOK, BoxIsExact, [ScanStep]_scanVars PROVE BoxIsExact'
    OBVIOUS
<1>1. CASE UNCHANGED scanVars
    BY <1>1 DEF scanVars, BoxIsExact, Dirty
<1> QED BY SkipKeeps, ScanKeeps, <1>1 DEF ScanStep

--------------------------------------------------------------------------------

\* What integer division guarantees.
LEMMA Division ==
    ASSUME NEW a \in Nat, NEW b \in Nat \ {0}
    PROVE  /\ a \div b \in Nat
           /\ (a \div b) * b <= a
           /\ a < ((a \div b) + 1) * b
<1> DEFINE quot == a \div b
<1>1. quot \in Int /\ 0 <= a % b /\ a % b < b /\ a = b * quot + (a % b)
    OBVIOUS
<1> HIDE DEF quot
<1>2. quot * b = b * quot /\ (quot + 1) * b = b * quot + b
    BY <1>1
<1>3. quot * b <= a /\ a < (quot + 1) * b
    BY <1>1, <1>2
<1>4. quot >= 0
    <2> SUFFICES ASSUME quot <= -1 PROVE FALSE
        BY <1>1
    <2>1. (quot + 1) * b <= 0
        BY <1>1
    <2> QED BY <1>1, <1>3, <2>1
<1> QED BY <1>1, <1>3, <1>4 DEF quot

\* A row lies in one multiple of the strips' height only.
LEMMA OneMultiple ==
    ASSUME NEW p \in Nat \ {0}, NEW d \in Int, NEW i \in Nat, NEW j \in Nat,
           i * p <= d, d < (i + 1) * p, j * p <= d, d < (j + 1) * p
    PROVE  i = j
<1>1. CASE i < j
    <2>1. (i + 1) * p <= j * p
        BY <1>1
    <2> QED BY <2>1
<1>2. CASE j < i
    <2>1. (j + 1) * p <= i * p
        BY <1>2
    <2> QED BY <2>1
<1> QED BY <1>1, <1>2

\* There is a strip, and the strips together are as high as the box.
LEMMA StripsReach ==
    ASSUME TypeOK, y0 <= y1
    PROVE  /\ StripCount \in Nat \ {0}
           /\ RowsPer \in Nat \ {0}
           /\ Height <= StripCount * RowsPer
<1> USE FrameAssumption DEF TypeOK
<1>1. Height \in Nat \ {0}
    BY DEF Height
<1>2. StripCount \in Nat \ {0}
    <2> DEFINE high == Height \div TileRows
    <2>1. high \in Nat
        BY <1>1, Division
    <2> HIDE DEF high
    <2>2. StripCount = AtMost(AtMost(IF high < 1 THEN 1 ELSE high, Procs), MaxStrips)
        BY DEF StripCount, high
    <2> QED BY <2>1, <2>2 DEF AtMost
<1> DEFINE a == Height + StripCount - 1
<1>3. a \in Nat /\ RowsPer = a \div StripCount
    BY <1>1, <1>2 DEF RowsPer
<1>4. a = Height + StripCount - 1
    OBVIOUS
<1> HIDE DEF a
<1>5. RowsPer \in Nat /\ a < (RowsPer + 1) * StripCount
    BY <1>2, <1>3, Division
<1>6. (RowsPer + 1) * StripCount = StripCount * RowsPer + StripCount
    BY <1>2, <1>5
<1>7. Height <= StripCount * RowsPer
    <2> DEFINE n == StripCount
               h == Height
               m == StripCount * RowsPer
    <2>1. n \in Nat /\ h \in Nat /\ m \in Int /\ h + n - 1 < m + n
        BY <1>1, <1>2, <1>4, <1>5, <1>6
    <2> HIDE DEF n, h, m
    <2>2. h <= m
        BY <2>1
    <2> QED BY <2>2 DEF h, m
<1>8. RowsPer # 0
    <2> SUFFICES ASSUME RowsPer = 0 PROVE FALSE
        OBVIOUS
    <2>1. StripCount * RowsPer = 0
        BY <1>2
    <2> QED BY <1>1, <1>7, <2>1
<1> QED BY <1>2, <1>5, <1>7, <1>8

\* A row of the box is in the strip its distance from the top selects.
LEMMA RowHasStrip ==
    ASSUME TypeOK, y0 <= y1, NEW r \in Row, y0 <= r, r <= y1
    PROVE  \E i \in 0 .. StripCount - 1 :
              {j \in 0 .. StripCount - 1 : r \in StripRows(j)} = {i}
<1> USE FrameAssumption DEF TypeOK
<1>1. /\ StripCount \in Nat \ {0} /\ RowsPer \in Nat \ {0}
      /\ Height <= StripCount * RowsPer
    BY StripsReach
<1> DEFINE d == r - y0
           n == StripCount
           p == RowsPer
           i == d \div p
<1>2. d \in Nat /\ d < Height
    BY DEF Height, Row
<1>3. i \in Nat /\ i * p <= d /\ d < (i + 1) * p
    BY <1>1, <1>2, Division
<1>4. \A j \in Nat : r \in StripRows(j) <=> j * p <= d /\ d < (j + 1) * p
    <2> SUFFICES ASSUME NEW j \in Nat
                 PROVE  r \in StripRows(j) <=> j * p <= d /\ d < (j + 1) * p
        OBVIOUS
    <2>1. j * p \in Int /\ (j + 1) * p \in Int
        BY <1>1
    <2>2. r \in StripRows(j) <=> y0 + j * p <= r /\ r < y0 + (j + 1) * p
        BY DEF StripRows
    <2>3. \A u, v \in Int :
              y0 + u <= r /\ r < y0 + v <=> u <= d /\ d < v
        BY DEF Row
    <2> QED BY <2>1, <2>2, <2>3
<1>5. d < n * p
    <2>1. n * p \in Int /\ Height \in Int
        BY <1>1 DEF Height
    <2> QED BY <1>1, <1>2, <2>1
<1> HIDE DEF d, n, p, i
<1>6. n \in Nat \ {0} /\ p \in Nat \ {0}
    BY <1>1 DEF n, p
<1>7. i < n
    <2> SUFFICES ASSUME n <= i PROVE FALSE
        BY <1>3, <1>6
    <2>1. n * p <= i * p
        BY <1>3, <1>6
    <2>2. i * p \in Int /\ n * p \in Int
        BY <1>3, <1>6
    <2> QED BY <1>2, <1>3, <1>5, <2>1, <2>2
<1>8. \A j \in Nat : j * p <= d /\ d < (j + 1) * p => j = i
    BY <1>2, <1>3, <1>6, OneMultiple
<1>9. {j \in 0 .. n - 1 : r \in StripRows(j)} = {i}
    <2>1. \A j \in Nat : r \in StripRows(j) <=> j = i
        BY <1>3, <1>4, <1>8
    <2>2. i \in 0 .. n - 1 /\ \A j \in 0 .. n - 1 : j \in Nat
        BY <1>3, <1>6, <1>7
    <2> QED BY <2>1, <2>2
<1> QED BY <1>3, <1>6, <1>7, <1>9 DEF n

LEMMA BoxTiled == TypeOK /\ BoxIsExact => StripsTile
<1> SUFFICES ASSUME TypeOK, BoxIsExact, y1 >= 0, NEW r \in Row
             PROVE  LET holders == {i \in 0 .. StripCount - 1 : r \in StripRows(i)}
                    IN  IF y0 <= r /\ r <= y1
                        THEN \E i \in 0 .. StripCount - 1 : holders = {i}
                        ELSE holders = {}
    BY DEF StripsTile
<1>1. y0 <= y1
    BY FrameAssumption DEF TypeOK, BoxIsExact
<1>2. CASE y0 <= r /\ r <= y1
    BY <1>1, <1>2, RowHasStrip
<1>3. CASE ~ (y0 <= r /\ r <= y1)
    <2>1. \A i \in Nat : i * RowsPer \in Nat
        BY <1>1, StripsReach
    <2>2. \A i \in 0 .. StripCount - 1 : i \in Nat
        BY <1>1, StripsReach
    <2>3. \A i \in 0 .. StripCount - 1 : r \notin StripRows(i)
        BY <1>3, <2>1, <2>2 DEF StripRows, TypeOK, Row
    <2> QED BY <1>3, <2>3
<1> QED BY <1>2, <1>3

--------------------------------------------------------------------------------
(* The scans, tick after tick *)

Scanned == TypeOK /\ BoxIsExact

\* A step of the loop is one of the scan, starts another, or leaves it alone.
LEMMA ScanIsPart ==
    [Next]_vars =>
        \/ [ScanStep]_scanVars
        \/ \E change \in SUBSET (Col \X Row) : ScanOf(change)
<1>1. Captures \/ SkipsFrame \/ IdleRefresh \/ Rebuilds \/ EncodeFull \/ TimePasses
          \/ Others
      => UNCHANGED scanVars
    BY DEF Captures, SkipsFrame, IdleRefresh, Rebuilds, EncodeFull, TimePasses, Others
<1>2. Diffs \/ EncodeRegion => \E change \in SUBSET (Col \X Row) : ScanOf(change)
    BY DEF Diffs, EncodeRegion
<1> QED BY <1>1, <1>2 DEF Next, LoopStep, Scans, vars

LEMMA ScanStarts ==
    ASSUME NEW change \in SUBSET (Col \X Row), ScanOf(change)
    PROVE  Scanned'
BY FrameAssumption DEF ScanOf, Scanned, TypeOK, BoxIsExact

LEMMA ScannedStep == Scanned /\ [Next]_vars => Scanned'
<1>1. Scanned /\ [ScanStep]_scanVars => Scanned'
    BY TypeStep, BoxStep DEF Scanned
<1> QED BY <1>1, ScanIsPart, ScanStarts

LEMMA ScannedHolds == Spec => []Scanned
<1>1. Init => Scanned
    BY TypeInit, BoxInit DEF Init, Scanned
<1> QED BY <1>1, ScannedStep, PTL DEF Spec

\* Every frame's changes, whatever they are, are within the smallest box around them
\* (encoder.go:209-245).
THEOREM RegionsAreExact == Spec => []BoxIsExact
<1>1. Scanned => BoxIsExact
    BY DEF Scanned
<1> QED BY <1>1, ScannedHolds, PTL

\* The strips of every region cover each row of it once (encoder.go:98-129).
THEOREM RegionsAreTiled == Spec => []StripsTile
<1>1. Scanned => StripsTile
    BY BoxTiled DEF Scanned
<1> QED BY <1>1, ScannedHolds, PTL

================================================================================
