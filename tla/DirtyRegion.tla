------------------------------ MODULE DirtyRegion ------------------------------
(***************************************************************************)
(* How Encode (client/relay/encoder.go) finds what to send of a changed    *)
(* frame: diffBounds scans the rows from the top and keeps a box around    *)
(* the pixels that differ, looking in each row only outside the box it has *)
(* so far; a box that is high enough is cut into strips, which are encoded *)
(* in parallel.                                                            *)
(***************************************************************************)
EXTENDS Integers, FiniteSets

CONSTANTS
    W, H,       \* the size of the frame
    TileRows,   \* webpTileRows
    MaxStrips,  \* the 8 of encoder.go:109
    Procs       \* GOMAXPROCS

ASSUME FrameAssumption ==
    /\ W \in Nat \ {0}
    /\ H \in Nat \ {0}
    /\ TileRows \in Nat \ {0}
    /\ MaxStrips \in Nat \ {0}
    /\ Procs \in Nat \ {0}

Col == 0 .. W - 1
Row == 0 .. H - 1

VARIABLES
    differs,        \* the pixels <<column, row>> in which cur differs from prev
    y,              \* the row to be scanned next
    x0, y0, x1, y1  \* the box so far

scanVars == <<differs, y, x0, y0, x1, y1>>

TypeOK ==
    /\ differs \in SUBSET (Col \X Row)
    /\ y \in 0 .. H
    /\ x0 \in 0 .. W /\ x1 \in -1 .. W - 1
    /\ y0 \in 0 .. H /\ y1 \in -1 .. H - 1

ScanInit ==
    /\ differs \in SUBSET (Col \X Row)
    /\ y = 0
    /\ x0 = W /\ y0 = H
    /\ x1 = -1 /\ y1 = -1

\* diffBounds is called again.
ScanOf(change) ==
    /\ differs' = change
    /\ y' = 0
    /\ x0' = W /\ y0' = H
    /\ x1' = -1 /\ y1' = -1

MoreRows == y < H

Dirty(r) == {x \in Col : <<x, r>> \in differs}

\* The loops over x stop at the first pixel that differs, or at the box.
IsLeftEdge(e, r) ==
    \/ e \in Dirty(r) /\ e < x0 /\ \A x \in Dirty(r) : e <= x
    \/ e = x0 /\ \A x \in Dirty(r) : x0 <= x

\* Slip: the right edge is looked for in the first dirty row only.
IsRightEdgeOnce(e, r) ==
    IF y0 = H THEN e \in Dirty(r) /\ \A x \in Dirty(r) : x <= e ELSE e = x1

IsRightEdge(e, r) ==
    \/ e \in Dirty(r) /\ e > x1 /\ \A x \in Dirty(r) : x <= e
    \/ e = x1 /\ \A x \in Dirty(r) : x <= x1

SkipRow ==
    /\ MoreRows
    /\ Dirty(y) = {}
    /\ y' = y + 1
    /\ UNCHANGED <<differs, x0, y0, x1, y1>>

ScanRow ==
    /\ MoreRows
    /\ Dirty(y) # {}
    /\ y' = y + 1
    /\ y0' = IF y0 = H THEN y ELSE y0
    /\ y1' = y
    /\ x0' \in 0 .. W /\ IsLeftEdge(x0', y)
    /\ x1' \in -1 .. W - 1 /\ IsRightEdge(x1', y)
    /\ UNCHANGED differs

ScanStep == SkipRow \/ ScanRow

--------------------------------------------------------------------------------
(* The strips *)

AtMost(n, bound) == IF n > bound THEN bound ELSE n

Height == y1 - y0 + 1

StripCount ==
    LET high == Height \div TileRows
    IN  AtMost(AtMost(IF high < 1 THEN 1 ELSE high, Procs), MaxStrips)

\* Slip: the division rounds down.
RowsPerDown == Height \div StripCount

RowsPer == (Height + StripCount - 1) \div StripCount

\* The rows of strip i; none if the strips before it have used them up.
StripRows(i) ==
    {r \in Row : y0 + i * RowsPer <= r /\ r < y0 + (i + 1) * RowsPer /\ r <= y1}

--------------------------------------------------------------------------------

\* The box holds every pixel that differs in the rows scanned, and no smaller
\* box does: after the last row it is the dirty region (encoder.go:209-245).
BoxIsExact ==
    IF \A r \in 0 .. y - 1 : Dirty(r) = {}
    THEN x0 = W /\ y0 = H /\ x1 = -1 /\ y1 = -1
    ELSE /\ \A r \in 0 .. y - 1 : \A x \in Dirty(r) :
                x0 <= x /\ x <= x1 /\ y0 <= r /\ r <= y1
         /\ \E r \in 0 .. y - 1 : x0 \in Dirty(r)
         /\ \E r \in 0 .. y - 1 : x1 \in Dirty(r)
         /\ y0 < y /\ Dirty(y0) # {}
         /\ y1 < y /\ Dirty(y1) # {}

\* Each row of the box is in exactly one strip (encoder.go:98-101, 120-129), and
\* a row outside it is in none.
StripsTile ==
    y = H /\ y1 >= 0 =>
        \A r \in Row :
            LET holders == {i \in 0 .. StripCount - 1 : r \in StripRows(i)}
            IN  IF y0 <= r /\ r <= y1
                THEN \E i \in 0 .. StripCount - 1 : holders = {i}
                ELSE holders = {}

================================================================================
