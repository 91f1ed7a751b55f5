------------------------------ MODULE VtEngine ------------------------------
(***************************************************************************)
(* The terminal engine (vt-engine/lib.rs): a parser and a screen, and the  *)
(* operations its owner calls.  An engine is a record e = [p, s].          *)
(***************************************************************************)
EXTENDS VtScreen

NewEngine(cols, rows) == [p |-> NewParser, s |-> NewScreen(cols, rows)]

(***************************************************************************)
(* Feeding.  A byte the parser puts back is stepped once more.             *)
(***************************************************************************)

Took(s, r) == [p |-> r.p, s |-> Apply(s, r.call), again |-> r.again]
FeedOnce(e, b) == Took(e.s, Step(e.p, b))
Engine(e) == [p |-> e.p, s |-> e.s]
PutBack(e, b) == IF e.again THEN Engine(FeedOnce(e, b)) ELSE Engine(e)
FeedByte(e, b) == PutBack(FeedOnce(e, b), b)

Feed(e, bytes) ==
  LET fed[i \in 0..Len(bytes)] == IF i = 0 THEN e ELSE FeedByte(fed[i - 1], bytes[i])
  IN  fed[Len(bytes)]

(***************************************************************************)
(* Resizing crops or pads both grids; it does not reflow.                  *)
(***************************************************************************)

ResizeCells(grid, cols, rows) ==
  [r \in 0..rows - 1 |-> [c \in 0..cols - 1 |->
     IF r \in DOMAIN grid /\ c \in DOMAIN grid[r] THEN grid[r][c] ELSE Blank(Default)]]

\* The alternate screen's saved primary keeps its old size.
ResizePrimaryOnly(s, cols, rows) ==
  [s EXCEPT !.cols = cols, !.rows = rows, !.grid = ResizeCells(@, cols, rows),
            !.cx = Least(@, cols - 1), !.cy = Least(@, rows - 1),
            !.top = 0, !.bot = rows - 1, !.pending = FALSE, !.full = TRUE,
            !.cluster = NoCluster]

ResizeScreen(s, cols, rows) ==
  LET clamp(c) == IF c = NoCursor THEN c
                  ELSE [c EXCEPT !.col = Least(@, cols - 1), !.row = Least(@, rows - 1)]
  IN  [s EXCEPT !.cols = cols, !.rows = rows, !.grid = ResizeCells(@, cols, rows),
                !.savedGrid = IF @ = NoGrid THEN @ ELSE ResizeCells(@, cols, rows),
                !.cx = Least(@, cols - 1), !.cy = Least(@, rows - 1),
                !.top = 0, !.bot = rows - 1, !.pending = FALSE, !.full = TRUE,
                !.saved = clamp(@), !.alt = clamp(@), !.cluster = NoCluster]

(***************************************************************************)
(* Extracting.  snapshot hands out the damage and clears it; replies and   *)
(* scrolled-off rows are drained by the one who takes them.                *)
(***************************************************************************)

PodGrid(s) ==
  [cols |-> s.cols, rows |-> s.rows, cx |-> s.cx, cy |-> s.cy,
   visible |-> s.visible, full |-> s.full, d0 |-> s.d0, d1 |-> s.d1,
   cells |-> [r \in DOMAIN s.grid |-> PodRow(s.grid[r])]]

Snapshotted(s) == [s EXCEPT !.full = FALSE, !.d0 = 1, !.d1 = 0]

ScrolledOff(s) == [i \in DOMAIN s.off |-> PodRow(s.off[i])]
Drained(s) == [s EXCEPT !.off = <<>>]
RepliesTaken(s) == [s EXCEPT !.replies = <<>>]

(***************************************************************************)
(* Checkpoints.  The blob holds these fields in a fixed binary layout      *)
(* under a version and a hash, and decodes to exactly them or is refused.  *)
(* Damage, replies and scrolled-off rows are not in it.                    *)
(***************************************************************************)

\* The open cluster is left out.
CheckpointWithoutCluster(s) ==
  [f \in {"cols", "rows", "cx", "cy", "top", "bot", "pen", "pending", "autowrap",
          "visible", "inAlt", "modes", "truncated", "grid", "savedGrid",
          "saved", "alt", "cluster"} |-> IF f = "cluster" THEN NoCluster ELSE s[f]]

Checkpoint(s) ==
  [f \in {"cols", "rows", "cx", "cy", "top", "bot", "pen", "pending", "autowrap",
          "visible", "inAlt", "modes", "truncated", "grid", "savedGrid",
          "saved", "alt", "cluster"} |-> s[f]]

CanExport(e) == IsIdle(e.p)

ImportCheckpoint(e, blob) ==
  [p |-> NewParser,
   s |-> [f \in DOMAIN e.s |->
            CASE f = "full"              -> TRUE
              [] f \in {"d0", "d1"}      -> 0
              [] f = "replies"           -> <<>>
              [] f \in DOMAIN blob       -> blob[f]
              [] f \in {"off", "dropped"} -> e.s[f]]]

(***************************************************************************)
(* repaint_bytes: the visible grid as output of a program, as the calls    *)
(* the parser makes of it.  Trailing blanks of a row are left out, tails   *)
(* are not printed, and a row starts with the default pen.                 *)
(***************************************************************************)

Sgr(params) == Csi(params, <<>>, FALSE, F.SGR)

EmitColor(fg, color) ==
  CASE color = Default      -> <<>>
    [] color \in 0..7       -> <<Sgr(<<(IF fg THEN 30 ELSE 40) + color>>)>>
    [] color \in 8..15      -> <<Sgr(<<(IF fg THEN 90 ELSE 100) + color - 8>>)>>
    [] color \in 16..255    -> <<Sgr(<<IF fg THEN 38 ELSE 48, 5, color>>)>>
    [] color > 255          -> LET v == color - 256
                               IN  <<Sgr(<<IF fg THEN 38 ELSE 48, 2, v \div 65536,
                                           (v \div 256) % 256, v % 256>>)>>

EmitAttrs(sgr) ==
  FlattenSeq(<<IF "bold" \in sgr THEN <<Sgr(<<1>>)>> ELSE <<>>,
               IF "underline" \in sgr THEN <<Sgr(<<4>>)>> ELSE <<>>,
               IF "inverse" \in sgr THEN <<Sgr(<<7>>)>> ELSE <<>>>>)

\* Both halves of a pair are printed.
EmitBothHalves(cell) == <<PrintCall(cell.cp)>>

EmitCell(cell) == IF cell.wide = "tail" THEN <<>> ELSE <<PrintCall(cell.cp)>>

CellPen(cell) == [fg |-> cell.fg, bg |-> cell.bg, sgr |-> cell.sgr]

RepaintRow(row) ==
  LET ink  == {c \in DOMAIN row : row[c] # Blank(Default)}
      last == IF ink = {} THEN 0 ELSE Max(ink) + 1
      cell(a, i) ==
        LET c   == row[i - 1]
            set == IF CellPen(c) = a.pen THEN <<>>
                   ELSE <<Sgr(<<0>>)>> \o EmitAttrs(c.sgr) \o EmitColor(TRUE, c.fg)
                                       \o EmitColor(FALSE, c.bg)
        IN  [pen |-> CellPen(c), out |-> a.out \o set \o EmitCell(c)]
  IN  FoldLeft(cell, [pen |-> Pen, out |-> <<>>], [i \in 1..last |-> i]).out

RepaintCalls(s) ==
  LET enter == IF s.inAlt THEN <<Csi(<<1049>>, <<63>>, FALSE, F.SM)>> ELSE <<>>
      line(r) == RepaintRow(s.grid[r]) \o
                 (IF r = LastRow(s) THEN <<>> ELSE <<Execute(13), Execute(10), Sgr(<<0>>)>>)
      hide  == IF s.visible THEN <<>> ELSE <<Csi(<<25>>, <<63>>, FALSE, F.RM)>>
  IN  enter \o <<Sgr(<<0>>)>> \o FlattenSeq([i \in 1..s.rows |-> line(i - 1)])
      \o <<Csi(<<s.cy + 1, s.cx + 1>>, <<>>, FALSE, F.CUP)>> \o hide

\* What resync_from_history emits before the repaint: the display cleared.
ClearCalls == <<Csi(<<2>>, <<>>, FALSE, F.ED), Csi(<<>>, <<>>, FALSE, F.CUP)>>

=============================================================================
