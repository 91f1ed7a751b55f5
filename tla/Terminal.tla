------------------------------ MODULE Terminal ------------------------------
(***************************************************************************)
(* The window's terminal: the engine, the viewport over it that the client *)
(* keeps (rill-host lib.rs and scroll.rs), and the mirror of instances the *)
(* view draws from (TerminalView.m).                                       *)
(*                                                                         *)
(* Output arrives in chunks cut anywhere.  The engine marks damage, the    *)
(* client extracts a view and keeps it until something changes, and a      *)
(* frame rebuilds only the rows of the mirror the view calls damaged.      *)
(*                                                                         *)
(* The ghosts: shown, whether the view kept was drawn; lost, rows whose    *)
(* damage went with a view that was dropped undrawn; split, whether a      *)
(* cause listed at Paired has cut a pair; widened, whether a resize has    *)
(* widened the grid under a saved pending wrap.                            *)
(***************************************************************************)
EXTENDS VtEngine

CONSTANTS
  First,         \* what the first DATA frame may hold: the replay of a leaf
  Chunks,        \* what a later DATA frame may hold
  InsertChunks,  \* the chunks with ICH
  Sizes,         \* the window's sizes, a zero side among them
  Cols, Rows,    \* the size at connect
  MaxHistory,    \* MAX_HISTORY_ROWS, 10000 in the code
  MaxFeeds, MaxHostOps,   \* bounds of a behaviour
  Probes         \* chunks that must look the same after a checkpoint

ASSUME TerminalAssumption ==
  /\ InsertChunks \subseteq Chunks \cup First
  /\ First \cup Chunks \cup Probes \subseteq Seq(0..255)
  /\ Sizes \subseteq Nat \X Nat
  /\ {Cols, Rows} \subseteq Nat \ {0}
  /\ {MaxHistory, MaxFeeds, MaxHostOps} \subseteq Nat

VARIABLES engine, client, mirror, feeds, ops, shown, lost, split, widened

vars == <<engine, client, mirror, feeds, ops, shown, lost, split, widened>>
ghosts == <<shown, lost, split, widened>>

NoView == [none |-> TRUE]
Zero == [none |-> TRUE]   \* an instance calloc left

Init ==
  /\ engine = NewEngine(Cols, Rows)
  /\ client = [history |-> <<>>, offset |-> 0, jumped |-> TRUE, cached |-> NoView,
               modes |-> [set |-> {}, alternate |-> FALSE, visible |-> FALSE]]
  /\ mirror = [cols |-> 0, rows |-> 0, inst |-> <<>>]
  /\ feeds = 0 /\ ops = 0
  /\ shown = FALSE /\ lost = {} /\ split = FALSE /\ widened = FALSE

(***************************************************************************)
(* The viewport                                                            *)
(***************************************************************************)

\* ingest_scrolled: the oldest row goes when the history is full.
IngestScrolled(history, rows) ==
  LET all == history \o rows
  IN  SubSeq(all, SatSub(Len(all), MaxHistory) + 1, Len(all))

\* compose_viewport: the rows that end offset rows above the live tail.
ComposeViewport(history, live, offset) ==
  LET stack == history \o [i \in 1..live.rows |-> live.cells[i - 1]]
      first == Len(stack) - Least(offset, Len(history)) - live.rows
      fit(row) == [c \in 0..live.cols - 1 |->
                     IF c \in DOMAIN row THEN row[c] ELSE PodCell(Blank(Default))]
  IN  IF offset = 0 \/ history = <<>> THEN live
      ELSE [live EXCEPT !.cells = [r \in 0..live.rows - 1 |-> fit(stack[first + r + 1])],
                        !.visible = FALSE, !.full = TRUE,
                        !.d0 = 0, !.d1 = live.rows - 1]

DamagedRows(view) == IF view.full THEN 0..view.rows - 1 ELSE view.d0..view.d1

\* ensure_snapshots, when no view is kept.
TakeSnapshot ==
  LET history == IngestScrolled(client.history, ScrolledOff(engine.s))
      view    == ComposeViewport(history, PodGrid(engine.s), client.offset)
  IN  /\ engine' = [engine EXCEPT !.s = Snapshotted(Drained(@))]
      /\ client' = [client EXCEPT !.history = history, !.jumped = FALSE,
                      !.cached = [view EXCEPT !.full = @ \/ client.jumped]]

EnsureSnapshots ==
  IF client.cached = NoView THEN TakeSnapshot ELSE UNCHANGED <<engine, client>>

\* The kept view is dropped: what it alone knew was damaged is lost.
LostWithView ==
  lost' = IF client.cached # NoView /\ ~shown
          THEN lost \cup DamagedRows(client.cached) ELSE lost

(***************************************************************************)
(* Pairs.  Printing, erasing and deleting smash a pair whole.  ICH shifts  *)
(* one half off the row or lands between the halves, a narrower grid cuts  *)
(* at its edge, and a cluster left open by ESC D, an erase or a scroll is  *)
(* widened over whatever now stands there.                                 *)
(***************************************************************************)

Paired(grid) ==
  \A r \in DOMAIN grid : \A c \in DOMAIN grid[r] :
    /\ grid[r][c].wide = "lead" =>
         c + 1 \in DOMAIN grid[r] /\ grid[r][c + 1].wide = "tail"
    /\ grid[r][c].wide = "tail" =>
         c - 1 \in DOMAIN grid[r] /\ grid[r][c - 1].wide = "lead"

\* Half a flag is open, and its cell holds something else by now.
StaleFlag(s) ==
  /\ s.cluster # NoCluster /\ s.cluster.ri
  /\ LET cell == s.grid[s.cluster.row][s.cluster.col]
     IN  ~IsRI(cell.cp) \/ cell.wide # "no"

AllPaired(s) == Paired(s.grid) /\ (s.savedGrid # NoGrid => Paired(s.savedGrid))

(***************************************************************************)
(* Actions                                                                 *)
(***************************************************************************)

\* Client::pump, one DATA frame.  The replies go out as DATA in turn.
Pump(chunk) ==
  /\ feeds < MaxFeeds
  /\ \E e \in {Feed(engine, chunk)} :
       \E history \in {IngestScrolled(client.history, ScrolledOff(e.s))} :
         /\ engine' = [e EXCEPT !.s = RepliesTaken(Drained(@))]
         /\ client' = [client EXCEPT !.history = history,
                         !.offset = Least(@, Len(history)),
                         !.modes = ModeState(e.s), !.cached = NoView]
         /\ split' = (split \/ (/\ chunk \in InsertChunks \/ StaleFlag(engine.s)
                                /\ ~AllPaired(e.s)))
  /\ feeds' = feeds + 1
  /\ LostWithView /\ shown' = FALSE
  /\ UNCHANGED <<mirror, ops, widened>>

HostOp == ops < MaxHostOps /\ ops' = ops + 1

MoveViewport(offset) ==
  /\ client' = [client EXCEPT !.offset = offset, !.jumped = TRUE, !.cached = NoView]
  /\ LostWithView /\ shown' = FALSE
  /\ UNCHANGED <<engine, mirror, feeds, split, widened>>

\* Client::send_input and paste: typing returns to the live tail.
SendInput == HostOp /\ MoveViewport(0)

\* Client::send_pointer: nothing is sent unless the program asked for it.
SendPointer ==
  /\ HostOp
  /\ client.modes.set \cap {"x10", "button", "any", "sgr"} # {}
  /\ MoveViewport(0)

ScrollLines(delta) ==
  /\ HostOp
  /\ MoveViewport(Greatest(0, Least(client.offset + delta, Len(client.history))))

\* Client::resize.  A side of zero is refused by the engine after the view
\* was dropped.
Resize(cols, rows) ==
  LET s == engine.s
      t == IF cols = 0 \/ rows = 0 THEN s ELSE ResizeScreen(s, cols, rows)
  IN  /\ HostOp
      /\ engine' = [engine EXCEPT !.s = t]
      /\ client' = [client EXCEPT !.jumped = TRUE, !.cached = NoView]
      /\ LostWithView /\ shown' = FALSE
      /\ split' = (split \/ (t.cols < s.cols /\ ~AllPaired(t)))
      /\ widened' = (widened \/ (t.cols > s.cols
                       /\ \E c \in {s.saved, s.alt} : c # NoCursor /\ c.pending))
      /\ UNCHANGED <<mirror, feeds>>

\* cursor_cell, cell_codepoint, live_codepoint: an extract that is not drawn.
Probe ==
  /\ HostOp /\ client.cached = NoView
  /\ TakeSnapshot
  /\ shown' = FALSE
  /\ UNCHANGED <<mirror, feeds, lost, split, widened>>

Instance(cell) ==
  LET inverse == "inverse" \in cell.sgr
  IN  [cp |-> cell.cp, fg |-> IF inverse THEN cell.bg ELSE cell.fg,
       bg |-> IF inverse THEN cell.fg ELSE cell.bg,
       bold |-> "bold" \in cell.sgr, underline |-> "underline" \in cell.sgr]

\* renderFrame: the damaged rows, or every row when the range is empty.
Rebuilt(view) == IF DamagedRows(view) = {} THEN 0..view.rows - 1 ELSE DamagedRows(view)

RenderFrame ==
  /\ ~shown
  /\ EnsureSnapshots
  /\ LET view == client'.cached
         same == mirror.cols = view.cols /\ mirror.rows = view.rows
         inst == [y \in 0..view.rows - 1 |-> [x \in 0..view.cols - 1 |->
                    IF y \in Rebuilt(view) /\ view.cells[y][x].wide # "tail"
                    THEN Instance(view.cells[y][x])
                    ELSE IF same THEN mirror.inst[y][x] ELSE Zero]]
     IN  /\ mirror' = [cols |-> view.cols, rows |-> view.rows, inst |-> inst]
         /\ lost' = lost \ Rebuilt(view)
  /\ shown' = TRUE
  /\ UNCHANGED <<feeds, ops, split, widened>>

Next ==
  \/ \E chunk \in (IF feeds = 0 THEN First ELSE Chunks) : Pump(chunk)
  \/ SendInput
  \/ SendPointer
  \/ \E delta \in {-1, 1} : ScrollLines(delta)
  \/ \E size \in Sizes : Resize(size[1], size[2])
  \/ Probe
  \/ RenderFrame

Spec == Init /\ [][Next]_vars

(***************************************************************************)
(* Properties                                                              *)
(***************************************************************************)

CursorIn(s, c) == c = NoCursor \/ (c.col \in 0..s.cols - 1 /\ c.row \in 0..s.rows - 1)
GridOf(s, grid) ==
  DOMAIN grid = 0..s.rows - 1 /\ \A r \in DOMAIN grid : DOMAIN grid[r] = 0..s.cols - 1

\* Every position the screen keeps indexes its grid, whatever was fed or
\* resized in between: the cursor, both saved cursors, the scroll region and
\* the open cluster (screen.rs indexes cells with them unchecked).  A primary
\* grid is kept, at the current size, exactly while the alternate is shown.
TypeOK ==
  LET s == engine.s
  IN  /\ GridOf(s, s.grid)
      /\ s.inAlt <=> s.savedGrid # NoGrid
      /\ s.inAlt => GridOf(s, s.savedGrid)
      /\ CursorIn(s, [col |-> s.cx, row |-> s.cy])
      /\ CursorIn(s, s.saved) /\ CursorIn(s, s.alt)
      /\ CursorIn(s, s.cluster)
      /\ s.top <= s.bot /\ s.bot < s.rows
      /\ s.off = <<>> /\ s.replies = <<>>
      /\ client.offset <= Len(client.history) /\ Len(client.history) <= MaxHistory

\* What is drawn is what the view shows.  After a frame every cell that is
\* not the tail of a pair has the instance of its cell, although only the
\* damaged rows were rebuilt: no change of the grid, the viewport or the size
\* goes without damage.  The exception the code allows is the rows in lost,
\* whose damage a probe took and a later chunk dropped.
MirrorShows ==
  LET view == client.cached
  IN  shown => \A y \in 0..view.rows - 1 : \A x \in 0..view.cols - 1 :
        y \in lost \/ view.cells[y][x].wide = "tail"
          \/ mirror.inst[y][x] = Instance(view.cells[y][x])

\* Wide characters stay whole: each lead has its tail on its right and each
\* tail its lead, on both grids, through prints, erases, deletes, scrolls and
\* alternate screens (ADR 0035: no orphan tail), until ICH, a narrower window
\* or a stale cluster has cut one.
PairsIntact == split \/ AllPaired(engine.s)

\* A wrap is pending only in the last column (SPEC-VT-SCREEN 2), unless a
\* cursor saved with its wrap outlived a widening of the window.
PendingAtMargin ==
  engine.s.pending => engine.s.cx = LastCol(engine.s) \/ widened

Look(s) == <<s.grid, s.cx, s.cy, s.visible, s.inAlt, s.modes, s.replies, s.off>>

\* A checkpoint is exact (SPEC-VT-CHECKPOINT 2): an engine restored from it,
\* with a new parser, answers any further output as the engine it was taken
\* of: an open cluster, a pending wrap, saved cursors and the saved primary
\* included.
CheckpointExact ==
  CanExport(engine) =>
    LET twin == ImportCheckpoint(NewEngine(Cols, Rows), Checkpoint(engine.s))
    IN  \A chunk \in Probes : Look(Feed(engine, chunk).s) = Look(Feed(twin, chunk).s)

\* The cells a repaint can say: no lone half, flag, or mark in a cell of its own.
Sayable(cell) == ~IsRI(cell.cp) /\ ~IsContinuer(cell.cp) /\ (cell.wide # "no" <=> cell.cp \in Wide)

\* A repaint redraws the screen: fed to a new engine, the bytes of
\* repaint_bytes after a clear give the same cells, cursor and screen, with
\* trailing blanks, tails and repeated pens left out.
RepaintExact ==
  LET s == engine.s
      t == FoldLeft(Apply, NewScreen(s.cols, s.rows), ClearCalls \o RepaintCalls(s))
      sayable == Paired(s.grid) /\ \A r \in DOMAIN s.grid : \A c \in DOMAIN s.grid[r] :
                   Sayable(s.grid[r][c])
  IN  sayable => Look([t EXCEPT !.modes = s.modes]) = Look(s)

\* The alternate screen never touches the primary (SPEC-VT-SCREEN 5 and 8):
\* while it is shown the saved grid only changes size, and leaving it brings
\* that grid back.
AltKeepsPrimary ==
  [][engine.s.inAlt =>
       LET s == engine'.s
           kept == ResizeCells(engine.s.savedGrid, s.cols, s.rows)
       IN  IF s.inAlt THEN s.savedGrid = kept ELSE s.grid = kept]_vars

=============================================================================
