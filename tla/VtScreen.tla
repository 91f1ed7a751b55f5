------------------------------ MODULE VtScreen ------------------------------
(***************************************************************************)
(* The grid of the terminal engine (vt-engine/screen.rs): the calls the    *)
(* parser of module VtParser yields, applied to a screen.                  *)
(*                                                                         *)
(* A screen is a record s.  s.grid[r][c] is the cell of row r, column c,   *)
(* both from 0.  s.full, s.d0 and s.d1 are the damage, s.off the rows that *)
(* left the primary grid since the last drain.  Each operator returns the  *)
(* screen its method leaves.                                               *)
(***************************************************************************)
EXTENDS VtParser, FiniteSetsExt, SequencesExt

CONSTANTS
  GraphemeMax,   \* RILL_GRAPHEME_MAX, 32 in the code
  ReplyCap,      \* REPLY_CAP in bytes, 1024 in the code
  Wide,          \* the scalars of WIDE_RANGES in use
  Mark,          \* the scalars of MARK_RANGES in use
  Palette        \* [ansi |-> sixteen RGB values from 0, fg, bg], set at connect

ASSUME ScreenBoundsAssumption == {GraphemeMax, ReplyCap} \subseteq Nat

Least(a, b) == IF a < b THEN a ELSE b
Greatest(a, b) == IF a > b THEN a ELSE b
SatSub(a, b) == Greatest(a - b, 0)   \* saturating_sub

(***************************************************************************)
(* Colours.  Color::Default is -1, Indexed(n) is n, Rgb comes after 255.   *)
(***************************************************************************)

Default == -1
PackRgb(r, g, b) == r * 65536 + g * 256 + b
Rgb(r, g, b) == 256 + PackRgb(Least(r, 255), Least(g, 255), Least(b, 255))

Cube(level) == IF level = 0 THEN 0 ELSE 55 + 40 * level

Indexed(n) ==
  CASE n \in 0..15    -> Palette.ansi[n]
    [] n \in 16..231  -> LET i == n - 16
                         IN  PackRgb(Cube(i \div 36), Cube((i % 36) \div 6), Cube(i % 6))
    [] n \in 232..255 -> LET v == 8 + 10 * (n - 232) IN PackRgb(v, v, v)

Resolve(color, default) ==
  CASE color = Default   -> default
    [] color \in 0..255  -> Indexed(color)
    [] color > 255       -> color - 256

(***************************************************************************)
(* Cells and screens                                                       *)
(***************************************************************************)

Space == 32
ZWJ == 8205
Pen == [fg |-> Default, bg |-> Default, sgr |-> {}]
Blank(bg) == [cp |-> Space, fg |-> Default, bg |-> bg, sgr |-> {}, wide |-> "no"]
Row(cols, cell) == [c \in 0..cols - 1 |-> cell]
BlankGrid(cols, rows, bg) == [r \in 0..rows - 1 |-> Row(cols, Blank(bg))]

NoCursor == [none |-> TRUE]    \* saved_cursor, alt_cursor
NoGrid == <<>>                 \* saved_grid
NoCluster == [none |-> TRUE]   \* open_cluster

NewScreen(cols, rows) ==
  [cols |-> cols, rows |-> rows, grid |-> BlankGrid(cols, rows, Default),
   cx |-> 0, cy |-> 0, visible |-> TRUE, pending |-> FALSE, autowrap |-> TRUE,
   full |-> TRUE, d0 |-> 0, d1 |-> 0, top |-> 0, bot |-> rows - 1,
   pen |-> Pen, saved |-> NoCursor, alt |-> NoCursor, savedGrid |-> NoGrid,
   inAlt |-> FALSE, replies |-> <<>>, dropped |-> 0,
   cluster |-> NoCluster, truncated |-> 0, modes |-> {}, off |-> <<>>]

LastCol(s) == s.cols - 1
LastRow(s) == s.rows - 1
ModeState(s) == [set |-> s.modes, alternate |-> s.inAlt, visible |-> s.visible]

PodCell(c) == [c EXCEPT !.fg = Resolve(c.fg, Palette.fg), !.bg = Resolve(c.bg, Palette.bg)]
PodRow(row) == [c \in DOMAIN row |-> PodCell(row[c])]

(***************************************************************************)
(* Damage.  The rows touched are kept as one range.                        *)
(***************************************************************************)

\* The range is replaced instead of extended.
DirtyForgets(s, a, b) ==
  IF s.full THEN s ELSE [s EXCEPT !.d0 = a, !.d1 = b]

Dirty(s, a, b) ==
  IF s.full THEN s
  ELSE IF s.d0 > s.d1 THEN [s EXCEPT !.d0 = a, !.d1 = b]
  ELSE [s EXCEPT !.d0 = Least(@, a), !.d1 = Greatest(@, b)]

FullDamage(s) == [s EXCEPT !.full = TRUE]

(***************************************************************************)
(* Scrolling.  ScrollUp(s, n) is n calls of scroll_up.  Only the rows the  *)
(* primary screen loses at row 0 are reported.                             *)
(***************************************************************************)

ScrollUp(s, n) ==
  LET row(r) == IF r <= s.bot THEN s.grid[r] ELSE Row(s.cols, Blank(s.pen.bg))
      lost   == [k \in 1..n |-> row(s.top + k - 1)]
  IN  FullDamage([s EXCEPT
        !.grid = [r \in DOMAIN @ |-> IF r \in s.top..s.bot THEN row(r + n) ELSE @[r]],
        !.off  = IF ~s.inAlt /\ s.top = 0 THEN @ \o lost ELSE @])

ScrollDown(s, n) ==
  LET row(r) == IF r >= s.top THEN s.grid[r] ELSE Row(s.cols, Blank(s.pen.bg))
  IN  FullDamage([s EXCEPT
        !.grid = [r \in DOMAIN @ |-> IF r \in s.top..s.bot THEN row(r - n) ELSE @[r]]])

Index(s) == IF s.cy < s.bot THEN [s EXCEPT !.cy = @ + 1] ELSE ScrollUp(s, 1)
ReverseIndex(s) == IF s.cy > s.top THEN [s EXCEPT !.cy = @ - 1] ELSE ScrollDown(s, 1)

(***************************************************************************)
(* The cursor                                                              *)
(***************************************************************************)

ClearWrap(s) == [s EXCEPT !.pending = FALSE]
CloseCluster(s) == [s EXCEPT !.cluster = NoCluster]

\* A pending wrap survives the move.
SetCursorKeepsWrap(s, row, col) ==
  CloseCluster([s EXCEPT !.cy = Least(row, LastRow(s)), !.cx = Least(col, LastCol(s))])

SetCursor(s, row, col) ==
  CloseCluster(ClearWrap([s EXCEPT !.cy = Least(row, LastRow(s)),
                                   !.cx = Least(col, LastCol(s))]))

CaptureCursor(s) == [col |-> s.cx, row |-> s.cy, pending |-> s.pending, pen |-> s.pen]

RestoreCursor(s, c) ==
  [s EXCEPT !.cx = Least(c.col, LastCol(s)), !.cy = Least(c.row, LastRow(s)),
            !.pending = c.pending, !.pen = c.pen]

(***************************************************************************)
(* The alternate screen                                                    *)
(***************************************************************************)

\* The primary is saved again when the alternate screen is entered twice.
EnterAltTwice(s, save) ==
  FullDamage(SetCursor(
    [s EXCEPT !.savedGrid = s.grid,
              !.alt = IF save THEN CaptureCursor(s) ELSE NoCursor,
              !.grid = BlankGrid(s.cols, s.rows, s.pen.bg),
              !.inAlt = TRUE], 0, 0))

EnterAlt(s, save) ==
  FullDamage(SetCursor(
    [s EXCEPT !.savedGrid = IF s.inAlt THEN @ ELSE s.grid,
              !.alt = IF s.inAlt THEN @
                      ELSE IF save THEN CaptureCursor(s) ELSE NoCursor,
              !.grid = BlankGrid(s.cols, s.rows, s.pen.bg),
              !.inAlt = TRUE], 0, 0))

LeaveAlt(s, restore) ==
  LET primary == FullDamage([s EXCEPT !.grid = s.savedGrid, !.savedGrid = NoGrid,
                                      !.alt = NoCursor, !.inAlt = FALSE])
  IN  IF ~s.inAlt THEN s
      ELSE IF restore /\ s.alt # NoCursor THEN RestoreCursor(primary, s.alt)
      ELSE primary

SetScrollRegion(s, params) ==
  LET top == IF params = <<>> \/ params[1] = 0 THEN 1 ELSE params[1]
      bot == IF Len(params) < 2 \/ params[2] = 0 THEN s.rows ELSE params[2]
  IN  IF bot > s.rows \/ top >= bot THEN s
      ELSE SetCursor([s EXCEPT !.top = top - 1, !.bot = bot - 1], 0, 0)

ModeName ==
  [p \in {1, 1000, 1002, 1003, 1004, 1006, 2004} |->
     CASE p = 1    -> "cursorKeys" [] p = 1000 -> "x10"   [] p = 1002 -> "button"
       [] p = 1003 -> "any"        [] p = 1004 -> "focus" [] p = 1006 -> "sgr"
       [] p = 2004 -> "paste"]

SetMode(s, p, set) ==
  CASE p = 7    -> [s EXCEPT !.autowrap = set]
    [] p = 25   -> [s EXCEPT !.visible = set]
    [] p = 1047 -> IF set THEN EnterAlt(s, FALSE) ELSE LeaveAlt(s, FALSE)
    [] p = 1049 -> IF set THEN EnterAlt(s, TRUE) ELSE LeaveAlt(s, TRUE)
    [] p \in DOMAIN ModeName ->
         [s EXCEPT !.modes = IF set THEN @ \cup {ModeName[p]} ELSE @ \ {ModeName[p]}]
    [] OTHER    -> s

\* csi ? h and l: the parameters one after the other.
PrivateMode(s, params, set) ==
  LET done[i \in 0..Len(params)] ==
        IF i = 0 THEN s ELSE SetMode(done[i - 1], params[i], set)
  IN  done[Len(params)]

(***************************************************************************)
(* Printing.  A scalar extends the open cluster or takes one cell, or two  *)
(* on one row: a lead and a tail.  The tables overlap: a wide mark is wide *)
(* where there is no cluster to extend.  Smash blanks the other half of a pair   *)
(* one half of which is about to be overwritten.                           *)
(***************************************************************************)

IsRI(c) == c \in 127462..127487
IsContinuer(c) == c \in Mark \/ c = ZWJ \/ c \in 65024..65039 \/ c \in 917760..917999
ClusterWidth(c) == IF c \in Wide THEN 2 ELSE 1

\* The other half stays.
SmashNothing(s, row, col) == s

Smash(s, row, col) ==
  LET line == s.grid[row]
      half(c, w) == c \in DOMAIN line /\ line[c].wide = w
      other == IF half(col, "lead") /\ half(col + 1, "tail") THEN {col + 1}
               ELSE IF half(col, "tail") /\ half(col - 1, "lead") THEN {col - 1}
               ELSE {}
  IN  [s EXCEPT !.grid[row] =
         [c \in DOMAIN line |-> IF c \in other THEN Blank(s.pen.bg) ELSE line[c]]]

AdvanceAfterWidth(s, width) ==
  IF s.cx + width < s.cols
  THEN [s EXCEPT !.cx = @ + width, !.pending = FALSE]
  ELSE [s EXCEPT !.cx = LastCol(s), !.pending = s.autowrap]

WrapIfNeeded(s, width) ==
  IF ~(s.pending \/ s.cols - s.cx < width) THEN s
  ELSE IF ~s.autowrap THEN ClearWrap(s)
  ELSE Index([s EXCEPT !.pending = FALSE, !.cx = 0])

ShouldAppend(s, c) ==
  /\ s.cluster # NoCluster
  /\ IsContinuer(c) \/ s.cluster.zwj \/ (s.cluster.ri /\ IsRI(c))

AppendToCluster(s, c) ==
  LET cl == s.cluster
      full == cl.len >= GraphemeMax
  IN  Dirty([s EXCEPT !.truncated = IF full THEN @ + 1 ELSE @,
                      !.cluster = [cl EXCEPT !.len = IF full THEN @ ELSE @ + 1,
                                             !.zwj = c = ZWJ, !.ri = IsRI(c)]],
            cl.row, cl.row)

\* maybe_expand_ri_pair: the second regional indicator widens the first.
WidenCluster(s, row, lead) ==
  LET half(w) == [s.grid[row][lead] EXCEPT !.wide = w]
  IN  Dirty([s EXCEPT !.grid[row] = [@ EXCEPT ![lead] = half("lead"), ![lead + 1] = half("tail")],
                      !.cluster.width = 2], row, row)

StepPast(s, tail) ==
  IF s.cx <= tail THEN AdvanceAfterWidth([s EXCEPT !.cx = tail], 1) ELSE s

ExpandRI(s) ==
  LET row == s.cluster.row
      tail == s.cluster.col + 1
  IN  IF s.cluster.width >= 2 \/ tail >= s.cols \/ row # s.cy THEN s
      ELSE StepPast(WidenCluster(Smash(s, row, tail), row, tail - 1), tail)

PenCell(s, c, wide) ==
  [cp |-> c, fg |-> s.pen.fg, bg |-> s.pen.bg, sgr |-> s.pen.sgr, wide |-> wide]

SmashUnder(s, width) ==
  IF width = 2 THEN Smash(Smash(s, s.cy, s.cx), s.cy, s.cx + 1) ELSE Smash(s, s.cy, s.cx)

PutCells(s, c, width) ==
  Dirty([s EXCEPT
    !.grid[s.cy] = [k \in DOMAIN @ |->
       IF k = s.cx THEN PenCell(s, c, IF width = 2 THEN "lead" ELSE "no")
       ELSE IF k = s.cx + 1 /\ width = 2 THEN PenCell(s, c, "tail")
       ELSE @[k]],
    !.cluster = [row |-> s.cy, col |-> s.cx, len |-> 1, zwj |-> c = ZWJ,
                 ri |-> IsRI(c), width |-> width]], s.cy, s.cy)

\* What does not fit, with autowrap off, is not placed.
PlaceHere(s, c, width) ==
  IF s.cols - s.cx < width THEN s
  ELSE AdvanceAfterWidth(PutCells(SmashUnder(s, width), c, width), width)

Place(s, c) == PlaceHere(WrapIfNeeded(s, ClusterWidth(c)), c, ClusterWidth(c))

WriteChar(s, c) ==
  IF ~ShouldAppend(s, c) THEN Place(s, c)
  ELSE IF IsRI(c) THEN ExpandRI(AppendToCluster(s, c))
  ELSE AppendToCluster(s, c)

(***************************************************************************)
(* Erasing.  A span runs from one index of the grid, row by row, up to     *)
(* another; a pair cut by an end of the span loses its outer half too.     *)
(***************************************************************************)

EraseSpan(s, from, to) ==
  LET at(i)  == s.grid[i \div s.cols][i % s.cols]
      before == from % s.cols > 0 /\ at(from).wide = "tail" /\ at(from - 1).wide = "lead"
      after  == to % s.cols > 0 /\ at(to - 1).wide = "lead" /\ at(to).wide = "tail"
      gone   == (from..to - 1) \cup (IF before THEN {from - 1} ELSE {})
                               \cup (IF after THEN {to} ELSE {})
  IN  IF from >= to THEN s
      ELSE Dirty([s EXCEPT !.grid =
             [r \in DOMAIN @ |-> [c \in DOMAIN @[r] |->
                IF r * s.cols + c \in gone THEN Blank(s.pen.bg) ELSE @[r][c]]]],
             from \div s.cols, (to - 1) \div s.cols)

Cur(s) == s.cy * s.cols + s.cx

EraseDisplay(s, mode) ==
  CASE mode = 0 -> EraseSpan(s, Cur(s), s.rows * s.cols)
    [] mode = 1 -> EraseSpan(s, 0, Cur(s) + 1)
    [] OTHER    -> FullDamage(EraseSpan(s, 0, s.rows * s.cols))

EraseLine(s, mode) ==
  LET start == s.cy * s.cols
  IN  CASE mode = 0 -> EraseSpan(s, Cur(s), start + s.cols)
        [] mode = 1 -> EraseSpan(s, start, Cur(s) + 1)
        [] OTHER    -> EraseSpan(s, start, start + s.cols)

EraseChars(s, n) == EraseSpan(s, Cur(s), Cur(s) + Least(n, s.cols - s.cx))

(***************************************************************************)
(* Lines and cells inserted and deleted at the cursor                      *)
(***************************************************************************)

InRegion(s) == s.cy \in s.top..s.bot

InsertLines(s, n) ==
  LET m == Least(n, s.bot - s.cy + 1)
  IN  IF ~InRegion(s) THEN s
      ELSE Dirty([s EXCEPT !.grid = [r \in DOMAIN @ |->
             CASE r \notin s.cy..s.bot -> @[r]
               [] r \in s.cy..s.cy + m - 1 -> Row(s.cols, Blank(s.pen.bg))
               [] OTHER -> @[r - m]]], s.cy, s.bot)

DeleteLines(s, n) ==
  LET m == Least(n, s.bot - s.cy + 1)
  IN  IF ~InRegion(s) THEN s
      ELSE Dirty([s EXCEPT !.grid = [r \in DOMAIN @ |->
             CASE r \notin s.cy..s.bot -> @[r]
               [] r \in s.bot + 1 - m..s.bot -> Row(s.cols, Blank(s.pen.bg))
               [] OTHER -> @[r + m]]], s.cy, s.bot)

\* Cells pushed past the last column are lost; no pair is smashed.
InsertCells(s, n) ==
  LET m == Least(n, s.cols - s.cx)
  IN  Dirty([s EXCEPT !.grid[s.cy] = [c \in DOMAIN @ |->
             CASE c < s.cx -> @[c]
               [] c \in s.cx..s.cx + m - 1 -> Blank(s.pen.bg)
               [] OTHER -> @[c - m]]], s.cy, s.cy)

\* EraseSpan first: what is deleted loses its outer halves as if erased.
DeleteCells(s, n) ==
  LET m == Least(n, s.cols - s.cx)
  IN  [EraseSpan(s, Cur(s), Cur(s) + m) EXCEPT !.grid[s.cy] = [c \in DOMAIN @ |->
         CASE c < s.cx -> @[c]
           [] c >= s.cols - m -> Blank(s.pen.bg)
           [] OTHER -> @[c + m]]]

(***************************************************************************)
(* SGR.  38 and 48 take their operands from the parameters that follow; a  *)
(* form cut short leaves what follows to be read as attributes.            *)
(***************************************************************************)

Attr == 1 :> "bold" @@ 4 :> "underline" @@ 7 :> "inverse"
AttrOff == 22 :> "bold" @@ 24 :> "underline" @@ 27 :> "inverse"
PaintIndexed(n) == Least(n, 255)

ExtendedColor(ps, i) ==   \* [n: operands read, c: colour or none]
  LET form == IF i < Len(ps) THEN ps[i + 1] ELSE 0
  IN  CASE form = 5 /\ i + 2 <= Len(ps) -> [n |-> 2, c |-> {PaintIndexed(ps[i + 2])}]
        [] form = 2 /\ i + 4 <= Len(ps) -> [n |-> 4, c |-> {Rgb(ps[i + 2], ps[i + 3], ps[i + 4])}]
        [] form \in {2, 5} /\ i + (IF form = 5 THEN 2 ELSE 4) > Len(ps) -> [n |-> 1, c |-> {}]
        [] OTHER -> [n |-> 0, c |-> {}]

\* The pen the parameters leave, read from the first to the last.
SgrPen(start, params) ==
  LET ps == IF params = <<>> THEN <<0>> ELSE params
      one(a, i) ==
        LET n == ps[i]
            x == ExtendedColor(ps, i)
            pen == CASE n = 0 -> Pen
                     [] n \in DOMAIN Attr    -> [a.pen EXCEPT !.sgr = @ \cup {Attr[n]}]
                     [] n \in DOMAIN AttrOff -> [a.pen EXCEPT !.sgr = @ \ {AttrOff[n]}]
                     [] n \in 30..37   -> [a.pen EXCEPT !.fg = n - 30]
                     [] n \in 90..97   -> [a.pen EXCEPT !.fg = n - 82]
                     [] n \in 40..47   -> [a.pen EXCEPT !.bg = n - 40]
                     [] n \in 100..107 -> [a.pen EXCEPT !.bg = n - 92]
                     [] n = 39 -> [a.pen EXCEPT !.fg = Default]
                     [] n = 49 -> [a.pen EXCEPT !.bg = Default]
                     [] n = 38 -> [a.pen EXCEPT !.fg = IF x.c = {} THEN @ ELSE CHOOSE c \in x.c : TRUE]
                     [] n = 48 -> [a.pen EXCEPT !.bg = IF x.c = {} THEN @ ELSE CHOOSE c \in x.c : TRUE]
                     [] OTHER -> a.pen
        IN  IF a.skip > 0 THEN [a EXCEPT !.skip = @ - 1]
            ELSE [pen |-> pen, skip |-> IF n \in {38, 48} THEN x.n ELSE 0]
  IN  FoldLeftDomain(LAMBDA a, i : one(a, i), [pen |-> start, skip |-> 0], ps).pen

ApplySgr(s, params) == [s EXCEPT !.pen = SgrPen(@, params)]

(***************************************************************************)
(* Replies.  A reply that does not fit is dropped whole and counted.       *)
(***************************************************************************)

Digits(n) == IF n < 10 THEN 1 ELSE IF n < 100 THEN 2 ELSE IF n < 1000 THEN 3
             ELSE IF n < 10000 THEN 4 ELSE 5
PrimaryDA == [k |-> "da", len |-> 5]
SecondaryDA == [k |-> "da2", len |-> 9]
DsrStatus == [k |-> "status", len |-> 4]
DsrCursor(s) ==
  [k |-> "cursor", row |-> s.cy + 1, col |-> s.cx + 1,
   len |-> 4 + Digits(s.cy + 1) + Digits(s.cx + 1)]

QueuedBytes(replies) == FoldLeft(LAMBDA n, r : n + r.len, 0, replies)

EnqueueReply(s, reply) ==
  IF QueuedBytes(s.replies) + reply.len > ReplyCap
  THEN [s EXCEPT !.dropped = @ + 1]
  ELSE [s EXCEPT !.replies = Append(@, reply)]

(***************************************************************************)
(* The calls                                                               *)
(***************************************************************************)

CsiN(params, i, default) ==
  IF i > Len(params) \/ params[i] = 0 THEN default ELSE params[i]

F == [ICH |-> 64, CUU |-> 65, CUD |-> 66, CUF |-> 67, CUB |-> 68, CNL |-> 69,
      CPL |-> 70, CHA |-> 71, CUP |-> 72, ED |-> 74, EL |-> 75, IL |-> 76,
      DL |-> 77, DCH |-> 80, SU |-> 83, SD |-> 84, ECH |-> 88, DA |-> 99,
      VPA |-> 100, HVP |-> 102, SM |-> 104, RM |-> 108, SGR |-> 109,
      DSR |-> 110, DECSTBM |-> 114]

CsiDispatch(s, ps, a) ==
  LET n  == CsiN(ps, 1, 1)
      n0 == CsiN(ps, 1, 0)
  IN  CASE a = F.CUU -> SetCursor(s, SatSub(s.cy, n), s.cx)
        [] a = F.CUD -> SetCursor(s, s.cy + n, s.cx)
        [] a = F.CUF -> SetCursor(s, s.cy, s.cx + n)
        [] a = F.CUB -> SetCursor(s, s.cy, SatSub(s.cx, n))
        [] a = F.CNL -> SetCursor(s, s.cy + n, 0)
        [] a = F.CPL -> SetCursor(s, SatSub(s.cy, n), 0)
        [] a = F.CHA -> SetCursor(s, s.cy, n - 1)
        [] a \in {F.CUP, F.HVP} -> SetCursor(s, n - 1, CsiN(ps, 2, 1) - 1)
        [] a = F.VPA -> SetCursor(s, n - 1, s.cx)
        [] a = F.ED  -> EraseDisplay(s, n0)
        [] a = F.EL  -> EraseLine(s, n0)
        [] a = F.ECH -> EraseChars(s, n)
        [] a = F.IL  -> InsertLines(s, n)
        [] a = F.DL  -> DeleteLines(s, n)
        [] a = F.ICH -> InsertCells(s, n)
        [] a = F.DCH -> DeleteCells(s, n)
        [] a = F.DECSTBM -> SetScrollRegion(s, ps)
        [] a = F.SU  -> ScrollUp(s, n)
        [] a = F.SD  -> ScrollDown(s, n)
        [] a = F.SGR -> ApplySgr(s, ps)
        [] a = F.DA /\ n0 = 0 -> EnqueueReply(s, PrimaryDA)
        [] a = F.DSR /\ n0 = 6 -> EnqueueReply(s, DsrCursor(s))
        [] a = F.DSR /\ n0 = 5 -> EnqueueReply(s, DsrStatus)
        [] OTHER -> s

\* Actions::csi: a sequence that overflowed the parser is not executed.
ApplyCsi(s, call) ==
  CASE call.ignore -> s
    [] ~call.ignore /\ call.inter = <<63>> /\ call.action \in {F.SM, F.RM} ->
         PrivateMode(s, call.params, call.action = F.SM)
    [] ~call.ignore /\ call.inter = <<62>> /\ call.action = F.DA -> EnqueueReply(s, SecondaryDA)
    [] ~call.ignore /\ call.inter = <<>> -> CsiDispatch(s, call.params, call.action)
    [] OTHER -> s

MoveByControl(s, b) ==
  CASE b = 8        -> [s EXCEPT !.cx = SatSub(@, 1)]
    [] b = 9        -> [s EXCEPT !.cx = Least((@ \div 8 + 1) * 8, LastCol(s))]
    [] b \in 10..12 -> Index(s)
    [] b = 13       -> [s EXCEPT !.cx = 0]

ApplyExecute(s, b) ==
  IF b \in 8..13 THEN MoveByControl(CloseCluster(ClearWrap(s)), b) ELSE s

ApplyEsc(s, call) ==
  CASE call.b = 55 -> [s EXCEPT !.saved = CaptureCursor(s)]
    [] call.b = 56 /\ s.saved # NoCursor -> RestoreCursor(s, s.saved)
    [] call.b = 68 -> Index(ClearWrap(s))
    [] call.b = 69 -> Index([ClearWrap(s) EXCEPT !.cx = 0])
    [] call.b = 77 -> ReverseIndex(ClearWrap(s))
    [] call.b = 61 /\ call.inter = <<>> -> [s EXCEPT !.modes = @ \cup {"keypad"}]
    [] call.b = 62 /\ call.inter = <<>> -> [s EXCEPT !.modes = @ \ {"keypad"}]
    [] OTHER -> s

Apply(s, call) ==
  CASE call.k = "none"    -> s
    [] call.k = "print"   -> WriteChar(s, call.c)
    [] call.k = "execute" -> ApplyExecute(s, call.b)
    [] call.k = "csi"     -> ApplyCsi(s, call)
    [] call.k = "esc"     -> ApplyEsc(s, call)

=============================================================================
