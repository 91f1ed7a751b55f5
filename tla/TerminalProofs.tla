--------------------------- MODULE TerminalProofs ---------------------------
(***************************************************************************)
(* Theorems about the window's terminal, for screens of any size, any      *)
(* output cut anywhere, any resizes and any order of frames and probes:    *)
(* every position the screen keeps indexes its grid (TypeOK), a wrap waits *)
(* only at the margin (PendingAtMargin), and what is drawn is what the     *)
(* view shows although a frame rebuilds only the damaged rows              *)
(* (MirrorShows), and an engine restored from a checkpoint answers any     *)
(* further output as the one it was taken of (CheckpointExact).            *)
(*                                                                         *)
(* The first three rest on a relation, Good, that every operation of the   *)
(* screen keeps: from a well-formed screen to a well-formed one of the     *)
(* same size, with the damage grown over every row that changed.  The last *)
(* rests on another, Like: two screens that agree on what a checkpoint     *)
(* keeps still agree after the same operation.  Each is proved operation   *)
(* by operation, then of the call a byte makes, of the bytes of a chunk,   *)
(* and so of a step.                                                       *)
(***************************************************************************)
EXTENDS Terminal, SequenceTheorems, WellFoundedInduction, TLAPS

-----------------------------------------------------------------------------
(* Screens, and what an operation may do to one.                              *)

ScreenFields ==
  {"cols", "rows", "grid", "cx", "cy", "visible", "pending", "autowrap", "full", "d0", "d1",
   "top", "bot", "pen", "saved", "alt", "savedGrid", "inAlt", "replies", "dropped",
   "cluster", "truncated", "modes", "off"}

(* A sequence, of whatever elements. *)
IsSeq(q) == q \in Seq({q[i] : i \in DOMAIN q})

(* A cursor saved on a screen, and a cluster left open on it. *)
SavedOn(s, c) ==
  c # NoCursor => /\ DOMAIN c = {"col", "row", "pending", "pen"}
                  /\ c.col \in 0 .. s.cols - 1 /\ c.row \in 0 .. s.rows - 1
OpenOn(s, c) ==
  c # NoCluster => /\ DOMAIN c = {"row", "col", "len", "zwj", "ri", "width"}
                   /\ c.col \in 0 .. s.cols - 1 /\ c.row \in 0 .. s.rows - 1

ScreenOK(s) ==
  /\ DOMAIN s = ScreenFields
  /\ s.cols \in Nat \ {0} /\ s.rows \in Nat \ {0}
  /\ GridOf(s, s.grid)
  /\ s.inAlt \in BOOLEAN /\ (s.inAlt <=> s.savedGrid # NoGrid)
  /\ s.inAlt => GridOf(s, s.savedGrid)
  /\ s.cx \in 0 .. s.cols - 1 /\ s.cy \in 0 .. s.rows - 1
  /\ SavedOn(s, s.saved) /\ SavedOn(s, s.alt) /\ OpenOn(s, s.cluster)
  /\ s.top \in Nat /\ s.bot \in Nat /\ s.top <= s.bot /\ s.bot < s.rows
  /\ s.full \in BOOLEAN /\ s.d0 \in Int /\ s.d1 \in Int
  /\ IsSeq(s.off)

(* A wrap is pending only in the last column, here or where it was saved. *)
WrapAt(s, c) == c # NoCursor /\ c.pending => c.col = LastCol(s)
WrapOK(s) ==
  /\ s.pending => s.cx = LastCol(s)
  /\ WrapAt(s, s.saved) /\ WrapAt(s, s.alt)

(* The rows a view taken now would call damaged. *)
Hit(s, r) == s.full \/ (s.d0 <= r /\ r <= s.d1)

SameRow(s, t, r) == \A c \in 0 .. s.cols - 1 : t.grid[r][c] = s.grid[r][c]

(* What every operation on a screen does: it leaves a screen of the same      *)
(* size; a wrap stays at the margin; damage grows, over every row that        *)
(* changed.                                                                   *)
Good(s, t) ==
  /\ ScreenOK(t) /\ t.cols = s.cols /\ t.rows = s.rows
  /\ WrapOK(s) => WrapOK(t)
  /\ \A r \in 0 .. s.rows - 1 : Hit(s, r) => Hit(t, r)
  /\ \A r \in 0 .. s.rows - 1 : Hit(t, r) \/ SameRow(s, t, r)

(* Good is reflexive: an operation that does nothing is one.                  *)
LEMMA GoodSelf ==
  ASSUME NEW s, ScreenOK(s)
  PROVE  Good(s, s)
  BY DEF Good, SameRow

(* Good is transitive: two operations one after the other are one.            *)
LEMMA GoodTrans ==
  ASSUME NEW s, NEW t, NEW u, Good(s, t), Good(t, u)
  PROVE  Good(s, u)
<1>1. /\ t.cols = s.cols /\ t.rows = s.rows /\ u.cols = t.cols /\ u.rows = t.rows
      /\ ScreenOK(u) /\ (WrapOK(s) => WrapOK(u))
  BY DEF Good
<1>2. \A r \in 0 .. s.rows - 1 : Hit(s, r) => Hit(u, r)
  BY <1>1 DEF Good
<1>3. \A r \in 0 .. s.rows - 1 : Hit(u, r) \/ SameRow(s, u, r)
  BY <1>1 DEF Good, SameRow
<1> QED
  BY <1>1, <1>2, <1>3 DEF Good

(* An operation before the damage it does is marked. *)
Edit(s, u) ==
  /\ ScreenOK(u) /\ u.cols = s.cols /\ u.rows = s.rows
  /\ WrapOK(s) => WrapOK(u)
  /\ u.full = s.full /\ u.d0 = s.d0 /\ u.d1 = s.d1

(* An edit that leaves the grid alone needs no damage.                        *)
LEMMA EditSame ==
  ASSUME NEW s, NEW u, Edit(s, u), u.grid = s.grid
  PROVE  Good(s, u)
  BY DEF Edit, Good, Hit, SameRow

(* Writing the damage fields leaves a screen. *)
LEMMA DamageOnly ==
  ASSUME NEW u, ScreenOK(u), NEW t, DOMAIN t = ScreenFields,
         \A f \in ScreenFields \ {"full", "d0", "d1"} : t[f] = u[f],
         t.full \in BOOLEAN, t.d0 \in Int, t.d1 \in Int
  PROVE  ScreenOK(t) /\ t.cols = u.cols /\ t.rows = u.rows /\ t.grid = u.grid /\ (WrapOK(u) <=> WrapOK(t))
<1>1. /\ t.cols = u.cols /\ t.rows = u.rows /\ t.grid = u.grid /\ t.cx = u.cx /\ t.cy = u.cy
      /\ t.inAlt = u.inAlt /\ t.savedGrid = u.savedGrid /\ t.saved = u.saved /\ t.alt = u.alt
      /\ t.cluster = u.cluster /\ t.top = u.top /\ t.bot = u.bot /\ t.off = u.off /\ t.pending = u.pending
  BY DEF ScreenFields
<1>2. ScreenOK(t)
  BY <1>1 DEF ScreenOK, GridOf, SavedOn, OpenOn
<1>3. WrapOK(u) <=> WrapOK(t)
  BY <1>1 DEF WrapOK, WrapAt, LastCol
<1> QED
  BY <1>1, <1>2, <1>3

(* An edit, with full damage marked.                                          *)
LEMMA EditFull ==
  ASSUME NEW s, ScreenOK(s), NEW u, Edit(s, u)
  PROVE  Good(s, FullDamage(u))
<1> DEFINE t == FullDamage(u)
<1>1. /\ DOMAIN t = ScreenFields /\ t.full = TRUE /\ t.d0 = u.d0 /\ t.d1 = u.d1
      /\ \A f \in ScreenFields \ {"full", "d0", "d1"} : t[f] = u[f]
  BY DEF FullDamage, ScreenFields, Edit, ScreenOK
<1>2. ScreenOK(u) /\ u.d0 \in Int /\ u.d1 \in Int
  BY DEF Edit, ScreenOK
<1> HIDE DEF t
<1>3. ScreenOK(t) /\ t.cols = u.cols /\ t.rows = u.rows /\ (WrapOK(u) <=> WrapOK(t))
  <2>1. t.full \in BOOLEAN /\ t.d0 \in Int /\ t.d1 \in Int
    BY <1>1, <1>2
  <2> QED
    BY <1>1, <1>2, <2>1, DamageOnly
<1>4. Good(s, t)
  BY <1>1, <1>3 DEF Good, Edit, Hit
<1> QED
  BY <1>4 DEF t

(* An edit of some rows, with a range around them marked (Dirty).             *)
LEMMA EditDirty ==
  ASSUME NEW s, ScreenOK(s), NEW u, Edit(s, u), NEW a \in Int, NEW b \in Int,
         \A r \in 0 .. s.rows - 1 : r \in a .. b \/ SameRow(s, u, r)
  PROVE  Good(s, Dirty(u, a, b))
<1> DEFINE t == Dirty(u, a, b)
<1>1. /\ ScreenOK(u) /\ DOMAIN u = ScreenFields /\ u.full \in BOOLEAN /\ u.d0 \in Int /\ u.d1 \in Int
      /\ u.full = s.full /\ u.d0 = s.d0 /\ u.d1 = s.d1 /\ u.rows = s.rows /\ u.cols = s.cols
  BY DEF Edit, ScreenOK
<1>2. /\ DOMAIN t = ScreenFields /\ t.full = u.full
      /\ \A f \in ScreenFields \ {"full", "d0", "d1"} : t[f] = u[f]
  BY <1>1 DEF Dirty, ScreenFields
<1>3. /\ t.d0 = IF u.full THEN u.d0 ELSE IF u.d0 > u.d1 THEN a ELSE Least(u.d0, a)
      /\ t.d1 = IF u.full THEN u.d1 ELSE IF u.d0 > u.d1 THEN b ELSE Greatest(u.d1, b)
  BY <1>1 DEF Dirty, ScreenFields
<1> HIDE DEF t
<1>4. /\ t.d0 \in Int /\ t.d1 \in Int
      /\ u.full \/ \A r \in Int : (u.d0 <= r /\ r <= u.d1) \/ (a <= r /\ r <= b) => t.d0 <= r /\ r <= t.d1
  BY <1>1, <1>3 DEF Least, Greatest
<1>5. ScreenOK(t) /\ t.cols = u.cols /\ t.rows = u.rows /\ t.grid = u.grid /\ (WrapOK(u) <=> WrapOK(t))
  BY <1>1, <1>2, <1>4, DamageOnly
<1>6. \A r \in 0 .. s.rows - 1 : (Hit(s, r) \/ r \in a .. b => Hit(t, r))
  <2> SUFFICES ASSUME NEW r \in 0 .. s.rows - 1, Hit(s, r) \/ r \in a .. b, ~ u.full
               PROVE  t.d0 <= r /\ r <= t.d1
    BY <1>1, <1>2 DEF Hit
  <2>1. r \in Int
    BY DEF ScreenOK
  <2>2. (u.d0 <= r /\ r <= u.d1) \/ (a <= r /\ r <= b)
    BY <1>1, <2>1 DEF Hit
  <2> QED
    BY <1>4, <2>1, <2>2
<1>7. Good(s, t)
  BY <1>1, <1>5, <1>6 DEF Good, Edit, SameRow
<1> QED
  BY <1>7 DEF t

(* An edit is one if it leaves the size, the alternate screen, the saved      *)
(* cursors, the region and the damage alone and what it writes is in place.   *)
LEMMA EditBy ==
  ASSUME NEW s, ScreenOK(s), NEW u, DOMAIN u = ScreenFields,
         u.cols = s.cols, u.rows = s.rows, u.saved = s.saved, u.alt = s.alt,
         u.savedGrid = s.savedGrid, u.inAlt = s.inAlt, u.top = s.top, u.bot = s.bot,
         u.full = s.full, u.d0 = s.d0, u.d1 = s.d1,
         GridOf(s, u.grid), u.cx \in 0 .. s.cols - 1, u.cy \in 0 .. s.rows - 1,
         OpenOn(s, u.cluster), IsSeq(u.off),
         u.pending => u.cx = s.cols - 1 \/ (s.pending /\ u.cx = s.cx)
  PROVE  Edit(s, u)
<1>1. ScreenOK(u)
  BY DEF ScreenOK, GridOf, SavedOn, OpenOn
<1>2. WrapOK(s) => WrapOK(u)
  BY DEF WrapOK, WrapAt, LastCol
<1> QED
  BY <1>1, <1>2 DEF Edit

-----------------------------------------------------------------------------
(* Sequences and rows; scrolling.                                             *)

(* A sequence of some elements is a sequence.                                 *)
LEMMA AnySeq ==
  ASSUME NEW S, NEW q \in Seq(S)
  PROVE  IsSeq(q)
<1>1. Len(q) \in Nat /\ DOMAIN q = 1 .. Len(q) /\ q = [i \in 1 .. Len(q) |-> q[i]]
  BY LenProperties
<1> DEFINE T == {q[i] : i \in DOMAIN q}
<1>2. \A i \in 1 .. Len(q) : q[i] \in T
  BY <1>1
<1>3. [i \in 1 .. Len(q) |-> q[i]] \in Seq(T)
  BY <1>1, <1>2
<1> QED
  BY <1>1, <1>3 DEF IsSeq

(* A function on 1 .. n is a sequence of length n.                            *)
LEMMA SeqMade ==
  ASSUME NEW n \in Nat, NEW q, q = [i \in 1 .. n |-> q[i]]
  PROVE  IsSeq(q) /\ Len(q) = n
<1> DEFINE T == {q[i] : i \in 1 .. n}
<1>1. q \in [1 .. n -> T]
  OBVIOUS
<1>2. q \in Seq(T) /\ Len(q) = n
  BY <1>1
<1> QED
  BY <1>2, AnySeq

(* Two sequences joined.                                                      *)
LEMMA SeqJoined ==
  ASSUME NEW p, IsSeq(p), NEW q, IsSeq(q)
  PROVE  /\ IsSeq(p \o q) /\ Len(p \o q) = Len(p) + Len(q)
         /\ Len(p) \in Nat /\ Len(q) \in Nat
<1> DEFINE T == {p[i] : i \in DOMAIN p} \cup {q[i] : i \in DOMAIN q}
<1>1. p \in Seq(T) /\ q \in Seq(T)
  <2>1. p \in Seq({p[i] : i \in DOMAIN p}) /\ q \in Seq({q[i] : i \in DOMAIN q})
    BY DEF IsSeq
  <2>2. \A A, B : A \subseteq B => Seq(A) \subseteq Seq(B)
    OBVIOUS
  <2> QED
    BY <2>1, <2>2
<1> HIDE DEF T
<1>2. p \o q \in Seq(T) /\ Len(p \o q) = Len(p) + Len(q)
  BY <1>1, ConcatProperties
<1> QED
  BY <1>1, <1>2, AnySeq, LenProperties

(* A row of one cell has the width asked for.                                 *)
LEMMA RowTyped ==
  ASSUME NEW cols, NEW cell
  PROVE  DOMAIN Row(cols, cell) = 0 .. cols - 1
  BY DEF Row

(* The grid, the cursor, the cluster and the rows scrolled off are written. *)
LEMMA EditFields ==
  ASSUME NEW s, ScreenOK(s), NEW u, DOMAIN u = ScreenFields,
         \A f \in ScreenFields \ {"grid", "cx", "cy", "pending", "cluster", "truncated", "off"} :
           u[f] = s[f],
         GridOf(s, u.grid), u.cx \in 0 .. s.cols - 1, u.cy \in 0 .. s.rows - 1,
         OpenOn(s, u.cluster), IsSeq(u.off),
         u.pending => u.cx = s.cols - 1 \/ (s.pending /\ u.cx = s.cx)
  PROVE  Edit(s, u)
<1>1. /\ u.cols = s.cols /\ u.rows = s.rows /\ u.saved = s.saved /\ u.alt = s.alt
      /\ u.savedGrid = s.savedGrid /\ u.inAlt = s.inAlt /\ u.top = s.top /\ u.bot = s.bot
      /\ u.full = s.full /\ u.d0 = s.d0 /\ u.d1 = s.d1
  BY DEF ScreenFields
<1> QED
  BY <1>1, EditBy

(* scroll_up: the rows of the region move up, the top one scrolled off when   *)
(* it leaves the primary, all marked damaged.                                 *)
LEMMA ScrollUpGood ==
  ASSUME NEW s, ScreenOK(s), NEW n \in Nat
  PROVE  Good(s, ScrollUp(s, n))
<1> DEFINE blank == Row(s.cols, Blank(s.pen.bg))
           row(r) == IF r <= s.bot THEN s.grid[r] ELSE blank
           gone == [k \in 1 .. n |-> row(s.top + k - 1)]
           g == [r \in DOMAIN s.grid |-> IF r \in s.top .. s.bot THEN row(r + n) ELSE s.grid[r]]
           o == IF ~ s.inAlt /\ s.top = 0 THEN s.off \o gone ELSE s.off
           u == [s EXCEPT !.grid = g, !.off = o]
<1>1. ScrollUp(s, n) = FullDamage(u)
  BY DEF ScrollUp
<1>2. DOMAIN blank = 0 .. s.cols - 1
  BY RowTyped
<1> HIDE DEF blank
<1>3. GridOf(s, g)
  <2>1. DOMAIN s.grid = 0 .. s.rows - 1 /\ \A r \in 0 .. s.rows - 1 : DOMAIN s.grid[r] = 0 .. s.cols - 1
    BY DEF ScreenOK, GridOf
  <2>2. s.bot \in Nat /\ s.rows \in Nat /\ s.bot < s.rows
    BY DEF ScreenOK
  <2>3. ASSUME NEW r \in 0 .. s.rows - 1 PROVE DOMAIN row(r + n) = 0 .. s.cols - 1
    BY <1>2, <2>1, <2>2
  <2> QED
    BY <2>1, <2>3 DEF GridOf
<1>4. IsSeq(o)
  <2>1. IsSeq(gone)
    <3>1. gone = [k \in 1 .. n |-> gone[k]]
      OBVIOUS
    <3> HIDE DEF gone
    <3> QED
      BY <3>1, SeqMade
  <2> HIDE DEF gone
  <2> QED
    BY <2>1, SeqJoined DEF ScreenOK
<1> HIDE DEF g, o
<1>5. /\ DOMAIN u = ScreenFields /\ u.grid = g /\ u.off = o
      /\ u.cx = s.cx /\ u.cy = s.cy /\ u.pending = s.pending /\ u.cluster = s.cluster
      /\ \A f \in ScreenFields \ {"grid", "off"} : u[f] = s[f]
  BY DEF ScreenFields, ScreenOK
<1> HIDE DEF u
<1>6. Edit(s, u)
  BY <1>3, <1>4, <1>5, EditFields DEF ScreenOK
<1> QED
  BY <1>1, <1>6, EditFull

(* scroll_down: the rows of the region move down, all marked damaged.         *)
LEMMA ScrollDownGood ==
  ASSUME NEW s, ScreenOK(s), NEW n \in Nat
  PROVE  Good(s, ScrollDown(s, n))
<1> DEFINE blank == Row(s.cols, Blank(s.pen.bg))
           row(r) == IF r >= s.top THEN s.grid[r] ELSE blank
           g == [r \in DOMAIN s.grid |-> IF r \in s.top .. s.bot THEN row(r - n) ELSE s.grid[r]]
           u == [s EXCEPT !.grid = g]
<1>1. ScrollDown(s, n) = FullDamage(u)
  BY DEF ScrollDown
<1>2. DOMAIN blank = 0 .. s.cols - 1
  BY RowTyped
<1> HIDE DEF blank
<1>3. GridOf(s, g)
  <2>1. DOMAIN s.grid = 0 .. s.rows - 1 /\ \A r \in 0 .. s.rows - 1 : DOMAIN s.grid[r] = 0 .. s.cols - 1
    BY DEF ScreenOK, GridOf
  <2>2. s.top \in Nat /\ s.rows \in Nat
    BY DEF ScreenOK
  <2>3. ASSUME NEW r \in 0 .. s.rows - 1 PROVE DOMAIN row(r - n) = 0 .. s.cols - 1
    BY <1>2, <2>1, <2>2
  <2> QED
    BY <2>1, <2>3 DEF GridOf
<1> HIDE DEF g
<1>4. Edit(s, u)
  BY <1>3, EditBy DEF ScreenFields, ScreenOK
<1> QED
  BY <1>1, <1>4, EditFull

(* Fields that place nothing on the screen. *)
LEMMA FieldGood ==
  ASSUME NEW s, ScreenOK(s), NEW t, DOMAIN t = ScreenFields,
         \A f \in ScreenFields \ {"visible", "autowrap", "pen", "replies", "dropped", "truncated", "modes"} :
           t[f] = s[f]
  PROVE  Good(s, t)
<1>1. Edit(s, t) /\ t.grid = s.grid
  BY EditBy DEF ScreenFields, ScreenOK
<1> QED
  BY <1>1, EditSame

(* The cursor is put somewhere, with no wrap pending or with the one it had. *)
LEMMA CursorGood ==
  ASSUME NEW s, ScreenOK(s), NEW t, DOMAIN t = ScreenFields,
         \A f \in ScreenFields \ {"cx", "cy", "pending", "cluster"} : t[f] = s[f],
         t.cx \in 0 .. s.cols - 1, t.cy \in 0 .. s.rows - 1,
         t.pending => t.cx = s.cols - 1 \/ (s.pending /\ t.cx = s.cx),
         t.cluster = NoCluster \/ t.cluster = s.cluster
  PROVE  Good(s, t)
<1>1. OpenOn(s, t.cluster)
  BY DEF OpenOn, ScreenOK
<1>2. Edit(s, t) /\ t.grid = s.grid
  BY <1>1, EditBy DEF ScreenFields, ScreenOK
<1> QED
  BY <1>2, EditSame

-----------------------------------------------------------------------------
(* The cursor: index, wrap, save and restore.                                 *)

(* A line feed: scroll at the bottom of the region, else one row down.        *)
LEMMA IndexGood ==
  ASSUME NEW s, ScreenOK(s)
  PROVE  Good(s, Index(s)) /\ Index(s).cx = s.cx /\ Index(s).pending = s.pending
         /\ Index(s).autowrap = s.autowrap
<1>1. CASE s.cy < s.bot
  <2> DEFINE t == [s EXCEPT !.cy = @ + 1]
  <2>1. /\ DOMAIN t = ScreenFields /\ t.cy = s.cy + 1 /\ t.cx = s.cx /\ t.pending = s.pending
        /\ t.cluster = s.cluster /\ t.autowrap = s.autowrap
        /\ \A f \in ScreenFields \ {"cy"} : t[f] = s[f]
    BY DEF ScreenFields, ScreenOK
  <2>2. s.cy + 1 \in 0 .. s.rows - 1 /\ s.cx \in 0 .. s.cols - 1
    BY <1>1 DEF ScreenOK
  <2>3. Index(s) = t
    BY <1>1 DEF Index
  <2> HIDE DEF t
  <2>4. Good(s, t)
    BY <2>1, <2>2, CursorGood
  <2> QED
    BY <2>1, <2>3, <2>4
<1>2. CASE ~ (s.cy < s.bot)
  <2>1. Index(s) = ScrollUp(s, 1)
    BY <1>2 DEF Index
  <2>2. ScrollUp(s, 1).cx = s.cx /\ ScrollUp(s, 1).pending = s.pending
        /\ ScrollUp(s, 1).autowrap = s.autowrap
    BY DEF ScrollUp, FullDamage, ScreenOK, ScreenFields
  <2> QED
    BY <2>1, <2>2, ScrollUpGood
<1> QED
  BY <1>1, <1>2

(* ESC M: scroll down at the top of the region, else one row up.              *)
LEMMA ReverseIndexGood ==
  ASSUME NEW s, ScreenOK(s)
  PROVE  Good(s, ReverseIndex(s))
<1>1. CASE s.cy > s.top
  <2> DEFINE t == [s EXCEPT !.cy = @ - 1]
  <2>1. /\ DOMAIN t = ScreenFields /\ t.cy = s.cy - 1 /\ t.cx = s.cx /\ t.pending = s.pending
        /\ t.cluster = s.cluster
        /\ \A f \in ScreenFields \ {"cy"} : t[f] = s[f]
    BY DEF ScreenFields, ScreenOK
  <2>2. s.cy - 1 \in 0 .. s.rows - 1 /\ s.cx \in 0 .. s.cols - 1
    BY <1>1 DEF ScreenOK
  <2>3. ReverseIndex(s) = t
    BY <1>1 DEF ReverseIndex
  <2> HIDE DEF t
  <2> QED
    BY <2>1, <2>2, <2>3, CursorGood
<1>2. CASE ~ (s.cy > s.top)
  BY <1>2, ScrollDownGood DEF ReverseIndex
<1> QED
  BY <1>1, <1>2

(* A pending wrap is dropped.                                                 *)
LEMMA ClearWrapGood ==
  ASSUME NEW s, ScreenOK(s)
  PROVE  Good(s, ClearWrap(s)) /\ ~ ClearWrap(s).pending /\ ClearWrap(s).cx = s.cx
<1> DEFINE t == ClearWrap(s)
<1>1. /\ DOMAIN t = ScreenFields /\ t.cy = s.cy /\ t.cx = s.cx /\ ~ t.pending
      /\ t.cluster = s.cluster
      /\ \A f \in ScreenFields \ {"pending"} : t[f] = s[f]
  BY DEF ScreenFields, ScreenOK, ClearWrap
<1>2. s.cx \in 0 .. s.cols - 1 /\ s.cy \in 0 .. s.rows - 1
  BY DEF ScreenOK
<1> HIDE DEF t
<1>3. Good(s, t)
  BY <1>1, <1>2, CursorGood
<1> QED
  BY <1>1, <1>3 DEF t

(* The open cluster is closed.                                                *)
LEMMA CloseClusterGood ==
  ASSUME NEW s, ScreenOK(s)
  PROVE  Good(s, CloseCluster(s)) /\ CloseCluster(s).cx = s.cx /\ CloseCluster(s).pending = s.pending
<1> DEFINE t == CloseCluster(s)
<1>1. /\ DOMAIN t = ScreenFields /\ t.cy = s.cy /\ t.cx = s.cx /\ t.pending = s.pending
      /\ t.cluster = NoCluster
      /\ \A f \in ScreenFields \ {"cluster"} : t[f] = s[f]
  BY DEF ScreenFields, ScreenOK, CloseCluster
<1>2. s.cx \in 0 .. s.cols - 1 /\ s.cy \in 0 .. s.rows - 1
  BY DEF ScreenOK
<1> HIDE DEF t
<1>3. Good(s, t)
  BY <1>1, <1>2, CursorGood
<1> QED
  BY <1>1, <1>3 DEF t

(* CUP and the relative moves: the cursor is clamped to the screen.           *)
LEMMA SetCursorGood ==
  ASSUME NEW s, ScreenOK(s), NEW row \in Nat, NEW col \in Nat
  PROVE  Good(s, SetCursor(s, row, col))
<1> DEFINE y == Least(row, LastRow(s))
           x == Least(col, LastCol(s))
           t == SetCursor(s, row, col)
<1>1. x \in 0 .. s.cols - 1 /\ y \in 0 .. s.rows - 1
  BY DEF Least, LastRow, LastCol, ScreenOK
<1> HIDE DEF x, y
<1>2. t = CloseCluster(ClearWrap([s EXCEPT !.cy = y, !.cx = x]))
  BY DEF SetCursor, x, y
<1>3. /\ DOMAIN t = ScreenFields /\ t.cy = y /\ t.cx = x /\ ~ t.pending /\ t.cluster = NoCluster
      /\ \A f \in ScreenFields \ {"cx", "cy", "pending", "cluster"} : t[f] = s[f]
  BY <1>2 DEF ScreenFields, ScreenOK, CloseCluster, ClearWrap
<1> HIDE DEF t
<1>4. Good(s, t)
  BY <1>1, <1>3, CursorGood
<1> QED
  BY <1>4 DEF t

(* DECRC, and the way back from the alternate screen: a cursor that was saved *)
(* on this screen, and if with a wrap, at the margin.                         *)
LEMMA RestoreGood ==
  ASSUME NEW z, NEW s, Good(z, s), NEW c, c # NoCursor, SavedOn(s, c), WrapOK(z) => WrapAt(s, c)
  PROVE  Good(z, RestoreCursor(s, c))
<1>0. ScreenOK(s) /\ (WrapOK(z) => WrapOK(s))
  BY DEF Good
<1> DEFINE y == Least(c.row, LastRow(s))
           x == Least(c.col, LastCol(s))
           t == RestoreCursor(s, c)
<1>1. x = c.col /\ y = c.row /\ x \in 0 .. s.cols - 1 /\ y \in 0 .. s.rows - 1
  BY <1>0 DEF Least, LastRow, LastCol, ScreenOK, SavedOn
<1> HIDE DEF x, y
<1>2. t = [s EXCEPT !.cx = x, !.cy = y, !.pending = c.pending, !.pen = c.pen]
  BY DEF RestoreCursor, x, y
<1>3. /\ DOMAIN t = ScreenFields /\ t.cy = y /\ t.cx = x /\ t.pending = c.pending
      /\ \A f \in ScreenFields \ {"cx", "cy", "pending", "pen"} : t[f] = s[f]
  BY <1>0, <1>2 DEF ScreenFields, ScreenOK
<1> HIDE DEF t
<1>4. /\ t.cols = s.cols /\ t.rows = s.rows /\ t.grid = s.grid
      /\ t.inAlt = s.inAlt /\ t.savedGrid = s.savedGrid /\ t.saved = s.saved /\ t.alt = s.alt
      /\ t.cluster = s.cluster /\ t.top = s.top /\ t.bot = s.bot /\ t.off = s.off
      /\ t.full = s.full /\ t.d0 = s.d0 /\ t.d1 = s.d1
  BY <1>3 DEF ScreenFields
<1>5. ScreenOK(t)
  BY <1>0, <1>1, <1>3, <1>4 DEF ScreenOK, GridOf, SavedOn, OpenOn
<1>6. WrapOK(z) => WrapOK(t)
  BY <1>0, <1>1, <1>3, <1>4 DEF WrapOK, WrapAt, LastCol
<1>7. Good(z, t)
  BY <1>4, <1>5, <1>6 DEF Good, Hit, SameRow
<1> QED
  BY <1>7 DEF t

(* A cursor captured lies on the screen, with a wrap at the margin only.      *)
LEMMA CaptureTyped ==
  ASSUME NEW s, ScreenOK(s)
  PROVE  /\ CaptureCursor(s) # NoCursor /\ SavedOn(s, CaptureCursor(s))
         /\ WrapOK(s) => WrapAt(s, CaptureCursor(s))
<1> DEFINE c == CaptureCursor(s)
<1>1. /\ DOMAIN c = {"col", "row", "pending", "pen"} /\ c.col = s.cx /\ c.row = s.cy
      /\ c.pending = s.pending
  BY DEF CaptureCursor
<1>2. c # NoCursor
  <2>1. DOMAIN NoCursor = {"none"}
    BY DEF NoCursor
  <2> QED
    BY <1>1, <2>1
<1> QED
  BY <1>1, <1>2 DEF SavedOn, WrapAt, WrapOK, ScreenOK

(* DECSC: the cursor is saved.                                                *)
LEMMA SaveGood ==
  ASSUME NEW s, ScreenOK(s)
  PROVE  Good(s, [s EXCEPT !.saved = CaptureCursor(s)])
<1> DEFINE c == CaptureCursor(s)
           t == [s EXCEPT !.saved = c]
<1>1. SavedOn(s, c) /\ (WrapOK(s) => WrapAt(s, c))
  BY CaptureTyped
<1> HIDE DEF c
<1>2. /\ DOMAIN t = ScreenFields /\ t.saved = c
      /\ \A f \in ScreenFields \ {"saved"} : t[f] = s[f]
  BY DEF ScreenFields, ScreenOK
<1> HIDE DEF t
<1>3. /\ t.cols = s.cols /\ t.rows = s.rows /\ t.grid = s.grid /\ t.cx = s.cx /\ t.cy = s.cy
      /\ t.inAlt = s.inAlt /\ t.savedGrid = s.savedGrid /\ t.alt = s.alt /\ t.pending = s.pending
      /\ t.cluster = s.cluster /\ t.top = s.top /\ t.bot = s.bot /\ t.off = s.off
      /\ t.full = s.full /\ t.d0 = s.d0 /\ t.d1 = s.d1
  BY <1>2 DEF ScreenFields
<1>4. ScreenOK(t)
  BY <1>1, <1>2, <1>3, SMTT(30) DEF ScreenOK, GridOf, SavedOn, OpenOn
<1>5. WrapOK(s) => WrapOK(t)
  BY <1>1, <1>2, <1>3 DEF WrapOK, WrapAt, LastCol
<1>6. Edit(s, t)
  BY <1>3, <1>4, <1>5 DEF Edit
<1>7. Good(s, t)
  BY <1>3, <1>6, EditSame
<1> QED
  BY <1>7 DEF t, c

-----------------------------------------------------------------------------
(* The alternate screen, the scroll region and the modes.                     *)

(* A blank grid has the size asked for.                                       *)
LEMMA BlankTyped ==
  ASSUME NEW s, ScreenOK(s), NEW bg
  PROVE  GridOf(s, BlankGrid(s.cols, s.rows, bg)) /\ s.grid # NoGrid
<1>1. \A cell : DOMAIN Row(s.cols, cell) = 0 .. s.cols - 1
  BY RowTyped
<1>2. GridOf(s, BlankGrid(s.cols, s.rows, bg))
  BY <1>1 DEF BlankGrid, GridOf
<1>3. 0 \in DOMAIN s.grid
  BY DEF ScreenOK, GridOf
<1>4. DOMAIN NoGrid = {}
  BY DEF NoGrid
<1> QED
  BY <1>2, <1>3, <1>4

(* The screens are swapped, everything marked damaged. *)
LEMMA SwapGood ==
  ASSUME NEW s, ScreenOK(s), NEW u, DOMAIN u = ScreenFields,
         \A f \in ScreenFields \ {"grid", "savedGrid", "alt", "inAlt"} : u[f] = s[f],
         GridOf(s, u.grid), u.inAlt \in BOOLEAN, u.inAlt <=> u.savedGrid # NoGrid,
         u.inAlt => GridOf(s, u.savedGrid), SavedOn(s, u.alt), WrapOK(s) => WrapAt(s, u.alt)
  PROVE  Edit(s, u)
<1>1. /\ u.cols = s.cols /\ u.rows = s.rows /\ u.cx = s.cx /\ u.cy = s.cy
      /\ u.saved = s.saved /\ u.pending = s.pending
      /\ u.cluster = s.cluster /\ u.top = s.top /\ u.bot = s.bot /\ u.off = s.off
      /\ u.full = s.full /\ u.d0 = s.d0 /\ u.d1 = s.d1
  BY DEF ScreenFields
<1>2. ScreenOK(u)
  BY <1>1 DEF ScreenOK, GridOf, SavedOn, OpenOn
<1>3. WrapOK(s) => WrapOK(u)
  BY <1>1 DEF WrapOK, WrapAt, LastCol
<1> QED
  BY <1>1, <1>2, <1>3 DEF Edit

(* Full damage marked after a good edit of the edit. *)
LEMMA FullAfter ==
  ASSUME NEW s, ScreenOK(s), NEW u, Edit(s, u), NEW t, Good(u, t)
  PROVE  Good(s, FullDamage(t))
<1> DEFINE v == FullDamage(t)
<1>1. ScreenOK(t) /\ t.cols = s.cols /\ t.rows = s.rows /\ (WrapOK(s) => WrapOK(t))
  BY DEF Edit, Good
<1>2. Good(t, v)
  BY <1>1, EditFull DEF Edit
<1>3. v.full
  BY <1>1 DEF FullDamage, ScreenOK, ScreenFields
<1> HIDE DEF v
<1>4. Good(s, v)
  BY <1>1, <1>2, <1>3 DEF Good, Hit
<1> QED
  BY <1>4 DEF v

(* The alternate screen is entered: a blank grid, the primary kept.           *)
LEMMA EnterAltGood ==
  ASSUME NEW s, ScreenOK(s), NEW save \in BOOLEAN
  PROVE  Good(s, EnterAlt(s, save))
<1> DEFINE g == BlankGrid(s.cols, s.rows, s.pen.bg)
           k == IF s.inAlt THEN s.savedGrid ELSE s.grid
           a == IF s.inAlt THEN s.alt ELSE IF save THEN CaptureCursor(s) ELSE NoCursor
           u == [s EXCEPT !.savedGrid = k, !.alt = a, !.grid = g, !.inAlt = TRUE]
<1>1. EnterAlt(s, save) = FullDamage(SetCursor(u, 0, 0))
  BY DEF EnterAlt
<1>2. GridOf(s, g) /\ GridOf(s, k) /\ k # NoGrid
  BY BlankTyped DEF ScreenOK
<1>3. SavedOn(s, a) /\ (WrapOK(s) => WrapAt(s, a))
  <2>1. SavedOn(s, NoCursor) /\ WrapAt(s, NoCursor)
    BY DEF SavedOn, WrapAt
  <2>2. SavedOn(s, s.alt) /\ (WrapOK(s) => WrapAt(s, s.alt))
    BY DEF ScreenOK, WrapOK
  <2> QED
    BY <2>1, <2>2, CaptureTyped
<1> HIDE DEF g, k, a
<1>4. /\ DOMAIN u = ScreenFields /\ u.grid = g /\ u.savedGrid = k /\ u.alt = a /\ u.inAlt = TRUE
      /\ \A f \in ScreenFields \ {"grid", "savedGrid", "alt", "inAlt"} : u[f] = s[f]
  BY DEF ScreenFields, ScreenOK
<1> HIDE DEF u
<1>5. Edit(s, u)
  BY <1>2, <1>3, <1>4, SwapGood
<1>6. Good(u, SetCursor(u, 0, 0))
  BY <1>5, SetCursorGood DEF Edit
<1> QED
  BY <1>1, <1>5, <1>6, FullAfter

(* The alternate screen is left: the primary comes back.                      *)
LEMMA LeaveAltGood ==
  ASSUME NEW s, ScreenOK(s), NEW restore \in BOOLEAN
  PROVE  Good(s, LeaveAlt(s, restore))
<1> DEFINE u == [s EXCEPT !.grid = s.savedGrid, !.savedGrid = NoGrid,
                          !.alt = NoCursor, !.inAlt = FALSE]
           p == FullDamage(u)
<1>1. CASE ~ s.inAlt
  BY <1>1, GoodSelf DEF LeaveAlt
<1>2. CASE s.inAlt
  <2>1. /\ DOMAIN u = ScreenFields /\ u.grid = s.savedGrid /\ u.savedGrid = NoGrid
        /\ u.alt = NoCursor /\ u.inAlt = FALSE
        /\ \A f \in ScreenFields \ {"grid", "savedGrid", "alt", "inAlt"} : u[f] = s[f]
    BY DEF ScreenFields, ScreenOK
  <2>2. LeaveAlt(s, restore) = IF restore /\ s.alt # NoCursor THEN RestoreCursor(p, s.alt) ELSE p
    BY <1>2 DEF LeaveAlt
  <2> HIDE DEF u
  <2>3. Edit(s, u)
    <3>1. SavedOn(s, NoCursor) /\ WrapAt(s, NoCursor)
      BY DEF SavedOn, WrapAt
    <3>2. GridOf(s, u.grid)
      BY <1>2, <2>1 DEF ScreenOK
    <3> QED
      BY <2>1, <3>1, <3>2, SwapGood
  <2>4. Good(s, p)
    BY <2>3, EditFull
  <2>5. SavedOn(p, s.alt) /\ (WrapOK(s) => WrapAt(p, s.alt))
    <3>1. p.cols = s.cols /\ p.rows = s.rows /\ SavedOn(s, s.alt)
      BY <2>4 DEF Good, ScreenOK
    <3> QED
      BY <3>1 DEF SavedOn, WrapAt, WrapOK, LastCol
  <2>6. CASE restore /\ s.alt # NoCursor
    BY <2>2, <2>4, <2>5, <2>6, RestoreGood
  <2>7. CASE ~ (restore /\ s.alt # NoCursor)
    BY <2>2, <2>4, <2>7
  <2> QED
    BY <2>6, <2>7
<1> QED
  BY <1>1, <1>2

(* DECSTBM: a region of two rows or more is taken, and the cursor goes home.  *)
LEMMA SetScrollRegionGood ==
  ASSUME NEW s, ScreenOK(s), NEW params \in Seq(Nat)
  PROVE  Good(s, SetScrollRegion(s, params))
<1> DEFINE top == IF params = <<>> \/ params[1] = 0 THEN 1 ELSE params[1]
           bot == IF Len(params) < 2 \/ params[2] = 0 THEN s.rows ELSE params[2]
           u == [s EXCEPT !.top = top - 1, !.bot = bot - 1]
<1>1. top \in Nat \ {0} /\ bot \in Nat \ {0}
  <2>1. params # <<>> => params[1] \in Nat
    <3>1. params # <<>> => Len(params) >= 1
      OBVIOUS
    <3> QED
      BY <3>1
  <2>2. ~ (Len(params) < 2) => params[2] \in Nat
    OBVIOUS
  <2> QED
    BY <2>1, <2>2 DEF ScreenOK
<1>2. SetScrollRegion(s, params) = IF bot > s.rows \/ top >= bot THEN s ELSE SetCursor(u, 0, 0)
  BY DEF SetScrollRegion
<1> HIDE DEF top, bot
<1>3. CASE bot > s.rows \/ top >= bot
  BY <1>2, <1>3, GoodSelf
<1>4. CASE ~ (bot > s.rows \/ top >= bot)
  <2>1. /\ DOMAIN u = ScreenFields /\ u.top = top - 1 /\ u.bot = bot - 1
        /\ \A f \in ScreenFields \ {"top", "bot"} : u[f] = s[f]
    BY DEF ScreenFields, ScreenOK
  <2> HIDE DEF u
  <2>2. /\ u.cols = s.cols /\ u.rows = s.rows /\ u.grid = s.grid /\ u.cx = s.cx /\ u.cy = s.cy
        /\ u.inAlt = s.inAlt /\ u.savedGrid = s.savedGrid /\ u.saved = s.saved /\ u.alt = s.alt
        /\ u.cluster = s.cluster /\ u.off = s.off /\ u.pending = s.pending
        /\ u.full = s.full /\ u.d0 = s.d0 /\ u.d1 = s.d1
    BY <2>1 DEF ScreenFields
  <2>3. u.top \in Nat /\ u.bot \in Nat /\ u.top <= u.bot /\ u.bot < u.rows
    BY <1>1, <1>4, <2>1, <2>2 DEF ScreenOK
  <2>4. ScreenOK(u)
    BY <2>1, <2>2, <2>3 DEF ScreenOK, GridOf, SavedOn, OpenOn
  <2>5. WrapOK(s) => WrapOK(u)
    BY <2>2 DEF WrapOK, WrapAt, LastCol
  <2>6. Good(s, u)
    BY <2>2, <2>4, <2>5, EditSame DEF Edit
  <2> QED
    BY <1>2, <1>4, <2>4, <2>6, SetCursorGood, GoodTrans
<1> QED
  BY <1>3, <1>4

(* One private mode set or reset, among them the alternate screens.           *)
LEMMA SetModeGood ==
  ASSUME NEW s, ScreenOK(s), NEW p \in Nat, NEW set \in BOOLEAN
  PROVE  Good(s, SetMode(s, p, set))
<1>1. \A v : Good(s, [s EXCEPT !.autowrap = v])
  <2> TAKE v
  <2> DEFINE t == [s EXCEPT !.autowrap = v]
  <2>1. DOMAIN t = ScreenFields /\ \A f \in ScreenFields \ {"autowrap"} : t[f] = s[f]
    BY DEF ScreenFields, ScreenOK
  <2> HIDE DEF t
  <2>2. Good(s, t)
    BY <2>1, FieldGood
  <2> QED
    BY <2>2 DEF t
<1>2. \A v : Good(s, [s EXCEPT !.visible = v])
  <2> TAKE v
  <2> DEFINE t == [s EXCEPT !.visible = v]
  <2>1. DOMAIN t = ScreenFields /\ \A f \in ScreenFields \ {"visible"} : t[f] = s[f]
    BY DEF ScreenFields, ScreenOK
  <2> HIDE DEF t
  <2>2. Good(s, t)
    BY <2>1, FieldGood
  <2> QED
    BY <2>2 DEF t
<1>3. \A v : Good(s, [s EXCEPT !.modes = v])
  <2> TAKE v
  <2> DEFINE t == [s EXCEPT !.modes = v]
  <2>1. DOMAIN t = ScreenFields /\ \A f \in ScreenFields \ {"modes"} : t[f] = s[f]
    BY DEF ScreenFields, ScreenOK
  <2> HIDE DEF t
  <2>2. Good(s, t)
    BY <2>1, FieldGood
  <2> QED
    BY <2>2 DEF t
<1>4. CASE p = 7
  BY <1>1, <1>4 DEF SetMode, ModeName
<1>5. CASE p = 25
  BY <1>2, <1>5 DEF SetMode, ModeName
<1>6. CASE p = 1047
  <2>1. SetMode(s, p, set) = IF set THEN EnterAlt(s, FALSE) ELSE LeaveAlt(s, FALSE)
    BY <1>6 DEF SetMode, ModeName
  <2> QED
    BY <2>1, EnterAltGood, LeaveAltGood
<1>7. CASE p = 1049
  <2>1. SetMode(s, p, set) = IF set THEN EnterAlt(s, TRUE) ELSE LeaveAlt(s, TRUE)
    BY <1>7 DEF SetMode, ModeName
  <2> QED
    BY <2>1, EnterAltGood, LeaveAltGood
<1>8. CASE p # 7 /\ p # 25 /\ p # 1047 /\ p # 1049 /\ p \in DOMAIN ModeName
  <2>1. SetMode(s, p, set) =
         [s EXCEPT !.modes = IF set THEN s.modes \cup {ModeName[p]} ELSE s.modes \ {ModeName[p]}]
    BY <1>8 DEF SetMode
  <2> QED
    BY <1>3, <2>1
<1>9. CASE p # 7 /\ p # 25 /\ p # 1047 /\ p # 1049 /\ p \notin DOMAIN ModeName
  <2>1. SetMode(s, p, set) = s
    BY <1>9 DEF SetMode
  <2> QED
    BY <2>1, GoodSelf
<1> QED
  BY <1>4, <1>5, <1>6, <1>7, <1>8, <1>9

-----------------------------------------------------------------------------
(* The recursive functions, PrivateMode and Feed, as the values of a CHOOSE,  *)
(* are what their equations say: some function satisfies each equation.       *)

(* Induction up to n, as a statement about the set of the numbers it holds    *)
(* for: the least number outside the set is neither 0 nor a successor.        *)
LEMMA Induct ==
  ASSUME NEW n \in Nat, NEW P, 0 \in P, \A i \in 0 .. n - 1 : i \in P => i + 1 \in P
  PROVE  \A i \in 0 .. n : i \in P
<1> DEFINE S == {i \in 0 .. n : i \notin P}
<1> SUFFICES ASSUME S # {} PROVE FALSE
  OBVIOUS
<1>1. S \in SUBSET Nat
  OBVIOUS
<1>2. PICK x \in S : \A y \in S : ~ (<<y, x>> \in OpToRel(<, Nat))
  BY <1>1, NatLessThanWellFounded, WFMin
<1>3. x \in 0 .. n /\ x \notin P
  BY <1>2
<1>4. x # 0 /\ x - 1 \in 0 .. n - 1 /\ (x - 1) + 1 = x
  BY <1>3
<1>5. x - 1 \notin P
  BY <1>3, <1>4
<1>6. x - 1 \in S
  BY <1>4, <1>5
<1>7. <<x - 1, x>> \in {ss \in Nat \X Nat : ss[1] < ss[2]}
  BY <1>1, <1>3, <1>4, <1>6
<1> QED
  BY <1>2, <1>6, <1>7 DEF OpToRel


IsModesDone(k, s, params, set, n) ==
  k = [i \in 0 .. n |-> IF i = 0 THEN s ELSE SetMode(k[i - 1], params[i], set)]

(* Some function satisfies the equation of PrivateMode.                       *)
LEMMA ModesDoneExists ==
  ASSUME NEW s, NEW params, NEW set, NEW n \in Nat
  PROVE  \E k : IsModesDone(k, s, params, set, n)
<1> DEFINE P == {m \in Nat : \E k : IsModesDone(k, s, params, set, m)}
<1>1. 0 \in P
  <2> DEFINE k == [i \in 0 .. 0 |-> s]
  <2>1. IsModesDone(k, s, params, set, 0)
    BY DEF IsModesDone
  <2> QED
    BY <2>1
<1>2. ASSUME NEW m \in 0 .. n - 1, m \in P PROVE m + 1 \in P
  <2>1. PICK k : IsModesDone(k, s, params, set, m)
    BY <1>2
  <2> DEFINE new == SetMode(k[m], params[m + 1], set)
             g == [i \in 0 .. m + 1 |-> IF i = m + 1 THEN new ELSE k[i]]
  <2>2. \A i \in 0 .. m : g[i] = k[i]
    BY <1>2
  <2>3. g[m + 1] = new
    BY <1>2
  <2>4. \A i \in 0 .. m : k[i] = IF i = 0 THEN s ELSE SetMode(k[i - 1], params[i], set)
    BY <2>1 DEF IsModesDone
  <2> HIDE DEF new
  <2>5. ASSUME NEW i \in 0 .. m + 1
        PROVE  g[i] = IF i = 0 THEN s ELSE SetMode(g[i - 1], params[i], set)
    <3>1. CASE i = m + 1
      <4>1. i - 1 = m /\ i # 0 /\ m \in 0 .. m /\ g[m] = k[m]
        BY <1>2, <2>2, <3>1
      <4>2. g[i] = SetMode(k[m], params[i], set)
        BY <2>3, <3>1 DEF new
      <4> HIDE DEF g
      <4> QED
        BY <4>1, <4>2
    <3>2. CASE i # m + 1
      <4>1. i \in 0 .. m /\ (i # 0 => i - 1 \in 0 .. m)
        BY <1>2, <3>2
      <4>2. g[i] = k[i] /\ (i # 0 => g[i - 1] = k[i - 1])
        BY <2>2, <4>1
      <4> HIDE DEF g
      <4> QED
        BY <2>4, <4>1, <4>2
    <3> QED
      BY <3>1, <3>2
  <2>6. DOMAIN g = 0 .. m + 1 /\ g = [i \in 0 .. m + 1 |-> g[i]]
    OBVIOUS
  <2> HIDE DEF g
  <2>7. IsModesDone(g, s, params, set, m + 1)
    BY <2>5, <2>6 DEF IsModesDone
  <2> QED
    BY <1>2, <2>7
<1> HIDE DEF P
<1>3. \A i \in 0 .. n : i \in P
  BY <1>1, <1>2, Induct
<1>4. n \in P
  BY <1>3
<1> QED
  BY <1>4 DEF P

ModesDoneBy(k, s, params, set) ==
  /\ PrivateMode(s, params, set) = k[Len(params)] /\ k[0] = s
  /\ \A i \in 1 .. Len(params) : k[i] = SetMode(k[i - 1], params[i], set)

(* So the screens PrivateMode goes through are one SetMode apart.             *)
LEMMA ModesDoneSteps ==
  ASSUME NEW s, NEW params, NEW set, Len(params) \in Nat
  PROVE  \E k : ModesDoneBy(k, s, params, set)
<1> DEFINE n == Len(params)
           k == CHOOSE f :
             f = [i \in 0 .. n |-> IF i = 0 THEN s ELSE SetMode(f[i - 1], params[i], set)]
<1>1. \E f : IsModesDone(f, s, params, set, n)
  BY ModesDoneExists
<1>2. IsModesDone(k, s, params, set, n)
  BY <1>1, Zenon DEF IsModesDone
<1>3. PrivateMode(s, params, set) = k[n]
  BY Zenon DEF PrivateMode
<1> HIDE DEF k, n
<1>4. \A j \in 0 .. n : k[j] = IF j = 0 THEN s ELSE SetMode(k[j - 1], params[j], set)
  BY <1>2, Zenon DEF IsModesDone
<1>5. n \in Nat
  BY DEF n
<1>6. 0 \in 0 .. n /\ \A i \in 1 .. n : i \in 0 .. n /\ i # 0
  BY <1>5
<1>7. k[0] = s /\ \A i \in 1 .. n : k[i] = SetMode(k[i - 1], params[i], set)
  BY <1>4, <1>6
<1> QED
  BY <1>3, <1>7, Zenon DEF n, ModesDoneBy

(* A list of private modes, one after the other.                              *)
LEMMA PrivateModeGood ==
  ASSUME NEW s, ScreenOK(s), NEW params \in Seq(Nat), NEW set \in BOOLEAN
  PROVE  Good(s, PrivateMode(s, params, set))
<1>1. Len(params) \in Nat /\ \A i \in 1 .. Len(params) : params[i] \in Nat
  BY LenProperties, ElementOfSeq
<1>0. PICK k : ModesDoneBy(k, s, params, set)
  BY <1>1, ModesDoneSteps
<1> DEFINE n == Len(params)
<1>2.          /\ PrivateMode(s, params, set) = k[n] /\ k[0] = s
               /\ \A i \in 1 .. n : k[i] = SetMode(k[i - 1], params[i], set)
  BY <1>0 DEF ModesDoneBy
<1> HIDE DEF n
<1> DEFINE P == {i \in 0 .. n : Good(s, k[i])}
<1>7. n \in Nat /\ \A i \in 1 .. n : params[i] \in Nat
  BY <1>1 DEF n
<1>3. 0 \in P
  BY <1>7, <1>2, GoodSelf
<1>4. ASSUME NEW i \in 0 .. n - 1, i \in P PROVE i + 1 \in P
  <2>1. i + 1 \in 1 .. n /\ i + 1 \in 0 .. n /\ (i + 1) - 1 = i /\ params[i + 1] \in Nat
    BY <1>7
  <2>2. k[i + 1] = SetMode(k[i], params[i + 1], set)
    BY <1>2, <2>1
  <2>3. Good(s, k[i]) /\ ScreenOK(k[i])
    BY <1>4 DEF Good
  <2>4. Good(k[i], k[i + 1])
    BY <2>1, <2>2, <2>3, SetModeGood
  <2> QED
    BY <2>1, <2>3, <2>4, GoodTrans
<1> HIDE DEF P
<1>5. \A i \in 0 .. n : i \in P
  BY <1>7, <1>3, <1>4, Induct
<1>6. n \in P
  BY <1>7, <1>5
<1> QED
  BY <1>2, <1>6 DEF P

IsFedBy(k, e, bytes, n) ==
  k = [i \in 0 .. n |-> IF i = 0 THEN e ELSE FeedByte(k[i - 1], bytes[i])]

(* Some function satisfies the equation of Feed.                              *)
LEMMA FedByExists ==
  ASSUME NEW e, NEW bytes, NEW n \in Nat
  PROVE  \E k : IsFedBy(k, e, bytes, n)
<1> DEFINE P == {m \in Nat : \E k : IsFedBy(k, e, bytes, m)}
<1>1. 0 \in P
  <2> DEFINE k == [i \in 0 .. 0 |-> e]
  <2>1. IsFedBy(k, e, bytes, 0)
    BY DEF IsFedBy
  <2> QED
    BY <2>1
<1>2. ASSUME NEW m \in 0 .. n - 1, m \in P PROVE m + 1 \in P
  <2>1. PICK k : IsFedBy(k, e, bytes, m)
    BY <1>2
  <2> DEFINE new == FeedByte(k[m], bytes[m + 1])
             g == [i \in 0 .. m + 1 |-> IF i = m + 1 THEN new ELSE k[i]]
  <2>2. \A i \in 0 .. m : g[i] = k[i]
    BY <1>2
  <2>3. g[m + 1] = new
    BY <1>2
  <2>4. \A i \in 0 .. m : k[i] = IF i = 0 THEN e ELSE FeedByte(k[i - 1], bytes[i])
    BY <2>1 DEF IsFedBy
  <2> HIDE DEF new
  <2>5. ASSUME NEW i \in 0 .. m + 1
        PROVE  g[i] = IF i = 0 THEN e ELSE FeedByte(g[i - 1], bytes[i])
    <3>1. CASE i = m + 1
      <4>1. i - 1 = m /\ i # 0 /\ m \in 0 .. m /\ g[m] = k[m]
        BY <1>2, <2>2, <3>1
      <4>2. g[i] = FeedByte(k[m], bytes[i])
        BY <2>3, <3>1 DEF new
      <4> HIDE DEF g
      <4> QED
        BY <4>1, <4>2
    <3>2. CASE i # m + 1
      <4>1. i \in 0 .. m /\ (i # 0 => i - 1 \in 0 .. m)
        BY <1>2, <3>2
      <4>2. g[i] = k[i] /\ (i # 0 => g[i - 1] = k[i - 1])
        BY <2>2, <4>1
      <4> HIDE DEF g
      <4> QED
        BY <2>4, <4>1, <4>2
    <3> QED
      BY <3>1, <3>2
  <2>6. DOMAIN g = 0 .. m + 1 /\ g = [i \in 0 .. m + 1 |-> g[i]]
    OBVIOUS
  <2> HIDE DEF g
  <2>7. IsFedBy(g, e, bytes, m + 1)
    BY <2>5, <2>6 DEF IsFedBy
  <2> QED
    BY <1>2, <2>7
<1> HIDE DEF P
<1>3. \A i \in 0 .. n : i \in P
  BY <1>1, <1>2, Induct
<1>4. n \in P
  BY <1>3
<1> QED
  BY <1>4 DEF P

FedByBy(k, e, bytes) ==
  /\ Feed(e, bytes) = k[Len(bytes)] /\ k[0] = e
  /\ \A i \in 1 .. Len(bytes) : k[i] = FeedByte(k[i - 1], bytes[i])

(* So the engines Feed goes through are one byte apart.                       *)
LEMMA FedBySteps ==
  ASSUME NEW e, NEW bytes, Len(bytes) \in Nat
  PROVE  \E k : FedByBy(k, e, bytes)
<1> DEFINE n == Len(bytes)
           k == CHOOSE f :
             f = [i \in 0 .. n |-> IF i = 0 THEN e ELSE FeedByte(f[i - 1], bytes[i])]
<1>1. \E f : IsFedBy(f, e, bytes, n)
  BY FedByExists
<1>2. IsFedBy(k, e, bytes, n)
  BY <1>1, Zenon DEF IsFedBy
<1>3. Feed(e, bytes) = k[n]
  BY Zenon DEF Feed
<1> HIDE DEF k, n
<1>4. \A j \in 0 .. n : k[j] = IF j = 0 THEN e ELSE FeedByte(k[j - 1], bytes[j])
  BY <1>2, Zenon DEF IsFedBy
<1>5. n \in Nat
  BY DEF n
<1>6. 0 \in 0 .. n /\ \A i \in 1 .. n : i \in 0 .. n /\ i # 0
  BY <1>5
<1>7. k[0] = e /\ \A i \in 1 .. n : k[i] = FeedByte(k[i - 1], bytes[i])
  BY <1>4, <1>6
<1> QED
  BY <1>3, <1>7, Zenon DEF n, FedByBy

-----------------------------------------------------------------------------
(* Edits of one row: smashing a pair, advancing, wrapping.                    *)

(* Two edits, one after the other.                                            *)
LEMMA EditTrans ==
  ASSUME NEW s, NEW u, NEW v, Edit(s, u), Edit(u, v)
  PROVE  Edit(s, v)
  BY DEF Edit

(* One row of the grid, and perhaps the cluster, is written; the damage is   *)
(* not marked yet.                                                           *)
EditRow(s, u, row) ==
  /\ Edit(s, u) /\ DOMAIN u = ScreenFields
  /\ \A f \in ScreenFields \ {"grid", "cluster"} : u[f] = s[f]
  /\ \A r \in 0 .. s.rows - 1 : r # row => u.grid[r] = s.grid[r]

(* An edit of one row, with the row marked.                                   *)
LEMMA RowGood ==
  ASSUME NEW s, ScreenOK(s), NEW row \in Int, NEW u, EditRow(s, u, row)
  PROVE  Good(s, Dirty(u, row, row))
<1>1. \A r \in 0 .. s.rows - 1 : r \in row .. row \/ SameRow(s, u, r)
  BY DEF EditRow, ScreenOK, SameRow
<1> QED
  BY <1>1, EditDirty DEF EditRow

(* Two edits of one row.                                                      *)
LEMMA RowTrans ==
  ASSUME NEW s, NEW u, NEW v, NEW row, EditRow(s, u, row), EditRow(u, v, row)
  PROVE  EditRow(s, v, row)
<1>1. Edit(s, v)
  BY EditTrans DEF EditRow
<1>2. u.rows = s.rows
  BY DEF EditRow, ScreenFields
<1> QED
  BY <1>1, <1>2 DEF EditRow

(* What writes a row of the right width is such an edit. *)
LEMMA RowBy ==
  ASSUME NEW s, ScreenOK(s), NEW row \in 0 .. s.rows - 1, NEW u, DOMAIN u = ScreenFields,
         \A f \in ScreenFields \ {"grid", "cluster"} : u[f] = s[f],
         DOMAIN u.grid = DOMAIN s.grid, DOMAIN u.grid[row] = 0 .. s.cols - 1,
         \A r \in 0 .. s.rows - 1 : r # row => u.grid[r] = s.grid[r],
         OpenOn(s, u.cluster)
  PROVE  EditRow(s, u, row)
<1>1. GridOf(s, u.grid)
  BY DEF GridOf, ScreenOK
<1>2. /\ u.cx = s.cx /\ u.cy = s.cy /\ u.pending = s.pending /\ u.off = s.off
      /\ \A f \in ScreenFields \ {"grid", "cx", "cy", "pending", "cluster", "truncated", "off"} :
           u[f] = s[f]
  BY DEF ScreenFields
<1>3. Edit(s, u)
  BY <1>1, <1>2, EditFields DEF ScreenOK
<1> QED
  BY <1>3 DEF EditRow

(* smash_wide_at: the other half of a pair about to be overwritten is         *)
(* blanked.                                                                   *)
LEMMA SmashRow ==
  ASSUME NEW s, ScreenOK(s), NEW row \in 0 .. s.rows - 1, NEW col
  PROVE  EditRow(s, Smash(s, row, col), row) /\ Smash(s, row, col).cluster = s.cluster
<1> DEFINE line == s.grid[row]
           half(c, w) == c \in DOMAIN line /\ line[c].wide = w
           other == IF half(col, "lead") /\ half(col + 1, "tail") THEN {col + 1}
                    ELSE IF half(col, "tail") /\ half(col - 1, "lead") THEN {col - 1}
                    ELSE {}
           new == [c \in DOMAIN line |-> IF c \in other THEN Blank(s.pen.bg) ELSE line[c]]
           g == [s.grid EXCEPT ![row] = new]
           u == Smash(s, row, col)
<1>1. u = [s EXCEPT !.grid = g]
  BY DEF Smash
<1>2. DOMAIN new = 0 .. s.cols - 1
  BY DEF ScreenOK, GridOf
<1> HIDE DEF new
<1>3. DOMAIN g = DOMAIN s.grid /\ g[row] = new /\ \A r \in 0 .. s.rows - 1 : r # row => g[r] = s.grid[r]
  BY DEF ScreenOK, GridOf
<1> HIDE DEF g
<1>4. /\ DOMAIN u = ScreenFields /\ u.grid = g /\ u.cluster = s.cluster
      /\ \A f \in ScreenFields \ {"grid", "cluster"} : u[f] = s[f]
  BY <1>1 DEF ScreenFields, ScreenOK
<1> HIDE DEF u
<1>5. OpenOn(s, u.cluster)
  BY <1>4 DEF ScreenOK
<1>6. EditRow(s, u, row)
  BY <1>2, <1>3, <1>4, <1>5, RowBy
<1> QED
  BY <1>4, <1>6 DEF u

(* Both columns a wide character takes are smashed.                           *)
LEMMA SmashUnderRow ==
  ASSUME NEW s, ScreenOK(s), NEW width
  PROVE  EditRow(s, SmashUnder(s, width), s.cy)
<1>1. s.cy \in 0 .. s.rows - 1
  BY DEF ScreenOK
<1> DEFINE u == Smash(s, s.cy, s.cx)
<1>2. EditRow(s, u, s.cy)
  BY <1>1, SmashRow
<1>3. ScreenOK(u) /\ u.rows = s.rows
  BY <1>2 DEF EditRow, Edit
<1>4. EditRow(u, Smash(u, s.cy, s.cx + 1), s.cy)
  BY <1>1, <1>3, SmashRow
<1>5. EditRow(s, Smash(u, s.cy, s.cx + 1), s.cy)
  BY <1>2, <1>4, RowTrans
<1> HIDE DEF u
<1>6. SmashUnder(s, width) = IF width = 2 THEN Smash(u, s.cy, s.cx + 1) ELSE u
  BY DEF SmashUnder, u
<1> QED
  BY <1>2, <1>5, <1>6

(* The cursor moves on, or stays in the last column with a wrap pending.      *)
LEMMA AdvanceGood ==
  ASSUME NEW s, ScreenOK(s), NEW width \in Nat
  PROVE  Good(s, AdvanceAfterWidth(s, width))
<1> DEFINE x == IF s.cx + width < s.cols THEN s.cx + width ELSE LastCol(s)
           p == IF s.cx + width < s.cols THEN FALSE ELSE s.autowrap
           t == [s EXCEPT !.cx = x, !.pending = p]
<1>1. AdvanceAfterWidth(s, width) = t
  BY DEF AdvanceAfterWidth
<1>2. x \in 0 .. s.cols - 1 /\ (p => x = s.cols - 1)
  BY DEF ScreenOK, LastCol
<1> HIDE DEF x, p
<1>3. /\ DOMAIN t = ScreenFields /\ t.cx = x /\ t.pending = p /\ t.cy = s.cy /\ t.cluster = s.cluster
      /\ \A f \in ScreenFields \ {"cx", "pending"} : t[f] = s[f]
  BY DEF ScreenFields, ScreenOK
<1> HIDE DEF t
<1>4. s.cy \in 0 .. s.rows - 1
  BY DEF ScreenOK
<1> QED
  BY <1>1, <1>2, <1>3, <1>4, CursorGood

(* A pending wrap is done before a character is placed.                       *)
LEMMA WrapIfNeededGood ==
  ASSUME NEW s, ScreenOK(s), NEW width
  PROVE  Good(s, WrapIfNeeded(s, width))
<1> DEFINE u == [s EXCEPT !.pending = FALSE, !.cx = 0]
<1>1. WrapIfNeeded(s, width) = IF ~(s.pending \/ s.cols - s.cx < width) THEN s
                               ELSE IF ~s.autowrap THEN ClearWrap(s) ELSE Index(u)
  BY DEF WrapIfNeeded
<1>2. /\ DOMAIN u = ScreenFields /\ u.cx = 0 /\ u.pending = FALSE /\ u.cy = s.cy /\ u.cluster = s.cluster
      /\ \A f \in ScreenFields \ {"cx", "pending"} : u[f] = s[f]
  BY DEF ScreenFields, ScreenOK
<1> HIDE DEF u
<1>3. s.cy \in 0 .. s.rows - 1 /\ 0 \in 0 .. s.cols - 1
  BY DEF ScreenOK
<1>4. Good(s, u)
  BY <1>2, <1>3, CursorGood
<1>5. Good(u, Index(u))
  BY <1>4, IndexGood DEF Good
<1>6. Good(s, Index(u))
  BY <1>4, <1>5, GoodTrans
<1> QED
  BY <1>1, <1>6, GoodSelf, ClearWrapGood

-----------------------------------------------------------------------------
(* Printing: placing a cell, appending to a cluster, widening one.            *)

(* A character is placed at the cursor: one cell or two, the row marked.      *)
LEMMA PlaceHereGood ==
  ASSUME NEW s, ScreenOK(s), NEW c, NEW width \in {1, 2}
  PROVE  Good(s, PlaceHere(s, c, width))
<1> DEFINE v == SmashUnder(s, width)
           new == [k \in DOMAIN v.grid[v.cy] |->
             IF k = v.cx THEN PenCell(v, c, IF width = 2 THEN "lead" ELSE "no")
             ELSE IF k = v.cx + 1 /\ width = 2 THEN PenCell(v, c, "tail")
             ELSE v.grid[v.cy][k]]
           cl == [row |-> v.cy, col |-> v.cx, len |-> 1, zwj |-> c = ZWJ,
                  ri |-> IsRI(c), width |-> width]
           g == [v.grid EXCEPT ![v.cy] = new]
           u == [v EXCEPT !.grid = g, !.cluster = cl]
<1>1. EditRow(s, v, s.cy)
  BY SmashUnderRow
<1> HIDE DEF v
<1>2. ScreenOK(v) /\ v.rows = s.rows /\ v.cols = s.cols /\ v.cy = s.cy
  BY <1>1 DEF EditRow, Edit, ScreenFields
<1>3. PutCells(v, c, width) = Dirty(u, v.cy, v.cy)
  BY DEF PutCells
<1>4. v.cy \in 0 .. v.rows - 1 /\ DOMAIN new = 0 .. v.cols - 1
  BY <1>2 DEF ScreenOK, GridOf
<1> HIDE DEF new
<1>5. DOMAIN g = DOMAIN v.grid /\ g[v.cy] = new /\ \A r \in 0 .. v.rows - 1 : r # v.cy => g[r] = v.grid[r]
  BY <1>2 DEF ScreenOK, GridOf
<1> HIDE DEF g
<1>6. OpenOn(v, cl)
  BY <1>2 DEF OpenOn, ScreenOK
<1> HIDE DEF cl
<1>7. /\ DOMAIN u = ScreenFields /\ u.grid = g /\ u.cluster = cl
      /\ \A f \in ScreenFields \ {"grid", "cluster"} : u[f] = v[f]
  BY <1>2 DEF ScreenFields, ScreenOK
<1> HIDE DEF u
<1>8. EditRow(v, u, v.cy)
  BY <1>2, <1>4, <1>5, <1>6, <1>7, RowBy
<1>9. EditRow(s, u, s.cy)
  BY <1>1, <1>2, <1>8, RowTrans
<1> DEFINE t == PutCells(v, c, width)
<1>10. Good(s, t)
  <2>1. s.cy \in Int
    BY DEF ScreenOK
  <2> QED
    BY <1>2, <1>3, <1>9, <2>1, RowGood
<1> HIDE DEF t
<1>11. Good(t, AdvanceAfterWidth(t, width))
  <2>1. width \in Nat
    OBVIOUS
  <2> QED
    BY <1>10, <2>1, AdvanceGood DEF Good
<1>12. Good(s, AdvanceAfterWidth(t, width))
  BY <1>10, <1>11, GoodTrans
<1>13. PlaceHere(s, c, width) = IF s.cols - s.cx < width THEN s ELSE AdvanceAfterWidth(t, width)
  BY DEF PlaceHere, t, v
<1> QED
  BY <1>12, <1>13, GoodSelf

(* A character is placed after the wrap it may need.                          *)
LEMMA PlaceGood ==
  ASSUME NEW s, ScreenOK(s), NEW c
  PROVE  Good(s, Place(s, c))
<1> DEFINE w == ClusterWidth(c)
           u == WrapIfNeeded(s, w)
<1>1. w \in {1, 2}
  BY DEF ClusterWidth
<1>2. Good(s, u)
  BY WrapIfNeededGood
<1>3. Place(s, c) = PlaceHere(u, c, w)
  BY DEF Place
<1> HIDE DEF u, w
<1>4. Good(u, PlaceHere(u, c, w))
  BY <1>1, <1>2, PlaceHereGood DEF Good
<1> QED
  BY <1>2, <1>3, <1>4, GoodTrans

(* A cluster that has a place is not the absence of one.                      *)
LEMMA OpenIs ==
  ASSUME NEW c, DOMAIN c = {"row", "col", "len", "zwj", "ri", "width"}
  PROVE  c # NoCluster
<1>1. DOMAIN NoCluster = {"none"}
  BY DEF NoCluster
<1> QED
  BY <1>1

(* A code point joins the open cluster: its cell's row is marked.             *)
LEMMA AppendGood ==
  ASSUME NEW s, ScreenOK(s), s.cluster # NoCluster, NEW c
  PROVE  Good(s, AppendToCluster(s, c)) /\ AppendToCluster(s, c).cluster # NoCluster
<1> DEFINE cl == s.cluster
           full == cl.len >= GraphemeMax
           new == [cl EXCEPT !.len = IF full THEN @ ELSE @ + 1, !.zwj = c = ZWJ, !.ri = IsRI(c)]
           n == IF full THEN s.truncated + 1 ELSE s.truncated
           u == [s EXCEPT !.truncated = n, !.cluster = new]
<1>1. AppendToCluster(s, c) = Dirty(u, cl.row, cl.row)
  BY DEF AppendToCluster
<1>2. /\ DOMAIN new = {"row", "col", "len", "zwj", "ri", "width"}
      /\ OpenOn(s, new) /\ cl.row \in Int
  <2>1. /\ DOMAIN cl = {"row", "col", "len", "zwj", "ri", "width"}
        /\ cl.col \in 0 .. s.cols - 1 /\ cl.row \in 0 .. s.rows - 1
    BY DEF ScreenOK, OpenOn
  <2> HIDE DEF cl, full
  <2>2. DOMAIN new = {"row", "col", "len", "zwj", "ri", "width"} /\ new.row = cl.row /\ new.col = cl.col
    BY <2>1
  <2> HIDE DEF new
  <2> QED
    BY <2>1, <2>2 DEF OpenOn, ScreenOK
<1> HIDE DEF new, n, full
<1>3. /\ DOMAIN u = ScreenFields /\ u.grid = s.grid /\ u.cluster = new /\ u.cx = s.cx /\ u.cy = s.cy
      /\ u.pending = s.pending /\ u.off = s.off
      /\ \A f \in ScreenFields \ {"truncated", "cluster"} : u[f] = s[f]
  BY DEF ScreenFields, ScreenOK
<1> HIDE DEF u, cl
<1>4. GridOf(s, u.grid) /\ u.cx \in 0 .. s.cols - 1 /\ u.cy \in 0 .. s.rows - 1 /\ IsSeq(u.off)
  BY <1>3 DEF ScreenOK
<1>5. Edit(s, u)
  BY <1>2, <1>3, <1>4, EditFields
<1>6. Good(s, Dirty(u, cl.row, cl.row))
  BY <1>2, <1>3, <1>5, EditDirty DEF SameRow
<1>7. Dirty(u, cl.row, cl.row).cluster = new
  BY <1>3 DEF Dirty, ScreenFields
<1> QED
  BY <1>1, <1>2, <1>6, <1>7, OpenIs

(* The cursor steps past the cell a widened cluster has taken.                *)
LEMMA StepPastGood ==
  ASSUME NEW s, ScreenOK(s), NEW tail \in 0 .. s.cols - 1
  PROVE  Good(s, StepPast(s, tail))
<1> DEFINE v == [s EXCEPT !.cx = tail]
           x == IF tail + 1 < s.cols THEN tail + 1 ELSE LastCol(s)
           p == IF tail + 1 < s.cols THEN FALSE ELSE s.autowrap
           t == [s EXCEPT !.cx = x, !.pending = p]
<1>1. AdvanceAfterWidth(v, 1) = t
  <2>1. DOMAIN s = ScreenFields
    BY DEF ScreenOK
  <2>2. /\ v.cx = tail /\ v.cols = s.cols /\ v.autowrap = s.autowrap /\ LastCol(v) = LastCol(s)
        /\ \A a, b : [v EXCEPT !.cx = a, !.pending = b] = [s EXCEPT !.cx = a, !.pending = b]
    BY <2>1 DEF ScreenFields, LastCol
  <2>3. AdvanceAfterWidth(v, 1) = [v EXCEPT !.cx = x, !.pending = p]
    BY <2>2, ZenonT(60) DEF AdvanceAfterWidth
  <2> HIDE DEF v, x, p
  <2> QED
    BY <2>2, <2>3
<1>2. x \in 0 .. s.cols - 1 /\ (p => x = s.cols - 1)
  BY DEF ScreenOK, LastCol
<1> HIDE DEF x, p
<1>3. /\ DOMAIN t = ScreenFields /\ t.cx = x /\ t.pending = p /\ t.cy = s.cy /\ t.cluster = s.cluster
      /\ \A f \in ScreenFields \ {"cx", "pending"} : t[f] = s[f]
  BY DEF ScreenFields, ScreenOK
<1> HIDE DEF t
<1>4. s.cy \in 0 .. s.rows - 1
  BY DEF ScreenOK
<1>5. Good(s, t)
  BY <1>2, <1>3, <1>4, CursorGood
<1>6. StepPast(s, tail) = IF s.cx <= tail THEN t ELSE s
  BY <1>1 DEF StepPast
<1> QED
  BY <1>5, <1>6, GoodSelf

(* Half a flag joined by the other half is widened over its right neighbour,  *)
(* if there is one on the cursor's row.                                       *)
LEMMA ExpandGood ==
  ASSUME NEW s, ScreenOK(s), s.cluster # NoCluster
  PROVE  Good(s, ExpandRI(s))
<1> DEFINE row == s.cluster.row
           tail == s.cluster.col + 1
           v == Smash(s, row, tail)
           t == WidenCluster(v, row, tail - 1)
<1>1. /\ DOMAIN s.cluster = {"row", "col", "len", "zwj", "ri", "width"}
      /\ row \in 0 .. s.rows - 1 /\ tail - 1 \in 0 .. s.cols - 1 /\ tail \in Nat
  BY DEF ScreenOK, OpenOn
<1>2. EditRow(s, v, row) /\ v.cluster = s.cluster
  BY <1>1, SmashRow
<1>3. ExpandRI(s) = IF s.cluster.width >= 2 \/ tail >= s.cols \/ row # s.cy THEN s
                    ELSE StepPast(t, tail)
  BY DEF ExpandRI
<1> HIDE DEF row, tail, v
<1>4. ScreenOK(v) /\ v.rows = s.rows /\ v.cols = s.cols
  BY <1>2 DEF EditRow, Edit
<1>5. Good(s, t)
  <2> DEFINE old == v.grid[row]
             one == [old[tail - 1] EXCEPT !.wide = "lead"]
             two == [old[tail - 1] EXCEPT !.wide = "tail"]
             new == [old EXCEPT ![tail - 1] = one, ![tail - 1 + 1] = two]
             g == [v.grid EXCEPT ![row] = new]
             cl == [v.cluster EXCEPT !.width = 2]
             u == [v EXCEPT !.grid = g, !.cluster = cl]
  <2>1. t = Dirty(u, row, row)
    BY DEF WidenCluster
  <2>2. DOMAIN old = 0 .. v.cols - 1
    BY <1>1, <1>4 DEF ScreenOK, GridOf
  <2> HIDE DEF one, two, old
  <2>3. DOMAIN new = 0 .. v.cols - 1
    BY <2>2
  <2> HIDE DEF new
  <2>4. DOMAIN g = DOMAIN v.grid /\ g[row] = new /\ \A r \in 0 .. v.rows - 1 : r # row => g[r] = v.grid[r]
    BY <1>1, <1>4 DEF ScreenOK, GridOf
  <2>5. OpenOn(v, cl)
    <3>1. /\ DOMAIN v.cluster = {"row", "col", "len", "zwj", "ri", "width"}
          /\ v.cluster.row \in 0 .. v.rows - 1 /\ v.cluster.col \in 0 .. v.cols - 1
      <4>1. v.cluster # NoCluster /\ OpenOn(v, v.cluster)
        BY <1>2, <1>4 DEF ScreenOK
      <4> QED
        BY <4>1 DEF OpenOn
    <3>2. /\ DOMAIN cl = {"row", "col", "len", "zwj", "ri", "width"}
          /\ cl.row = v.cluster.row /\ cl.col = v.cluster.col
      BY <3>1
    <3> HIDE DEF cl
    <3> QED
      BY <3>1, <3>2 DEF OpenOn
  <2> HIDE DEF g, cl
  <2>6. /\ DOMAIN u = ScreenFields /\ u.grid = g /\ u.cluster = cl
        /\ \A f \in ScreenFields \ {"grid", "cluster"} : u[f] = v[f]
    BY <1>4 DEF ScreenFields, ScreenOK
  <2> HIDE DEF u
  <2>7. EditRow(v, u, row)
    BY <1>1, <1>4, <2>3, <2>4, <2>5, <2>6, RowBy
  <2>8. EditRow(s, u, row)
    BY <1>2, <2>7, RowTrans
  <2>9. row \in Int
    BY <1>1 DEF ScreenOK
  <2> QED
    BY <2>1, <2>8, <2>9, RowGood
<1> HIDE DEF t
<1>6. tail < s.cols => Good(s, StepPast(t, tail))
  <2> SUFFICES ASSUME tail < s.cols PROVE Good(s, StepPast(t, tail))
    OBVIOUS
  <2>1. ScreenOK(t) /\ tail \in 0 .. t.cols - 1
    BY <1>1, <1>5 DEF Good, ScreenOK
  <2> QED
    BY <1>5, <2>1, StepPastGood, GoodTrans
<1>7. CASE s.cluster.width >= 2 \/ tail >= s.cols \/ row # s.cy
  BY <1>3, <1>7, GoodSelf
<1>8. CASE ~ (s.cluster.width >= 2 \/ tail >= s.cols \/ row # s.cy)
  <2>1. tail < s.cols
    BY <1>1, <1>8 DEF ScreenOK
  <2> QED
    BY <1>3, <1>6, <1>8, <2>1
<1> QED
  BY <1>7, <1>8

(* One code point printed, whichever way it goes.                             *)
LEMMA WriteCharGood ==
  ASSUME NEW s, ScreenOK(s), NEW c
  PROVE  Good(s, WriteChar(s, c))
<1>1. CASE ~ ShouldAppend(s, c)
  BY <1>1, PlaceGood DEF WriteChar
<1>2. CASE ShouldAppend(s, c)
  <2> DEFINE u == AppendToCluster(s, c)
  <2>1. s.cluster # NoCluster
    BY <1>2 DEF ShouldAppend
  <2>2. Good(s, u) /\ u.cluster # NoCluster
    BY <2>1, AppendGood
  <2>3. WriteChar(s, c) = IF IsRI(c) THEN ExpandRI(u) ELSE u
    BY <1>2 DEF WriteChar
  <2> HIDE DEF u
  <2>4. Good(u, ExpandRI(u))
    BY <2>2, ExpandGood DEF Good
  <2> QED
    BY <2>2, <2>3, <2>4, GoodTrans
<1> QED
  BY <1>1, <1>2

-----------------------------------------------------------------------------
(* Erasing a span of cells, which crosses rows.                               *)

(* The row of a cell's index.                                                 *)
LEMMA DivRow ==
  ASSUME NEW c \in Nat \ {0}, NEW r \in Nat, NEW x \in 0 .. c - 1
  PROVE  (r * c + x) \div c = r /\ r * c + x \in Nat
<1>1. (r * c + x) \div c = r
  OBVIOUS
<1>2. r * c + x \in Nat
  OBVIOUS
<1> QED
  BY <1>1, <1>2

(* A later index is on no earlier row.                                        *)
LEMMA DivMono ==
  ASSUME NEW c \in Nat \ {0}, NEW a \in Nat, NEW b \in Nat, a <= b
  PROVE  a \div c <= b \div c
  OBVIOUS

(* The index before one that is not the first of its row is on that row.      *)
LEMMA DivStep ==
  ASSUME NEW c \in Nat \ {0}, NEW a \in Nat, a % c > 0
  PROVE  (a - 1) \div c = a \div c
  OBVIOUS

(* A row is a number.                                                         *)
LEMMA DivInt ==
  ASSUME NEW c \in Nat \ {0}, NEW a \in Nat
  PROVE  a \div c \in Int
  OBVIOUS

(* mark_rows: the rows of the range are damaged, and so are those that were.  *)
LEMMA DirtyHits ==
  ASSUME NEW u, ScreenOK(u), NEW a \in Int, NEW b \in Int
  PROVE  /\ \A r \in a .. b : Hit(Dirty(u, a, b), r)
         /\ DOMAIN Dirty(u, a, b) = ScreenFields
         /\ \A f \in ScreenFields \ {"full", "d0", "d1"} : Dirty(u, a, b)[f] = u[f]
<1> DEFINE t == Dirty(u, a, b)
<1>1. /\ DOMAIN u = ScreenFields /\ u.full \in BOOLEAN /\ u.d0 \in Int /\ u.d1 \in Int
  BY DEF ScreenOK
<1>2. /\ DOMAIN t = ScreenFields /\ t.full = u.full
      /\ \A f \in ScreenFields \ {"full", "d0", "d1"} : t[f] = u[f]
  BY <1>1 DEF Dirty, ScreenFields
<1>3. /\ t.d0 = IF u.full THEN u.d0 ELSE IF u.d0 > u.d1 THEN a ELSE Least(u.d0, a)
      /\ t.d1 = IF u.full THEN u.d1 ELSE IF u.d0 > u.d1 THEN b ELSE Greatest(u.d1, b)
  BY <1>1 DEF Dirty, ScreenFields
<1> HIDE DEF t
<1>4. \A r \in a .. b : Hit(t, r)
  BY <1>1, <1>2, <1>3 DEF Hit, Least, Greatest
<1> QED
  BY <1>2, <1>4 DEF t

(* A span of the grid is erased: only rows of the span change, each of them  *)
(* is damaged, and the rest of the screen is as it was.                      *)
LEMMA EraseSpanGood ==
  ASSUME NEW s, ScreenOK(s), NEW from \in Nat, NEW to \in Nat
  PROVE  /\ Good(s, EraseSpan(s, from, to))
         /\ \A f \in ScreenFields \ {"grid", "full", "d0", "d1"} : EraseSpan(s, from, to)[f] = s[f]
         /\ from < to => Hit(EraseSpan(s, from, to), from \div s.cols)
<1>1. CASE from >= to
  <2>1. EraseSpan(s, from, to) = s
    BY <1>1 DEF EraseSpan
  <2> QED
    BY <1>1, <2>1, GoodSelf
<1>2. CASE from < to
  <2> DEFINE at(i) == s.grid[i \div s.cols][i % s.cols]
             before == from % s.cols > 0 /\ at(from).wide = "tail" /\ at(from - 1).wide = "lead"
             after == to % s.cols > 0 /\ at(to - 1).wide = "lead" /\ at(to).wide = "tail"
             gone == (from..to - 1) \cup (IF before THEN {from - 1} ELSE {})
                                    \cup (IF after THEN {to} ELSE {})
             g == [r \in DOMAIN s.grid |-> [c \in DOMAIN s.grid[r] |->
                     IF r * s.cols + c \in gone THEN Blank(s.pen.bg) ELSE s.grid[r][c]]]
             u == [s EXCEPT !.grid = g]
             a == from \div s.cols
             b == (to - 1) \div s.cols
  <2>1. EraseSpan(s, from, to) = Dirty(u, a, b)
    <3>1. ~ (from >= to)
      BY <1>2
    <3> QED
      BY <3>1, Zenon DEF EraseSpan
  <2>2. gone \subseteq (from .. to - 1) \cup (IF from % s.cols > 0 THEN {from - 1} ELSE {})
                         \cup (IF to % s.cols > 0 THEN {to} ELSE {})
    OBVIOUS
  <2> HIDE DEF gone
  <2>3. s.cols \in Nat \ {0} /\ s.rows \in Nat \ {0} /\ DOMAIN s.grid = 0 .. s.rows - 1
        /\ \A r \in 0 .. s.rows - 1 : DOMAIN s.grid[r] = 0 .. s.cols - 1
    BY DEF ScreenOK, GridOf
  <2>4. a \in Int /\ b \in Int /\ a <= b
    <3>1. to - 1 \in Nat /\ from <= to - 1
      BY <1>2
    <3> QED
      BY <2>3, <3>1, DivInt, DivMono
  <2>5. ASSUME NEW r \in 0 .. s.rows - 1, NEW c \in 0 .. s.cols - 1, r * s.cols + c \in gone
        PROVE  r \in a .. b
    <3> DEFINE i == r * s.cols + c
    <3>0. r \in Nat
      BY <2>3
    <3>1. i \div s.cols = r /\ i \in Nat /\ r \in Nat
      BY <2>3, <3>0, DivRow
    <3>2. CASE i \in from .. to - 1
      <4>1. from <= i /\ i <= to - 1 /\ to - 1 \in Nat
        BY <3>1, <3>2
      <4>2. a <= r /\ r <= b
        BY <2>3, <3>1, <4>1, DivMono
      <4> QED
        BY <2>4, <3>1, <4>2
    <3>3. CASE from % s.cols > 0 /\ i = from - 1
      <4>1. r = a
        BY <2>3, <3>1, <3>3, DivStep
      <4> QED
        BY <2>4, <4>1
    <3>4. CASE to % s.cols > 0 /\ i = to
      <4>1. r = b
        BY <2>3, <3>1, <3>4, DivStep
      <4> QED
        BY <2>4, <4>1
    <3> HIDE DEF i
    <3> QED
      BY <2>2, <2>5, <3>2, <3>3, <3>4 DEF i
  <2>6. DOMAIN g = 0 .. s.rows - 1 /\ \A r \in 0 .. s.rows - 1 : DOMAIN g[r] = 0 .. s.cols - 1
    BY <2>3
  <2>7. ASSUME NEW r \in 0 .. s.rows - 1, r \notin a .. b PROVE \A c \in 0 .. s.cols - 1 : g[r][c] = s.grid[r][c]
    <3>1. \A c \in 0 .. s.cols - 1 : r * s.cols + c \notin gone
      BY <2>5, <2>7
    <3> QED
      BY <2>3, <3>1
  <2> HIDE DEF g
  <2>8. /\ DOMAIN u = ScreenFields /\ u.grid = g
        /\ \A f \in ScreenFields \ {"grid"} : u[f] = s[f]
    BY DEF ScreenFields, ScreenOK
  <2> HIDE DEF u, a, b
  <2>9. Edit(s, u)
    <3>1. u.cx = s.cx /\ u.cy = s.cy /\ u.pending = s.pending /\ u.cluster = s.cluster /\ u.off = s.off
      BY <2>8 DEF ScreenFields
    <3>2. GridOf(s, g)
      BY <2>6 DEF GridOf
    <3> QED
      BY <2>8, <3>1, <3>2, EditFields DEF ScreenOK
  <2>10. Good(s, Dirty(u, a, b))
    BY <2>4, <2>7, <2>8, <2>9, EditDirty DEF SameRow
  <2>11. Hit(Dirty(u, a, b), a) /\ \A f \in ScreenFields \ {"full", "d0", "d1"} : Dirty(u, a, b)[f] = u[f]
    BY <2>4, <2>9, DirtyHits DEF Edit
  <2> QED
    BY <2>1, <2>8, <2>10, <2>11 DEF a
<1> QED
  BY <1>1, <1>2

-----------------------------------------------------------------------------
(* Attributes, replies, ED and EL, inserting and deleting lines.              *)

(* A pen is no place on the screen.                                           *)
LEMMA PenGood ==
  ASSUME NEW s, ScreenOK(s), NEW v
  PROVE  Good(s, [s EXCEPT !.pen = v])
<1> DEFINE t == [s EXCEPT !.pen = v]
<1>1. DOMAIN t = ScreenFields /\ \A f \in ScreenFields \ {"pen"} : t[f] = s[f]
  BY DEF ScreenFields, ScreenOK
<1> HIDE DEF t
<1>2. Good(s, t)
  BY <1>1, FieldGood
<1> QED
  BY <1>2 DEF t

(* SGR changes the pen only.                                                  *)
LEMMA SgrGood ==
  ASSUME NEW s, ScreenOK(s), NEW params
  PROVE  Good(s, ApplySgr(s, params))
<1>1. \E v : ApplySgr(s, params) = [s EXCEPT !.pen = v]
  BY DEF ApplySgr
<1> QED
  BY <1>1, PenGood

(* A reply is queued or, at the cap, dropped.                                 *)
LEMMA ReplyGood ==
  ASSUME NEW s, ScreenOK(s), NEW reply
  PROVE  Good(s, EnqueueReply(s, reply))
<1>1. \E v : EnqueueReply(s, reply) \in {[s EXCEPT !.dropped = v], [s EXCEPT !.replies = v]}
  BY DEF EnqueueReply
<1>2. PICK v : EnqueueReply(s, reply) \in {[s EXCEPT !.dropped = v], [s EXCEPT !.replies = v]}
  BY <1>1
<1> DEFINE t == EnqueueReply(s, reply)
<1>3. DOMAIN t = ScreenFields /\ \A f \in ScreenFields \ {"replies", "dropped"} : t[f] = s[f]
  BY <1>2 DEF ScreenFields, ScreenOK
<1> HIDE DEF t
<1>4. Good(s, t)
  BY <1>3, FieldGood
<1> QED
  BY <1>4 DEF t

(* The cursor's index into the cells is a number, on the cursor's row.        *)
LEMMA CurTyped ==
  ASSUME NEW s, ScreenOK(s)
  PROVE  /\ Cur(s) \in Nat /\ s.cy * s.cols \in Nat /\ Cur(s) \div s.cols = s.cy
         /\ s.rows * s.cols \in Nat /\ s.cy \in Nat /\ s.cx \in Nat /\ s.cols \in Nat
<1>1. s.cols \in Nat \ {0} /\ s.rows \in Nat /\ s.cy \in Nat /\ s.cx \in 0 .. s.cols - 1 /\ s.cx \in Nat
  BY DEF ScreenOK
<1>2. \A a, b \in Nat : a * b \in Nat
  OBVIOUS
<1>3. Cur(s) \in Nat /\ Cur(s) \div s.cols = s.cy
  BY <1>1, DivRow DEF Cur
<1> QED
  BY <1>1, <1>2, <1>3

(* ED and EL, each of their parameters.                                       *)
LEMMA EraseGood ==
  ASSUME NEW s, ScreenOK(s), NEW n \in Nat
  PROVE  Good(s, EraseDisplay(s, n)) /\ Good(s, EraseLine(s, n)) /\ Good(s, EraseChars(s, n))
<1>1. \A a, b \in Nat : Good(s, EraseSpan(s, a, b))
  BY EraseSpanGood
<1>2. /\ Cur(s) \in Nat /\ s.cy * s.cols \in Nat /\ s.rows * s.cols \in Nat
      /\ s.cx \in Nat /\ s.cols \in Nat /\ s.cx < s.cols
  BY CurTyped DEF ScreenOK
<1>3. Good(s, EraseDisplay(s, n))
  <2> DEFINE e == EraseSpan(s, 0, s.rows * s.cols)
  <2>1. Good(s, e)
    BY <1>1, <1>2
  <2>2. Good(e, FullDamage(e))
    BY <2>1, EditFull DEF Good, Edit
  <2>3. Good(s, FullDamage(e))
    BY <2>1, <2>2, GoodTrans
  <2>4. Cur(s) + 1 \in Nat
    BY <1>2
  <2>5. Good(s, EraseSpan(s, Cur(s), s.rows * s.cols)) /\ Good(s, EraseSpan(s, 0, Cur(s) + 1))
    BY <1>1, <1>2, <2>4
  <2> HIDE DEF e
  <2>6. EraseDisplay(s, n) = IF n = 0 THEN EraseSpan(s, Cur(s), s.rows * s.cols)
                             ELSE IF n = 1 THEN EraseSpan(s, 0, Cur(s) + 1) ELSE FullDamage(e)
    BY DEF EraseDisplay, e
  <2> QED
    BY <2>3, <2>5, <2>6
<1>4. Good(s, EraseLine(s, n))
  <2> DEFINE start == s.cy * s.cols
  <2>1. start \in Nat /\ start + s.cols \in Nat /\ Cur(s) + 1 \in Nat
    BY <1>2
  <2>2. EraseLine(s, n) = IF n = 0 THEN EraseSpan(s, Cur(s), start + s.cols)
                          ELSE IF n = 1 THEN EraseSpan(s, start, Cur(s) + 1)
                          ELSE EraseSpan(s, start, start + s.cols)
    BY DEF EraseLine
  <2> HIDE DEF start
  <2>3. /\ Good(s, EraseSpan(s, Cur(s), start + s.cols)) /\ Good(s, EraseSpan(s, start, Cur(s) + 1))
        /\ Good(s, EraseSpan(s, start, start + s.cols))
    BY <1>1, <1>2, <2>1
  <2> QED
    BY <2>2, <2>3
<1>5. Good(s, EraseChars(s, n))
  <2>1. Cur(s) + Least(n, s.cols - s.cx) \in Nat
    BY <1>2 DEF Least
  <2> QED
    BY <1>1, <1>2, <2>1 DEF EraseChars
<1> QED
  BY <1>3, <1>4, <1>5

(* Whole rows are moved below the cursor. *)
LEMMA LinesGood ==
  ASSUME NEW s, ScreenOK(s), InRegion(s), NEW g, DOMAIN g = DOMAIN s.grid,
         \A r \in DOMAIN s.grid : /\ DOMAIN g[r] = 0 .. s.cols - 1
                                  /\ r \in s.cy .. s.bot \/ g[r] = s.grid[r]
  PROVE  Good(s, Dirty([s EXCEPT !.grid = g], s.cy, s.bot))
<1> DEFINE u == [s EXCEPT !.grid = g]
<1>1. /\ DOMAIN u = ScreenFields /\ u.grid = g
      /\ \A f \in ScreenFields \ {"grid"} : u[f] = s[f]
  BY DEF ScreenFields, ScreenOK
<1> HIDE DEF u
<1>2. u.cx = s.cx /\ u.cy = s.cy /\ u.pending = s.pending /\ u.cluster = s.cluster /\ u.off = s.off
  BY <1>1 DEF ScreenFields
<1>3. GridOf(s, u.grid)
  BY <1>1 DEF GridOf, ScreenOK
<1>4. Edit(s, u)
  BY <1>1, <1>2, <1>3, EditFields DEF ScreenOK
<1>5. \A r \in 0 .. s.rows - 1 : r \in s.cy .. s.bot \/ SameRow(s, u, r)
  BY <1>1 DEF SameRow, ScreenOK, GridOf
<1>6. s.cy \in Int /\ s.bot \in Int
  BY DEF ScreenOK
<1>7. Good(s, Dirty(u, s.cy, s.bot))
  BY <1>4, <1>5, <1>6, EditDirty
<1> QED
  BY <1>7 DEF u

(* IL and DL inside the region, nothing outside it.                           *)
LEMMA InsertDeleteLinesGood ==
  ASSUME NEW s, ScreenOK(s), NEW n \in Nat
  PROVE  Good(s, InsertLines(s, n)) /\ Good(s, DeleteLines(s, n))
<1>1. CASE ~ InRegion(s)
  BY <1>1, GoodSelf DEF InsertLines, DeleteLines
<1>2. CASE InRegion(s)
  <2> DEFINE m == Least(n, s.bot - s.cy + 1)
             blank == Row(s.cols, Blank(s.pen.bg))
             g == [r \in DOMAIN s.grid |->
                    CASE r \notin s.cy..s.bot -> s.grid[r]
                      [] r \in s.cy..s.cy + m - 1 -> blank
                      [] OTHER -> s.grid[r - m]]
             h == [r \in DOMAIN s.grid |->
                    CASE r \notin s.cy..s.bot -> s.grid[r]
                      [] r \in s.bot + 1 - m..s.bot -> blank
                      [] OTHER -> s.grid[r + m]]
  <2>1. /\ s.cy \in Nat /\ s.bot \in Nat /\ s.rows \in Nat /\ s.bot < s.rows /\ s.cy <= s.bot
        /\ DOMAIN s.grid = 0 .. s.rows - 1 /\ \A r \in 0 .. s.rows - 1 : DOMAIN s.grid[r] = 0 .. s.cols - 1
    BY <1>2 DEF ScreenOK, GridOf, InRegion
  <2>2. DOMAIN blank = 0 .. s.cols - 1
    BY RowTyped
  <2>3. m \in Nat /\ m <= s.bot - s.cy + 1
    BY <2>1 DEF Least
  <2>4. InsertLines(s, n) = Dirty([s EXCEPT !.grid = g], s.cy, s.bot)
    BY <1>2 DEF InsertLines
  <2>5. DeleteLines(s, n) = Dirty([s EXCEPT !.grid = h], s.cy, s.bot)
    BY <1>2 DEF DeleteLines
  <2> HIDE DEF m, blank
  <2>6. ASSUME NEW r \in DOMAIN s.grid
        PROVE  DOMAIN g[r] = 0 .. s.cols - 1 /\ (r \in s.cy .. s.bot \/ g[r] = s.grid[r])
    <3>1. CASE r \notin s.cy .. s.bot
      <4>1. g[r] = s.grid[r]
        BY <2>1, <2>3, <3>1
      <4> QED
        BY <2>1, <4>1
    <3>2. CASE r \in s.cy .. s.cy + m - 1
      <4>1. r \in s.cy .. s.bot
        BY <2>1, <2>3, <3>2
      <4>2. g[r] = blank
        BY <3>2, <4>1
      <4> QED
        BY <2>2, <4>1, <4>2
    <3>3. CASE r \in s.cy .. s.bot /\ r \notin s.cy .. s.cy + m - 1
      <4>1. g[r] = s.grid[r - m] /\ r - m \in 0 .. s.rows - 1
        BY <2>1, <2>3, <3>3
      <4> QED
        BY <2>1, <3>3, <4>1
    <3> QED
      BY <3>1, <3>2, <3>3
  <2>7. ASSUME NEW r \in DOMAIN s.grid
        PROVE  DOMAIN h[r] = 0 .. s.cols - 1 /\ (r \in s.cy .. s.bot \/ h[r] = s.grid[r])
    <3>1. CASE r \notin s.cy .. s.bot
      <4>1. h[r] = s.grid[r]
        BY <2>1, <2>3, <3>1
      <4> QED
        BY <2>1, <4>1
    <3>2. CASE r \in s.bot + 1 - m .. s.bot
      <4>1. r \in s.cy .. s.bot
        BY <2>1, <2>3, <3>2
      <4>2. h[r] = blank
        BY <3>2, <4>1
      <4> QED
        BY <2>2, <4>1, <4>2
    <3>3. CASE r \in s.cy .. s.bot /\ r \notin s.bot + 1 - m .. s.bot
      <4>1. h[r] = s.grid[r + m] /\ r + m \in 0 .. s.rows - 1
        BY <2>1, <2>3, <3>3
      <4> QED
        BY <2>1, <3>3, <4>1
    <3> QED
      BY <3>1, <3>2, <3>3
  <2>8. DOMAIN g = DOMAIN s.grid /\ DOMAIN h = DOMAIN s.grid
    OBVIOUS
  <2> HIDE DEF g, h
  <2> QED
    BY <1>2, <2>4, <2>5, <2>6, <2>7, <2>8, LinesGood
<1> QED
  BY <1>1, <1>2

-----------------------------------------------------------------------------
(* Inserting and deleting cells; the rest of CSI.                             *)

(* ICH: the rest of the row moves right.                                      *)
LEMMA InsertCellsGood ==
  ASSUME NEW s, ScreenOK(s), NEW n \in Nat
  PROVE  Good(s, InsertCells(s, n))
<1> DEFINE m == Least(n, s.cols - s.cx)
           old == s.grid[s.cy]
           new == [c \in DOMAIN old |->
             CASE c < s.cx -> old[c]
               [] c \in s.cx..s.cx + m - 1 -> Blank(s.pen.bg)
               [] OTHER -> old[c - m]]
           g == [s.grid EXCEPT ![s.cy] = new]
           u == [s EXCEPT !.grid = g]
<1>1. InsertCells(s, n) = Dirty(u, s.cy, s.cy)
  BY DEF InsertCells
<1>2. s.cy \in 0 .. s.rows - 1 /\ s.cy \in Int /\ DOMAIN old = 0 .. s.cols - 1
  BY DEF ScreenOK, GridOf
<1>3. DOMAIN new = 0 .. s.cols - 1
  BY <1>2
<1> HIDE DEF new
<1>4. DOMAIN g = DOMAIN s.grid /\ g[s.cy] = new /\ \A r \in 0 .. s.rows - 1 : r # s.cy => g[r] = s.grid[r]
  BY <1>2 DEF ScreenOK, GridOf
<1> HIDE DEF g
<1>5. /\ DOMAIN u = ScreenFields /\ u.grid = g /\ u.cluster = s.cluster
      /\ \A f \in ScreenFields \ {"grid", "cluster"} : u[f] = s[f]
  BY DEF ScreenFields, ScreenOK
<1> HIDE DEF u
<1>6. EditRow(s, u, s.cy)
  BY <1>2, <1>3, <1>4, <1>5, RowBy DEF ScreenOK
<1> QED
  BY <1>1, <1>2, <1>6, RowGood

(* A row that is damaged already may be written. *)
LEMMA HitRowGood ==
  ASSUME NEW s, ScreenOK(s), NEW row, NEW u, EditRow(s, u, row), Hit(s, row)
  PROVE  Good(s, u)
<1>1. \A r : Hit(s, r) <=> Hit(u, r)
  BY DEF EditRow, Edit, Hit
<1>2. \A r \in 0 .. s.rows - 1 : Hit(u, r) \/ SameRow(s, u, r)
  BY <1>1 DEF EditRow, SameRow
<1> QED
  BY <1>1, <1>2 DEF EditRow, Edit, Good

(* DCH: the rest of the row moves left, the pairs it cuts smashed.            *)
LEMMA DeleteCellsGood ==
  ASSUME NEW s, ScreenOK(s), NEW n \in Nat \ {0}
  PROVE  Good(s, DeleteCells(s, n))
<1> DEFINE m == Least(n, s.cols - s.cx)
           v == EraseSpan(s, Cur(s), Cur(s) + m)
           old == v.grid[s.cy]
           new == [c \in DOMAIN old |->
             CASE c < s.cx -> old[c]
               [] c >= s.cols - m -> Blank(s.pen.bg)
               [] OTHER -> old[c + m]]
           g == [v.grid EXCEPT ![s.cy] = new]
           u == [v EXCEPT !.grid = g]
<1>1. DeleteCells(s, n) = u
  BY DEF DeleteCells
<1>2. m \in Nat /\ m >= 1 /\ Cur(s) \in Nat /\ Cur(s) \div s.cols = s.cy
  <2>1. s.cols - s.cx \in Nat /\ s.cols - s.cx >= 1
    BY DEF ScreenOK
  <2> QED
    BY <2>1, CurTyped DEF Least
<1> HIDE DEF m
<1>3. Cur(s) + m \in Nat /\ Cur(s) < Cur(s) + m
  BY <1>2
<1>4. Good(s, v) /\ Hit(v, s.cy)
  BY <1>2, <1>3, EraseSpanGood
<1> HIDE DEF v
<1>5. ScreenOK(v) /\ s.cy \in 0 .. v.rows - 1 /\ v.rows = s.rows /\ v.cols = s.cols
  BY <1>4 DEF Good, ScreenOK
<1>6. DOMAIN new = 0 .. v.cols - 1
  BY <1>5 DEF ScreenOK, GridOf
<1> HIDE DEF new
<1>7. DOMAIN g = DOMAIN v.grid /\ g[s.cy] = new /\ \A r \in 0 .. v.rows - 1 : r # s.cy => g[r] = v.grid[r]
  BY <1>5 DEF ScreenOK, GridOf
<1> HIDE DEF g
<1>8. /\ DOMAIN u = ScreenFields /\ u.grid = g /\ u.cluster = v.cluster
      /\ \A f \in ScreenFields \ {"grid", "cluster"} : u[f] = v[f]
  BY <1>5 DEF ScreenFields, ScreenOK
<1> HIDE DEF u
<1>9. EditRow(v, u, s.cy)
  BY <1>5, <1>6, <1>7, <1>8, RowBy DEF ScreenOK
<1>10. Good(v, u)
  BY <1>4, <1>5, <1>9, HitRowGood
<1> QED
  BY <1>1, <1>4, <1>10, GoodTrans

(* A CSI parameter, or its default, is a number, and not 0 if the default is  *)
(* not.                                                                       *)
LEMMA CsiNTyped ==
  ASSUME NEW params \in Seq(Nat), NEW i \in Nat \ {0}, NEW d \in Nat
  PROVE  CsiN(params, i, d) \in Nat /\ (d # 0 => CsiN(params, i, d) # 0)
<1>1. Len(params) \in Nat /\ \A j \in 1 .. Len(params) : params[j] \in Nat
  BY LenProperties, ElementOfSeq
<1>2. ~ (i > Len(params)) => params[i] \in Nat
  BY <1>1
<1> QED
  BY <1>1, <1>2 DEF CsiN

(* csi_dispatch, each final byte it knows.                                    *)
LEMMA CsiDispatchGood ==
  ASSUME NEW s, ScreenOK(s), NEW ps \in Seq(Nat), NEW a \in Nat
  PROVE  Good(s, CsiDispatch(s, ps, a))
<1> DEFINE n == CsiN(ps, 1, 1)
           n0 == CsiN(ps, 1, 0)
           c2 == CsiN(ps, 2, 1)
<1>1. n \in Nat \ {0} /\ n0 \in Nat /\ c2 \in Nat \ {0}
  BY CsiNTyped
<1>2. s.cx \in Nat /\ s.cy \in Nat
  BY CurTyped
<1>3. \A y, x \in Nat : Good(s, SetCursor(s, y, x))
  BY SetCursorGood
<1> HIDE DEF n, n0, c2
<1>4. /\ SatSub(s.cy, n) \in Nat /\ s.cy + n \in Nat /\ s.cx + n \in Nat /\ SatSub(s.cx, n) \in Nat
      /\ n - 1 \in Nat /\ c2 - 1 \in Nat /\ 0 \in Nat /\ n \in Nat
  BY <1>1, <1>2 DEF SatSub, Greatest
<1>5. /\ Good(s, SetCursor(s, SatSub(s.cy, n), s.cx)) /\ Good(s, SetCursor(s, s.cy + n, s.cx))
      /\ Good(s, SetCursor(s, s.cy, s.cx + n)) /\ Good(s, SetCursor(s, s.cy, SatSub(s.cx, n)))
      /\ Good(s, SetCursor(s, s.cy + n, 0)) /\ Good(s, SetCursor(s, SatSub(s.cy, n), 0))
      /\ Good(s, SetCursor(s, s.cy, n - 1)) /\ Good(s, SetCursor(s, n - 1, c2 - 1))
      /\ Good(s, SetCursor(s, n - 1, s.cx))
  BY <1>2, <1>3, <1>4
<1>6. /\ Good(s, EraseDisplay(s, n0)) /\ Good(s, EraseLine(s, n0)) /\ Good(s, EraseChars(s, n))
      /\ Good(s, InsertLines(s, n)) /\ Good(s, DeleteLines(s, n)) /\ Good(s, InsertCells(s, n))
      /\ Good(s, DeleteCells(s, n))
  BY <1>1, <1>4, EraseGood, InsertDeleteLinesGood, InsertCellsGood, DeleteCellsGood
<1>7. /\ Good(s, SetScrollRegion(s, ps)) /\ Good(s, ScrollUp(s, n)) /\ Good(s, ScrollDown(s, n))
      /\ Good(s, ApplySgr(s, ps)) /\ Good(s, EnqueueReply(s, PrimaryDA))
      /\ Good(s, EnqueueReply(s, DsrCursor(s))) /\ Good(s, EnqueueReply(s, DsrStatus)) /\ Good(s, s)
  BY <1>4, SetScrollRegionGood, ScrollUpGood, ScrollDownGood, SgrGood, ReplyGood, GoodSelf
<1> DEFINE t == CsiDispatch(s, ps, a)
<1>8. t \in {SetCursor(s, SatSub(s.cy, n), s.cx), SetCursor(s, s.cy + n, s.cx),
             SetCursor(s, s.cy, s.cx + n), SetCursor(s, s.cy, SatSub(s.cx, n)),
             SetCursor(s, s.cy + n, 0), SetCursor(s, SatSub(s.cy, n), 0),
             SetCursor(s, s.cy, n - 1), SetCursor(s, n - 1, c2 - 1), SetCursor(s, n - 1, s.cx),
             EraseDisplay(s, n0), EraseLine(s, n0), EraseChars(s, n), InsertLines(s, n),
             DeleteLines(s, n), InsertCells(s, n), DeleteCells(s, n), SetScrollRegion(s, ps),
             ScrollUp(s, n), ScrollDown(s, n), ApplySgr(s, ps), EnqueueReply(s, PrimaryDA),
             EnqueueReply(s, DsrCursor(s)), EnqueueReply(s, DsrStatus), s}
  BY DEF CsiDispatch, F, n, n0, c2
<1> HIDE DEF t
<1>9. Good(s, t)
  BY <1>5, <1>6, <1>7, <1>8
<1> QED
  BY <1>9 DEF t

-----------------------------------------------------------------------------
(* One call of the parser, whichever it is.                                   *)

(* With no wrap pending, the column alone is written: CR, BS and HT.          *)
LEMMA ColumnGood ==
  ASSUME NEW s, ScreenOK(s), ~ s.pending, NEW x \in 0 .. s.cols - 1
  PROVE  Good(s, [s EXCEPT !.cx = x])
<1> DEFINE t == [s EXCEPT !.cx = x]
<1>1. /\ DOMAIN t = ScreenFields /\ t.cx = x /\ t.pending = s.pending /\ t.cy = s.cy
      /\ t.cluster = s.cluster /\ \A f \in ScreenFields \ {"cx"} : t[f] = s[f]
  BY DEF ScreenFields, ScreenOK
<1> HIDE DEF t
<1>2. s.cy \in 0 .. s.rows - 1
  BY DEF ScreenOK
<1>3. Good(s, t)
  BY <1>1, <1>2, CursorGood
<1> QED
  BY <1>3 DEF t

(* execute: the control characters.                                           *)
LEMMA ExecuteGood ==
  ASSUME NEW s, ScreenOK(s), NEW b \in Nat
  PROVE  Good(s, ApplyExecute(s, b))
<1>1. CASE b \notin 8 .. 13
  BY <1>1, GoodSelf DEF ApplyExecute
<1>2. CASE b \in 8 .. 13
  <2> DEFINE w == ClearWrap(s)
             u == CloseCluster(w)
             t == MoveByControl(u, b)
  <2>1. Good(s, w) /\ ~ w.pending
    BY ClearWrapGood
  <2>2. Good(w, u) /\ ~ u.pending
    BY <2>1, CloseClusterGood DEF Good
  <2>3. Good(s, u) /\ ScreenOK(u)
    BY <2>1, <2>2, GoodTrans DEF Good
  <2>4. ApplyExecute(s, b) = t
    BY <1>2 DEF ApplyExecute
  <2> HIDE DEF u
  <2>5. u.cx \in 0 .. u.cols - 1 /\ u.cols \in Nat \ {0}
    BY <2>3 DEF ScreenOK
  <2>6. Good(u, t)
    <3>1. CASE b = 8
      <4>1. SatSub(u.cx, 1) \in 0 .. u.cols - 1
        BY <2>5 DEF SatSub, Greatest
      <4>2. t = [u EXCEPT !.cx = SatSub(u.cx, 1)]
        BY <3>1 DEF MoveByControl
      <4> QED
        BY <2>2, <2>3, <4>1, <4>2, ColumnGood
    <3>2. CASE b = 9
      <4> DEFINE x == Least((u.cx \div 8 + 1) * 8, LastCol(u))
      <4>1. x \in 0 .. u.cols - 1
        BY <2>5 DEF Least, LastCol
      <4>2. t = [u EXCEPT !.cx = x]
        BY <3>2 DEF MoveByControl
      <4> HIDE DEF x
      <4> QED
        BY <2>2, <2>3, <4>1, <4>2, ColumnGood
    <3>3. CASE b \in 10 .. 12
      BY <2>3, <3>3, IndexGood DEF MoveByControl
    <3>4. CASE b = 13
      <4>1. t = [u EXCEPT !.cx = 0]
        BY <3>4 DEF MoveByControl
      <4>2. 0 \in 0 .. u.cols - 1
        BY <2>5
      <4> QED
        BY <2>2, <2>3, <4>1, <4>2, ColumnGood
    <3> QED
      BY <1>2, <3>1, <3>2, <3>3, <3>4
  <2> QED
    BY <2>3, <2>4, <2>6, GoodTrans
<1> QED
  BY <1>1, <1>2

(* The set of modes is no place on the screen.                                *)
LEMMA ModesGood ==
  ASSUME NEW s, ScreenOK(s), NEW v
  PROVE  Good(s, [s EXCEPT !.modes = v])
<1> DEFINE t == [s EXCEPT !.modes = v]
<1>1. DOMAIN t = ScreenFields /\ \A f \in ScreenFields \ {"modes"} : t[f] = s[f]
  BY DEF ScreenFields, ScreenOK
<1> HIDE DEF t
<1>2. Good(s, t)
  BY <1>1, FieldGood
<1> QED
  BY <1>2 DEF t

(* esc_dispatch: ESC 7, 8, D, E, M and the keypad modes.                      *)
LEMMA EscGood ==
  ASSUME NEW s, ScreenOK(s), NEW call
  PROVE  Good(s, ApplyEsc(s, call))
<1> DEFINE w == ClearWrap(s)
           v == [w EXCEPT !.cx = 0]
<1>1. Good(s, w) /\ ~ w.pending /\ ScreenOK(w)
  BY ClearWrapGood DEF Good
<1>2. 0 \in 0 .. w.cols - 1
  BY <1>1 DEF ScreenOK
<1> HIDE DEF w
<1>3. Good(w, v) /\ ScreenOK(v)
  BY <1>1, <1>2, ColumnGood DEF Good
<1> HIDE DEF v
<1>4. Good(s, v)
  BY <1>1, <1>3, GoodTrans
<1>5. Good(s, Index(w)) /\ Good(s, Index(v)) /\ Good(s, ReverseIndex(w))
  BY <1>1, <1>3, <1>4, IndexGood, ReverseIndexGood, GoodTrans
<1>6. s.saved # NoCursor => Good(s, RestoreCursor(s, s.saved))
  <2>1. SavedOn(s, s.saved) /\ (WrapOK(s) => WrapAt(s, s.saved))
    BY DEF ScreenOK, WrapOK
  <2> QED
    BY <2>1, GoodSelf, RestoreGood
<1>7. Good(s, [s EXCEPT !.saved = CaptureCursor(s)]) /\ Good(s, s)
      /\ \A m : Good(s, [s EXCEPT !.modes = m])
  BY SaveGood, GoodSelf, ModesGood
<1> DEFINE t == ApplyEsc(s, call)
<1>8. \/ t = [s EXCEPT !.saved = CaptureCursor(s)]
      \/ s.saved # NoCursor /\ t = RestoreCursor(s, s.saved)
      \/ t = Index(w) \/ t = Index(v) \/ t = ReverseIndex(w)
      \/ t = [s EXCEPT !.modes = s.modes \cup {"keypad"}]
      \/ t = [s EXCEPT !.modes = s.modes \ {"keypad"}]
      \/ t = s
  BY DEF ApplyEsc, v, w
<1> HIDE DEF t
<1>9. Good(s, t)
  BY <1>5, <1>6, <1>7, <1>8
<1> QED
  BY <1>9 DEF t

(* The calls the parser makes. *)
CallOK(call) ==
  \/ call = NoCall
  \/ \E c : call = PrintCall(c)
  \/ \E b \in Nat : call = Execute(b)
  \/ call.k = "csi" /\ call.params \in Seq(Nat) /\ call.ignore \in BOOLEAN /\ call.action \in Nat
  \/ \E inter, b : call = Esc(inter, b)

(* A CSI call: ignored, plain, private or a device query.                     *)
LEMMA CsiGood ==
  ASSUME NEW s, ScreenOK(s), NEW call, call.params \in Seq(Nat), call.ignore \in BOOLEAN, call.action \in Nat
  PROVE  Good(s, ApplyCsi(s, call))
<1> DEFINE t == ApplyCsi(s, call)
           params == call.params
           a == call.action
<1>2. \/ t = s \/ t = PrivateMode(s, params, a = F.SM) \/ t = EnqueueReply(s, SecondaryDA)
      \/ t = CsiDispatch(s, params, a)
  BY DEF ApplyCsi
<1> HIDE DEF t
<1>3. Good(s, PrivateMode(s, params, a = F.SM))
  <2>1. (a = F.SM) \in BOOLEAN
    OBVIOUS
  <2> DEFINE set == a = F.SM
  <2> HIDE DEF set
  <2>2. set \in BOOLEAN
    BY DEF set
  <2>3. Good(s, PrivateMode(s, params, set))
    BY <2>2, PrivateModeGood
  <2> QED
    BY <2>3, Zenon DEF set
<1>4. Good(s, t)
  BY <1>2, <1>3, GoodSelf, ReplyGood, CsiDispatchGood
<1> QED
  BY <1>4 DEF t

(* A call of the parser, whichever it is, is Good for the screen.             *)
LEMMA ApplyGood ==
  ASSUME NEW s, ScreenOK(s), NEW call, CallOK(call)
  PROVE  Good(s, Apply(s, call))
<1>1. CASE call = NoCall
  <2>1. Apply(s, call) = s
    BY <1>1 DEF Apply, NoCall
  <2> QED
    BY <2>1, GoodSelf
<1>2. CASE \E c : call = PrintCall(c)
  <2>1. Apply(s, call) = WriteChar(s, call.c)
    BY <1>2 DEF Apply, PrintCall
  <2> QED
    BY <2>1, WriteCharGood
<1>3. CASE \E b \in Nat : call = Execute(b)
  <2>1. Apply(s, call) = ApplyExecute(s, call.b) /\ call.b \in Nat
    BY <1>3 DEF Apply, Execute
  <2> QED
    BY <2>1, ExecuteGood
<1>4. CASE call.k = "csi" /\ call.params \in Seq(Nat) /\ call.ignore \in BOOLEAN /\ call.action \in Nat
  <2>1. Apply(s, call) = ApplyCsi(s, call)
    BY <1>4 DEF Apply
  <2> QED
    BY <1>4, <2>1, CsiGood
<1>5. CASE \E inter, b : call = Esc(inter, b)
  <2>1. call.k = "esc"
    BY <1>5 DEF Esc
  <2>2. Apply(s, call) = ApplyEsc(s, call)
    BY <2>1 DEF Apply
  <2> QED
    BY <2>2, EscGood
<1> QED
  BY <1>1, <1>2, <1>3, <1>4, <1>5 DEF CallOK

-----------------------------------------------------------------------------
(* The parser: its state between two bytes.                                   *)

ParserFields == {"st", "params", "acc", "inter", "ignore", "osc", "utf8", "needed"}
States == {"Ground", "Escape", "EscapeIntermediate", "CsiEntry", "CsiParam", "CsiIntermediate",
           "CsiIgnore", "OscString", "DcsPassthrough", "SosPmApc", "OscEscape", "DcsEscape", "SosEscape"}

(* A parser; bytes of a scalar are kept exactly while more are awaited.      *)
ParserOK(p) ==
  /\ DOMAIN p = ParserFields
  /\ p.st \in States
  /\ p.params \in Seq(Nat) /\ p.acc \in Nat /\ p.ignore \in BOOLEAN
  /\ p.utf8 \in Seq(Nat) /\ p.needed \in Nat
  /\ p.utf8 = <<>> <=> p.needed = 0

(* A new parser is well formed.                                               *)
LEMMA NewParserOK == ParserOK(NewParser)
<1>1. <<>> \in Seq(Nat)
  OBVIOUS
<1> QED
  BY <1>1 DEF ParserOK, NewParser, ParserFields, States

(* Parameters and intermediates dropped.                                      *)
LEMMA ResetOK ==
  ASSUME NEW p, ParserOK(p)
  PROVE  ParserOK(ResetSeq(p))
<1>1. <<>> \in Seq(Nat)
  OBVIOUS
<1> QED
  BY <1>1 DEF ParserOK, ResetSeq, ParserFields

(* A change of state.                                                         *)
LEMMA GotoOK ==
  ASSUME NEW p, ParserOK(p), NEW st \in States
  PROVE  ParserOK(Goto(p, st))
  BY DEF ParserOK, Goto, ParserFields

(* A sequence ignored from here on.                                           *)
LEMMA IgnoreOK ==
  ASSUME NEW p, ParserOK(p)
  PROVE  ParserOK([p EXCEPT !.ignore = TRUE])
  BY DEF ParserOK, ParserFields

(* An intermediate collected, up to the cap.                                  *)
LEMMA PushInterOK ==
  ASSUME NEW p, ParserOK(p), NEW b
  PROVE  ParserOK(PushInter(p, b))
<1>1. \A v : ParserOK([p EXCEPT !.inter = v])
  BY DEF ParserOK, ParserFields
<1> QED
  BY <1>1, IgnoreOK DEF PushInter

(* A digit of a parameter, saturating.                                        *)
LEMMA PushDigitOK ==
  ASSUME NEW p, ParserOK(p), NEW b \in Digit
  PROVE  ParserOK(PushDigit(p, b))
<1> DEFINE acc == p.acc * 10 + (b - 48)
           v == IF acc > U16Max THEN U16Max ELSE acc
<1>1. v \in Nat
  BY DEF ParserOK, Digit, U16Max
<1>2. PushDigit(p, b) = [p EXCEPT !.acc = v]
  BY DEF PushDigit
<1> HIDE DEF v
<1> QED
  BY <1>1, <1>2 DEF ParserOK, ParserFields

(* A parameter ended, up to the cap.                                          *)
LEMMA FinishParamOK ==
  ASSUME NEW p, ParserOK(p)
  PROVE  ParserOK(FinishParam(p))
<1> DEFINE v == Append(p.params, p.acc)
<1>1. v \in Seq(Nat)
  BY AppendProperties DEF ParserOK
<1> HIDE DEF v
<1>2. ParserOK([p EXCEPT !.params = v, !.acc = 0]) /\ ParserOK([p EXCEPT !.ignore = TRUE, !.acc = 0])
  BY <1>1 DEF ParserOK, ParserFields
<1> QED
  BY <1>2 DEF FinishParam, v

(* A byte of an OSC string, up to the cap.                                    *)
LEMMA PushOscOK ==
  ASSUME NEW p, ParserOK(p)
  PROVE  ParserOK(PushOsc(p))
<1>1. \A v : ParserOK([p EXCEPT !.osc = v])
  BY DEF ParserOK, ParserFields
<1> QED
  BY <1>1, IgnoreOK DEF PushOsc

(* The bytes of a UTF-8 sequence kept and dropped.                            *)
LEMMA Utf8OK ==
  ASSUME NEW p, ParserOK(p)
  PROVE  /\ ParserOK(ClearUtf8(p))
         /\ \A lead \in Nat, n \in Nat \ {0} : ParserOK(StartUtf8(p, lead, n))
         /\ p.needed > 0 => \A b \in Nat : ParserOK([p EXCEPT !.utf8 = Append(@, b)])
<1>1. <<>> \in Seq(Nat)
  OBVIOUS
<1>2. ParserOK(ClearUtf8(p))
  BY <1>1 DEF ParserOK, ClearUtf8, ParserFields
<1>3. ASSUME NEW lead \in Nat, NEW n \in Nat \ {0} PROVE ParserOK(StartUtf8(p, lead, n))
  <2> DEFINE u == <<lead>>
  <2>1. u \in Seq(Nat) /\ u # <<>>
    OBVIOUS
  <2>2. StartUtf8(p, lead, n) = [p EXCEPT !.utf8 = u, !.needed = n]
    BY DEF StartUtf8
  <2> HIDE DEF u
  <2> QED
    BY <2>1, <2>2 DEF ParserOK, ParserFields
<1>4. ASSUME p.needed > 0, NEW b \in Nat PROVE ParserOK([p EXCEPT !.utf8 = Append(@, b)])
  <2> DEFINE u == Append(p.utf8, b)
  <2>1. p.utf8 \in Seq(Nat)
    BY DEF ParserOK
  <2>2. u \in Seq(Nat) /\ Len(u) = Len(p.utf8) + 1 /\ Len(p.utf8) \in Nat
    BY <2>1, AppendProperties, LenProperties
  <2>3. u # <<>>
    <3> HIDE DEF u
    <3>1. u = <<>> => Len(u) = 0
      OBVIOUS
    <3>2. Len(u) # 0
      BY <2>2
    <3> QED
      BY <3>1, <3>2
  <2> HIDE DEF u
  <2>4. ParserOK([p EXCEPT !.utf8 = u])
    BY <1>4, <2>2, <2>3 DEF ParserOK, ParserFields
  <2> QED
    BY <2>4 DEF u
<1> QED
  BY <1>2, <1>3, <1>4

StepOK(r) == ParserOK(r.p) /\ CallOK(r.call) /\ r.again \in BOOLEAN

(* A well-formed parser with a well-formed call.                              *)
LEMMA ThenOK ==
  ASSUME NEW p, ParserOK(p), NEW call, CallOK(call)
  PROVE  StepOK(Then(p, call)) /\ StepOK(Reprocess(p, call))
  BY DEF StepOK, Then, Reprocess

(* The calls that carry no parameters.                                        *)
LEMMA CallsOK ==
  /\ CallOK(NoCall) /\ \A c : CallOK(PrintCall(c))
  /\ \A b \in Nat : CallOK(Execute(b))
  /\ \A inter, b : CallOK(Esc(inter, b))
  BY Zenon DEF CallOK

(* The call a final byte of CSI makes has numbers for parameters.             *)
LEMMA CsiCallOK ==
  ASSUME NEW p, ParserOK(p), NEW b \in Nat
  PROVE  CallOK(Csi(p.params, p.inter, p.ignore, b))
<1>1. p.params \in Seq(Nat) /\ p.ignore \in BOOLEAN
  BY DEF ParserOK
<1> DEFINE call == Csi(p.params, p.inter, p.ignore, b)
<1>2. call.k = "csi" /\ call.params = p.params /\ call.ignore = p.ignore /\ call.action = b
  BY DEF Csi
<1> HIDE DEF call
<1>3. CallOK(call)
  BY <1>1, <1>2 DEF CallOK
<1> QED
  BY <1>3 DEF call

-----------------------------------------------------------------------------
(* What each state of the parser does with a byte.                            *)

(* The steps several states share.                                            *)
LEMMA Plain ==
  ASSUME NEW p, ParserOK(p), NEW b \in 0 .. 255
  PROVE  /\ StepOK(Then(p, NoCall)) /\ StepOK(Then(p, Execute(b))) /\ \A c : StepOK(Then(p, PrintCall(c)))
         /\ StepOK(Abandon(p)) /\ StepOK(Restart(p)) /\ StepOK(EscDispatch(p, b)) /\ StepOK(DispatchCsi(p, b))
         /\ \A st \in States : /\ StepOK(Then(Goto(p, st), NoCall)) /\ StepOK(Then(Goto(p, st), Execute(b)))
                               /\ StepOK(Then(Goto(ResetSeq(p), st), NoCall))
                               /\ StepOK(Then(Goto(ResetSeq(p), st), Execute(b)))
                               /\ StepOK(Reprocess(Goto(ResetSeq(p), st), NoCall))
         /\ StepOK(Then(ResetSeq(p), NoCall)) /\ StepOK(Then(ResetSeq(p), Execute(b)))
<1>1. b \in Nat
  OBVIOUS
<1>2. CallOK(NoCall) /\ CallOK(Execute(b)) /\ CallOK(Esc(p.inter, b)) /\ \A c : CallOK(PrintCall(c))
  BY <1>1, CallsOK
<1>3. CallOK(Csi(p.params, p.inter, p.ignore, b))
  BY <1>1, CsiCallOK
<1>4. ParserOK(ResetSeq(p)) /\ \A st \in States : ParserOK(Goto(p, st)) /\ ParserOK(Goto(ResetSeq(p), st))
  BY ResetOK, GotoOK
<1>5. "Ground" \in States /\ "Escape" \in States
  BY DEF States
<1> QED
  BY <1>2, <1>3, <1>4, <1>5, ThenOK DEF Abandon, Restart, EscDispatch, DispatchCsi

(* Ground: printable, control, or the start of a UTF-8 sequence.              *)
LEMMA GroundOK ==
  ASSUME NEW p, ParserOK(p), NEW b \in 0 .. 255
  PROVE  StepOK(Ground(p, b))
<1> DEFINE r == Ground(p, b)
<1>0. p.needed \in Nat /\ b \in Nat
  BY DEF ParserOK
<1>1. CASE p.needed > 0
  <2>1. r = Utf8Continue(p, b)
    BY <1>1 DEF Ground
  <2>2. \/ r = Reprocess(ClearUtf8(p), PrintCall(Replacement))
        \/ r = Then(ClearUtf8(p), PrintCall(DecodeUtf8(Append(p.utf8, b))))
        \/ r = Then([p EXCEPT !.utf8 = Append(@, b)], NoCall)
    BY <2>1 DEF Utf8Continue
  <2>3. ParserOK(ClearUtf8(p)) /\ ParserOK([p EXCEPT !.utf8 = Append(@, b)])
    BY <1>0, <1>1, Utf8OK
  <2> HIDE DEF r
  <2>4. StepOK(r)
    BY <2>2, <2>3, ThenOK, CallsOK
  <2> QED
    BY <2>4 DEF r
<1>2. CASE p.needed = 0
  <2>1. \/ r \in {Then(p, Execute(b)), Then(ResetSeq(p), Execute(b)), Then(Goto(ResetSeq(p), "Escape"), NoCall),
                  Then(p, PrintCall(b)), Then(p, NoCall), Then(p, PrintCall(Replacement))}
        \/ r \in {Then(StartUtf8(p, b, 2), NoCall), Then(StartUtf8(p, b, 3), NoCall),
                  Then(StartUtf8(p, b, 4), NoCall)}
    BY <1>2 DEF Ground, C0, Cancel, ESC
  <2>2. ParserOK(StartUtf8(p, b, 2)) /\ ParserOK(StartUtf8(p, b, 3)) /\ ParserOK(StartUtf8(p, b, 4))
    BY <1>0, Utf8OK
  <2>3. /\ StepOK(Then(StartUtf8(p, b, 2), NoCall)) /\ StepOK(Then(StartUtf8(p, b, 3), NoCall))
        /\ StepOK(Then(StartUtf8(p, b, 4), NoCall))
    BY <2>2, ThenOK, CallsOK
  <2>4. "Escape" \in States
    BY DEF States
  <2> HIDE DEF r
  <2>5. StepOK(r)
    BY <2>1, <2>3, <2>4, Plain
  <2> QED
    BY <2>5 DEF r
<1> QED
  BY <1>0, <1>1, <1>2

(* Escape and EscapeIntermediate.                                             *)
LEMMA EscapesOK ==
  ASSUME NEW p, ParserOK(p), NEW b \in 0 .. 255
  PROVE  StepOK(Escape(p, b)) /\ StepOK(EscapeIntermediate(p, b))
<1>0. /\ "Ground" \in States /\ "EscapeIntermediate" \in States /\ "DcsPassthrough" \in States
      /\ "SosPmApc" \in States /\ "CsiEntry" \in States /\ "OscString" \in States
  BY DEF States
<1>1. StepOK(Then(PushInter(p, b), NoCall)) /\ StepOK(Then(Goto(PushInter(p, b), "EscapeIntermediate"), NoCall))
  BY <1>0, PushInterOK, Plain
<1>2. StepOK(Escape(p, b))
  <2> DEFINE r == Escape(p, b)
  <2>1. r \in {Then(p, Execute(b)), Then(Goto(p, "Ground"), Execute(b)), Then(ResetSeq(p), NoCall),
               Then(Goto(PushInter(p, b), "EscapeIntermediate"), NoCall),
               Then(Goto(ResetSeq(p), "DcsPassthrough"), NoCall), Then(Goto(ResetSeq(p), "SosPmApc"), NoCall),
               Then(Goto(ResetSeq(p), "CsiEntry"), NoCall), Then(Goto(ResetSeq(p), "OscString"), NoCall),
               Then(p, NoCall), EscDispatch(p, b), Abandon(p)}
    BY DEF Escape, C0, Cancel, ESC, Intermediate
  <2> HIDE DEF r
  <2>2. StepOK(r)
    BY <1>0, <1>1, <2>1, Plain
  <2> QED
    BY <2>2 DEF r
<1>3. StepOK(EscapeIntermediate(p, b))
  <2> DEFINE r == EscapeIntermediate(p, b)
  <2>1. r \in {Then(p, Execute(b)), Then(Goto(p, "Ground"), Execute(b)), Restart(p),
               Then(PushInter(p, b), NoCall), EscDispatch(p, b), Abandon(p)}
    BY DEF EscapeIntermediate, C0, Cancel, ESC, Intermediate
  <2> HIDE DEF r
  <2>2. StepOK(r)
    BY <1>0, <1>1, <2>1, Plain
  <2> QED
    BY <2>2 DEF r
<1> QED
  BY <1>2, <1>3

(* The states of a CSI sequence.                                              *)
LEMMA CsisOK ==
  ASSUME NEW p, ParserOK(p), NEW b \in 0 .. 255
  PROVE  /\ b \in C0 \cup Cancel \cup {ESC} => StepOK(CsiControl(p, b))
         /\ StepOK(CsiEntry(p, b)) /\ StepOK(CsiParam(p, b))
         /\ StepOK(CsiIntermediate(p, b)) /\ StepOK(CsiIgnore(p, b))
<1>0. /\ "Ground" \in States /\ "CsiIntermediate" \in States /\ "CsiParam" \in States
      /\ "CsiIgnore" \in States
  BY DEF States
<1> DEFINE q == FinishParam(p)
           i == [p EXCEPT !.ignore = TRUE]
<1>1. ParserOK(q) /\ ParserOK(i) /\ ParserOK(PushInter(p, b)) /\ ParserOK(PushInter(q, b))
      /\ (b \in Digit => ParserOK(PushDigit(p, b)))
  BY FinishParamOK, IgnoreOK, PushInterOK, PushDigitOK
<1>2. /\ StepOK(Then(Goto(PushInter(p, b), "CsiIntermediate"), NoCall))
      /\ StepOK(Then(Goto(PushInter(q, b), "CsiIntermediate"), NoCall))
      /\ StepOK(Then(PushInter(p, b), NoCall)) /\ StepOK(Then(q, NoCall))
      /\ StepOK(Then(Goto(q, "CsiParam"), NoCall)) /\ StepOK(Then(Goto(PushInter(p, b), "CsiParam"), NoCall))
      /\ StepOK(Then(Goto(i, "CsiParam"), NoCall)) /\ StepOK(Then(i, NoCall)) /\ StepOK(DispatchCsi(q, b))
      /\ StepOK(Then(Goto(i, "CsiIgnore"), NoCall)) /\ StepOK(Then(Goto(p, "CsiIgnore"), NoCall))
      /\ StepOK(Then(Goto(p, "Ground"), Execute(b)))
  BY <1>0, <1>1, Plain
<1>3. b \in Digit => StepOK(Then(PushDigit(p, b), NoCall)) /\ StepOK(Then(Goto(PushDigit(p, b), "CsiParam"), NoCall))
  BY <1>0, <1>1, Plain
<1>4. ASSUME b \in C0 \cup Cancel \cup {ESC} PROVE StepOK(CsiControl(p, b))
  <2> DEFINE r == CsiControl(p, b)
  <2>1. r \in {Then(p, Execute(b)), Then(Goto(p, "Ground"), Execute(b)), Restart(p)}
    BY <1>4 DEF CsiControl, C0, Cancel, ESC
  <2> HIDE DEF r
  <2>2. StepOK(r)
    BY <1>2, <2>1, Plain
  <2> QED
    BY <2>2 DEF r
<1>5. StepOK(CsiEntry(p, b))
  <2> DEFINE r == CsiEntry(p, b)
  <2>1. \/ b \in Digit /\ r = Then(Goto(PushDigit(p, b), "CsiParam"), NoCall)
        \/ r \in {Then(Goto(PushInter(p, b), "CsiIntermediate"), NoCall), Then(Goto(q, "CsiParam"), NoCall),
                  Then(Goto(PushInter(p, b), "CsiParam"), NoCall), DispatchCsi(p, b), Then(p, NoCall),
                  Then(Goto(i, "CsiParam"), NoCall)}
    BY DEF CsiEntry, Intermediate, Digit, Separator, Marker, FinalByte
  <2> HIDE DEF r, q, i
  <2>2. StepOK(r)
    BY <1>2, <1>3, <2>1, Plain
  <2> QED
    BY <2>2 DEF r
<1>6. StepOK(CsiParam(p, b))
  <2> DEFINE r == CsiParam(p, b)
  <2>1. \/ b \in Digit /\ r = Then(PushDigit(p, b), NoCall)
        \/ r \in {Then(Goto(PushInter(q, b), "CsiIntermediate"), NoCall), Then(q, NoCall),
                  Then(Goto(p, "CsiIgnore"), NoCall), DispatchCsi(q, b), Then(p, NoCall), Then(i, NoCall)}
    BY DEF CsiParam, Intermediate, Digit, Separator, Marker, FinalByte
  <2> HIDE DEF r, q, i
  <2>2. StepOK(r)
    BY <1>2, <1>3, <2>1, Plain
  <2> QED
    BY <2>2 DEF r
<1>7. StepOK(CsiIntermediate(p, b))
  <2> DEFINE r == CsiIntermediate(p, b)
  <2>1. r \in {Then(PushInter(p, b), NoCall), Then(Goto(p, "CsiIgnore"), NoCall), DispatchCsi(p, b),
               Then(Goto(i, "CsiIgnore"), NoCall)}
    BY DEF CsiIntermediate, Intermediate, FinalByte
  <2> HIDE DEF r, q, i
  <2>2. StepOK(r)
    BY <1>2, <2>1, Plain
  <2> QED
    BY <2>2 DEF r
<1>8. StepOK(CsiIgnore(p, b))
  BY Plain DEF CsiIgnore
<1> QED
  BY <1>4, <1>5, <1>6, <1>7, <1>8

(* OSC, DCS and the strings that are ignored.                                 *)
LEMMA StringsOK ==
  ASSUME NEW p, ParserOK(p), NEW b \in 0 .. 255
  PROVE  /\ StepOK(OscString(p, b)) /\ StepOK(DcsPassthrough(p, b)) /\ StepOK(Sos(p, b))
         /\ StepOK(StringEscape(p, b))
<1>0. /\ "Ground" \in States /\ "OscEscape" \in States /\ "DcsEscape" \in States /\ "SosEscape" \in States
      /\ "Escape" \in States
  BY DEF States
<1>1. StepOK(OscString(p, b))
  <2> DEFINE r == OscString(p, b)
  <2>1. r \in {Abandon(p), Then(Goto(p, "OscEscape"), NoCall), Then(Goto(ResetSeq(p), "Ground"), Execute(b)),
               Then(PushOsc(p), NoCall)}
    BY DEF OscString, BEL, ESC, Cancel
  <2>2. StepOK(Then(PushOsc(p), NoCall))
    BY PushOscOK, Plain
  <2> HIDE DEF r
  <2>3. StepOK(r)
    BY <1>0, <2>1, <2>2, Plain
  <2> QED
    BY <2>3 DEF r
<1>2. StepOK(DcsPassthrough(p, b))
  <2> DEFINE r == DcsPassthrough(p, b)
  <2>1. r \in {Then(Goto(p, "DcsEscape"), NoCall), Then(Goto(ResetSeq(p), "Ground"), Execute(b)), Then(p, NoCall)}
    BY DEF DcsPassthrough, ESC, Cancel
  <2> HIDE DEF r
  <2>2. StepOK(r)
    BY <1>0, <2>1, Plain
  <2> QED
    BY <2>2 DEF r
<1>3. StepOK(Sos(p, b))
  <2> DEFINE r == Sos(p, b)
  <2>1. r \in {Then(Goto(p, "SosEscape"), NoCall), Abandon(p), Then(p, NoCall)}
    BY DEF Sos, ESC, Cancel
  <2> HIDE DEF r
  <2>2. StepOK(r)
    BY <1>0, <2>1, Plain
  <2> QED
    BY <2>2 DEF r
<1>4. StepOK(StringEscape(p, b))
  BY <1>0, Plain DEF StringEscape
<1> QED
  BY <1>1, <1>2, <1>3, <1>4

(* One byte, in whatever state: a well-formed parser and well-formed calls.   *)
LEMMA StepTyped ==
  ASSUME NEW p, ParserOK(p), NEW b \in 0 .. 255
  PROVE  StepOK(Step(p, b))
<1> DEFINE r == Step(p, b)
<1>1. p.st \in States
  BY DEF ParserOK
<1>2. \/ r = CsiControl(p, b) /\ b \in C0 \cup Cancel \cup {ESC}
      \/ r \in {Ground(p, b), Escape(p, b), EscapeIntermediate(p, b), CsiEntry(p, b), CsiParam(p, b),
                CsiIntermediate(p, b), CsiIgnore(p, b), OscString(p, b), DcsPassthrough(p, b), Sos(p, b),
                StringEscape(p, b)}
  BY <1>1 DEF Step, States, CsiStates
<1> HIDE DEF r
<1>3. StepOK(r)
  BY <1>2, GroundOK, EscapesOK, CsisOK, StringsOK, SMTT(30)
<1> QED
  BY <1>3 DEF r

-----------------------------------------------------------------------------
(* A byte, a chunk, and what the owner of the engine does to it.              *)

EngineOK(e) == DOMAIN e = {"p", "s"} /\ ParserOK(e.p) /\ ScreenOK(e.s)

(* The calls of one step of the parser, on the screen.                        *)
LEMMA FeedOnceGood ==
  ASSUME NEW e, ParserOK(e.p), ScreenOK(e.s), NEW b \in 0 .. 255
  PROVE  /\ ParserOK(FeedOnce(e, b).p) /\ Good(e.s, FeedOnce(e, b).s)
         /\ FeedOnce(e, b).again \in BOOLEAN
<1> DEFINE r == Step(e.p, b)
<1>1. StepOK(r)
  BY StepTyped
<1> HIDE DEF r
<1>2. FeedOnce(e, b) = [p |-> r.p, s |-> Apply(e.s, r.call), again |-> r.again]
  BY DEF FeedOnce, Took, r
<1>3. Good(e.s, Apply(e.s, r.call))
  BY <1>1, ApplyGood DEF StepOK
<1> QED
  BY <1>1, <1>2, <1>3 DEF StepOK

(* A byte, stepped once more when the parser puts it back.                    *)
LEMMA FeedByteGood ==
  ASSUME NEW e, EngineOK(e), NEW b \in 0 .. 255
  PROVE  EngineOK(FeedByte(e, b)) /\ Good(e.s, FeedByte(e, b).s)
<1> DEFINE f == FeedOnce(e, b)
           h == FeedOnce(f, b)
<1>1. ParserOK(f.p) /\ Good(e.s, f.s) /\ f.again \in BOOLEAN
  BY FeedOnceGood DEF EngineOK
<1> HIDE DEF f
<1>2. ParserOK(h.p) /\ Good(f.s, h.s)
  BY <1>1, FeedOnceGood DEF Good
<1>3. FeedByte(e, b) = IF f.again THEN Engine(h) ELSE Engine(f)
  BY DEF FeedByte, PutBack, f
<1> HIDE DEF h
<1>4. Good(e.s, h.s)
  BY <1>1, <1>2, GoodTrans
<1>5. \A x : DOMAIN Engine(x) = {"p", "s"} /\ Engine(x).p = x.p /\ Engine(x).s = x.s
  BY DEF Engine
<1> QED
  BY <1>1, <1>2, <1>3, <1>4, <1>5 DEF EngineOK, Good

(* A chunk of output, of any length.                                          *)
LEMMA FeedGood ==
  ASSUME NEW e, EngineOK(e), NEW bytes \in Seq(0 .. 255)
  PROVE  EngineOK(Feed(e, bytes)) /\ Good(e.s, Feed(e, bytes).s)
<1>1. Len(bytes) \in Nat /\ \A i \in 1 .. Len(bytes) : bytes[i] \in 0 .. 255
  BY LenProperties, ElementOfSeq
<1>2. PICK k : FedByBy(k, e, bytes)
  BY <1>1, FedBySteps
<1> DEFINE n == Len(bytes)
<1>3. /\ Feed(e, bytes) = k[n] /\ k[0] = e
      /\ \A i \in 1 .. n : k[i] = FeedByte(k[i - 1], bytes[i])
  BY <1>2 DEF FedByBy
<1>4. n \in Nat /\ \A i \in 1 .. n : bytes[i] \in 0 .. 255
  BY <1>1
<1> HIDE DEF n
<1> DEFINE P == {i \in 0 .. n : EngineOK(k[i]) /\ Good(e.s, k[i].s)}
<1>5. 0 \in P
  BY <1>3, <1>4, GoodSelf DEF EngineOK
<1>6. ASSUME NEW i \in 0 .. n - 1, i \in P PROVE i + 1 \in P
  <2>1. i + 1 \in 1 .. n /\ i + 1 \in 0 .. n /\ (i + 1) - 1 = i /\ bytes[i + 1] \in 0 .. 255
    BY <1>4
  <2>2. k[i + 1] = FeedByte(k[i], bytes[i + 1])
    BY <1>3, <2>1
  <2>3. EngineOK(k[i]) /\ Good(e.s, k[i].s)
    BY <1>6
  <2>4. EngineOK(k[i + 1]) /\ Good(k[i].s, k[i + 1].s)
    BY <2>1, <2>2, <2>3, FeedByteGood
  <2> QED
    BY <2>1, <2>3, <2>4, GoodTrans
<1> HIDE DEF P
<1>7. \A i \in 0 .. n : i \in P
  BY <1>4, <1>5, <1>6, Induct
<1>8. n \in P
  BY <1>4, <1>7
<1> QED
  BY <1>3, <1>8 DEF P

-----------------------------------------------------------------------------
(* What the owner of the engine does to it. *)

(* A new engine is well formed, with nothing scrolled off or replied.         *)
LEMMA NewEngineOK ==
  ASSUME NEW cols \in Nat \ {0}, NEW rows \in Nat \ {0}
  PROVE  /\ EngineOK(NewEngine(cols, rows)) /\ WrapOK(NewEngine(cols, rows).s)
         /\ NewEngine(cols, rows).s.off = <<>> /\ NewEngine(cols, rows).s.replies = <<>>
<1> DEFINE s == NewScreen(cols, rows)
           e == NewEngine(cols, rows)
<1>1. e.s = s /\ e.p = NewParser /\ DOMAIN e = {"p", "s"}
  BY DEF NewEngine
<1>2. /\ DOMAIN s = ScreenFields /\ s.cols = cols /\ s.rows = rows /\ s.cx = 0 /\ s.cy = 0
      /\ s.grid = BlankGrid(cols, rows, Default) /\ s.inAlt = FALSE /\ s.savedGrid = NoGrid
      /\ s.saved = NoCursor /\ s.alt = NoCursor /\ s.cluster = NoCluster /\ s.pending = FALSE
      /\ s.top = 0 /\ s.bot = rows - 1 /\ s.full = TRUE /\ s.d0 = 0 /\ s.d1 = 0 /\ s.off = <<>>
      /\ s.replies = <<>>
  BY DEF NewScreen, ScreenFields
<1> HIDE DEF s
<1>3. GridOf(s, s.grid)
  <2>1. \A cell : DOMAIN Row(cols, cell) = 0 .. cols - 1
    BY RowTyped
  <2> QED
    BY <1>2, <2>1 DEF GridOf, BlankGrid
<1>4. IsSeq(s.off)
  <2>1. <<>> \in Seq({})
    OBVIOUS
  <2> QED
    BY <1>2, <2>1, AnySeq
<1>5. ScreenOK(s)
  <2>1. s.full \in BOOLEAN /\ s.inAlt \in BOOLEAN /\ ~ s.inAlt
    BY <1>2, Zenon
  <2> QED
    BY <1>2, <1>3, <1>4, <2>1 DEF ScreenOK, SavedOn, OpenOn
<1>6. WrapOK(s)
  BY <1>2 DEF WrapOK, WrapAt
<1> QED
  BY <1>1, <1>2, <1>5, <1>6, NewParserOK DEF EngineOK

(* Only damage, replies and rows scrolled off are written. *)
LEMMA KeptBy ==
  ASSUME NEW s, ScreenOK(s), NEW t, DOMAIN t = ScreenFields,
         \A f \in ScreenFields \ {"full", "d0", "d1", "replies", "off"} : t[f] = s[f],
         t.full \in BOOLEAN, t.d0 \in Int, t.d1 \in Int, IsSeq(t.off)
  PROVE  /\ ScreenOK(t) /\ t.cols = s.cols /\ t.rows = s.rows /\ t.grid = s.grid
         /\ t.visible = s.visible /\ t.cx = s.cx /\ t.cy = s.cy
         /\ WrapOK(s) => WrapOK(t)
<1>1. /\ t.cols = s.cols /\ t.rows = s.rows /\ t.grid = s.grid /\ t.cx = s.cx /\ t.cy = s.cy
      /\ t.inAlt = s.inAlt /\ t.savedGrid = s.savedGrid /\ t.saved = s.saved /\ t.alt = s.alt
      /\ t.cluster = s.cluster /\ t.top = s.top /\ t.bot = s.bot /\ t.pending = s.pending
      /\ t.visible = s.visible
  BY DEF ScreenFields
<1>2. ScreenOK(t)
  BY <1>1 DEF ScreenOK, GridOf, SavedOn, OpenOn
<1>3. WrapOK(s) => WrapOK(t)
  BY <1>1 DEF WrapOK, WrapAt, LastCol
<1> QED
  BY <1>1, <1>2, <1>3

(* The empty sequence is a sequence.                                          *)
LEMMA EmptyIsSeq == IsSeq(<<>>)
<1>1. <<>> \in Seq({})
  OBVIOUS
<1> QED
  BY <1>1, AnySeq

(* The rows scrolled off and the replies are taken, as Client::pump does.     *)
LEMMA TakenKept ==
  ASSUME NEW s, ScreenOK(s)
  PROVE  LET t == RepliesTaken(Drained(s))
         IN  /\ ScreenOK(t) /\ t.cols = s.cols /\ t.rows = s.rows /\ t.grid = s.grid
             /\ t.full = s.full /\ t.d0 = s.d0 /\ t.d1 = s.d1
             /\ t.off = <<>> /\ t.replies = <<>>
             /\ WrapOK(s) => WrapOK(t)
<1> DEFINE t == RepliesTaken(Drained(s))
<1>1. /\ DOMAIN t = ScreenFields /\ t.off = <<>> /\ t.replies = <<>>
      /\ t.full = s.full /\ t.d0 = s.d0 /\ t.d1 = s.d1
      /\ \A f \in ScreenFields \ {"replies", "off"} : t[f] = s[f]
  BY DEF ScreenFields, ScreenOK, RepliesTaken, Drained
<1> HIDE DEF t
<1>2. t.full \in BOOLEAN /\ t.d0 \in Int /\ t.d1 \in Int /\ IsSeq(t.off)
  BY <1>1, EmptyIsSeq DEF ScreenOK
<1>3. /\ ScreenOK(t) /\ t.cols = s.cols /\ t.rows = s.rows /\ t.grid = s.grid
      /\ WrapOK(s) => WrapOK(t)
  BY <1>1, <1>2, KeptBy
<1>4. /\ ScreenOK(t) /\ t.cols = s.cols /\ t.rows = s.rows /\ t.grid = s.grid
      /\ t.full = s.full /\ t.d0 = s.d0 /\ t.d1 = s.d1
      /\ t.off = <<>> /\ t.replies = <<>>
      /\ WrapOK(s) => WrapOK(t)
  BY <1>1, <1>3
<1> QED
  BY <1>4 DEF t

(* A view is extracted: the damage is cleared, the rows scrolled off taken.   *)
LEMMA SnapKept ==
  ASSUME NEW s, ScreenOK(s)
  PROVE  LET t == Snapshotted(Drained(s))
         IN  /\ ScreenOK(t) /\ t.cols = s.cols /\ t.rows = s.rows /\ t.grid = s.grid
             /\ t.full = FALSE /\ t.d0 = 1 /\ t.d1 = 0
             /\ t.off = <<>> /\ t.replies = s.replies
             /\ WrapOK(s) => WrapOK(t)
<1> DEFINE t == Snapshotted(Drained(s))
<1>1. /\ DOMAIN t = ScreenFields /\ t.off = <<>> /\ t.replies = s.replies
      /\ t.full = FALSE /\ t.d0 = 1 /\ t.d1 = 0
      /\ \A f \in ScreenFields \ {"full", "d0", "d1", "off"} : t[f] = s[f]
  BY DEF ScreenFields, ScreenOK, Snapshotted, Drained
<1> HIDE DEF t
<1>2. t.full \in BOOLEAN /\ t.d0 \in Int /\ t.d1 \in Int /\ IsSeq(t.off)
  <2>1. t.full \in BOOLEAN
    BY <1>1, Zenon
  <2> QED
    BY <1>1, <2>1, EmptyIsSeq
<1>3. /\ ScreenOK(t) /\ t.cols = s.cols /\ t.rows = s.rows /\ t.grid = s.grid
      /\ WrapOK(s) => WrapOK(t)
  BY <1>1, <1>2, KeptBy
<1>4. /\ ScreenOK(t) /\ t.cols = s.cols /\ t.rows = s.rows /\ t.grid = s.grid
      /\ t.full = FALSE /\ t.d0 = 1 /\ t.d1 = 0
      /\ t.off = <<>> /\ t.replies = s.replies
      /\ WrapOK(s) => WrapOK(t)
  BY <1>1, <1>3
<1> QED
  BY <1>4 DEF t

-----------------------------------------------------------------------------
(* A resize.                                                                  *)

(* A resize leaves a well-formed screen of the new size.  A wrap stays at     *)
(* the margin unless one was saved and the grid is widened under it.          *)
LEMMA ResizeOK ==
  ASSUME NEW s, ScreenOK(s), NEW cols \in Nat \ {0}, NEW rows \in Nat \ {0}
  PROVE  LET t == ResizeScreen(s, cols, rows)
         IN  /\ ScreenOK(t) /\ t.cols = cols /\ t.rows = rows /\ t.full = TRUE
             /\ t.off = s.off /\ t.replies = s.replies
             /\ \/ cols > s.cols /\ \E c \in {s.saved, s.alt} : c # NoCursor /\ c.pending
                \/ WrapOK(s) => WrapOK(t)
<1> DEFINE clamp(c) == IF c = NoCursor THEN c
                       ELSE [c EXCEPT !.col = Least(@, cols - 1), !.row = Least(@, rows - 1)]
           t == ResizeScreen(s, cols, rows)
           g == ResizeCells(s.grid, cols, rows)
           k == IF s.savedGrid = NoGrid THEN s.savedGrid ELSE ResizeCells(s.savedGrid, cols, rows)
           x == Least(s.cx, cols - 1)
           y == Least(s.cy, rows - 1)
           a == clamp(s.saved)
           b == clamp(s.alt)
<1>1. t = [s EXCEPT !.cols = cols, !.rows = rows, !.grid = g, !.savedGrid = k, !.cx = x, !.cy = y,
                    !.top = 0, !.bot = rows - 1, !.pending = FALSE, !.full = TRUE,
                    !.saved = a, !.alt = b, !.cluster = NoCluster]
  BY DEF ResizeScreen
<1>2. x \in 0 .. cols - 1 /\ y \in 0 .. rows - 1
  BY DEF Least, ScreenOK
<1>3. \A h : /\ DOMAIN ResizeCells(h, cols, rows) = 0 .. rows - 1
             /\ \A r \in 0 .. rows - 1 : DOMAIN ResizeCells(h, cols, rows)[r] = 0 .. cols - 1
             /\ ResizeCells(h, cols, rows) # NoGrid
  <2> TAKE h
  <2> DEFINE z == ResizeCells(h, cols, rows)
  <2>1. DOMAIN z = 0 .. rows - 1 /\ \A r \in 0 .. rows - 1 : DOMAIN z[r] = 0 .. cols - 1
    BY DEF ResizeCells
  <2> HIDE DEF z
  <2>2. 0 \in DOMAIN z /\ DOMAIN NoGrid = {}
    BY <2>1 DEF NoGrid
  <2>3. z # NoGrid
    BY <2>2
  <2> QED
    BY <2>1, <2>3 DEF z
<1>4. ASSUME NEW c, SavedOn(s, c)
      PROVE  \/ c = NoCursor /\ clamp(c) = NoCursor
             \/ /\ c # NoCursor /\ clamp(c) # NoCursor
                /\ DOMAIN clamp(c) = {"col", "row", "pending", "pen"}
                /\ clamp(c).col = Least(c.col, cols - 1) /\ clamp(c).row = Least(c.row, rows - 1)
                /\ clamp(c).pending = c.pending
                /\ c.col \in 0 .. s.cols - 1 /\ c.row \in 0 .. s.rows - 1
  <2>1. CASE c = NoCursor
    BY <2>1
  <2>2. CASE c # NoCursor
    <3>1. /\ DOMAIN c = {"col", "row", "pending", "pen"}
          /\ c.col \in 0 .. s.cols - 1 /\ c.row \in 0 .. s.rows - 1
      BY <1>4, <2>2 DEF SavedOn
    <3> DEFINE z == clamp(c)
    <3>2. /\ DOMAIN z = {"col", "row", "pending", "pen"}
          /\ z.col = Least(c.col, cols - 1) /\ z.row = Least(c.row, rows - 1)
          /\ z.pending = c.pending
      BY <2>2, <3>1
    <3> HIDE DEF z
    <3>3. DOMAIN NoCursor = {"none"}
      BY DEF NoCursor
    <3>4. z # NoCursor
      BY <3>2, <3>3
    <3> QED
      BY <2>2, <3>1, <3>2, <3>4 DEF z
  <2> QED
    BY <2>1, <2>2
<1>5. SavedOn(s, s.saved) /\ SavedOn(s, s.alt) /\ s.cols \in Nat /\ s.rows \in Nat
  BY DEF ScreenOK
<1>6. /\ \/ s.saved = NoCursor /\ a = NoCursor
         \/ /\ s.saved # NoCursor /\ a # NoCursor /\ DOMAIN a = {"col", "row", "pending", "pen"}
            /\ a.col = Least(s.saved.col, cols - 1) /\ a.row = Least(s.saved.row, rows - 1)
            /\ a.pending = s.saved.pending
            /\ s.saved.col \in 0 .. s.cols - 1 /\ s.saved.row \in 0 .. s.rows - 1
      /\ \/ s.alt = NoCursor /\ b = NoCursor
         \/ /\ s.alt # NoCursor /\ b # NoCursor /\ DOMAIN b = {"col", "row", "pending", "pen"}
            /\ b.col = Least(s.alt.col, cols - 1) /\ b.row = Least(s.alt.row, rows - 1)
            /\ b.pending = s.alt.pending
            /\ s.alt.col \in 0 .. s.cols - 1 /\ s.alt.row \in 0 .. s.rows - 1
  BY <1>4, <1>5
<1>7. DOMAIN g = 0 .. rows - 1 /\ \A r \in 0 .. rows - 1 : DOMAIN g[r] = 0 .. cols - 1
  BY <1>3
<1>8. /\ s.inAlt <=> k # NoGrid
      /\ s.inAlt => DOMAIN k = 0 .. rows - 1 /\ \A r \in 0 .. rows - 1 : DOMAIN k[r] = 0 .. cols - 1
  BY <1>3 DEF ScreenOK
<1> HIDE DEF g, k, x, y, a, b
<1>9. /\ DOMAIN t = ScreenFields /\ t.cols = cols /\ t.rows = rows /\ t.grid = g /\ t.savedGrid = k
      /\ t.cx = x /\ t.cy = y /\ t.top = 0 /\ t.bot = rows - 1 /\ t.pending = FALSE /\ t.full = TRUE
      /\ t.saved = a /\ t.alt = b /\ t.cluster = NoCluster
  <2>1. DOMAIN s = ScreenFields
    BY DEF ScreenOK
  <2> HIDE DEF t
  <2>2. DOMAIN t = ScreenFields
    BY <1>1, <2>1
  <2>3. t.cols = cols /\ t.rows = rows /\ t.grid = g /\ t.savedGrid = k
    BY <1>1, <2>1 DEF ScreenFields
  <2>4. t.cx = x /\ t.cy = y /\ t.top = 0 /\ t.bot = rows - 1
    BY <1>1, <2>1 DEF ScreenFields
  <2>5. t.pending = FALSE /\ t.full = TRUE
    BY <1>1, <2>1 DEF ScreenFields
  <2>6. t.saved = a /\ t.alt = b /\ t.cluster = NoCluster
    BY <1>1, <2>1 DEF ScreenFields
  <2> QED
    BY <2>2, <2>3, <2>4, <2>5, <2>6
<1>10. t.inAlt = s.inAlt /\ t.off = s.off /\ t.replies = s.replies /\ t.d0 = s.d0 /\ t.d1 = s.d1
  <2>1. DOMAIN s = ScreenFields
    BY DEF ScreenOK
  <2> HIDE DEF t
  <2> QED
    BY <1>1, <2>1 DEF ScreenFields
<1> HIDE DEF t
<1>11. SavedOn(t, a) /\ SavedOn(t, b)
  BY <1>5, <1>6, <1>9 DEF SavedOn, Least
<1>12. ScreenOK(t)
  <2>1. t.full \in BOOLEAN /\ OpenOn(t, t.cluster)
    BY <1>9, Zenon DEF OpenOn
  <2>2. GridOf(t, t.grid) /\ (t.inAlt => GridOf(t, t.savedGrid)) /\ (t.inAlt <=> t.savedGrid # NoGrid)
    BY <1>7, <1>8, <1>9, <1>10 DEF GridOf
  <2>3. t.inAlt \in BOOLEAN /\ t.d0 \in Int /\ t.d1 \in Int /\ IsSeq(t.off)
    BY <1>10 DEF ScreenOK
  <2> QED
    BY <1>2, <1>9, <1>11, <2>1, <2>2, <2>3 DEF ScreenOK
<1>13. ASSUME ~ (cols > s.cols /\ \E c \in {s.saved, s.alt} : c # NoCursor /\ c.pending), WrapOK(s)
       PROVE  WrapOK(t)
  <2>1. WrapAt(t, a) /\ WrapAt(t, b)
    BY <1>5, <1>6, <1>9, <1>13 DEF WrapOK, WrapAt, LastCol, Least
  <2> QED
    BY <1>9, <2>1 DEF WrapOK
<1>14. /\ ScreenOK(t) /\ t.cols = cols /\ t.rows = rows /\ t.full = TRUE
       /\ t.off = s.off /\ t.replies = s.replies
       /\ \/ cols > s.cols /\ \E c \in {s.saved, s.alt} : c # NoCursor /\ c.pending
          \/ WrapOK(s) => WrapOK(t)
  BY <1>9, <1>10, <1>12, <1>13
<1> QED
  BY <1>14 DEF t

-----------------------------------------------------------------------------
(* The window: the first inductive invariant and its theorems.                *)

(* ingest_scrolled: the history grows up to its cap.                          *)
LEMMA IngestLen ==
  ASSUME NEW h, IsSeq(h), NEW r, IsSeq(r)
  PROVE  /\ IsSeq(IngestScrolled(h, r))
         /\ Len(IngestScrolled(h, r)) = Least(Len(h) + Len(r), MaxHistory)
         /\ Len(h) \in Nat /\ Len(r) \in Nat
<1> DEFINE all == h \o r
           n == Len(all)
           m == SatSub(n, MaxHistory) + 1
           S == {all[i] : i \in DOMAIN all}
<1>1. IsSeq(all) /\ n = Len(h) + Len(r) /\ Len(h) \in Nat /\ Len(r) \in Nat
  BY SeqJoined
<1> HIDE DEF all
<1>2. n \in Nat /\ DOMAIN all = 1 .. n
  BY <1>1, LenProperties DEF IsSeq
<1>3. MaxHistory \in Nat
  BY TerminalAssumption
<1>4. m \in Int /\ m >= 1
  BY <1>2, <1>3 DEF SatSub, Greatest
<1>5. \A i \in m .. n : all[i] \in S
  BY <1>2, <1>4
<1> HIDE DEF S, m
<1>6. SubSeq(all, m, n) \in Seq(S) /\ Len(SubSeq(all, m, n)) = IF m <= n THEN n - m + 1 ELSE 0
  BY <1>2, <1>4, <1>5, SubSeqProperties
<1>7. IngestScrolled(h, r) = SubSeq(all, m, n)
  BY DEF IngestScrolled, all, m
<1>8. (IF m <= n THEN n - m + 1 ELSE 0) = Least(n, MaxHistory)
  BY <1>2, <1>3 DEF m, SatSub, Greatest, Least
<1>9. IsSeq(SubSeq(all, m, n))
  BY <1>6, AnySeq
<1> QED
  BY <1>1, <1>6, <1>7, <1>8, <1>9

(* The rows scrolled off, as the client gets them.                            *)
LEMMA ScrolledTyped ==
  ASSUME NEW s, IsSeq(s.off)
  PROVE  IsSeq(ScrolledOff(s)) /\ Len(ScrolledOff(s)) = Len(s.off)
<1> DEFINE n == Len(s.off)
           q == ScrolledOff(s)
<1>1. n \in Nat /\ DOMAIN s.off = 1 .. n
  BY LenProperties DEF IsSeq
<1> HIDE DEF n
<1>2. q = [i \in 1 .. n |-> q[i]]
  BY <1>1 DEF ScrolledOff
<1> HIDE DEF q
<1>3. IsSeq(q) /\ Len(q) = n
  BY <1>1, <1>2, SeqMade
<1> QED
  BY <1>3 DEF q, n

ClientFields == {"history", "offset", "jumped", "cached", "modes"}

(* The inductive invariant behind TypeOK and PendingAtMargin. *)
TermInv ==
  /\ EngineOK(engine) /\ engine.s.off = <<>> /\ engine.s.replies = <<>>
  /\ DOMAIN client = ClientFields
  /\ IsSeq(client.history) /\ Len(client.history) <= MaxHistory
  /\ client.offset \in Nat /\ client.offset <= Len(client.history)
  /\ widened \/ WrapOK(engine.s)

(* The window as it connects.                                                 *)
LEMMA InitTerm == Init => TermInv
<1> SUFFICES ASSUME Init PROVE TermInv
  OBVIOUS
<1>1. Cols \in Nat \ {0} /\ Rows \in Nat \ {0} /\ MaxHistory \in Nat
  BY TerminalAssumption
<1>2. EngineOK(engine) /\ engine.s.off = <<>> /\ engine.s.replies = <<>> /\ WrapOK(engine.s)
  BY <1>1, NewEngineOK DEF Init
<1>3. /\ DOMAIN client = ClientFields /\ client.history = <<>> /\ client.offset = 0
  BY DEF Init, ClientFields
<1>4. Len(client.history) = 0 /\ IsSeq(client.history)
  BY <1>3, EmptyIsSeq
<1> QED
  BY <1>1, <1>2, <1>3, <1>4 DEF TermInv

(* A view is extracted: nothing is scrolled off in between, so the history    *)
(* and the offset stay.                                                       *)
LEMMA SnapTerm ==
  ASSUME TermInv, TakeSnapshot, widened' = widened
  PROVE  /\ TermInv' /\ engine'.p = engine.p
         /\ engine'.s = Snapshotted(Drained(engine.s))
         /\ Len(client'.history) = Len(client.history) /\ client'.offset = client.offset
<1> DEFINE s == engine.s
           t == Snapshotted(Drained(s))
           h == IngestScrolled(client.history, ScrolledOff(s))
<1>1. ScreenOK(s) /\ s.off = <<>> /\ s.replies = <<>> /\ IsSeq(client.history)
  BY DEF TermInv, EngineOK
<1>2. /\ ScreenOK(t) /\ t.off = <<>> /\ t.replies = <<>> /\ (WrapOK(s) => WrapOK(t))
  BY <1>1, SnapKept
<1>3. IsSeq(ScrolledOff(s)) /\ Len(ScrolledOff(s)) = 0
  <2>1. IsSeq(s.off) /\ Len(s.off) = 0
    BY <1>1, EmptyIsSeq
  <2> QED
    BY <2>1, ScrolledTyped
<1>4. IsSeq(h) /\ Len(h) = Len(client.history)
  <2>1. IsSeq(h) /\ Len(h) = Least(Len(client.history) + 0, MaxHistory) /\ Len(client.history) \in Nat
    BY <1>1, <1>3, IngestLen
  <2>2. Len(client.history) <= MaxHistory /\ MaxHistory \in Nat
    BY TerminalAssumption DEF TermInv
  <2> HIDE DEF h
  <2> QED
    BY <2>1, <2>2 DEF Least
<1>5. engine' = [engine EXCEPT !.s = t]
  BY DEF TakeSnapshot
<1>6. /\ DOMAIN client' = ClientFields /\ client'.history = h /\ client'.offset = client.offset
  BY DEF TakeSnapshot, TermInv, ClientFields
<1> HIDE DEF t, h
<1>7. DOMAIN engine' = {"p", "s"} /\ engine'.p = engine.p /\ engine'.s = t
  BY <1>5 DEF TermInv, EngineOK
<1>8. TermInv'
  BY <1>1, <1>2, <1>4, <1>6, <1>7 DEF TermInv, EngineOK
<1> QED
  BY <1>4, <1>6, <1>7, <1>8 DEF t

(* A DATA frame: the offset is cut to a history that never shrinks.           *)
LEMMA PumpTerm ==
  ASSUME TermInv, NEW chunk \in Seq(0 .. 255), Pump(chunk)
  PROVE  TermInv'
<1> DEFINE e == Feed(engine, chunk)
           t == RepliesTaken(Drained(e.s))
           h == IngestScrolled(client.history, ScrolledOff(e.s))
<1>1. EngineOK(e) /\ Good(engine.s, e.s)
  BY FeedGood DEF TermInv
<1>2. /\ engine' = [e EXCEPT !.s = t] /\ widened' = widened
      /\ client' = [client EXCEPT !.history = h, !.offset = Least(@, Len(h)),
                                  !.modes = ModeState(e.s), !.cached = NoView]
  BY DEF Pump
<1> HIDE DEF e
<1>3. ScreenOK(e.s) /\ (WrapOK(engine.s) => WrapOK(e.s)) /\ IsSeq(e.s.off)
  BY <1>1 DEF Good, ScreenOK
<1>4. /\ ScreenOK(t) /\ t.off = <<>> /\ t.replies = <<>> /\ (WrapOK(e.s) => WrapOK(t))
  BY <1>3, TakenKept
<1>5. IsSeq(h) /\ Len(h) \in Nat /\ Len(h) <= MaxHistory
  <2>1. IsSeq(ScrolledOff(e.s)) /\ IsSeq(client.history)
    BY <1>3, ScrolledTyped DEF TermInv
  <2>2. /\ IsSeq(h) /\ Len(h) = Least(Len(client.history) + Len(ScrolledOff(e.s)), MaxHistory)
        /\ Len(client.history) \in Nat /\ Len(ScrolledOff(e.s)) \in Nat
    BY <2>1, IngestLen
  <2>3. MaxHistory \in Nat
    BY TerminalAssumption
  <2>4. \A a, b \in Nat : Least(a + b, MaxHistory) \in Nat /\ Least(a + b, MaxHistory) <= MaxHistory
    BY <2>3 DEF Least
  <2> HIDE DEF h
  <2> QED
    BY <2>2, <2>4
<1> HIDE DEF t, h
<1>6. DOMAIN client' = ClientFields /\ client'.history = h /\ client'.offset = Least(client.offset, Len(h))
  BY <1>2 DEF TermInv, ClientFields
<1>7. client'.offset \in Nat /\ client'.offset <= Len(h)
  BY <1>5, <1>6 DEF Least, TermInv
<1>8. DOMAIN engine' = {"p", "s"} /\ engine'.p = e.p /\ engine'.s = t
  BY <1>1, <1>2 DEF EngineOK
<1> QED
  BY <1>1, <1>2, <1>3, <1>4, <1>5, <1>6, <1>7, <1>8 DEF TermInv, EngineOK

(* The viewport moves to an offset inside the history.                        *)
LEMMA MoveTerm ==
  ASSUME TermInv, NEW offset \in Nat, offset <= Len(client.history), MoveViewport(offset)
  PROVE  TermInv'
<1>1. /\ DOMAIN client' = ClientFields /\ client'.history = client.history /\ client'.offset = offset
      /\ engine' = engine /\ widened' = widened
  BY DEF MoveViewport, TermInv, ClientFields
<1> QED
  BY <1>1 DEF TermInv

(* The window is resized; a side of zero is refused.                          *)
LEMMA ResizeTerm ==
  ASSUME TermInv, NEW cols \in Nat, NEW rows \in Nat, Resize(cols, rows)
  PROVE  TermInv'
<1> DEFINE s == engine.s
           t == IF cols = 0 \/ rows = 0 THEN s ELSE ResizeScreen(s, cols, rows)
           wide == t.cols > s.cols /\ \E c \in {s.saved, s.alt} : c # NoCursor /\ c.pending
<1>1. /\ engine' = [engine EXCEPT !.s = t]
      /\ client' = [client EXCEPT !.jumped = TRUE, !.cached = NoView]
      /\ widened' = (widened \/ wide)
  BY DEF Resize
<1>2. ScreenOK(s) /\ s.off = <<>> /\ s.replies = <<>>
  BY DEF TermInv, EngineOK
<1>3. ScreenOK(t) /\ t.off = <<>> /\ t.replies = <<>> /\ (wide \/ (WrapOK(s) => WrapOK(t)))
  <2>1. CASE cols = 0 \/ rows = 0
    BY <1>2, <2>1
  <2>2. CASE ~ (cols = 0 \/ rows = 0)
    <3>1. cols \in Nat \ {0} /\ rows \in Nat \ {0}
      BY <2>2
    <3>2. t = ResizeScreen(s, cols, rows)
      BY <2>2
    <3> QED
      BY <1>2, <3>1, <3>2, ResizeOK
  <2> QED
    BY <2>1, <2>2
<1> HIDE DEF t
<1>4. DOMAIN engine' = {"p", "s"} /\ engine'.p = engine.p /\ engine'.s = t
  BY <1>1 DEF TermInv, EngineOK
<1>5. /\ DOMAIN client' = ClientFields /\ client'.history = client.history /\ client'.offset = client.offset
  BY <1>1 DEF TermInv, ClientFields
<1> HIDE DEF wide
<1>6. widened' \/ WrapOK(t)
  BY <1>1, <1>3 DEF TermInv
<1> QED
  BY <1>3, <1>4, <1>5, <1>6 DEF TermInv, EngineOK

(* Every step of the window keeps the invariant.                              *)
LEMMA StepTerm ==
  ASSUME TermInv, [Next]_vars
  PROVE  TermInv'
<1>0. Len(client.history) \in Nat
  BY LenProperties DEF TermInv, IsSeq
<1>1. CASE \E chunk \in (IF feeds = 0 THEN First ELSE Chunks) : Pump(chunk)
  <2>1. \A chunk \in (IF feeds = 0 THEN First ELSE Chunks) : chunk \in Seq(0 .. 255)
    BY TerminalAssumption
  <2> QED
    BY <1>1, <2>1, PumpTerm
<1>2. CASE SendInput \/ SendPointer
  BY <1>0, <1>2, MoveTerm DEF SendInput, SendPointer
<1>3. CASE \E delta \in {-1, 1} : ScrollLines(delta)
  <2>1. PICK delta \in {-1, 1} : ScrollLines(delta)
    BY <1>3
  <2> DEFINE o == Greatest(0, Least(client.offset + delta, Len(client.history)))
  <2>2. o \in Nat /\ o <= Len(client.history)
    BY <1>0 DEF Greatest, Least, TermInv
  <2>3. MoveViewport(o)
    BY <2>1 DEF ScrollLines
  <2> HIDE DEF o
  <2> QED
    BY <2>2, <2>3, MoveTerm
<1>4. CASE \E size \in Sizes : Resize(size[1], size[2])
  <2>1. \A size \in Sizes : size[1] \in Nat /\ size[2] \in Nat
    BY TerminalAssumption
  <2> QED
    BY <1>4, <2>1, ResizeTerm
<1>5. CASE Probe
  BY <1>5, SnapTerm DEF Probe
<1>6. CASE RenderFrame
  <2>1. widened' = widened /\ (TakeSnapshot \/ UNCHANGED <<engine, client>>)
    BY <1>6 DEF RenderFrame, EnsureSnapshots
  <2>2. CASE TakeSnapshot
    BY <2>1, <2>2, SnapTerm
  <2>3. CASE UNCHANGED <<engine, client>>
    BY <2>1, <2>3 DEF TermInv
  <2> QED
    BY <2>1, <2>2, <2>3
<1>7. CASE UNCHANGED vars
  BY <1>7 DEF TermInv, vars
<1> QED
  BY <1>1, <1>2, <1>3, <1>4, <1>5, <1>6, <1>7 DEF Next

(* The invariant says what TypeOK says.                                       *)
LEMMA TermIsType == TermInv => TypeOK
<1> SUFFICES ASSUME TermInv PROVE TypeOK
  OBVIOUS
<1> DEFINE s == engine.s
           here == [col |-> s.cx, row |-> s.cy]
<1>1. ScreenOK(s)
  BY DEF TermInv, EngineOK
<1>2. CursorIn(s, here)
  BY <1>1 DEF CursorIn, ScreenOK
<1>3. CursorIn(s, s.saved) /\ CursorIn(s, s.alt)
  BY <1>1 DEF CursorIn, ScreenOK, SavedOn
<1>4. CursorIn(s, s.cluster)
  <2>1. NoCluster = NoCursor
    BY DEF NoCluster, NoCursor
  <2> QED
    BY <1>1, <2>1 DEF CursorIn, ScreenOK, OpenOn
<1> QED
  BY <1>1, <1>2, <1>3, <1>4 DEF TypeOK, TermInv, ScreenOK

(* The first inductive invariant: the engine is well formed, its positions    *)
(* inside its grid, nothing is left scrolled off or unreplied between two     *)
(* steps, the viewport is inside the history, and wraps wait at the margin.   *)
THEOREM TermHolds == Spec => []TermInv
<1>1. TermInv /\ [Next]_vars => TermInv'
  BY StepTerm
<1> QED
  BY <1>1, InitTerm, PTL DEF Spec

(* Every position the screen keeps indexes its grid, whatever was fed or      *)
(* resized in between, on a screen of any size: screen.rs indexes its cells   *)
(* with them unchecked.                                                       *)
THEOREM TypeOKHolds == Spec => []TypeOK
  BY TermHolds, TermIsType, PTL

(* The invariant says what PendingAtMargin says.                              *)
LEMMA TermIsMargin == TermInv => PendingAtMargin
  BY DEF TermInv, PendingAtMargin, WrapOK

(* A wrap is pending only in the last column, unless a cursor saved with its  *)
(* wrap outlived a widening of the window.                                    *)
THEOREM PendingAtMarginHolds == Spec => []PendingAtMargin
  BY TermHolds, TermIsMargin, PTL

-----------------------------------------------------------------------------
(* What the mirror shows.                                                     *)

(* Row y of the mirror has the instances of row y of the screen. *)
Right(s, m, y) ==
  /\ m.cols = s.cols /\ m.rows = s.rows
  /\ \A x \in 0 .. s.cols - 1 :
       \/ PodCell(s.grid[y][x]).wide = "tail"
       \/ m.inst[y][x] = Instance(PodCell(s.grid[y][x]))

(* A row is right, or will be: its damage is lost for good, or still known. *)
Known(s, m, L, y) == y \in L \/ Hit(s, y) \/ Right(s, m, y)

(* A view of the screen was taken and kept. *)
KeptView(s, v, m, L, off, drawn) ==
  /\ v.rows = s.rows /\ v.cols = s.cols
  /\ ~ s.full /\ s.d0 > s.d1
  /\ off # 0 => v.full
  /\ off = 0 =>
       /\ \A y \in 0 .. s.rows - 1 : \A x \in 0 .. s.cols - 1 : v.cells[y][x] = PodCell(s.grid[y][x])
       /\ \A y \in 0 .. s.rows - 1 : y \in L \/ (~ drawn /\ y \in DamagedRows(v)) \/ Right(s, m, y)

(* The inductive invariant behind MirrorShows.  With no view kept, a frame   *)
(* that is neither a jump nor scrolled back finds every row right or its     *)
(* damage known to the engine; with a view kept, known to the view.          *)
MirrorInv ==
  IF client.cached = NoView
  THEN /\ ~ shown
       /\ ~ client.jumped /\ client.offset = 0 =>
            \A y \in 0 .. engine.s.rows - 1 : Known(engine.s, mirror, lost, y)
  ELSE /\ ~ client.jumped
       /\ KeptView(engine.s, client.cached, mirror, lost, client.offset, shown)
       /\ MirrorShows

(* An operation that is Good keeps a row right or its damage known: a row it  *)
(* changed it has marked.                                                     *)
LEMMA StaysKnown ==
  ASSUME NEW s, ScreenOK(s), NEW t, Good(s, t), NEW u, u.grid = t.grid, u.cols = t.cols, u.rows = t.rows,
         u.full = t.full, u.d0 = t.d0, u.d1 = t.d1,
         NEW m, NEW L, NEW y \in 0 .. s.rows - 1, Known(s, m, L, y)
  PROVE  Known(u, m, L, y)
<1>1. Hit(t, y) => Hit(u, y)
  BY DEF Hit
<1>2. Hit(s, y) => Hit(t, y)
  BY DEF Good
<1>3. ASSUME Right(s, m, y), ~ Hit(t, y) PROVE Right(u, m, y)
  <2>1. SameRow(s, t, y) /\ t.cols = s.cols /\ t.rows = s.rows
    BY <1>3 DEF Good
  <2> QED
    BY <1>3, <2>1 DEF Right, SameRow
<1> QED
  BY <1>1, <1>2, <1>3 DEF Known

ViewFields == {"cols", "rows", "cx", "cy", "visible", "full", "d0", "d1", "cells"}

(* compose_viewport: at the live tail the view is the grid, scrolled back it  *)
(* is a view with full damage.                                                *)
LEMMA ViewTyped ==
  ASSUME NEW s, ScreenOK(s), NEW h, NEW off \in Nat, off # 0 => h # <<>>
  PROVE  LET v == ComposeViewport(h, PodGrid(s), off)
         IN  /\ DOMAIN v = ViewFields /\ v.cols = s.cols /\ v.rows = s.rows
             /\ off # 0 => v.full
             /\ off = 0 =>
                  /\ v.full = s.full /\ v.d0 = s.d0 /\ v.d1 = s.d1
                  /\ \A y \in 0 .. s.rows - 1 : \A x \in 0 .. s.cols - 1 :
                       v.cells[y][x] = PodCell(s.grid[y][x])
<1> DEFINE g == PodGrid(s)
           v == ComposeViewport(h, g, off)
<1>1. /\ DOMAIN g = ViewFields /\ g.cols = s.cols /\ g.rows = s.rows /\ g.full = s.full
      /\ g.d0 = s.d0 /\ g.d1 = s.d1 /\ g.cells = [r \in DOMAIN s.grid |-> PodRow(s.grid[r])]
  BY DEF PodGrid, ViewFields
<1>2. \A y \in 0 .. s.rows - 1 : \A x \in 0 .. s.cols - 1 : g.cells[y][x] = PodCell(s.grid[y][x])
  <2>1. DOMAIN s.grid = 0 .. s.rows - 1 /\ \A y \in 0 .. s.rows - 1 : DOMAIN s.grid[y] = 0 .. s.cols - 1
    BY DEF ScreenOK, GridOf
  <2> HIDE DEF g
  <2> TAKE y \in 0 .. s.rows - 1
  <2> TAKE x \in 0 .. s.cols - 1
  <2>2. g.cells[y] = PodRow(s.grid[y]) /\ DOMAIN s.grid[y] = 0 .. s.cols - 1
    BY <1>1, <2>1
  <2>3. PodRow(s.grid[y])[x] = PodCell(s.grid[y][x])
    BY <2>2 DEF PodRow
  <2> QED
    BY <2>2, <2>3
<1> HIDE DEF g
<1>3. CASE off = 0
  <2>1. v = g
    BY <1>3 DEF ComposeViewport
  <2>2. /\ DOMAIN v = ViewFields /\ v.cols = s.cols /\ v.rows = s.rows /\ v.full = s.full
        /\ v.d0 = s.d0 /\ v.d1 = s.d1
        /\ \A y \in 0 .. s.rows - 1 : \A x \in 0 .. s.cols - 1 : v.cells[y][x] = PodCell(s.grid[y][x])
    BY <1>1, <1>2, <2>1
  <2> HIDE DEF v
  <2>3. /\ DOMAIN v = ViewFields /\ v.cols = s.cols /\ v.rows = s.rows
        /\ off # 0 => v.full
        /\ off = 0 =>
                  /\ v.full = s.full /\ v.d0 = s.d0 /\ v.d1 = s.d1
                  /\ \A y \in 0 .. s.rows - 1 : \A x \in 0 .. s.cols - 1 :
                       v.cells[y][x] = PodCell(s.grid[y][x])
    BY <1>3, <2>2
  <2> QED
    BY <2>3 DEF v, g
<1>4. CASE off # 0
  <2>1. \E c : v = [g EXCEPT !.cells = c, !.visible = FALSE, !.full = TRUE, !.d0 = 0, !.d1 = g.rows - 1]
    BY <1>4 DEF ComposeViewport
  <2> HIDE DEF v
  <2>2. DOMAIN v = ViewFields /\ v.cols = s.cols /\ v.rows = s.rows /\ v.full
    BY <1>1, <2>1 DEF ViewFields
  <2>3. /\ DOMAIN v = ViewFields /\ v.cols = s.cols /\ v.rows = s.rows
        /\ off # 0 => v.full
        /\ off = 0 =>
                  /\ v.full = s.full /\ v.d0 = s.d0 /\ v.d1 = s.d1
                  /\ \A y \in 0 .. s.rows - 1 : \A x \in 0 .. s.cols - 1 :
                       v.cells[y][x] = PodCell(s.grid[y][x])
    BY <1>4, <2>2
  <2> QED
    BY <2>3 DEF v, g
<1> QED
  BY <1>3, <1>4

(* n is the mirror m after a frame of the view v: the rows rebuilt have the  *)
(* view's instances, the others what they had.                               *)
FrameOf(n, v, m) ==
  /\ n.cols = v.cols /\ n.rows = v.rows
  /\ n.inst = [y \in 0..v.rows - 1 |-> [x \in 0..v.cols - 1 |->
       IF y \in Rebuilt(v) /\ v.cells[y][x].wide # "tail"
       THEN Instance(v.cells[y][x])
       ELSE IF m.cols = v.cols /\ m.rows = v.rows THEN m.inst[y][x] ELSE Zero]]

(* The mirror m shows the view v, but for the rows of L. *)
Matches(v, m, L) ==
  \A y \in 0 .. v.rows - 1 : \A x \in 0 .. v.cols - 1 :
    y \in L \/ v.cells[y][x].wide = "tail" \/ m.inst[y][x] = Instance(v.cells[y][x])

(* A frame drawn from a view: the rows rebuilt are right, and the others      *)
(* were.                                                                      *)
LEMMA DrawnRight ==
  ASSUME NEW s, ScreenOK(s), NEW v, NEW m, NEW L, NEW off \in Nat, KeptView(s, v, m, L, off, FALSE),
         NEW n, FrameOf(n, v, m)
  PROVE  /\ KeptView(s, v, n, L \ Rebuilt(v), off, TRUE)
         /\ Matches(v, n, L \ Rebuilt(v))
<1>1. v.rows = s.rows /\ v.cols = s.cols /\ s.rows \in Nat \ {0} /\ s.cols \in Nat \ {0}
  BY DEF KeptView, ScreenOK
<1>2. ASSUME off # 0 PROVE Rebuilt(v) = 0 .. v.rows - 1
  <2>1. v.full
    BY <1>2 DEF KeptView
  <2>2. DamagedRows(v) = 0 .. v.rows - 1
    BY <2>1 DEF DamagedRows
  <2> QED
    BY <2>2 DEF Rebuilt
<1>3. \A y \in 0 .. v.rows - 1 : y \in DamagedRows(v) => y \in Rebuilt(v)
  BY DEF Rebuilt
<1>4. ASSUME NEW y \in 0 .. v.rows - 1, NEW x \in 0 .. v.cols - 1
      PROVE  /\ y \in Rebuilt(v) =>
                  v.cells[y][x].wide = "tail" \/ n.inst[y][x] = Instance(v.cells[y][x])
             /\ y \notin Rebuilt(v) /\ m.cols = v.cols /\ m.rows = v.rows =>
                  n.inst[y][x] = m.inst[y][x]
  BY DEF FrameOf
<1>5. ASSUME NEW y \in 0 .. v.rows - 1, NEW x \in 0 .. v.cols - 1
      PROVE  y \in L \ Rebuilt(v) \/ v.cells[y][x].wide = "tail" \/ n.inst[y][x] = Instance(v.cells[y][x])
  <2>1. CASE y \in Rebuilt(v)
    BY <1>4, <2>1
  <2>2. CASE y \notin Rebuilt(v)
    <3>1. off = 0 /\ y \notin DamagedRows(v)
      BY <1>2, <1>3, <2>2
    <3>2. /\ v.cells[y][x] = PodCell(s.grid[y][x])
          /\ y \in L \/ Right(s, m, y)
      BY <1>1, <3>1 DEF KeptView
    <3>3. CASE y \in L
      BY <2>2, <3>3
    <3>4. CASE Right(s, m, y)
      BY <1>1, <1>4, <2>2, <3>2, <3>4 DEF Right
    <3> QED
      BY <3>2, <3>3, <3>4
  <2> QED
    BY <2>1, <2>2
<1>6. ASSUME off = 0, NEW y \in 0 .. s.rows - 1 PROVE y \in L \ Rebuilt(v) \/ Right(s, n, y)
  <2>1. \A x \in 0 .. s.cols - 1 : v.cells[y][x] = PodCell(s.grid[y][x])
    BY <1>6 DEF KeptView
  <2>2. y \in 0 .. v.rows - 1 /\ v.cols = s.cols /\ n.cols = s.cols /\ n.rows = s.rows
    BY <1>1 DEF FrameOf
  <2>3. ASSUME y \notin L \ Rebuilt(v), NEW x \in 0 .. s.cols - 1
        PROVE  PodCell(s.grid[y][x]).wide = "tail" \/ n.inst[y][x] = Instance(PodCell(s.grid[y][x]))
    <3>1. x \in 0 .. v.cols - 1 /\ v.cells[y][x] = PodCell(s.grid[y][x])
      BY <2>1, <2>2
    <3>2. v.cells[y][x].wide = "tail" \/ n.inst[y][x] = Instance(v.cells[y][x])
      BY <1>5, <2>2, <2>3, <3>1
    <3> QED
      BY <3>1, <3>2
  <2> QED
    BY <2>2, <2>3 DEF Right
<1>7. KeptView(s, v, n, L \ Rebuilt(v), off, TRUE)
  BY <1>1, <1>6 DEF KeptView
<1> QED
  BY <1>5, <1>7 DEF Matches

-----------------------------------------------------------------------------
(* The steps of the window and the mirror.                                    *)

(* A view is taken: the engine forgets its damage and the view keeps it.      *)
LEMMA TakenView ==
  ASSUME TermInv, MirrorInv, client.cached = NoView, TakeSnapshot
  PROVE  /\ client'.cached # NoView /\ ~ client'.jumped /\ client'.offset = client.offset
         /\ ScreenOK(engine'.s)
         /\ KeptView(engine'.s, client'.cached, mirror, lost, client'.offset, FALSE)
<1> DEFINE s == engine.s
           t == Snapshotted(Drained(s))
           h == IngestScrolled(client.history, ScrolledOff(s))
           off == client.offset
           v == ComposeViewport(h, PodGrid(s), off)
           w == [v EXCEPT !.full = @ \/ client.jumped]
<1>1. ScreenOK(s) /\ s.off = <<>> /\ IsSeq(client.history) /\ DOMAIN client = ClientFields /\ off \in Nat
  BY DEF TermInv, EngineOK
<1>2. /\ engine'.s = t /\ client'.jumped = FALSE /\ client'.offset = off /\ client'.cached = w
  BY DEF TakeSnapshot, TermInv, EngineOK, ClientFields
<1>3. /\ ScreenOK(t) /\ t.cols = s.cols /\ t.rows = s.rows /\ t.grid = s.grid
      /\ t.full = FALSE /\ t.d0 = 1 /\ t.d1 = 0
  BY <1>1, SnapKept
<1>4. off # 0 => h # <<>>
  <2>1. IsSeq(s.off) /\ Len(s.off) = 0
    BY <1>1, EmptyIsSeq
  <2>2. IsSeq(ScrolledOff(s)) /\ Len(ScrolledOff(s)) = 0
    BY <2>1, ScrolledTyped
  <2>3. Len(h) = Least(Len(client.history) + 0, MaxHistory) /\ Len(client.history) \in Nat
    BY <1>1, <2>2, IngestLen
  <2>4. Len(client.history) <= MaxHistory /\ MaxHistory \in Nat /\ off <= Len(client.history)
    BY TerminalAssumption DEF TermInv
  <2> HIDE DEF h, off
  <2>5. Len(h) = Len(client.history)
    BY <2>3, <2>4 DEF Least
  <2>6. Len(<<>>) = 0
    OBVIOUS
  <2> QED
    BY <1>1, <2>3, <2>4, <2>5, <2>6
<1>5. /\ DOMAIN v = ViewFields /\ v.cols = s.cols /\ v.rows = s.rows
      /\ off # 0 => v.full
      /\ off = 0 =>
           /\ v.full = s.full /\ v.d0 = s.d0 /\ v.d1 = s.d1
           /\ \A y \in 0 .. s.rows - 1 : \A x \in 0 .. s.cols - 1 : v.cells[y][x] = PodCell(s.grid[y][x])
  <2> HIDE DEF h, s, off
  <2> QED
    BY <1>1, <1>4, ViewTyped
<1> HIDE DEF v, t, h
<1>6. /\ DOMAIN w = ViewFields /\ w.full = (v.full \/ client.jumped)
      /\ \A f \in ViewFields \ {"full"} : w[f] = v[f]
  BY <1>5 DEF ViewFields
<1> HIDE DEF w
<1>7. /\ w.cols = s.cols /\ w.rows = s.rows /\ w.d0 = v.d0 /\ w.d1 = v.d1 /\ w.cells = v.cells
  BY <1>5, <1>6 DEF ViewFields
<1>8. w # NoView
  <2>1. DOMAIN NoView = {"none"}
    BY DEF NoView
  <2>2. "cols" \in ViewFields /\ "cols" \notin {"none"}
    BY DEF ViewFields
  <2> QED
    BY <1>6, <2>1, <2>2
<1>9. ~ t.full /\ t.d0 > t.d1
  BY <1>3
<1>10. ASSUME off = 0, NEW y \in 0 .. s.rows - 1
       PROVE  y \in lost \/ y \in DamagedRows(w) \/ Right(t, mirror, y)
  <2>1. CASE w.full
    BY <1>7, <2>1 DEF DamagedRows
  <2>2. CASE ~ w.full
    <3>1. ~ client.jumped /\ ~ s.full
      BY <1>5, <1>6, <1>10, <2>2
    <3>2. Known(s, mirror, lost, y)
      BY <1>10, <3>1 DEF MirrorInv
    <3>3. CASE Hit(s, y)
      <4>1. y \in s.d0 .. s.d1 /\ s.d0 \in Int /\ s.d1 \in Int
        BY <1>1, <3>1, <3>3 DEF Hit, ScreenOK
      <4> QED
        BY <1>5, <1>7, <1>10, <2>2, <4>1 DEF DamagedRows
    <3>4. CASE Right(s, mirror, y)
      BY <1>3, <3>4 DEF Right
    <3> QED
      BY <3>2, <3>3, <3>4 DEF Known
  <2> QED
    BY <2>1, <2>2
<1>11. KeptView(t, w, mirror, lost, off, FALSE)
  <2>1. off # 0 => w.full
    BY <1>5, <1>6
  <2>2. off = 0 => \A y \in 0 .. t.rows - 1 : \A x \in 0 .. t.cols - 1 : w.cells[y][x] = PodCell(t.grid[y][x])
    BY <1>3, <1>5, <1>7
  <2> QED
    BY <1>3, <1>7, <1>9, <1>10, <2>1, <2>2 DEF KeptView
<1> QED
  BY <1>2, <1>3, <1>8, <1>11

(* Output is fed: what the view kept knew is lost or drawn, and what the      *)
(* engine changes it marks.                                                   *)
LEMMA PumpMirror ==
  ASSUME TermInv, MirrorInv, NEW chunk \in Seq(0 .. 255), Pump(chunk)
  PROVE  MirrorInv'
<1> DEFINE s == engine.s
           e == Feed(engine, chunk)
           t == RepliesTaken(Drained(e.s))
           h == IngestScrolled(client.history, ScrolledOff(e.s))
<1>1. EngineOK(e) /\ Good(s, e.s) /\ ScreenOK(s)
  BY FeedGood DEF TermInv, EngineOK
<1>2. /\ engine' = [e EXCEPT !.s = t] /\ mirror' = mirror /\ shown' = FALSE /\ LostWithView
      /\ client' = [client EXCEPT !.history = h, !.offset = Least(@, Len(h)),
                                  !.modes = ModeState(e.s), !.cached = NoView]
  BY DEF Pump
<1> HIDE DEF e
<1>3. ScreenOK(e.s) /\ IsSeq(e.s.off) /\ e.s.cols = s.cols /\ e.s.rows = s.rows
  BY <1>1 DEF Good, ScreenOK
<1>4. /\ t.cols = e.s.cols /\ t.rows = e.s.rows /\ t.grid = e.s.grid
      /\ t.full = e.s.full /\ t.d0 = e.s.d0 /\ t.d1 = e.s.d1
  BY <1>3, TakenKept
<1>5. client.offset \in Nat /\ Len(h) \in Nat /\ client.offset <= Len(h)
  <2>1. IsSeq(ScrolledOff(e.s)) /\ IsSeq(client.history)
    BY <1>3, ScrolledTyped DEF TermInv
  <2>2. /\ Len(h) = Least(Len(client.history) + Len(ScrolledOff(e.s)), MaxHistory)
        /\ Len(client.history) \in Nat /\ Len(ScrolledOff(e.s)) \in Nat
    BY <2>1, IngestLen
  <2>3. /\ MaxHistory \in Nat /\ Len(client.history) <= MaxHistory
        /\ client.offset \in Nat /\ client.offset <= Len(client.history)
    BY TerminalAssumption DEF TermInv
  <2> DEFINE a == Len(client.history)
             b == Len(ScrolledOff(e.s))
             o == client.offset
  <2>4. Len(h) = Least(a + b, MaxHistory) /\ a \in Nat /\ b \in Nat /\ a <= MaxHistory /\ o <= a /\ o \in Nat
    BY <2>2, <2>3
  <2> HIDE DEF h, a, b, o
  <2>5. Len(h) \in Nat /\ o <= Len(h) /\ o \in Nat
    BY <2>3, <2>4 DEF Least
  <2> QED
    BY <2>5 DEF o
<1> HIDE DEF t, h
<1>6. /\ client'.offset = client.offset /\ client'.jumped = client.jumped /\ client'.cached = NoView
  <2>1. /\ client'.offset = Least(client.offset, Len(h)) /\ client'.jumped = client.jumped
        /\ client'.cached = NoView
    BY <1>2 DEF TermInv, ClientFields
  <2>2. \A a, b \in Nat : a <= b => Least(a, b) = a
    BY DEF Least
  <2> QED
    BY <1>5, <2>1, <2>2
<1>7. engine'.s = t
  BY <1>1, <1>2 DEF EngineOK
<1>8. ASSUME ~ client.jumped, client.offset = 0, NEW y \in 0 .. s.rows - 1
      PROVE  Known(s, mirror, lost', y)
  <2>1. CASE client.cached = NoView
    <3>1. lost' = lost
      BY <1>2, <2>1 DEF LostWithView
    <3>2. Known(s, mirror, lost, y)
      BY <1>8, <2>1 DEF MirrorInv
    <3> QED
      BY <3>1, <3>2
  <2>2. CASE client.cached # NoView
    <3>1. y \in lost \/ (~ shown /\ y \in DamagedRows(client.cached)) \/ Right(s, mirror, y)
      BY <1>8, <2>2 DEF MirrorInv, KeptView
    <3>2. lost' = IF ~ shown THEN lost \cup DamagedRows(client.cached) ELSE lost
      BY <1>2, <2>2 DEF LostWithView
    <3> QED
      BY <3>1, <3>2 DEF Known
  <2> QED
    BY <2>1, <2>2
<1>9. ASSUME ~ client.jumped, client.offset = 0, NEW y \in 0 .. s.rows - 1
      PROVE  Known(t, mirror, lost', y)
  <2>1. Known(s, mirror, lost', y)
    BY <1>8, <1>9
  <2> HIDE DEF s
  <2> QED
    BY <1>1, <1>4, <1>9, <2>1, StaysKnown
<1>10. t.rows = s.rows
  BY <1>3, <1>4
<1> HIDE DEF s
<1>11. ~ client'.jumped /\ client'.offset = 0 =>
         \A y \in 0 .. engine'.s.rows - 1 : Known(engine'.s, mirror', lost', y)
  BY <1>2, <1>6, <1>7, <1>9, <1>10
<1> QED
  BY <1>2, <1>6, <1>11 DEF MirrorInv

(* The viewport moves or the window is resized: the next view is a jump. *)
LEMMA JumpMirror ==
  ASSUME TermInv, client'.jumped, client'.cached = NoView, shown' = FALSE
  PROVE  MirrorInv'
  BY DEF MirrorInv

(* A frame is drawn, of the view kept or of one just taken.                   *)
LEMMA RenderMirror ==
  ASSUME TermInv, MirrorInv, RenderFrame
  PROVE  MirrorInv'
<1> DEFINE v == client'.cached
           L == lost
           m == mirror
           n == mirror'
           s == engine'.s
           off == client'.offset
<1>1. /\ ~ shown /\ EnsureSnapshots /\ shown' = TRUE
      /\ mirror' = [cols |-> v.cols, rows |-> v.rows,
                    inst |-> [y \in 0..v.rows - 1 |-> [x \in 0..v.cols - 1 |->
                    IF y \in Rebuilt(v) /\ v.cells[y][x].wide # "tail"
                    THEN Instance(v.cells[y][x])
                    ELSE IF mirror.cols = v.cols /\ mirror.rows = v.rows THEN mirror.inst[y][x] ELSE Zero]]]
      /\ lost' = lost \ Rebuilt(v)
  BY DEF RenderFrame
<1>2. /\ v # NoView /\ ~ client'.jumped /\ client'.offset \in Nat /\ ScreenOK(engine'.s)
      /\ KeptView(engine'.s, v, mirror, lost, client'.offset, FALSE)
  <2>1. CASE client.cached = NoView
    <3>1. TakeSnapshot /\ client.offset \in Nat
      BY <1>1, <2>1 DEF EnsureSnapshots, TermInv
    <3> QED
      BY <2>1, <3>1, TakenView
  <2>2. CASE client.cached # NoView
    <3>1. engine' = engine /\ client' = client
      BY <1>1, <2>2 DEF EnsureSnapshots
    <3>2. ~ client.jumped /\ KeptView(engine.s, client.cached, mirror, lost, client.offset, shown)
      BY <2>2 DEF MirrorInv
    <3>3. KeptView(engine.s, client.cached, mirror, lost, client.offset, FALSE)
      BY <1>1, <3>2 DEF KeptView
    <3> QED
      BY <2>2, <3>1, <3>2, <3>3 DEF TermInv, EngineOK
  <2> QED
    BY <2>1, <2>2
<1>3. FrameOf(n, v, m)
  BY <1>1 DEF FrameOf
<1> HIDE DEF v, n, m, L
<1>4. /\ KeptView(engine'.s, v, n, L \ Rebuilt(v), client'.offset, TRUE)
      /\ Matches(v, n, L \ Rebuilt(v))
  <2>1. KeptView(s, v, m, L, off, FALSE) /\ ScreenOK(s) /\ off \in Nat
    BY <1>2 DEF m, L
  <2> HIDE DEF s, off
  <2>2. /\ KeptView(s, v, n, L \ Rebuilt(v), off, TRUE)
        /\ Matches(v, n, L \ Rebuilt(v))
    BY <1>3, <2>1, DrawnRight
  <2> QED
    BY <2>2 DEF s, off
<1>5. MirrorShows'
  BY <1>1, <1>4 DEF MirrorShows, Matches, v, n, L
<1>6. /\ client'.cached # NoView /\ ~ client'.jumped
      /\ KeptView(engine'.s, client'.cached, mirror', lost', client'.offset, shown')
  BY <1>1, <1>2, <1>4 DEF v, n, L
<1> QED
  BY <1>5, <1>6 DEF MirrorInv

(* Every step of the window keeps the invariant.                              *)
LEMMA StepMirror ==
  ASSUME TermInv, MirrorInv, [Next]_vars
  PROVE  MirrorInv'
<1>1. CASE \E chunk \in (IF feeds = 0 THEN First ELSE Chunks) : Pump(chunk)
  <2>1. \A chunk \in (IF feeds = 0 THEN First ELSE Chunks) : chunk \in Seq(0 .. 255)
    BY TerminalAssumption
  <2> QED
    BY <1>1, <2>1, PumpMirror
<1>2. CASE SendInput \/ SendPointer \/ \E delta \in {-1, 1} : ScrollLines(delta)
  <2>1. \E offset : MoveViewport(offset)
    BY <1>2 DEF SendInput, SendPointer, ScrollLines
  <2>2. client'.jumped /\ client'.cached = NoView /\ shown' = FALSE
    BY <2>1 DEF MoveViewport, TermInv, ClientFields
  <2> QED
    BY <2>2, JumpMirror
<1>3. CASE \E size \in Sizes : Resize(size[1], size[2])
  <2>1. client'.jumped /\ client'.cached = NoView /\ shown' = FALSE
    BY <1>3 DEF Resize, TermInv, ClientFields
  <2> QED
    BY <2>1, JumpMirror
<1>4. CASE Probe
  <2>1. client.cached = NoView /\ TakeSnapshot /\ shown' = FALSE /\ mirror' = mirror /\ lost' = lost
    BY <1>4 DEF Probe
  <2>2. /\ client'.cached # NoView /\ ~ client'.jumped
        /\ KeptView(engine'.s, client'.cached, mirror, lost, client'.offset, FALSE)
    BY <2>1, TakenView
  <2>3. KeptView(engine'.s, client'.cached, mirror', lost', client'.offset, shown')
    BY <2>1, <2>2
  <2>4. MirrorShows'
    BY <2>1 DEF MirrorShows
  <2> QED
    BY <2>2, <2>3, <2>4 DEF MirrorInv
<1>5. CASE RenderFrame
  BY <1>5, RenderMirror
<1>6. CASE UNCHANGED vars
  <2>1. engine' = engine /\ client' = client /\ mirror' = mirror /\ lost' = lost /\ shown' = shown
    BY <1>6 DEF vars
  <2> QED
    BY <2>1 DEF MirrorInv, MirrorShows
<1> QED
  BY <1>1, <1>2, <1>3, <1>4, <1>5, <1>6 DEF Next

(* The second inductive invariant: at the live tail every row is right in     *)
(* the mirror, or its damage is known to the engine or to a view not yet      *)
(* drawn, or lost with a view that a probe took.                              *)
THEOREM MirrorHolds == Spec => []MirrorInv
<1>1. Init => MirrorInv
  <2> SUFFICES ASSUME Init PROVE MirrorInv
    OBVIOUS
  <2>1. client.cached = NoView /\ client.jumped /\ ~ shown
    BY DEF Init
  <2> QED
    BY <2>1 DEF MirrorInv
<1>2. TermInv /\ MirrorInv /\ [Next]_vars => MirrorInv'
  BY StepMirror
<1> QED
  BY <1>1, <1>2, TermHolds, PTL DEF Spec

(* What is drawn is what the view shows, although only the damaged rows are   *)
(* rebuilt: no change of the grid, the viewport or the size goes without      *)
(* damage, but for the rows whose damage a probe took and a later chunk       *)
(* dropped.                                                                   *)
THEOREM MirrorShowsHolds == Spec => []MirrorShows
<1>1. MirrorInv => MirrorShows
  BY DEF MirrorInv, MirrorShows
<1> QED
  BY <1>1, MirrorHolds, PTL

-----------------------------------------------------------------------------
(* Two screens that differ in damage only: scrolling, the cursor, the modes.  *)

(* Two screens that differ in their damage and in the count of replies        *)
(* dropped at most.                                                           *)
Like(s, t) ==
  /\ DOMAIN s = ScreenFields /\ DOMAIN t = ScreenFields
  /\ \A f \in ScreenFields \ {"full", "d0", "d1", "dropped"} : t[f] = s[f]

(* Like, field by field.                                                      *)
LEMMA LikeFields ==
  ASSUME NEW s, NEW t
  PROVE  Like(s, t) <=>
           /\ DOMAIN s = ScreenFields /\ DOMAIN t = ScreenFields
           /\ t.cols = s.cols /\ t.rows = s.rows /\ t.grid = s.grid /\ t.cx = s.cx /\ t.cy = s.cy
           /\ t.visible = s.visible /\ t.pending = s.pending /\ t.autowrap = s.autowrap
           /\ t.top = s.top /\ t.bot = s.bot /\ t.pen = s.pen /\ t.saved = s.saved /\ t.alt = s.alt
           /\ t.savedGrid = s.savedGrid /\ t.inAlt = s.inAlt /\ t.replies = s.replies
           /\ t.cluster = s.cluster /\ t.truncated = s.truncated /\ t.modes = s.modes /\ t.off = s.off
  BY DEF Like, ScreenFields

(* Both are damaged whole.                                                    *)
LEMMA LikeFull ==
  ASSUME NEW s, NEW t, Like(s, t)
  PROVE  Like(FullDamage(s), FullDamage(t))
  BY DEF Like, FullDamage, ScreenFields

(* Both mark the same rows.                                                   *)
LEMMA LikeDirty ==
  ASSUME NEW s, NEW t, Like(s, t), NEW a, NEW b
  PROVE  Like(Dirty(s, a, b), Dirty(t, a, b))
  BY DEF Like, Dirty, ScreenFields

(* Both scroll up: the same rows go off the top.                              *)
LEMMA LikeScrollUp ==
  ASSUME NEW s, NEW t, Like(s, t), NEW n
  PROVE  Like(ScrollUp(s, n), ScrollUp(t, n))
<1> DEFINE row(x, r) == IF r <= x.bot THEN x.grid[r] ELSE Row(x.cols, Blank(x.pen.bg))
           g(x) == [r \in DOMAIN x.grid |-> IF r \in x.top .. x.bot THEN row(x, r + n) ELSE x.grid[r]]
           out(x) == IF ~ x.inAlt /\ x.top = 0 THEN x.off \o [k \in 1 .. n |-> row(x, x.top + k - 1)] ELSE x.off
           u(x) == [x EXCEPT !.grid = g(x), !.off = out(x)]
<1>1. \A r : row(t, r) = row(s, r)
  BY LikeFields
<1> HIDE DEF row
<1>2. g(t) = g(s) /\ out(t) = out(s)
  BY <1>1, LikeFields
<1> HIDE DEF g, out
<1>3. Like(u(s), u(t))
  BY <1>2 DEF Like, ScreenFields
<1>4. ScrollUp(s, n) = FullDamage(u(s)) /\ ScrollUp(t, n) = FullDamage(u(t))
  BY DEF ScrollUp, u, g, out, row
<1> HIDE DEF u
<1> QED
  BY <1>3, <1>4, LikeFull

(* Both scroll down.                                                          *)
LEMMA LikeScrollDown ==
  ASSUME NEW s, NEW t, Like(s, t), NEW n
  PROVE  Like(ScrollDown(s, n), ScrollDown(t, n))
<1> DEFINE row(x, r) == IF r >= x.top THEN x.grid[r] ELSE Row(x.cols, Blank(x.pen.bg))
           g(x) == [r \in DOMAIN x.grid |-> IF r \in x.top .. x.bot THEN row(x, r - n) ELSE x.grid[r]]
           u(x) == [x EXCEPT !.grid = g(x)]
<1>1. \A r : row(t, r) = row(s, r)
  BY LikeFields
<1> HIDE DEF row
<1>2. g(t) = g(s)
  BY <1>1, LikeFields
<1> HIDE DEF g
<1>3. Like(u(s), u(t))
  BY <1>2 DEF Like, ScreenFields
<1>4. ScrollDown(s, n) = FullDamage(u(s)) /\ ScrollDown(t, n) = FullDamage(u(t))
  BY DEF ScrollDown, u, g, row
<1> HIDE DEF u
<1> QED
  BY <1>3, <1>4, LikeFull

(* Both move the cursor to the same place.                                    *)
LEMMA LikeCursor ==
  ASSUME NEW s, NEW t, Like(s, t), NEW row, NEW col
  PROVE  Like(SetCursor(s, row, col), SetCursor(t, row, col))
  BY DEF Like, SetCursor, ClearWrap, CloseCluster, LastRow, LastCol, ScreenFields

(* Both drop a pending wrap, or close the open cluster.                       *)
LEMMA LikeClear ==
  ASSUME NEW s, NEW t, Like(s, t)
  PROVE  Like(ClearWrap(s), ClearWrap(t)) /\ Like(CloseCluster(s), CloseCluster(t))
  BY DEF Like, ClearWrap, CloseCluster, ScreenFields

(* Both index (IND) or reverse index (RI).                                    *)
LEMMA LikeIndex ==
  ASSUME NEW s, NEW t, Like(s, t)
  PROVE  Like(Index(s), Index(t)) /\ Like(ReverseIndex(s), ReverseIndex(t))
<1>1. t.cy = s.cy /\ t.top = s.top /\ t.bot = s.bot
  BY LikeFields
<1>2. /\ Like([s EXCEPT !.cy = @ + 1], [t EXCEPT !.cy = @ + 1])
      /\ Like([s EXCEPT !.cy = @ - 1], [t EXCEPT !.cy = @ - 1])
  BY DEF Like, ScreenFields
<1> QED
  BY <1>1, <1>2, LikeScrollUp, LikeScrollDown DEF Index, ReverseIndex

(* Both restore a saved cursor.                                               *)
LEMMA LikeRestore ==
  ASSUME NEW s, NEW t, Like(s, t), NEW c
  PROVE  Like(RestoreCursor(s, c), RestoreCursor(t, c))
  BY DEF Like, RestoreCursor, LastRow, LastCol, ScreenFields

(* Both save the same cursor.                                                 *)
LEMMA LikeCapture ==
  ASSUME NEW s, NEW t, Like(s, t)
  PROVE  CaptureCursor(t) = CaptureCursor(s)
  BY LikeFields DEF CaptureCursor

(* Both enter the alternate screen.                                           *)
LEMMA LikeEnterAlt ==
  ASSUME NEW s, NEW t, Like(s, t), NEW save
  PROVE  Like(EnterAlt(s, save), EnterAlt(t, save))
<1> DEFINE u(x) == [x EXCEPT !.savedGrid = IF x.inAlt THEN @ ELSE x.grid,
                             !.alt = IF x.inAlt THEN @
                                     ELSE IF save THEN CaptureCursor(x) ELSE NoCursor,
                             !.grid = BlankGrid(x.cols, x.rows, x.pen.bg),
                             !.inAlt = TRUE]
<1>1. Like(u(s), u(t))
  BY LikeCapture DEF Like, ScreenFields
<1>2. EnterAlt(s, save) = FullDamage(SetCursor(u(s), 0, 0)) /\ EnterAlt(t, save) = FullDamage(SetCursor(u(t), 0, 0))
  BY DEF EnterAlt
<1> HIDE DEF u
<1> QED
  BY <1>1, <1>2, LikeCursor, LikeFull

(* Both leave the alternate screen.                                           *)
LEMMA LikeLeaveAlt ==
  ASSUME NEW s, NEW t, Like(s, t), NEW restore
  PROVE  Like(LeaveAlt(s, restore), LeaveAlt(t, restore))
<1> DEFINE u(x) == FullDamage([x EXCEPT !.grid = x.savedGrid, !.savedGrid = NoGrid,
                                        !.alt = NoCursor, !.inAlt = FALSE])
<1>1. Like(u(s), u(t))
  BY DEF Like, ScreenFields, FullDamage
<1>2. t.inAlt = s.inAlt /\ t.alt = s.alt
  BY LikeFields
<1>3. \A x : LeaveAlt(x, restore) = IF ~ x.inAlt THEN x
                                    ELSE IF restore /\ x.alt # NoCursor THEN RestoreCursor(u(x), x.alt)
                                    ELSE u(x)
  BY DEF LeaveAlt
<1> HIDE DEF u
<1>4. Like(RestoreCursor(u(s), s.alt), RestoreCursor(u(t), s.alt))
  BY <1>1, LikeRestore
<1> QED
  BY <1>1, <1>2, <1>3, <1>4

(* Both take a scroll region (DECSTBM), or refuse it.                         *)
LEMMA LikeScrollRegion ==
  ASSUME NEW s, NEW t, Like(s, t), NEW params
  PROVE  Like(SetScrollRegion(s, params), SetScrollRegion(t, params))
<1> DEFINE top == IF params = <<>> \/ params[1] = 0 THEN 1 ELSE params[1]
           bot(x) == IF Len(params) < 2 \/ params[2] = 0 THEN x.rows ELSE params[2]
           u(x) == [x EXCEPT !.top = top - 1, !.bot = bot(x) - 1]
<1>1. t.rows = s.rows /\ bot(t) = bot(s)
  BY LikeFields
<1>2. \A x : SetScrollRegion(x, params) =
               IF bot(x) > x.rows \/ top >= bot(x) THEN x ELSE SetCursor(u(x), 0, 0)
  BY DEF SetScrollRegion
<1> HIDE DEF bot, top
<1>3. Like(u(s), u(t))
  BY <1>1 DEF Like, ScreenFields
<1> HIDE DEF u
<1>4. Like(SetCursor(u(s), 0, 0), SetCursor(u(t), 0, 0))
  BY <1>3, LikeCursor
<1> QED
  BY <1>1, <1>2, <1>4

(* Both set or reset one private mode.                                        *)
LEMMA LikeSetMode ==
  ASSUME NEW s, NEW t, Like(s, t), NEW p \in Nat, NEW set \in BOOLEAN
  PROVE  Like(SetMode(s, p, set), SetMode(t, p, set))
<1> DEFINE m(x) == IF set THEN x.modes \cup {ModeName[p]} ELSE x.modes \ {ModeName[p]}
<1>1. m(t) = m(s)
  BY LikeFields
<1> HIDE DEF m
<1>3. /\ Like([s EXCEPT !.autowrap = set], [t EXCEPT !.autowrap = set])
      /\ Like([s EXCEPT !.visible = set], [t EXCEPT !.visible = set])
      /\ Like([s EXCEPT !.modes = m(s)], [t EXCEPT !.modes = m(t)])
  BY <1>1 DEF Like, ScreenFields
<1>4. /\ Like(EnterAlt(s, FALSE), EnterAlt(t, FALSE)) /\ Like(EnterAlt(s, TRUE), EnterAlt(t, TRUE))
      /\ Like(LeaveAlt(s, FALSE), LeaveAlt(t, FALSE)) /\ Like(LeaveAlt(s, TRUE), LeaveAlt(t, TRUE))
  BY LikeEnterAlt, LikeLeaveAlt
<1> DEFINE a == SetMode(s, p, set)
           b == SetMode(t, p, set)
<1>5. \/ a = [s EXCEPT !.autowrap = set] /\ b = [t EXCEPT !.autowrap = set]
      \/ a = [s EXCEPT !.visible = set] /\ b = [t EXCEPT !.visible = set]
      \/ a = EnterAlt(s, FALSE) /\ b = EnterAlt(t, FALSE)
      \/ a = LeaveAlt(s, FALSE) /\ b = LeaveAlt(t, FALSE)
      \/ a = EnterAlt(s, TRUE) /\ b = EnterAlt(t, TRUE)
      \/ a = LeaveAlt(s, TRUE) /\ b = LeaveAlt(t, TRUE)
      \/ a = [s EXCEPT !.modes = m(s)] /\ b = [t EXCEPT !.modes = m(t)]
      \/ a = s /\ b = t
  <2>1. CASE p = 7
    <3>1. a = [s EXCEPT !.autowrap = set] /\ b = [t EXCEPT !.autowrap = set]
      BY <2>1 DEF SetMode, ModeName
    <3> QED
      BY <3>1
  <2>2. CASE p = 25
    <3>1. a = [s EXCEPT !.visible = set] /\ b = [t EXCEPT !.visible = set]
      BY <2>2 DEF SetMode, ModeName
    <3> QED
      BY <3>1
  <2>3. CASE p = 1047
    <3>1. /\ a = IF set THEN EnterAlt(s, FALSE) ELSE LeaveAlt(s, FALSE)
          /\ b = IF set THEN EnterAlt(t, FALSE) ELSE LeaveAlt(t, FALSE)
      BY <2>3 DEF SetMode, ModeName
    <3> HIDE DEF a, b
    <3> QED
      BY <3>1
  <2>4. CASE p = 1049
    <3>1. /\ a = IF set THEN EnterAlt(s, TRUE) ELSE LeaveAlt(s, TRUE)
          /\ b = IF set THEN EnterAlt(t, TRUE) ELSE LeaveAlt(t, TRUE)
      BY <2>4 DEF SetMode, ModeName
    <3> HIDE DEF a, b
    <3> QED
      BY <3>1
  <2>5. CASE p # 7 /\ p # 25 /\ p # 1047 /\ p # 1049 /\ p \in DOMAIN ModeName
    BY <2>5 DEF SetMode, m
  <2>6. CASE p # 7 /\ p # 25 /\ p # 1047 /\ p # 1049 /\ p \notin DOMAIN ModeName
    BY <2>6 DEF SetMode
  <2> QED
    BY <2>1, <2>2, <2>3, <2>4, <2>5, <2>6, ZenonT(60)
<1> HIDE DEF a, b
<1>6. Like(a, b)
  BY <1>3, <1>4, <1>5
<1> QED
  BY <1>6 DEF a, b

-----------------------------------------------------------------------------
(* Two such screens: printing.                                                *)

(* Both go through a list of private modes, by induction on it.               *)
LEMMA LikePrivateMode ==
  ASSUME NEW s, NEW t, Like(s, t), NEW params \in Seq(Nat), NEW set \in BOOLEAN
  PROVE  Like(PrivateMode(s, params, set), PrivateMode(t, params, set))
<1>1. Len(params) \in Nat /\ \A i \in 1 .. Len(params) : params[i] \in Nat
  BY LenProperties, ElementOfSeq
<1>2. PICK k : ModesDoneBy(k, s, params, set)
  BY <1>1, ModesDoneSteps
<1>3. PICK l : ModesDoneBy(l, t, params, set)
  BY <1>1, ModesDoneSteps
<1> DEFINE n == Len(params)
<1>4. /\ PrivateMode(s, params, set) = k[n] /\ k[0] = s
      /\ \A i \in 1 .. n : k[i] = SetMode(k[i - 1], params[i], set)
  BY <1>2 DEF ModesDoneBy
<1>5. /\ PrivateMode(t, params, set) = l[n] /\ l[0] = t
      /\ \A i \in 1 .. n : l[i] = SetMode(l[i - 1], params[i], set)
  BY <1>3 DEF ModesDoneBy
<1>6. n \in Nat /\ \A i \in 1 .. n : params[i] \in Nat
  BY <1>1
<1> HIDE DEF n
<1> DEFINE P == {i \in 0 .. n : Like(k[i], l[i])}
<1>7. 0 \in P
  BY <1>4, <1>5, <1>6
<1>8. ASSUME NEW i \in 0 .. n - 1, i \in P PROVE i + 1 \in P
  <2>1. i + 1 \in 1 .. n /\ i + 1 \in 0 .. n /\ (i + 1) - 1 = i /\ params[i + 1] \in Nat
    BY <1>6
  <2>2. k[i + 1] = SetMode(k[i], params[i + 1], set) /\ l[i + 1] = SetMode(l[i], params[i + 1], set)
    BY <1>4, <1>5, <2>1
  <2>3. Like(k[i], l[i])
    BY <1>8
  <2>4. Like(k[i + 1], l[i + 1])
    BY <2>1, <2>2, <2>3, LikeSetMode
  <2> QED
    BY <2>1, <2>4
<1> HIDE DEF P
<1>9. \A i \in 0 .. n : i \in P
  BY <1>6, <1>7, <1>8, Induct
<1>10. n \in P
  BY <1>6, <1>9
<1> QED
  BY <1>4, <1>5, <1>10 DEF P

(* Both break the pair a cell is half of.                                     *)
LEMMA LikeSmash ==
  ASSUME NEW s, NEW t, Like(s, t), NEW row, NEW col
  PROVE  Like(Smash(s, row, col), Smash(t, row, col))
<1> DEFINE half(line, c, w) == c \in DOMAIN line /\ line[c].wide = w
           other(line) == IF half(line, col, "lead") /\ half(line, col + 1, "tail") THEN {col + 1}
                          ELSE IF half(line, col, "tail") /\ half(line, col - 1, "lead") THEN {col - 1}
                          ELSE {}
           new(line, bg) == [c \in DOMAIN line |-> IF c \in other(line) THEN Blank(bg) ELSE line[c]]
           g(grid, bg) == [grid EXCEPT ![row] = new(grid[row], bg)]
           u(x) == [x EXCEPT !.grid = g(x.grid, x.pen.bg)]
<1>1. \A x : Smash(x, row, col) = u(x)
  BY DEF Smash
<1> HIDE DEF g
<1>2. g(t.grid, t.pen.bg) = g(s.grid, s.pen.bg)
  BY LikeFields
<1>3. Like(u(s), u(t))
  BY <1>2 DEF Like, ScreenFields
<1> HIDE DEF u
<1> QED
  BY <1>1, <1>3

(* Both advance the cursor, or leave a wrap pending.                          *)
LEMMA LikeAdvance ==
  ASSUME NEW s, NEW t, Like(s, t), NEW width
  PROVE  Like(AdvanceAfterWidth(s, width), AdvanceAfterWidth(t, width))
<1>1. t.cx = s.cx /\ t.cols = s.cols /\ t.autowrap = s.autowrap
  BY LikeFields
<1>2. /\ Like([s EXCEPT !.cx = @ + width, !.pending = FALSE], [t EXCEPT !.cx = @ + width, !.pending = FALSE])
      /\ Like([s EXCEPT !.cx = LastCol(s), !.pending = s.autowrap],
              [t EXCEPT !.cx = LastCol(t), !.pending = t.autowrap])
  BY <1>1 DEF Like, ScreenFields, LastCol
<1> QED
  BY <1>1, <1>2 DEF AdvanceAfterWidth

(* Both wrap a pending line.                                                  *)
LEMMA LikeWrap ==
  ASSUME NEW s, NEW t, Like(s, t), NEW width
  PROVE  Like(WrapIfNeeded(s, width), WrapIfNeeded(t, width))
<1>1. t.cx = s.cx /\ t.cols = s.cols /\ t.autowrap = s.autowrap /\ t.pending = s.pending
  BY LikeFields
<1> DEFINE u(x) == [x EXCEPT !.pending = FALSE, !.cx = 0]
<1>2. Like(u(s), u(t))
  BY DEF Like, ScreenFields
<1>3. \A x : WrapIfNeeded(x, width) = IF ~ (x.pending \/ x.cols - x.cx < width) THEN x
                                      ELSE IF ~ x.autowrap THEN ClearWrap(x) ELSE Index(u(x))
  BY DEF WrapIfNeeded
<1> HIDE DEF u
<1>4. Like(Index(u(s)), Index(u(t)))
  BY <1>2, LikeIndex
<1> QED
  BY <1>1, <1>3, <1>4, LikeClear

(* Both append to the open cluster, or truncate it.                           *)
LEMMA LikeAppend ==
  ASSUME NEW s, NEW t, Like(s, t), NEW c
  PROVE  Like(AppendToCluster(s, c), AppendToCluster(t, c))
<1> DEFINE full(cl) == cl.len >= GraphemeMax
           more(cl) == [cl EXCEPT !.len = IF full(cl) THEN @ ELSE @ + 1, !.zwj = c = ZWJ, !.ri = IsRI(c)]
           u(x) == [x EXCEPT !.truncated = IF full(x.cluster) THEN @ + 1 ELSE @, !.cluster = more(x.cluster)]
<1>1. \A x : AppendToCluster(x, c) = Dirty(u(x), x.cluster.row, x.cluster.row)
  BY DEF AppendToCluster
<1>2. t.cluster = s.cluster
  BY LikeFields
<1> HIDE DEF full, more
<1>3. Like(u(s), u(t))
  BY <1>2 DEF Like, ScreenFields
<1> HIDE DEF u
<1> QED
  BY <1>1, <1>2, <1>3, LikeDirty

(* Both widen the open cluster over its right neighbour.                      *)
LEMMA LikeWiden ==
  ASSUME NEW s, NEW t, Like(s, t), NEW row, NEW lead
  PROVE  Like(WidenCluster(s, row, lead), WidenCluster(t, row, lead))
<1> DEFINE half(grid, w) == [grid[row][lead] EXCEPT !.wide = w]
           g(grid) == [grid EXCEPT ![row] = [@ EXCEPT ![lead] = half(grid, "lead"), ![lead + 1] = half(grid, "tail")]]
           u(x) == [x EXCEPT !.grid = g(x.grid), !.cluster.width = 2]
<1>1. \A x : WidenCluster(x, row, lead) = Dirty(u(x), row, row)
  BY DEF WidenCluster
<1> HIDE DEF g
<1>2. Like(u(s), u(t))
  BY DEF Like, ScreenFields
<1> HIDE DEF u
<1> QED
  BY <1>1, <1>2, LikeDirty

(* Both expand half a flag.                                                   *)
LEMMA LikeExpand ==
  ASSUME NEW s, NEW t, Like(s, t)
  PROVE  Like(ExpandRI(s), ExpandRI(t))
<1> DEFINE row == s.cluster.row
           tail == s.cluster.col + 1
           u(x) == WidenCluster(Smash(x, row, tail), row, tail - 1)
           w(x) == [u(x) EXCEPT !.cx = tail]
<1>1. t.cluster = s.cluster /\ t.cols = s.cols /\ t.cy = s.cy
  BY LikeFields
<1>2. Like(u(s), u(t))
  BY LikeSmash, LikeWiden
<1> HIDE DEF u
<1>3. Like(w(s), w(t)) /\ u(t).cx = u(s).cx
  BY <1>2 DEF Like, ScreenFields
<1> HIDE DEF w
<1>4. Like(AdvanceAfterWidth(w(s), 1), AdvanceAfterWidth(w(t), 1))
  BY <1>3, LikeAdvance
<1>5. /\ StepPast(u(s), tail) = IF u(s).cx <= tail THEN AdvanceAfterWidth(w(s), 1) ELSE u(s)
      /\ StepPast(u(t), tail) = IF u(t).cx <= tail THEN AdvanceAfterWidth(w(t), 1) ELSE u(t)
  BY DEF StepPast, w
<1>6. Like(StepPast(u(s), tail), StepPast(u(t), tail))
  BY <1>2, <1>3, <1>4, <1>5
<1>7. /\ ExpandRI(s) = IF s.cluster.width >= 2 \/ tail >= s.cols \/ row # s.cy THEN s ELSE StepPast(u(s), tail)
      /\ ExpandRI(t) = IF t.cluster.width >= 2 \/ tail >= t.cols \/ row # t.cy THEN t ELSE StepPast(u(t), tail)
  BY <1>1 DEF ExpandRI, u
<1> QED
  BY <1>1, <1>6, <1>7

(* Both put a cell at the cursor.                                             *)
LEMMA LikePut ==
  ASSUME NEW s, NEW t, Like(s, t), NEW c, NEW width
  PROVE  Like(PutCells(s, c, width), PutCells(t, c, width))
<1> DEFINE cell(pen, wide) == [cp |-> c, fg |-> pen.fg, bg |-> pen.bg, sgr |-> pen.sgr, wide |-> wide]
           new(line, cx, pen) ==
             [k \in DOMAIN line |-> IF k = cx THEN cell(pen, IF width = 2 THEN "lead" ELSE "no")
                                    ELSE IF k = cx + 1 /\ width = 2 THEN cell(pen, "tail")
                                    ELSE line[k]]
           g(grid, cx, cy, pen) == [grid EXCEPT ![cy] = new(grid[cy], cx, pen)]
           cl(cx, cy) == [row |-> cy, col |-> cx, len |-> 1, zwj |-> c = ZWJ, ri |-> IsRI(c), width |-> width]
           u(x) == [x EXCEPT !.grid = g(x.grid, x.cx, x.cy, x.pen), !.cluster = cl(x.cx, x.cy)]
<1>1. \A x : PutCells(x, c, width) = Dirty(u(x), x.cy, x.cy)
  BY DEF PutCells, PenCell
<1> HIDE DEF g, cl
<1>2. t.cy = s.cy /\ g(t.grid, t.cx, t.cy, t.pen) = g(s.grid, s.cx, s.cy, s.pen) /\ cl(t.cx, t.cy) = cl(s.cx, s.cy)
  BY LikeFields
<1>3. Like(u(s), u(t))
  BY <1>2 DEF Like, ScreenFields
<1> HIDE DEF u
<1> QED
  BY <1>1, <1>2, <1>3, LikeDirty

(* Both print a character: a mark, the other half of a flag, or a cell of     *)
(* its own.                                                                   *)
LEMMA LikeWrite ==
  ASSUME NEW s, NEW t, Like(s, t), NEW c
  PROVE  Like(WriteChar(s, c), WriteChar(t, c))
<1>1. ShouldAppend(t, c) <=> ShouldAppend(s, c)
  BY LikeFields DEF ShouldAppend
<1>2. Like(ExpandRI(AppendToCluster(s, c)), ExpandRI(AppendToCluster(t, c)))
  BY LikeAppend, LikeExpand
<1> DEFINE w == ClusterWidth(c)
           a == WrapIfNeeded(s, w)
           b == WrapIfNeeded(t, w)
<1>3. Like(a, b)
  BY LikeWrap
<1> HIDE DEF a, b, w
<1>4. b.cy = a.cy /\ b.cx = a.cx /\ b.cols = a.cols
  BY <1>3, LikeFields
<1>5. Like(SmashUnder(a, w), SmashUnder(b, w))
  <2>1. Like(Smash(a, a.cy, a.cx), Smash(b, b.cy, b.cx))
    BY <1>3, <1>4, LikeSmash
  <2>2. Like(Smash(Smash(a, a.cy, a.cx), a.cy, a.cx + 1), Smash(Smash(b, b.cy, b.cx), b.cy, b.cx + 1))
    BY <1>4, <2>1, LikeSmash
  <2> QED
    BY <2>1, <2>2 DEF SmashUnder
<1>6. Like(AdvanceAfterWidth(PutCells(SmashUnder(a, w), c, w), w), AdvanceAfterWidth(PutCells(SmashUnder(b, w), c, w), w))
  BY <1>5, LikePut, LikeAdvance
<1>7. Like(PlaceHere(a, c, w), PlaceHere(b, c, w))
  BY <1>3, <1>4, <1>6 DEF PlaceHere
<1>8. Like(Place(s, c), Place(t, c))
  BY <1>7 DEF Place, a, b, w
<1> QED
  BY <1>1, <1>2, <1>8, LikeAppend DEF WriteChar

-----------------------------------------------------------------------------
(* Two such screens: erasing, lines and cells, attributes and replies.        *)

(* Both erase a span of cells.                                                *)
LEMMA LikeEraseSpan ==
  ASSUME NEW s, NEW t, Like(s, t), NEW from, NEW to
  PROVE  Like(EraseSpan(s, from, to), EraseSpan(t, from, to))
<1> DEFINE at(grid, cols, i) == grid[i \div cols][i % cols]
           before(grid, cols) == /\ from % cols > 0 /\ at(grid, cols, from).wide = "tail"
                                 /\ at(grid, cols, from - 1).wide = "lead"
           after(grid, cols) == /\ to % cols > 0 /\ at(grid, cols, to - 1).wide = "lead"
                                /\ at(grid, cols, to).wide = "tail"
           gone(grid, cols) == (from..to - 1) \cup (IF before(grid, cols) THEN {from - 1} ELSE {})
                                              \cup (IF after(grid, cols) THEN {to} ELSE {})
           g(grid, cols, bg) ==
             [r \in DOMAIN grid |-> [c \in DOMAIN grid[r] |->
                IF r * cols + c \in gone(grid, cols) THEN Blank(bg) ELSE grid[r][c]]]
           u(x) == [x EXCEPT !.grid = g(x.grid, x.cols, x.pen.bg)]
<1>1. \A x : EraseSpan(x, from, to) =
               IF from >= to THEN x ELSE Dirty(u(x), from \div x.cols, (to - 1) \div x.cols)
  BY DEF EraseSpan
<1> HIDE DEF g
<1>2. t.cols = s.cols /\ g(t.grid, t.cols, t.pen.bg) = g(s.grid, s.cols, s.pen.bg)
  BY LikeFields
<1>3. Like(u(s), u(t))
  BY <1>2 DEF Like, ScreenFields
<1> HIDE DEF u
<1> DEFINE a == from \div s.cols
           b == (to - 1) \div s.cols
<1>4. /\ EraseSpan(s, from, to) = IF from >= to THEN s ELSE Dirty(u(s), a, b)
      /\ EraseSpan(t, from, to) = IF from >= to THEN t ELSE Dirty(u(t), a, b)
  BY <1>1, <1>2
<1> HIDE DEF a, b
<1>5. Like(Dirty(u(s), a, b), Dirty(u(t), a, b))
  BY <1>3, LikeDirty
<1> QED
  BY <1>4, <1>5

(* Both erase in the display (ED) or in the line (EL).                        *)
LEMMA LikeErase ==
  ASSUME NEW s, NEW t, Like(s, t), NEW n \in Nat
  PROVE  /\ Like(EraseDisplay(s, n), EraseDisplay(t, n))
         /\ Like(EraseLine(s, n), EraseLine(t, n))
         /\ Like(EraseChars(s, n), EraseChars(t, n))
<1>1. /\ Cur(t) = Cur(s) /\ t.rows = s.rows /\ t.cols = s.cols /\ t.cy = s.cy /\ t.cx = s.cx
  BY LikeFields DEF Cur
<1> DEFINE all == s.rows * s.cols
           start == s.cy * s.cols
           cur == Cur(s)
           fits == Least(n, s.cols - s.cx)
<1>2. \A x \in {s, t} : /\ Cur(x) = cur /\ x.rows * x.cols = all /\ x.cy * x.cols = start
                        /\ x.cols = s.cols /\ Least(n, x.cols - x.cx) = fits
  BY <1>1
<1> HIDE DEF all, start, cur, fits
<1>3. \A a, b : Like(EraseSpan(s, a, b), EraseSpan(t, a, b))
  BY LikeEraseSpan
<1>4. Like(EraseDisplay(s, n), EraseDisplay(t, n))
  <2>1. \A x \in {s, t} : EraseDisplay(x, n) = CASE n = 0 -> EraseSpan(x, cur, all)
                                                 [] n = 1 -> EraseSpan(x, 0, cur + 1)
                                                 [] OTHER -> FullDamage(EraseSpan(x, 0, all))
    BY <1>2 DEF EraseDisplay
  <2>2. CASE n = 0
    BY <1>3, <2>1, <2>2
  <2>3. CASE n = 1
    BY <1>3, <2>1, <2>3
  <2>4. CASE n # 0 /\ n # 1
    <3>1. Like(FullDamage(EraseSpan(s, 0, all)), FullDamage(EraseSpan(t, 0, all)))
      BY <1>3, LikeFull
    <3> QED
      BY <2>1, <2>4, <3>1
  <2> QED
    BY <2>2, <2>3, <2>4
<1>5. Like(EraseLine(s, n), EraseLine(t, n))
  <2>1. \A x \in {s, t} : EraseLine(x, n) = CASE n = 0 -> EraseSpan(x, cur, start + s.cols)
                                              [] n = 1 -> EraseSpan(x, start, cur + 1)
                                              [] OTHER -> EraseSpan(x, start, start + s.cols)
    BY <1>2 DEF EraseLine
  <2> QED
    BY <1>3, <2>1
<1>6. Like(EraseChars(s, n), EraseChars(t, n))
  <2>1. \A x \in {s, t} : EraseChars(x, n) = EraseSpan(x, cur, cur + fits)
    BY <1>2 DEF EraseChars
  <2> QED
    BY <1>3, <2>1
<1> QED
  BY <1>4, <1>5, <1>6

(* Both insert or delete lines (IL, DL).                                      *)
LEMMA LikeLines ==
  ASSUME NEW s, NEW t, Like(s, t), NEW n
  PROVE  /\ Like(InsertLines(s, n), InsertLines(t, n))
         /\ Like(DeleteLines(s, n), DeleteLines(t, n))
<1> DEFINE m(cy, bot) == Least(n, bot - cy + 1)
           gi(grid, cy, bot, cols, bg) == [r \in DOMAIN grid |->
             CASE r \notin cy..bot -> grid[r]
               [] r \in cy..cy + m(cy, bot) - 1 -> Row(cols, Blank(bg))
               [] OTHER -> grid[r - m(cy, bot)]]
           gd(grid, cy, bot, cols, bg) == [r \in DOMAIN grid |->
             CASE r \notin cy..bot -> grid[r]
               [] r \in bot + 1 - m(cy, bot)..bot -> Row(cols, Blank(bg))
               [] OTHER -> grid[r + m(cy, bot)]]
           ui(x) == [x EXCEPT !.grid = gi(x.grid, x.cy, x.bot, x.cols, x.pen.bg)]
           ud(x) == [x EXCEPT !.grid = gd(x.grid, x.cy, x.bot, x.cols, x.pen.bg)]
<1>1. \A x : /\ InsertLines(x, n) = IF ~ InRegion(x) THEN x ELSE Dirty(ui(x), x.cy, x.bot)
             /\ DeleteLines(x, n) = IF ~ InRegion(x) THEN x ELSE Dirty(ud(x), x.cy, x.bot)
  BY DEF InsertLines, DeleteLines
<1> HIDE DEF gi, gd
<1>2. /\ gi(t.grid, t.cy, t.bot, t.cols, t.pen.bg) = gi(s.grid, s.cy, s.bot, s.cols, s.pen.bg)
      /\ gd(t.grid, t.cy, t.bot, t.cols, t.pen.bg) = gd(s.grid, s.cy, s.bot, s.cols, s.pen.bg)
      /\ t.cy = s.cy /\ t.bot = s.bot /\ (InRegion(t) <=> InRegion(s))
  BY LikeFields DEF InRegion
<1>3. Like(ui(s), ui(t)) /\ Like(ud(s), ud(t))
  BY <1>2 DEF Like, ScreenFields
<1> HIDE DEF ui, ud
<1>4. Like(Dirty(ui(s), s.cy, s.bot), Dirty(ui(t), s.cy, s.bot)) /\ Like(Dirty(ud(s), s.cy, s.bot), Dirty(ud(t), s.cy, s.bot))
  BY <1>3, LikeDirty
<1> QED
  BY <1>1, <1>2, <1>4

(* Both insert, delete or erase cells (ICH, DCH, ECH).                        *)
LEMMA LikeCells ==
  ASSUME NEW s, NEW t, Like(s, t), NEW n
  PROVE  /\ Like(InsertCells(s, n), InsertCells(t, n))
         /\ Like(DeleteCells(s, n), DeleteCells(t, n))
<1> DEFINE m(cx, cols) == Least(n, cols - cx)
           li(line, cx, cols, bg) == [c \in DOMAIN line |->
             CASE c < cx -> line[c]
               [] c \in cx..cx + m(cx, cols) - 1 -> Blank(bg)
               [] OTHER -> line[c - m(cx, cols)]]
           ld(line, cx, cols, bg) == [c \in DOMAIN line |->
             CASE c < cx -> line[c]
               [] c >= cols - m(cx, cols) -> Blank(bg)
               [] OTHER -> line[c + m(cx, cols)]]
           ui(x) == [x EXCEPT !.grid[x.cy] = li(x.grid[x.cy], x.cx, x.cols, x.pen.bg)]
           e(x) == EraseSpan(x, Cur(x), Cur(x) + m(x.cx, x.cols))
           ud(x) == [e(x) EXCEPT !.grid[x.cy] = ld(e(x).grid[x.cy], x.cx, x.cols, x.pen.bg)]
<1>1. \A x : InsertCells(x, n) = Dirty(ui(x), x.cy, x.cy) /\ DeleteCells(x, n) = ud(x)
  BY DEF InsertCells, DeleteCells
<1> HIDE DEF li, ld, m
<1>2. /\ t.cx = s.cx /\ t.cy = s.cy /\ t.cols = s.cols /\ t.pen = s.pen /\ t.grid = s.grid
      /\ Cur(t) = Cur(s)
  BY LikeFields DEF Cur
<1>3. li(t.grid[t.cy], t.cx, t.cols, t.pen.bg) = li(s.grid[s.cy], s.cx, s.cols, s.pen.bg)
  BY <1>2
<1>4. Like(ui(s), ui(t))
  BY <1>2, <1>3 DEF Like, ScreenFields
<1> DEFINE cur == Cur(s)
           end == Cur(s) + m(s.cx, s.cols)
<1>5. e(s) = EraseSpan(s, cur, end) /\ e(t) = EraseSpan(t, cur, end)
  BY <1>2
<1> HIDE DEF e, cur, end
<1>6. Like(e(s), e(t))
  BY <1>5, LikeEraseSpan
<1>7. ld(e(t).grid[t.cy], t.cx, t.cols, t.pen.bg) = ld(e(s).grid[s.cy], s.cx, s.cols, s.pen.bg)
  BY <1>2, <1>6, LikeFields
<1>8. Like(ud(s), ud(t))
  BY <1>2, <1>6, <1>7 DEF Like, ScreenFields
<1> HIDE DEF ui, ud
<1>9. Like(Dirty(ui(s), s.cy, s.cy), Dirty(ui(t), s.cy, s.cy))
  BY <1>4, LikeDirty
<1> QED
  BY <1>1, <1>2, <1>8, <1>9

(* Both take the attributes (SGR).                                            *)
LEMMA LikeSgr ==
  ASSUME NEW s, NEW t, Like(s, t), NEW params
  PROVE  Like(ApplySgr(s, params), ApplySgr(t, params))
  BY DEF ApplySgr, Like, ScreenFields

(* Both queue a reply, or drop it because the queue is full.                  *)
LEMMA LikeReply ==
  ASSUME NEW s, NEW t, Like(s, t), NEW reply
  PROVE  Like(EnqueueReply(s, reply), EnqueueReply(t, reply))
<1>1. t.replies = s.replies
  BY LikeFields
<1>2. /\ Like([s EXCEPT !.dropped = @ + 1], [t EXCEPT !.dropped = @ + 1])
      /\ Like([s EXCEPT !.replies = Append(@, reply)], [t EXCEPT !.replies = Append(@, reply)])
  BY DEF Like, ScreenFields
<1> QED
  BY <1>1, <1>2 DEF EnqueueReply

-----------------------------------------------------------------------------
(* Two such screens and one call, whichever it is.                            *)

(* Both dispatch a plain CSI sequence.                                        *)
LEMMA LikeCsiDispatch ==
  ASSUME NEW s, NEW t, Like(s, t), NEW ps \in Seq(Nat), NEW a \in Nat
  PROVE  Like(CsiDispatch(s, ps, a), CsiDispatch(t, ps, a))
<1>1. CsiN(ps, 1, 0) \in Nat /\ CsiN(ps, 1, 1) \in Nat
  BY CsiNTyped
<1>2. CASE a \in 65 .. 72 \cup {100, 102}
  <2>1. t.cx = s.cx /\ t.cy = s.cy
    BY LikeFields
  <2>2. \A row, col : Like(SetCursor(s, row, col), SetCursor(t, row, col))
    BY LikeCursor
  <2>3. CASE a = 65
    BY <2>1, <2>2, <2>3 DEF CsiDispatch, F
  <2>4. CASE a = 66
    BY <2>1, <2>2, <2>4 DEF CsiDispatch, F
  <2>5. CASE a = 67
    BY <2>1, <2>2, <2>5 DEF CsiDispatch, F
  <2>6. CASE a = 68
    BY <2>1, <2>2, <2>6 DEF CsiDispatch, F
  <2>7. CASE a = 69
    BY <2>1, <2>2, <2>7 DEF CsiDispatch, F
  <2>8. CASE a = 70
    BY <2>1, <2>2, <2>8 DEF CsiDispatch, F
  <2>9. CASE a = 71
    BY <2>1, <2>2, <2>9 DEF CsiDispatch, F
  <2>10. CASE a = 100
    BY <2>1, <2>2, <2>10 DEF CsiDispatch, F
  <2>11. CASE a \in {72, 102}
    BY <2>1, <2>2, <2>11, SMTT(30) DEF CsiDispatch, F
  <2> QED
    BY <1>2, <2>3, <2>4, <2>5, <2>6, <2>7, <2>8, <2>9, <2>10, <2>11
<1>3. CASE a \in {74, 75}
  <2> DEFINE n == CsiN(ps, 1, 0)
  <2>1. Like(EraseDisplay(s, n), EraseDisplay(t, n)) /\ Like(EraseLine(s, n), EraseLine(t, n))
    BY <1>1, LikeErase
  <2>2. CASE a = 74
    BY <2>1, <2>2 DEF CsiDispatch, F
  <2>3. CASE a = 75
    BY <2>1, <2>3 DEF CsiDispatch, F
  <2> QED
    BY <1>3, <2>2, <2>3
<1>4. CASE a = 88
  BY <1>1, <1>4, LikeErase DEF CsiDispatch, F
<1>5. CASE a \in {76, 77}
  BY <1>5, LikeLines DEF CsiDispatch, F
<1>6. CASE a \in {64, 80}
  BY <1>6, LikeCells DEF CsiDispatch, F
<1>7. CASE a \in {83, 84}
  BY <1>7, LikeScrollUp, LikeScrollDown DEF CsiDispatch, F
<1>8. CASE a \in {109, 114}
  BY <1>8, LikeSgr, LikeScrollRegion DEF CsiDispatch, F
<1>9. CASE a = 99
  BY <1>9, LikeReply DEF CsiDispatch, F
<1>10. CASE a = 110
  <2>1. DsrCursor(t) = DsrCursor(s)
    BY LikeFields DEF DsrCursor
  <2> QED
    BY <1>10, <2>1, LikeReply DEF CsiDispatch, F
<1>11. CASE a \notin {64, 65, 66, 67, 68, 69, 70, 71, 72, 74, 75, 76, 77, 80, 83, 84, 88, 99, 100, 102, 109, 110, 114}
  <2>1. CsiDispatch(s, ps, a) = s /\ CsiDispatch(t, ps, a) = t
    BY <1>11 DEF CsiDispatch, F
  <2> QED
    BY <2>1
<1> QED
  BY <1>2, <1>3, <1>4, <1>5, <1>6, <1>7, <1>8, <1>9, <1>10, <1>11

(* Both take a CSI call: ignored, plain, private or a device query.           *)
LEMMA LikeCsi ==
  ASSUME NEW s, NEW t, Like(s, t), NEW call, call.params \in Seq(Nat), call.ignore \in BOOLEAN, call.action \in Nat
  PROVE  Like(ApplyCsi(s, call), ApplyCsi(t, call))
<1> DEFINE ps == call.params
           a == call.action
           set == a = F.SM
           u == ApplyCsi(s, call)
           v == ApplyCsi(t, call)
<1>1. \/ u = s /\ v = t
      \/ u = PrivateMode(s, ps, set) /\ v = PrivateMode(t, ps, set)
      \/ u = EnqueueReply(s, SecondaryDA) /\ v = EnqueueReply(t, SecondaryDA)
      \/ u = CsiDispatch(s, ps, a) /\ v = CsiDispatch(t, ps, a)
  BY DEF ApplyCsi
<1>2. set \in BOOLEAN
  OBVIOUS
<1> HIDE DEF u, v, set
<1>3. Like(PrivateMode(s, ps, set), PrivateMode(t, ps, set))
  BY <1>2, LikePrivateMode
<1>4. Like(CsiDispatch(s, ps, a), CsiDispatch(t, ps, a))
  BY LikeCsiDispatch
<1>5. Like(EnqueueReply(s, SecondaryDA), EnqueueReply(t, SecondaryDA))
  BY LikeReply
<1>6. Like(u, v)
  BY <1>1, <1>3, <1>4, <1>5
<1> QED
  BY <1>6 DEF u, v

(* Both execute a control byte.                                               *)
LEMMA LikeExecute ==
  ASSUME NEW s, NEW t, Like(s, t), NEW b
  PROVE  Like(ApplyExecute(s, b), ApplyExecute(t, b))
<1> DEFINE p == CloseCluster(ClearWrap(s))
           q == CloseCluster(ClearWrap(t))
           u == MoveByControl(p, b)
           v == MoveByControl(q, b)
<1>1. Like(p, q)
  BY LikeClear
<1>2. ASSUME b \in 8 .. 13 PROVE Like(u, v)
  <2> HIDE DEF p, q
  <2>1. \/ u = [p EXCEPT !.cx = SatSub(@, 1)] /\ v = [q EXCEPT !.cx = SatSub(@, 1)]
        \/ u = [p EXCEPT !.cx = Least((@ \div 8 + 1) * 8, LastCol(p))] /\ v = [q EXCEPT !.cx = Least((@ \div 8 + 1) * 8, LastCol(q))]
        \/ u = Index(p) /\ v = Index(q)
        \/ u = [p EXCEPT !.cx = 0] /\ v = [q EXCEPT !.cx = 0]
    BY <1>2 DEF MoveByControl
  <2>2. /\ Like([p EXCEPT !.cx = SatSub(@, 1)], [q EXCEPT !.cx = SatSub(@, 1)])
        /\ Like([p EXCEPT !.cx = Least((@ \div 8 + 1) * 8, LastCol(p))], [q EXCEPT !.cx = Least((@ \div 8 + 1) * 8, LastCol(q))])
        /\ Like([p EXCEPT !.cx = 0], [q EXCEPT !.cx = 0])
    BY <1>1 DEF Like, ScreenFields, LastCol
  <2>3. Like(Index(p), Index(q))
    BY <1>1, LikeIndex
  <2> HIDE DEF u, v
  <2> QED
    BY <2>1, <2>2, <2>3
<1> QED
  BY <1>2 DEF ApplyExecute

(* Both take an ESC call.                                                     *)
LEMMA LikeEsc ==
  ASSUME NEW s, NEW t, Like(s, t), NEW call
  PROVE  Like(ApplyEsc(s, call), ApplyEsc(t, call))
<1> DEFINE p == ClearWrap(s)
           q == ClearWrap(t)
           u == ApplyEsc(s, call)
           v == ApplyEsc(t, call)
<1>1. Like(p, q)
  BY LikeClear
<1>2. t.saved = s.saved /\ CaptureCursor(t) = CaptureCursor(s)
  BY LikeFields, LikeCapture
<1> HIDE DEF p, q
<1>3. \/ u = [s EXCEPT !.saved = CaptureCursor(s)] /\ v = [t EXCEPT !.saved = CaptureCursor(t)]
      \/ u = RestoreCursor(s, s.saved) /\ v = RestoreCursor(t, t.saved)
      \/ u = Index(p) /\ v = Index(q)
      \/ u = Index([p EXCEPT !.cx = 0]) /\ v = Index([q EXCEPT !.cx = 0])
      \/ u = ReverseIndex(p) /\ v = ReverseIndex(q)
      \/ u = [s EXCEPT !.modes = @ \cup {"keypad"}] /\ v = [t EXCEPT !.modes = @ \cup {"keypad"}]
      \/ u = [s EXCEPT !.modes = @ \ {"keypad"}] /\ v = [t EXCEPT !.modes = @ \ {"keypad"}]
      \/ u = s /\ v = t
  BY <1>2 DEF ApplyEsc, p, q
<1>4. /\ Like([s EXCEPT !.saved = CaptureCursor(s)], [t EXCEPT !.saved = CaptureCursor(t)])
      /\ Like([p EXCEPT !.cx = 0], [q EXCEPT !.cx = 0])
      /\ Like([s EXCEPT !.modes = @ \cup {"keypad"}], [t EXCEPT !.modes = @ \cup {"keypad"}])
      /\ Like([s EXCEPT !.modes = @ \ {"keypad"}], [t EXCEPT !.modes = @ \ {"keypad"}])
  BY <1>1, <1>2 DEF Like, ScreenFields
<1>5. /\ Like(Index(p), Index(q)) /\ Like(ReverseIndex(p), ReverseIndex(q))
      /\ Like(Index([p EXCEPT !.cx = 0]), Index([q EXCEPT !.cx = 0]))
  BY <1>1, <1>4, LikeIndex
<1>6. Like(RestoreCursor(s, s.saved), RestoreCursor(t, t.saved))
  BY <1>2, LikeRestore
<1> HIDE DEF u, v
<1>7. Like(u, v)
  BY <1>3, <1>4, <1>5, <1>6
<1> QED
  BY <1>7 DEF u, v

(* Both take one call of the parser: what a checkpoint keeps is all a call    *)
(* depends on.                                                                *)
LEMMA LikeApply ==
  ASSUME NEW s, NEW t, Like(s, t), NEW call, CallOK(call)
  PROVE  Like(Apply(s, call), Apply(t, call))
<1>1. CASE call = NoCall
  <2>1. Apply(s, call) = s /\ Apply(t, call) = t
    BY <1>1 DEF Apply, NoCall
  <2> QED
    BY <2>1
<1>2. CASE \E c : call = PrintCall(c)
  <2>1. Apply(s, call) = WriteChar(s, call.c) /\ Apply(t, call) = WriteChar(t, call.c)
    BY <1>2 DEF Apply, PrintCall
  <2> QED
    BY <2>1, LikeWrite
<1>3. CASE \E b \in Nat : call = Execute(b)
  <2>1. Apply(s, call) = ApplyExecute(s, call.b) /\ Apply(t, call) = ApplyExecute(t, call.b)
    BY <1>3 DEF Apply, Execute
  <2> QED
    BY <2>1, LikeExecute
<1>4. CASE call.k = "csi" /\ call.params \in Seq(Nat) /\ call.ignore \in BOOLEAN /\ call.action \in Nat
  <2>1. Apply(s, call) = ApplyCsi(s, call) /\ Apply(t, call) = ApplyCsi(t, call)
    BY <1>4 DEF Apply
  <2> QED
    BY <1>4, <2>1, LikeCsi
<1>5. CASE \E inter, b : call = Esc(inter, b)
  <2>1. call.k = "esc"
    BY <1>5 DEF Esc
  <2>2. Apply(s, call) = ApplyEsc(s, call) /\ Apply(t, call) = ApplyEsc(t, call)
    BY <2>1 DEF Apply
  <2> QED
    BY <2>2, LikeEsc
<1> QED
  BY <1>1, <1>2, <1>3, <1>4, <1>5 DEF CallOK

-----------------------------------------------------------------------------
(* Two parsers that were idle together.                                       *)

(* Two parsers that differ, in Ground at most, in what the next ESC resets. *)
Alike(p, q) ==
  /\ ParserOK(p) /\ ParserOK(q)
  /\ q.st = p.st /\ q.utf8 = p.utf8 /\ q.needed = p.needed
  /\ p.st # "Ground" => q = p

(* Two steps of them that make the same call. *)
StepAlike(r, w) == w.call = r.call /\ w.again = r.again /\ Alike(r.p, w.p)

(* The same call made by two such parsers.                                    *)
LEMMA AlikeThen ==
  ASSUME NEW p, NEW q, Alike(p, q), NEW call
  PROVE  StepAlike(Then(p, call), Then(q, call)) /\ StepAlike(Reprocess(p, call), Reprocess(q, call))
  BY DEF StepAlike, Then, Reprocess

(* Both start, continue or drop a UTF-8 sequence.                             *)
LEMMA AlikeUtf8 ==
  ASSUME NEW p, NEW q, Alike(p, q), p.st = "Ground", NEW b \in Nat
  PROVE  /\ Alike(ClearUtf8(p), ClearUtf8(q))
         /\ \A n \in Nat \ {0} : Alike(StartUtf8(p, b, n), StartUtf8(q, b, n))
         /\ p.needed > 0 => Alike([p EXCEPT !.utf8 = Append(@, b)], [q EXCEPT !.utf8 = Append(@, b)])
<1>1. /\ ParserOK(p) /\ ParserOK(q) /\ q.st = "Ground" /\ q.utf8 = p.utf8 /\ q.needed = p.needed
  BY DEF Alike
<1>2. DOMAIN p = ParserFields /\ DOMAIN q = ParserFields
  BY <1>1 DEF ParserOK
<1>3. Alike(ClearUtf8(p), ClearUtf8(q))
  <2>1. ParserOK(ClearUtf8(p)) /\ ParserOK(ClearUtf8(q))
    BY <1>1, Utf8OK
  <2>2. /\ ClearUtf8(p).st = "Ground" /\ ClearUtf8(p).utf8 = <<>> /\ ClearUtf8(p).needed = 0
        /\ ClearUtf8(q).st = "Ground" /\ ClearUtf8(q).utf8 = <<>> /\ ClearUtf8(q).needed = 0
    BY <1>1, <1>2 DEF ClearUtf8, ParserFields
  <2> QED
    BY <2>1, <2>2 DEF Alike
<1>4. ASSUME NEW n \in Nat \ {0} PROVE Alike(StartUtf8(p, b, n), StartUtf8(q, b, n))
  <2> DEFINE u == StartUtf8(p, b, n)
             w == StartUtf8(q, b, n)
             one == <<b>>
  <2>1. ParserOK(u) /\ ParserOK(w)
    BY <1>1, Utf8OK
  <2>2. u = [p EXCEPT !.utf8 = one, !.needed = n] /\ w = [q EXCEPT !.utf8 = one, !.needed = n]
    BY DEF StartUtf8
  <2> HIDE DEF u, w, one
  <2>3. /\ u.st = "Ground" /\ u.utf8 = one /\ u.needed = n
        /\ w.st = "Ground" /\ w.utf8 = one /\ w.needed = n
    BY <1>1, <1>2, <2>2 DEF ParserFields
  <2>4. Alike(u, w)
    BY <2>1, <2>3 DEF Alike
  <2> QED
    BY <2>4 DEF u, w
<1>5. ASSUME p.needed > 0 PROVE Alike([p EXCEPT !.utf8 = Append(@, b)], [q EXCEPT !.utf8 = Append(@, b)])
  <2> DEFINE u == [p EXCEPT !.utf8 = Append(@, b)]
             w == [q EXCEPT !.utf8 = Append(@, b)]
  <2>1. ParserOK(u) /\ ParserOK(w)
    BY <1>1, <1>5, Utf8OK
  <2>2. /\ u.st = "Ground" /\ u.utf8 = Append(p.utf8, b) /\ u.needed = p.needed
        /\ w.st = "Ground" /\ w.utf8 = Append(q.utf8, b) /\ w.needed = q.needed
    BY <1>1, <1>2 DEF ParserFields
  <2> HIDE DEF u, w
  <2>3. Alike(u, w)
    BY <1>1, <2>1, <2>2 DEF Alike
  <2> QED
    BY <2>3 DEF u, w
<1> QED
  BY <1>3, <1>4, <1>5

(* Both reset for a new sequence: what they differed in is gone.              *)
LEMMA AlikeReset ==
  ASSUME NEW p, NEW q, Alike(p, q), p.st = "Ground"
  PROVE  /\ Alike(ResetSeq(p), ResetSeq(q))
         /\ Alike(Goto(ResetSeq(p), "Escape"), Goto(ResetSeq(q), "Escape"))
<1>1. /\ ParserOK(p) /\ ParserOK(q) /\ q.st = "Ground" /\ q.utf8 = p.utf8 /\ q.needed = p.needed
      /\ DOMAIN p = ParserFields /\ DOMAIN q = ParserFields
  BY DEF Alike, ParserOK
<1>2. ResetSeq(q) = ResetSeq(p)
  BY <1>1 DEF ResetSeq, ParserFields
<1>3. ParserOK(ResetSeq(p)) /\ "Escape" \in States
  BY <1>1, ResetOK DEF States
<1>4. ParserOK(Goto(ResetSeq(p), "Escape"))
  BY <1>3, GotoOK
<1> QED
  BY <1>2, <1>3, <1>4 DEF Alike

(* A byte inside a UTF-8 sequence.                                            *)
LEMMA GroundContinues ==
  ASSUME NEW p, NEW b \in 0 .. 255, p.needed \in Nat \ {0}
  PROVE  Ground(p, b) = Utf8Continue(p, b)
<1> DEFINE n == p.needed
           u == Utf8Continue(p, b)
<1>1. n \in Nat \ {0}
  OBVIOUS
<1>2. n > 0 /\ ~(n = 0)
  <2> HIDE DEF n
  <2> QED
    BY <1>1
<1> HIDE DEF u
<1>3. Ground(p, b) = u
  BY <1>2 DEF Ground, u
<1> QED
  BY <1>3 DEF u

(* A byte outside one: the arms of Ground.                                    *)
LEMMA GroundArms ==
  ASSUME NEW p, NEW b \in 0 .. 255, p.needed = 0
  PROVE  /\ b \in C0 => Ground(p, b) = Then(p, Execute(b))
         /\ b \in Cancel => Ground(p, b) = Then(ResetSeq(p), Execute(b))
         /\ b = ESC => Ground(p, b) = Then(Goto(ResetSeq(p), "Escape"), NoCall)
         /\ b \in 32 .. 126 => Ground(p, b) = Then(p, PrintCall(b))
         /\ b = 127 => Ground(p, b) = Then(p, NoCall)
         /\ b \in 194 .. 223 => Ground(p, b) = Then(StartUtf8(p, b, 2), NoCall)
         /\ b \in 224 .. 239 => Ground(p, b) = Then(StartUtf8(p, b, 3), NoCall)
         /\ b \in 240 .. 244 => Ground(p, b) = Then(StartUtf8(p, b, 4), NoCall)
         /\ b \in 128 .. 193 \cup 245 .. 255 => Ground(p, b) = Then(p, PrintCall(Replacement))
<1>1. ASSUME b \in C0 PROVE Ground(p, b) = Then(p, Execute(b))
  BY <1>1 DEF Ground, C0, Cancel, ESC
<1>2. ASSUME b \in Cancel PROVE Ground(p, b) = Then(ResetSeq(p), Execute(b))
  BY <1>2 DEF Ground, C0, Cancel, ESC
<1>3. ASSUME b = ESC PROVE Ground(p, b) = Then(Goto(ResetSeq(p), "Escape"), NoCall)
  BY <1>3 DEF Ground, C0, Cancel, ESC
<1>4. ASSUME b \in 32 .. 126 PROVE Ground(p, b) = Then(p, PrintCall(b))
  BY <1>4 DEF Ground, C0, Cancel, ESC
<1>5. ASSUME b = 127 PROVE Ground(p, b) = Then(p, NoCall)
  BY <1>5 DEF Ground, C0, Cancel, ESC
<1>6. ASSUME b \in 194 .. 223 PROVE Ground(p, b) = Then(StartUtf8(p, b, 2), NoCall)
  BY <1>6 DEF Ground, C0, Cancel, ESC
<1>7. ASSUME b \in 224 .. 239 PROVE Ground(p, b) = Then(StartUtf8(p, b, 3), NoCall)
  BY <1>7 DEF Ground, C0, Cancel, ESC
<1>8. ASSUME b \in 240 .. 244 PROVE Ground(p, b) = Then(StartUtf8(p, b, 4), NoCall)
  BY <1>8 DEF Ground, C0, Cancel, ESC
<1>9. ASSUME b \in 128 .. 193 \cup 245 .. 255 PROVE Ground(p, b) = Then(p, PrintCall(Replacement))
  BY <1>9 DEF Ground, C0, Cancel, ESC
<1> QED
  BY <1>1, <1>2, <1>3, <1>4, <1>5, <1>6, <1>7, <1>8, <1>9

(* Both step the same byte: they make the same call, put the byte back or     *)
(* not together, and stay alike.                                              *)
LEMMA AlikeStep ==
  ASSUME NEW p, NEW q, Alike(p, q), NEW b \in 0 .. 255
  PROVE  StepAlike(Step(p, b), Step(q, b))
<1>1. CASE p.st # "Ground"
  <2>1. StepOK(Step(p, b)) /\ q = p
    BY <1>1, StepTyped DEF Alike
  <2> QED
    BY <2>1 DEF Alike, StepAlike, StepOK
<1>2. CASE p.st = "Ground"
  <2>1. Step(p, b) = Ground(p, b) /\ Step(q, b) = Ground(q, b)
    BY <1>2 DEF Step, Alike, CsiStates
  <2>2. b \in Nat /\ p.needed \in Nat /\ q.needed = p.needed /\ q.utf8 = p.utf8
    BY DEF Alike, ParserOK
  <2> DEFINE r == Ground(p, b)
             w == Ground(q, b)
  <2>3. ASSUME p.needed > 0 PROVE StepAlike(r, w)
    <3>1. /\ r = Utf8Continue(p, b)
          /\ w = Utf8Continue(q, b)
      BY <2>2, <2>3, GroundContinues
    <3>2. /\ Alike(ClearUtf8(p), ClearUtf8(q))
          /\ Alike([p EXCEPT !.utf8 = Append(@, b)], [q EXCEPT !.utf8 = Append(@, b)])
      BY <1>2, <2>2, <2>3, AlikeUtf8
    <3>3. \/ /\ r = Reprocess(ClearUtf8(p), PrintCall(Replacement))
             /\ w = Reprocess(ClearUtf8(q), PrintCall(Replacement))
          \/ /\ r = Then(ClearUtf8(p), PrintCall(DecodeUtf8(Append(p.utf8, b))))
             /\ w = Then(ClearUtf8(q), PrintCall(DecodeUtf8(Append(p.utf8, b))))
          \/ /\ r = Then([p EXCEPT !.utf8 = Append(@, b)], NoCall)
             /\ w = Then([q EXCEPT !.utf8 = Append(@, b)], NoCall)
      BY <2>2, <3>1 DEF Utf8Continue
    <3> HIDE DEF r, w
    <3> QED
      BY <3>2, <3>3, AlikeThen
  <2>4. ASSUME p.needed = 0 PROVE StepAlike(r, w)
    <3>1. q.needed = 0
      BY <2>2, <2>4
    <3>2. /\ Alike(StartUtf8(p, b, 2), StartUtf8(q, b, 2))
          /\ Alike(StartUtf8(p, b, 3), StartUtf8(q, b, 3))
          /\ Alike(StartUtf8(p, b, 4), StartUtf8(q, b, 4))
      <4>1. 2 \in Nat \ {0} /\ 3 \in Nat \ {0} /\ 4 \in Nat \ {0}
        OBVIOUS
      <4>2. \A n \in Nat \ {0} : Alike(StartUtf8(p, b, n), StartUtf8(q, b, n))
        BY <1>2, <2>2, AlikeUtf8
      <4> QED
        BY <4>1, <4>2
    <3>3. /\ Alike(ResetSeq(p), ResetSeq(q))
          /\ Alike(Goto(ResetSeq(p), "Escape"), Goto(ResetSeq(q), "Escape"))
      BY <1>2, AlikeReset
    <3>4. CASE b \in C0
      <4>1. /\ r = Then(p, Execute(b))
            /\ w = Then(q, Execute(b))
        BY <2>4, <3>1, <3>4, GroundArms
      <4> HIDE DEF r, w
      <4> QED
        BY <4>1, <3>2, <3>3, AlikeThen
    <3>5. CASE b \in Cancel
      <4>1. /\ r = Then(ResetSeq(p), Execute(b))
            /\ w = Then(ResetSeq(q), Execute(b))
        BY <2>4, <3>1, <3>5, GroundArms
      <4> HIDE DEF r, w
      <4> QED
        BY <4>1, <3>2, <3>3, AlikeThen
    <3>6. CASE b = ESC
      <4>1. /\ r = Then(Goto(ResetSeq(p), "Escape"), NoCall)
            /\ w = Then(Goto(ResetSeq(q), "Escape"), NoCall)
        BY <2>4, <3>1, <3>6, GroundArms
      <4> HIDE DEF r, w
      <4> QED
        BY <4>1, <3>2, <3>3, AlikeThen
    <3>7. CASE b \in 32 .. 126
      <4>1. /\ r = Then(p, PrintCall(b))
            /\ w = Then(q, PrintCall(b))
        BY <2>4, <3>1, <3>7, GroundArms
      <4> HIDE DEF r, w
      <4> QED
        BY <4>1, <3>2, <3>3, AlikeThen
    <3>8. CASE b = 127
      <4>1. /\ r = Then(p, NoCall)
            /\ w = Then(q, NoCall)
        BY <2>4, <3>1, <3>8, GroundArms
      <4> HIDE DEF r, w
      <4> QED
        BY <4>1, <3>2, <3>3, AlikeThen
    <3>9. CASE b \in 194 .. 223
      <4>1. /\ r = Then(StartUtf8(p, b, 2), NoCall)
            /\ w = Then(StartUtf8(q, b, 2), NoCall)
        BY <2>4, <3>1, <3>9, GroundArms
      <4> HIDE DEF r, w
      <4> QED
        BY <4>1, <3>2, <3>3, AlikeThen
    <3>10. CASE b \in 224 .. 239
      <4>1. /\ r = Then(StartUtf8(p, b, 3), NoCall)
            /\ w = Then(StartUtf8(q, b, 3), NoCall)
        BY <2>4, <3>1, <3>10, GroundArms
      <4> HIDE DEF r, w
      <4> QED
        BY <4>1, <3>2, <3>3, AlikeThen
    <3>11. CASE b \in 240 .. 244
      <4>1. /\ r = Then(StartUtf8(p, b, 4), NoCall)
            /\ w = Then(StartUtf8(q, b, 4), NoCall)
        BY <2>4, <3>1, <3>11, GroundArms
      <4> HIDE DEF r, w
      <4> QED
        BY <4>1, <3>2, <3>3, AlikeThen
    <3>12. CASE b \in 128 .. 193 \cup 245 .. 255
      <4>1. /\ r = Then(p, PrintCall(Replacement))
            /\ w = Then(q, PrintCall(Replacement))
        BY <2>4, <3>1, <3>12, GroundArms
      <4> HIDE DEF r, w
      <4> QED
        BY <4>1, <3>2, <3>3, AlikeThen
    <3>13. \/ b \in C0 \/ b \in Cancel \/ b = ESC \/ b \in 32 .. 126 \/ b = 127 \/ b \in 194 .. 223
           \/ b \in 224 .. 239 \/ b \in 240 .. 244 \/ b \in 128 .. 193 \cup 245 .. 255
      BY DEF C0, Cancel, ESC
    <3> HIDE DEF r, w
    <3> QED
      BY <3>4, <3>5, <3>6, <3>7, <3>8, <3>9, <3>10, <3>11, <3>12, <3>13
  <2>5. p.needed > 0 \/ p.needed = 0
    BY <2>2
  <2> QED
    BY <2>1, <2>3, <2>4, <2>5
<1> QED
  BY <1>1, <1>2

-----------------------------------------------------------------------------
(* An engine and the one restored from its checkpoint.                        *)

(* Two engines whose parsers and screens are alike. *)
TwinOf(e, f) == Alike(e.p, f.p) /\ Like(e.s, f.s)

(* Both engines step a byte once.                                             *)
LEMMA TwinOnce ==
  ASSUME NEW e, NEW f, NEW b \in 0 .. 255, TwinOf(e, f)
  PROVE  /\ Alike(FeedOnce(e, b).p, FeedOnce(f, b).p)
         /\ Like(FeedOnce(e, b).s, FeedOnce(f, b).s)
         /\ FeedOnce(f, b).again = FeedOnce(e, b).again
<1> DEFINE r == Step(e.p, b)
           w == Step(f.p, b)
<1>1. StepOK(r) /\ StepAlike(r, w)
  BY StepTyped, AlikeStep DEF TwinOf, Alike
<1>2. /\ FeedOnce(e, b) = [p |-> r.p, s |-> Apply(e.s, r.call), again |-> r.again]
      /\ FeedOnce(f, b) = [p |-> w.p, s |-> Apply(f.s, w.call), again |-> w.again]
  BY DEF FeedOnce, Took
<1> HIDE DEF r, w
<1>3. Like(Apply(e.s, r.call), Apply(f.s, r.call))
  BY <1>1, LikeApply DEF StepOK, TwinOf
<1> QED
  BY <1>1, <1>2, <1>3 DEF TwinOf, StepAlike

(* Both engines step a byte, once more when it is put back.                   *)
LEMMA TwinByte ==
  ASSUME NEW e, NEW f, NEW b \in 0 .. 255, TwinOf(e, f)
  PROVE  TwinOf(FeedByte(e, b), FeedByte(f, b))
<1>0. /\ TwinOf(FeedOnce(e, b), FeedOnce(f, b))
      /\ FeedOnce(f, b).again = FeedOnce(e, b).again
  <2>1. \A u, v : TwinOf(u, v) =>
           /\ Alike(FeedOnce(u, b).p, FeedOnce(v, b).p)
           /\ Like(FeedOnce(u, b).s, FeedOnce(v, b).s)
           /\ FeedOnce(v, b).again = FeedOnce(u, b).again
    BY TwinOnce, ZenonT(60)
  <2>2. TwinOf(e, f)
    OBVIOUS
  <2> QED
    BY <2>1, <2>2 DEF TwinOf
<1> DEFINE x == FeedOnce(e, b)
           y == FeedOnce(f, b)
<1>1. TwinOf(x, y) /\ y.again = x.again
  BY <1>0
<1>2. /\ FeedByte(e, b) = IF x.again THEN Engine(FeedOnce(x, b)) ELSE Engine(x)
      /\ FeedByte(f, b) = IF y.again THEN Engine(FeedOnce(y, b)) ELSE Engine(y)
  BY DEF FeedByte, PutBack
<1> HIDE DEF x, y
<1>3. TwinOf(FeedOnce(x, b), FeedOnce(y, b))
  BY <1>1, TwinOnce DEF TwinOf
<1>4. \A z : Engine(z).p = z.p /\ Engine(z).s = z.s
  BY DEF Engine
<1>5. \A u, v : TwinOf(u, v) => TwinOf(Engine(u), Engine(v))
  BY <1>4 DEF TwinOf
<1> QED
  BY <1>1, <1>2, <1>3, <1>5

(* Both engines are fed the same chunk, by induction on its bytes.            *)
LEMMA TwinFeed ==
  ASSUME NEW e, NEW f, TwinOf(e, f), NEW bytes \in Seq(0 .. 255)
  PROVE  TwinOf(Feed(e, bytes), Feed(f, bytes))
<1>1. Len(bytes) \in Nat /\ \A i \in 1 .. Len(bytes) : bytes[i] \in 0 .. 255
  BY LenProperties, ElementOfSeq
<1>2. PICK k : FedByBy(k, e, bytes)
  BY <1>1, FedBySteps
<1>3. PICK l : FedByBy(l, f, bytes)
  BY <1>1, FedBySteps
<1> DEFINE n == Len(bytes)
<1>4. /\ Feed(e, bytes) = k[n] /\ k[0] = e
      /\ \A i \in 1 .. n : k[i] = FeedByte(k[i - 1], bytes[i])
  BY <1>2 DEF FedByBy
<1>5. /\ Feed(f, bytes) = l[n] /\ l[0] = f
      /\ \A i \in 1 .. n : l[i] = FeedByte(l[i - 1], bytes[i])
  BY <1>3 DEF FedByBy
<1>6. n \in Nat /\ \A i \in 1 .. n : bytes[i] \in 0 .. 255
  BY <1>1
<1> HIDE DEF n
<1> DEFINE P == {i \in 0 .. n : TwinOf(k[i], l[i])}
<1>7. 0 \in P
  BY <1>4, <1>5, <1>6
<1>8. ASSUME NEW i \in 0 .. n - 1, i \in P PROVE i + 1 \in P
  <2>1. i + 1 \in 1 .. n /\ i + 1 \in 0 .. n /\ (i + 1) - 1 = i /\ bytes[i + 1] \in 0 .. 255
    BY <1>6
  <2>2. k[i + 1] = FeedByte(k[i], bytes[i + 1]) /\ l[i + 1] = FeedByte(l[i], bytes[i + 1])
    BY <1>4, <1>5, <2>1
  <2>3. TwinOf(k[i], l[i])
    BY <1>8
  <2>4. TwinOf(k[i + 1], l[i + 1])
    BY <2>1, <2>2, <2>3, TwinByte
  <2> QED
    BY <2>1, <2>4
<1> HIDE DEF P
<1>9. \A i \in 0 .. n : i \in P
  BY <1>6, <1>7, <1>8, Induct
<1>10. n \in P
  BY <1>6, <1>9
<1> QED
  BY <1>4, <1>5, <1>10 DEF P

(* A checkpoint holds every field but damage, replies and rows scrolled off:  *)
(* when none of these is waiting, the screen restored differs from the one    *)
(* exported in damage only, the open cluster, the pending wrap, the saved     *)
(* cursors and the saved primary included.                                    *)
LEMMA RestoredLike ==
  ASSUME NEW s, DOMAIN s = ScreenFields, s.off = <<>>, s.replies = <<>>,
         NEW e, DOMAIN e.s = ScreenFields, e.s.off = <<>>
  PROVE  Like(s, ImportCheckpoint(e, Checkpoint(s)).s)
<1> DEFINE blob == Checkpoint(s)
           t == ImportCheckpoint(e, blob).s
           kept == {"cols", "rows", "cx", "cy", "top", "bot", "pen", "pending", "autowrap",
                    "visible", "inAlt", "modes", "truncated", "grid", "savedGrid",
                    "saved", "alt", "cluster"}
<1>1. DOMAIN blob = kept /\ \A f \in kept : blob[f] = s[f]
  BY DEF Checkpoint
<1> HIDE DEF blob
<1>2. DOMAIN t = ScreenFields
  BY DEF ImportCheckpoint
<1>3. \A f \in kept : t[f] = blob[f]
  BY <1>1 DEF ImportCheckpoint, ScreenFields
<1>4. t.replies = <<>> /\ t.off = <<>>
  BY <1>1 DEF ImportCheckpoint, ScreenFields
<1> HIDE DEF t
<1>5. \A f \in ScreenFields \ {"full", "d0", "d1", "dropped"} : f \in kept \/ f = "replies" \/ f = "off"
  BY DEF ScreenFields
<1> HIDE DEF kept
<1>6. Like(s, t)
  BY <1>1, <1>2, <1>3, <1>4, <1>5 DEF Like
<1> QED
  BY <1>6 DEF t, blob

(* An idle parser and a new one differ only in what the next ESC resets.      *)
LEMMA IdleAlike ==
  ASSUME NEW p, ParserOK(p), IsIdle(p)
  PROVE  Alike(p, NewParser)
<1>1. p.st = "Ground" /\ p.utf8 = <<>> /\ p.needed = 0
  BY DEF IsIdle, ParserOK
<1>2. NewParser.st = "Ground" /\ NewParser.utf8 = <<>> /\ NewParser.needed = 0
  BY DEF NewParser
<1> QED
  BY <1>1, <1>2, NewParserOK DEF Alike

(* Two such screens look the same.                                            *)
LEMMA LikeLook ==
  ASSUME NEW s, NEW t, Like(s, t)
  PROVE  Look(s) = Look(t)
  BY LikeFields DEF Look

(* The first inductive invariant is enough: between two steps of the window   *)
(* no reply and no scrolled-off row waits in the engine.                      *)
LEMMA TermIsExact == TermInv => CheckpointExact
<1> SUFFICES ASSUME TermInv, CanExport(engine) PROVE
      \A chunk \in Probes :
        Look(Feed(engine, chunk).s)
          = Look(Feed(ImportCheckpoint(NewEngine(Cols, Rows), Checkpoint(engine.s)), chunk).s)
  BY DEF CheckpointExact
<1> DEFINE new == NewEngine(Cols, Rows)
           twin == ImportCheckpoint(new, Checkpoint(engine.s))
<1>1. Cols \in Nat \ {0} /\ Rows \in Nat \ {0} /\ Probes \subseteq Seq(0 .. 255)
  BY TerminalAssumption
<1>2. DOMAIN new.s = ScreenFields /\ new.s.off = <<>>
  BY <1>1, NewEngineOK DEF EngineOK, ScreenOK
<1>3. twin.p = NewParser
  BY DEF ImportCheckpoint
<1> HIDE DEF new
<1>4. Like(engine.s, twin.s)
  BY <1>2, RestoredLike DEF TermInv, EngineOK, ScreenOK
<1>5. Alike(engine.p, twin.p)
  BY <1>3, IdleAlike DEF TermInv, EngineOK, CanExport
<1> HIDE DEF twin
<1>6. TwinOf(engine, twin)
  BY <1>4, <1>5 DEF TwinOf
<1>7. ASSUME NEW chunk \in Probes PROVE Look(Feed(engine, chunk).s) = Look(Feed(twin, chunk).s)
  <2>1. Like(Feed(engine, chunk).s, Feed(twin, chunk).s)
    BY <1>1, <1>6, TwinFeed DEF TwinOf
  <2> QED
    BY <2>1, LikeLook
<1> QED
  BY <1>7 DEF twin, new

(* A checkpoint is exact (SPEC-VT-CHECKPOINT 2): whenever one may be          *)
(* exported, an engine restored from it, with a new parser, answers any       *)
(* probe as the engine it was taken of.                                       *)
THEOREM CheckpointExactHolds == Spec => []CheckpointExact
  BY TermHolds, TermIsExact, PTL

=============================================================================
