--------------------------- MODULE TerminalBuffer ---------------------------
(***************************************************************************)
(* Lines and buffers of internal/xterm: bufferline.go, circularlist.go,    *)
(* buffer.go and bufferreflow.go as operators on values.                   *)
(*                                                                         *)
(* A cell is its character: Null, an ordinary one, a wide one followed by  *)
(* a Tail, or a Mark that takes no column of its own.  Colours, links,     *)
(* protection, markers and the user's scroll position are left out.        *)
(* Columns and rows count from 0 as in the code, sequences from 1.         *)
(***************************************************************************)
EXTENDS Integers, Sequences, SequencesExt

CONSTANTS
  Scrollback,            \* lines kept above the screen of the normal buffer
  TabStopWidth           \* columns from one tab stop to the next

Null == " "
Tail0 == "_"             \* the second column of a wide character
Mark == "'"              \* a combining character with nothing to join
Wide == {"W"}

Width(c) == IF c \in Wide THEN 2 ELSE IF c \in {Tail0, Mark} THEN 0 ELSE 1
HasContent(c) == c \notin {Null, Tail0}
Least(a, b) == IF a < b THEN a ELSE b
Most(a, b) == IF a > b THEN a ELSE b
Nulls(n) == [i \in 1..n |-> Null]
Upto(n) == [i \in 1..n |-> i]

-----------------------------------------------------------------------------
(* BufferLine: cells, and whether the line continues the one above.        *)
BlankLine(cols, wrapped) == [wrapped |-> wrapped, cells |-> Nulls(cols)]

\* A wide character that loses a column becomes empty.
ClearIf(cells, col, cond) ==
  IF cond THEN SubSeq(cells, 1, col) \o <<Null>>
               \o SubSeq(cells, col + 2, Len(cells))
  ELSE cells

Halved(cells, col) == col > 0 /\ cells[col] \in Wide

InsertCells(cells, at, n) ==
  LET pos == at % Len(cells)
      c == ClearIf(cells, pos - 1, Halved(cells, pos))
      d == SubSeq(SubSeq(c, 1, pos) \o Nulls(n) \o SubSeq(c, pos + 1, Len(c)),
                  1, Len(c))
  IN ClearIf(d, Len(d) - 1, d[Len(d)] \in Wide)

DeleteCells(cells, at, n) ==
  LET pos == at % Len(cells)
      kept == SubSeq(cells, 1, pos) \o SubSeq(cells, pos + n + 1, Len(cells))
      c == kept \o Nulls(Len(cells) - Len(kept))
      d == ClearIf(c, pos - 1, Halved(c, pos))
  IN ClearIf(d, pos, d[pos + 1] = Tail0)

\* The cells from start up to end are cleared, which may be beyond the line.
ReplaceCells(cells, start, end) ==
  LET c == ClearIf(cells, start - 1, Halved(cells, start))
      d == ClearIf(c, end, end < Len(c) /\ Halved(c, end))
      to == Least(end, Len(d))
  IN SubSeq(d, 1, start) \o Nulls(to - start) \o SubSeq(d, to + 1, Len(d))

ResizeLine(line, cols) ==
  [line EXCEPT !.cells = IF Len(@) > cols THEN SubSeq(@, 1, cols)
                         ELSE @ \o Nulls(cols - Len(@))]

TrimmedLength(cells) ==
  LET i == SelectLastInSeq(cells, HasContent)
  IN IF i = 0 THEN 0 ELSE i - 1 + Width(cells[i])

CopyCells(dest, src, srcCol, destCol, n) ==
  SubSeq(dest, 1, destCol) \o SubSeq(src, srcCol + 1, srcCol + n)
  \o SubSeq(dest, destCol + n + 1, Len(dest))

-----------------------------------------------------------------------------
(* CircularList: the lines in order; max is its capacity.  Its backing     *)
(* array is circular: an index past the end means an older line.           *)
Slot(b, i) == LET j == i % b.max IN IF j < Len(b.lines) THEN j + 1 ELSE 0

Push(b, line) ==
  [b EXCEPT !.lines = IF Len(@) = b.max THEN Append(Tail(@), line)
                      ELSE Append(@, line)]

SetMaxLength(b, max) ==
  [b EXCEPT !.max = max, !.lines = SubSeq(@, 1, Least(Len(@), max))]

Pop(b) == [b EXCEPT !.lines = Front(@)]
TrimStart(b, n) == [b EXCEPT !.lines = SubSeq(@, n + 1, Len(@))]

\* Splice of one line.  An insertion into a full list drops the oldest.
SpliceOut(b, i) == [b EXCEPT !.lines = RemoveAt(@, i + 1)]

SpliceIn(b, i, line) ==
  [b EXCEPT !.lines = LET ls == InsertAt(@, i + 1, line)
                      IN IF Len(ls) > b.max THEN Tail(ls) ELSE ls]

\* ShiftElements by one and a new line in the place left free.
ShiftDown(b, start, count, line) ==
  [b EXCEPT !.lines = [i \in 1..Len(@) |->
     IF i = start + 1 THEN line
     ELSE IF i > start + 1 /\ i <= start + count + 1 THEN @[i - 1] ELSE @[i]]]

ShiftUp(b, start, count, line) ==
  [b EXCEPT !.lines = [i \in 1..Len(@) |->
     IF i = start + count THEN line
     ELSE IF i >= start /\ i < start + count THEN @[i + 1] ELSE @[i]]]

-----------------------------------------------------------------------------
(* Tab stops: the columns that have one.                                   *)
TabsFrom(tabs, start, cols) ==
  tabs \cup {i \in start..(cols - 1) : (i - start) % TabStopWidth = 0}

PrevStop(tabs, x, cols) ==
  Least(Max({0} \cup {i \in tabs : i < x}), cols - 1)

NextStop(tabs, x, cols) ==
  Min({cols - 1} \cup {i \in tabs : x < i /\ i < cols})

\* After a resize: from the last stop that the screen still has.
SetupTabStops(b, cols) ==
  [b EXCEPT !.tabs =
     TabsFrom(@, IF cols \in @ THEN cols ELSE PrevStop(@, cols, cols), cols)]

-----------------------------------------------------------------------------
(* Buffer.                                                                 *)
BufferLength(rows, keeps) == IF keeps THEN rows + Scrollback ELSE rows

NewBuffer(cols, rows, keeps, filled) ==
  [lines |-> [i \in 1..(IF filled THEN rows ELSE 0) |->
               BlankLine(cols, FALSE)],
   max |-> BufferLength(rows, keeps), keeps |-> keeps,
   base |-> 0, x |-> 0, y |-> 0, top |-> 0, bot |-> rows - 1,
   tabs |-> TabsFrom({}, 0, cols),
   saved |-> [x |-> 0, y |-> 0, origin |-> FALSE, wrap |-> TRUE]]

\* Leaving the alternate screen; what was saved there stays.
Clear(b, cols, rows) ==
  [NewBuffer(cols, rows, b.keeps, FALSE) EXCEPT !.saved = b.saved]

FillViewport(b, cols, rows) ==
  IF b.lines # <<>> THEN b
  ELSE [b EXCEPT !.lines = [i \in 1..rows |-> BlankLine(cols, FALSE)]]

\* The group of wrapped lines of line i, and where groups start.
Starts(ls) == {i \in 1..Len(ls) : i = 1 \/ ~ls[i].wrapped}
GroupEnd(ls, i) ==
  LET later == {j \in Starts(ls) : j > i}
  IN IF later = {} THEN Len(ls)
     ELSE (CHOOSE j \in later : \A k \in later : j <= k) - 1
Group(ls, i) == SubSeq(ls, i, GroupEnd(ls, i))

\* How many cells line i of a group fills: all but a column a wide character
\* of the next line did not fit in.
FilledLength(g, i, cols) ==
  IF i = Len(g) THEN TrimmedLength(g[i].cells)
  ELSE IF g[i].cells[cols] = Null /\ g[i + 1].cells[1] \in Wide THEN cols - 1
  ELSE cols

-----------------------------------------------------------------------------
(* Reflow to more columns: a group moves up cell by cell; d and s are the  *)
(* places it is written to and read from.                                  *)
RECURSIVE MoveUp(_, _, _, _, _, _, _)
MoveUp(g, d, dc, s, sc, old, new) ==
  IF s > Len(g) THEN [g |-> g, d |-> d, dc |-> dc]
  ELSE
    LET filled == FilledLength(g, s, old)
        n == Least(filled - sc, new - dc)
        g1 == [g EXCEPT ![d].cells = CopyCells(@, g[s].cells, sc, dc, n)]
        full == dc + n = new
        d1 == IF full THEN d + 1 ELSE d
        read == sc + n = filled
        split == full /\ g1[d].cells[new] \in Wide
        g2 == IF ~split THEN g1
              ELSE [g1 EXCEPT ![d1].cells[1] = g1[d].cells[new],
                              ![d].cells[new] = Null]
    IN MoveUp(g2, d1, IF split THEN 1 ELSE IF full THEN 0 ELSE dc + n,
              IF read THEN s + 1 ELSE s, IF read THEN 0 ELSE sc + n, old, new)

\* Lines after d, and empty ones at the end, are not kept.
Used(g, d) ==
  SubSeq(g, 1, SelectLastInSeq(Upto(Len(g)), LAMBDA i :
                 i = 1 \/ (i <= d /\ TrimmedLength(g[i].cells) # 0)))

Closed(m, new) ==
  Used([m.g EXCEPT ![m.d].cells = ReplaceCells(@, m.dc, new)], m.d)

Enlarged(g, old, new) ==
  Closed(MoveUp(g, 1, FilledLength(g, 1, old), 2, 0, old, new), new)

\* gone lines less: they come back from the scrollback, or the cursor goes up.
MovedUp(b, gone, new, rows) ==
  LET up(c, i) ==
        IF c.base > 0 THEN [c EXCEPT !.base = @ - 1]
        ELSE LET e == [c EXCEPT !.y = Most(@ - 1, 0)]
             IN IF Len(e.lines) < rows THEN Push(e, BlankLine(new, FALSE))
                ELSE e
  IN [FoldLeft(up, b, Upto(gone)) EXCEPT !.saved.y = Most(@ - gone, 0)]

\* The group of the cursor stays as it is.
ReflowLarger(b, old, new, rows) ==
  LET ls == b.lines
      part(i, j) ==
        IF i = j \/ b.base + b.y + 1 \in i..j THEN SubSeq(ls, i, j)
        ELSE Enlarged(SubSeq(ls, i, j), old, new)
      next(kept, i) ==
        IF i \in Starts(ls) THEN kept \o part(i, GroupEnd(ls, i)) ELSE kept
      keep(kept) ==
        MovedUp([b EXCEPT !.lines = kept], Len(ls) - Len(kept), new, rows)
  IN keep(FoldLeft(next, <<>>, Upto(Len(ls))))

-----------------------------------------------------------------------------
(* Reflow to fewer columns.                                                *)
\* The lengths of the lines a group needs.
RECURSIVE NewLengths(_, _, _, _, _, _)
NewLengths(g, needed, line, col, old, new) ==
  IF needed <= 0 THEN <<>>
  ELSE IF needed < new THEN <<needed>>
  ELSE
    LET filled == FilledLength(g, line, old)
        over == col + new > filled
        l == IF over THEN line + 1 ELSE line
        c == IF over THEN col + new - filled ELSE col + new
        wide == l <= Len(g) /\ g[l].cells[c] \in Wide
        n == IF wide THEN new - 1 ELSE new
    IN <<n>> \o NewLengths(g, needed - n, l, IF wide THEN c - 1 ELSE c,
                          old, new)

CellsNeeded(g, old) ==
  FoldLeft(LAMBDA sum, i : sum + FilledLength(g, i, old), 0, Upto(Len(g)))

\* The cells move down, the last ones first.
RECURSIVE MoveDown(_, _, _, _, _, _, _)
MoveDown(g, lens, d, dc, s, sc, old) ==
  IF s = 0 \/ d = 0 THEN g
  ELSE
    LET n == Least(sc, dc)
        g1 == [g EXCEPT ![d].cells =
                 CopyCells(@, g[s].cells, sc - n, dc - n, n)]
        d1 == IF dc = n THEN d - 1 ELSE d
        s1 == IF sc = n THEN s - 1 ELSE s
    IN MoveDown(g1, lens, d1,
                IF dc # n THEN dc - n ELSE IF d1 = 0 THEN 0 ELSE lens[d1],
                s1, IF sc # n THEN sc - n
                    ELSE FilledLength(g1, Most(s1, 1), old), old)

Reduced(g, lens, old, new) ==
  LET all == g \o [i \in 1..(Len(lens) - Len(g)) |-> BlankLine(old, TRUE)]
      h == MoveDown(all, lens, Len(lens), lens[Len(lens)], Len(g),
                    TrimmedLength(g[Len(g)].cells), old)
  IN [i \in 1..Len(h) |->
        IF i <= Len(lens) /\ lens[i] < new
        THEN [h[i] EXCEPT !.cells[lens[i] + 1] = Null] ELSE h[i]]

\* The viewport follows n of the lines a group gains, count of all so far.
Follow(b, n, count, rows) ==
  LET down(c, k) ==
        IF c.base = 0
        THEN IF c.y < rows - 1 THEN [Pop(c) EXCEPT !.y = @ + 1]
             ELSE [c EXCEPT !.base = 1]
        ELSE IF c.base < Least(c.max, Len(c.lines) + count) - rows
             THEN [c EXCEPT !.base = @ + 1] ELSE c
  IN FoldLeft(down, b, Upto(n))

Trimmed(b, add) ==
  Most(0, add - b.max + IF b.base = 0 /\ b.y # Len(b.lines) - 1 THEN b.y
                        ELSE Len(b.lines))

SavedDown(b, add, rows) ==
  [b EXCEPT !.saved.y = Least(@ + add, b.base + rows - 1)]

\* Lines i to j become h: as many stay where they are, the rest is kept to be
\* inserted after them.
Rewrapped(r, i, j, h, rows) ==
  LET add == Len(h) - (j - i + 1)
  IN [r EXCEPT
        !.ls = [k \in 1..Len(@) |-> IF k \in i..j THEN h[k - i + 1] ELSE @[k]],
        !.after[j] = SubSeq(h, j - i + 2, Len(h)),
        !.count = @ + add,
        !.b = SavedDown(Follow(@, Most(add - Trimmed(@, add), 0),
                               r.count + add, rows), add, rows)]

ReduceGroup(r, i, j, old, new, rows) ==
  LET g == SubSeq(r.ls, i, j)
      lens == NewLengths(g, CellsNeeded(g, old), 1, 0, old, new)
  IN IF \/ (i = j /\ ~g[1].wrapped /\ TrimmedLength(g[1].cells) <= new)
        \/ r.b.base + r.b.y + 1 \in i..j
     THEN r
     ELSE IF lens = <<>> THEN [r EXCEPT !.panic = TRUE]
     ELSE Rewrapped(r, i, j, Reduced(g, lens, old, new), rows)

\* The lines left after the pops with the new ones between them; if they are
\* too many the first ones go.
Rearranged(r) ==
  LET left == Len(r.b.lines)
      all == FoldLeft(LAMBDA acc, i : acc \o (IF i <= left THEN <<r.ls[i]>>
                                              ELSE <<>>) \o r.after[i],
                      <<>>, Upto(Len(r.ls)))
  IN [panic |-> r.panic,
      b |-> [r.b EXCEPT !.lines =
               SubSeq(all, Most(Len(all) - r.b.max, 0) + 1, Len(all))]]

\* From the last group to the first.  An empty first line that is still marked
\* as a continuation makes the code ask for a slice of length -1.
ReflowSmaller(b, old, new, rows) ==
  LET one(r, i) ==
        IF i \notin Starts(r.ls) \/ r.panic THEN r
        ELSE ReduceGroup(r, i, GroupEnd(r.ls, i), old, new, rows)
  IN Rearranged(FoldLeft(one, [b |-> b, ls |-> b.lines, count |-> 0,
                               panic |-> FALSE,
                               after |-> [i \in 1..Len(b.lines) |-> <<>>]],
                         Reverse(Upto(Len(b.lines)))))

-----------------------------------------------------------------------------
(* Resize: rows come from the scrollback or are added below, or lines below *)
(* the cursor are dropped before lines move to the scrollback.             *)
TallerBy(b, cols, rows, old) ==
  LET one(r, i) ==
        IF Len(r.b.lines) >= rows + r.b.base THEN r
        ELSE IF r.b.base > 0 /\ Len(r.b.lines) <= r.b.base + b.y + r.add + 1
        THEN [b |-> [r.b EXCEPT !.base = @ - 1], add |-> r.add + 1]
        ELSE [r EXCEPT !.b = Push(@, BlankLine(cols, FALSE))]
  IN FoldLeft(one, [b |-> b, add |-> 0], Upto(rows - old))

\* Off by one: the cursor's own line is dropped as well.
ShorterByOneMore(b, rows, old) ==
  LET one(c, i) == IF Len(c.lines) <= rows + c.base THEN c
                   ELSE IF Len(c.lines) > c.base + b.y THEN Pop(c)
                   ELSE [c EXCEPT !.base = @ + 1]
  IN FoldLeft(one, b, Upto(old - rows))

ShorterBy(b, rows, old) ==
  LET one(c, i) == IF Len(c.lines) <= rows + c.base THEN c
                   ELSE IF Len(c.lines) > c.base + b.y + 1 THEN Pop(c)
                   ELSE [c EXCEPT !.base = @ + 1]
  IN FoldLeft(one, b, Upto(old - rows))

\* The lines go and the position of the screen stays.
CappedBaseKept(b, max) ==
  LET n == Most(Len(b.lines) - max, 0)
  IN SetMaxLength(IF max >= b.max THEN b ELSE TrimStart(b, n), max)

Capped(b, max) ==
  LET n == Most(Len(b.lines) - max, 0)
      c == IF max >= b.max THEN b
           ELSE [TrimStart(b, n) EXCEPT !.base = Most(@ - n, 0),
                                        !.saved.y = Most(@ - n, 0)]
  IN SetMaxLength(c, max)

Lines(b, cols) ==
  [b EXCEPT !.lines = [i \in 1..Len(@) |-> ResizeLine(@[i], cols)]]

\* An alternate buffer that is not shown has no lines.
ResizeShown(b, oldCols, oldRows, cols, rows) ==
  LET max == BufferLength(rows, b.keeps)
      b1 == SetMaxLength(b, Most(b.max, max))
      b2 == IF oldCols < cols THEN Lines(b1, cols) ELSE b1
      fit(r) ==
        [Capped(r.b, max) EXCEPT
           !.x = Least(@, cols - 1), !.y = Least(@, rows - 1) + r.add,
           !.saved.x = Least(@, cols - 1), !.top = 0, !.bot = rows - 1]
  IN fit(IF oldRows < rows THEN TallerBy(b2, cols, rows, oldRows)
         ELSE [b |-> ShorterBy(b2, rows, oldRows), add |-> 0])

Reflow(b, oldCols, cols, rows) ==
  IF ~b.keeps \/ oldCols = cols THEN [panic |-> FALSE, b |-> b]
  ELSE IF cols > oldCols
  THEN [panic |-> FALSE, b |-> ReflowLarger(b, oldCols, cols, rows)]
  ELSE [ReflowSmaller(b, oldCols, cols, rows) EXCEPT !.b = Lines(@, cols)]

OnScreen(r) ==
  [r EXCEPT !.b.y = Least(@, Most(0, Len(r.b.lines) - r.b.base - 1))]

ResizeBuffer(b, oldCols, oldRows, cols, rows) ==
  IF b.lines = <<>>
  THEN [panic |-> FALSE,
        b |-> [b EXCEPT !.max = Most(@, BufferLength(rows, b.keeps)),
                        !.bot = rows - 1]]
  ELSE OnScreen(Reflow(ResizeShown(b, oldCols, oldRows, cols, rows),
                       oldCols, cols, rows))
=============================================================================
