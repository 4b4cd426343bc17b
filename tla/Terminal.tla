------------------------------ MODULE Terminal ------------------------------
(***************************************************************************)
(* The daemon's terminal: what a shell writes is interpreted by the        *)
(* handlers of internal/xterm, the PTY is resized, and a client that       *)
(* attaches is given the screen and the scrollback as sequences that its   *)
(* own terminal replays (cmd/claw/terminal.go).                            *)
(*                                                                         *)
(* A terminal is a record; a handler maps a terminal to a terminal.  Left  *)
(* out: colours, character sets, modes that only the client acts on, and   *)
(* how the parser cuts bytes into sequences.                               *)
(***************************************************************************)
EXTENDS TerminalBuffer

CONSTANTS
  Sizes,        \* the sizes, <<columns, rows>>, a PTY may be given
  Texts,        \* runs of characters printed at once
  Counts,       \* the parameters of the handlers
  Past,         \* what was written before, as sequences of what a Step does
  MaxOps        \* how many operations follow

VARIABLES
  term,         \* Session.History
  ops           \* how many operations have run

vars == <<term, ops>>

\* The alternate buffer keeps no scrollback and has no lines until it is on.
NewBuffers(cols, rows) ==
  [normal |-> NewBuffer(cols, rows, TRUE, TRUE),
   alt |-> NewBuffer(cols, rows, FALSE, FALSE), on |-> "normal"]

NewTerminal(cols, rows) ==
  NewBuffers(cols, rows) @@
  [cols |-> cols, rows |-> rows,
   origin |-> FALSE, wrap |-> TRUE, insert |-> FALSE, rev |-> FALSE,
   join |-> 0,          \* the width of the character just printed, or 0
   dead |-> FALSE]      \* the daemon has crashed

Buf(t) == t[t.on]
With(t, b) == [t EXCEPT ![t.on] = b]
Moved(t, x, y) == With(t, [Buf(t) EXCEPT !.x = x, !.y = y])

\* Lines f changes, rows rs of the screen.
OnRows(t, rs, f(_)) ==
  LET b == Buf(t)
      hit == {Slot(b, b.base + y) : y \in rs}
  IN With(t, [b EXCEPT !.lines =
       [i \in 1..Len(@) |-> IF i \in hit THEN f(@[i]) ELSE @[i]]])

OnRow(t, f(_)) == OnRows(t, {Buf(t).y}, f)
Unwrap(line) == [line EXCEPT !.wrapped = FALSE]

RestrictTo(t, maxCol) ==
  LET b == Buf(t)
      lo == IF t.origin THEN b.top ELSE 0
      hi == IF t.origin THEN b.bot ELSE t.rows - 1
  IN Moved(t, Least(Most(b.x, 0), maxCol), Least(Most(b.y, lo), hi))

Restricted(t) == RestrictTo(t, t.cols - 1)

SetCursor(t, x, y) ==
  Restricted(Moved(t, x, IF t.origin THEN Buf(t).top + y ELSE y))

\* The row goes through SetCursor: in origin mode the top is added again.
MoveCursor(t, dx, dy) ==
  LET r == Restricted(t) IN SetCursor(r, Buf(r).x + dx, Buf(r).y + dy)

Scroll(t, wrapped) ==
  LET b == Buf(t)
      line == BlankLine(t.cols, wrapped)
      bottom == b.base + b.bot
      c == IF bottom = Len(b.lines) - 1 THEN Push(b, line)
           ELSE SpliceIn(b, bottom + 1, line)
  IN With(t, IF b.top # 0
             THEN ShiftUp(b, b.base + b.top + 1, b.bot - b.top, line)
             ELSE IF Len(b.lines) = b.max THEN c
             ELSE [c EXCEPT !.base = @ + 1])

-----------------------------------------------------------------------------
(* Printing.                                                               *)
NextRow(t) ==
  LET b == Buf(t) IN
  IF b.y = b.bot THEN Scroll(Moved(t, 0, b.y), TRUE)
  ELSE LET u == Moved(t, 0, Least(b.y + 1, t.rows - 1))
       IN OnRow(u, LAMBDA l : [l EXCEPT !.wrapped = TRUE])

\* A character at the cursor, whose column is in the line.
WriteCell(t, c) ==
  LET x == Buf(t).x
      w == Width(c)
      shifted(cells) == ClearIf(InsertCells(cells, x, w), t.cols - 1,
                                InsertCells(cells, x, w)[t.cols] \in Wide)
      put(line) ==
        LET cells == IF t.insert THEN shifted(line.cells) ELSE line.cells
        IN [line EXCEPT !.cells =
              [i \in 1..Len(cells) |-> IF i = x + 1 THEN c
                                       ELSE IF w = 2 /\ i = x + 2 THEN Tail0
                                       ELSE cells[i]]]
      u == OnRow(t, put)
  IN Moved(u, x + Most(w, 1), Buf(t).y)

\* A mark joins the character printed before it.  With nothing to join it is
\* written as a cell, beyond the line if the line is full.
PrintOne(t, c) ==
  LET b == Buf(t)
      w == Width(c)
      over == b.x + w > t.cols
      u == [t EXCEPT !.join = IF c = Mark THEN @ ELSE w]
      v == IF ~over THEN u ELSE IF t.wrap THEN NextRow(u)
           ELSE Moved(u, t.cols - 1, b.y)
      line == b.lines[Slot(b, b.base + b.y)]
  IN IF c = Mark /\ t.join > 0 THEN t
     ELSE IF over /\ ~t.wrap /\ w = 2 THEN v
     ELSE IF c = Mark /\ b.x >= Len(line.cells) THEN [t EXCEPT !.dead = TRUE]
     ELSE WriteCell(v, c)

PrintRun(t, text) ==
  LET x == Buf(t).x
      before(line) == [line EXCEPT !.cells = ClearIf(@, x - 1, Halved(@, x))]
      one(u, c) == IF u.dead THEN u ELSE PrintOne(u, c)
      u == FoldLeft(one, OnRow(t, before), text)
      ux == Buf(u).x
      after(line) == [line EXCEPT !.cells =
        ClearIf(@, ux, ux < t.cols /\ @[ux + 1] = Tail0)]
      line == Buf(t).lines[Slot(Buf(t), Buf(t).base + Buf(t).y)]
  IN IF text = <<>> THEN t
     ELSE IF x > Len(line.cells) THEN [t EXCEPT !.dead = TRUE]
     ELSE OnRow(u, after)

-----------------------------------------------------------------------------
(* Control characters and ESC sequences.                                   *)
LineFeed(t) ==
  LET b == Buf(t)
      x == IF b.x >= t.cols THEN b.x - 1 ELSE b.x
  IN IF b.y = b.bot THEN Scroll(Moved(t, x, b.y), FALSE)
     ELSE IF b.y + 1 >= t.rows THEN Moved(t, x, t.rows - 1)
     ELSE OnRow(Moved(t, x, b.y + 1), Unwrap)

CarriageReturn(t) == Moved(t, 0, Buf(t).y)

\* In reverse wraparound mode a soft wrap can be undone.
Backspace(t) ==
  LET r == IF t.rev THEN RestrictTo(t, t.cols) ELSE Restricted(t)
      b == Buf(r)
      up == b.lines[Slot(b, b.base + b.y - 1)]
      last == IF up.cells[t.cols] = Null THEN t.cols - 2 ELSE t.cols - 1
  IN IF b.x > 0
     THEN Restricted(Moved(r, b.x - 1, b.y))
     ELSE IF /\ t.rev
             /\ b.y > b.top
             /\ b.y <= b.bot
             /\ b.lines[Slot(b, b.base + b.y)].wrapped
     THEN Restricted(Moved(OnRow(r, Unwrap), last, b.y - 1))
     ELSE Restricted(r)

Tab(t) ==
  LET b == Buf(t)
  IN IF b.x >= t.cols THEN t
     ELSE Moved(t, NextStop(b.tabs, b.x, t.cols), b.y)

SaveCursor(t) ==
  With(t, [Buf(t) EXCEPT !.saved = [x |-> Buf(t).x,
                                    y |-> Buf(t).base + Buf(t).y,
                                    origin |-> t.origin, wrap |-> t.wrap]])

RestoreCursor(t) ==
  LET b == Buf(t)
  IN Restricted([Moved(t, b.saved.x, Most(b.saved.y - b.base, 0))
                   EXCEPT !.origin = b.saved.origin, !.wrap = b.saved.wrap])

Index(t) ==
  LET r == Restricted(t)
      b == Buf(r)
  IN IF b.y = b.bot THEN Restricted(Scroll(r, FALSE))
     ELSE Restricted(Moved(r, b.x, Least(b.y + 1, t.rows - 1)))

ReverseIndex(t) ==
  LET r == Restricted(t)
      b == Buf(r)
  IN IF b.y = b.top
     THEN With(r, ShiftDown(b, b.base + b.y, b.bot - b.top,
                            BlankLine(t.cols, FALSE)))
     ELSE Restricted(Moved(r, b.x, b.y - 1))

TabSet(t) == With(t, [Buf(t) EXCEPT !.tabs = @ \cup {Buf(t).x}])
NextLine(t) == Index(CarriageReturn(t))
FullReset(t) == NewTerminal(t.cols, t.rows)

\* In origin mode the rows below the region are reached past the screen.
AlignmentPattern(t) ==
  LET u == SetCursor(t, 0, 0)
      fill(line) == [wrapped |-> FALSE,
                     cells |-> [i \in 1..Len(line.cells) |-> "E"]]
  IN SetCursor(OnRows(u, {Buf(u).y + k : k \in 0..(t.rows - 1)}, fill), 0, 0)

-----------------------------------------------------------------------------
(* CSI: moving the cursor.                                                 *)
CursorUp(t, n) ==
  LET d == Buf(t).y - Buf(t).top
  IN MoveCursor(t, 0, -(IF d >= 0 THEN Least(d, n) ELSE n))

CursorDown(t, n) ==
  LET d == Buf(t).bot - Buf(t).y
  IN MoveCursor(t, 0, IF d >= 0 THEN Least(d, n) ELSE n)

CursorForward(t, n) == MoveCursor(t, n, 0)
CursorBackward(t, n) == MoveCursor(t, -n, 0)
CursorNextLine(t, n) == CarriageReturn(CursorDown(t, n))
CursorPrecedingLine(t, n) == CarriageReturn(CursorUp(t, n))
CharPosAbsolute(t, n) == SetCursor(t, n - 1, Buf(t).y)
CursorPosition(t, row, col) == SetCursor(t, col - 1, row - 1)
LinePosAbsolute(t, n) == SetCursor(t, Buf(t).x, n - 1)
HPositionRelative(t, n) == MoveCursor(t, n, 0)
VPositionRelative(t, n) == MoveCursor(t, 0, n)

\* n tab stops further on or back.
TabMoves(t, n, stop(_, _, _)) ==
  LET b == Buf(t)
  IN IF b.x >= t.cols THEN t
     ELSE Moved(t, FoldLeft(LAMBDA x, i : stop(b.tabs, x, t.cols), b.x,
                            Upto(n)), b.y)

CursorForwardTab(t, n) == TabMoves(t, n, NextStop)
CursorBackwardTab(t, n) == TabMoves(t, n, PrevStop)
TabClear(t) == With(t, [Buf(t) EXCEPT !.tabs = @ \ {Buf(t).x}])
TabClearAll(t) == With(t, [Buf(t) EXCEPT !.tabs = {}])

-----------------------------------------------------------------------------
(* CSI: erasing, inserting and deleting.                                   *)
Erase(start, end, clearWrap) ==
  [start |-> start, end |-> end, clearWrap |-> clearWrap]

EraseInBufferLine(t, e) ==
  OnRow(t, LAMBDA l : [wrapped |-> l.wrapped /\ ~e.clearWrap,
                       cells |-> ReplaceCells(l.cells, e.start, e.end)])

ResetBufferLines(t, rs) ==
  OnRows(t, rs, LAMBDA l : BlankLine(Len(l.cells), FALSE))

EraseBelow(t) ==
  LET r == RestrictTo(t, t.cols)
      b == Buf(r)
  IN ResetBufferLines(EraseInBufferLine(r, Erase(b.x, t.cols, b.x = 0)),
                      (b.y + 1)..(t.rows - 1))

\* The row after the cursor's may be past the screen.
EraseAbove(t) ==
  LET r == RestrictTo(t, t.cols)
      b == Buf(r)
      u == EraseInBufferLine(r, Erase(0, b.x + 1, TRUE))
      v == IF b.x + 1 >= t.cols THEN OnRows(u, {b.y + 1}, Unwrap) ELSE u
  IN ResetBufferLines(v, 0..(b.y - 1))

EraseScreen(t) == ResetBufferLines(RestrictTo(t, t.cols), 0..(t.rows - 1))

\* Write drops this sequence when it sees all of it in one piece.
EraseScrollback(t) ==
  LET r == RestrictTo(t, t.cols)
      b == Buf(r)
      n == Most(Len(b.lines) - t.rows, 0)
  IN With(r, [TrimStart(b, n) EXCEPT !.base = Most(@ - n, 0)])

EraseInLine(t, kind) ==
  LET r == RestrictTo(t, t.cols)
      x == Buf(r).x
  IN EraseInBufferLine(r, CASE kind = 0 -> Erase(x, t.cols, x = 0)
                            [] kind = 1 -> Erase(0, x + 1, FALSE)
                            [] kind = 2 -> Erase(0, t.cols, TRUE))

EraseChars(t, n) ==
  LET r == Restricted(t)
  IN EraseInBufferLine(r, Erase(Buf(r).x, Buf(r).x + n, FALSE))

InsertChars(t, n) ==
  LET r == Restricted(t)
  IN OnRow(r, LAMBDA l : [l EXCEPT !.cells = InsertCells(@, Buf(r).x, n)])

DeleteChars(t, n) ==
  LET r == Restricted(t)
  IN OnRow(r, LAMBDA l : [l EXCEPT !.cells = DeleteCells(@, Buf(r).x, n)])

\* n times, a line is taken out at one place and a new one put in at another.
Exchange(b, out, in, n, cols) ==
  FoldLeft(LAMBDA c, i : SpliceIn(SpliceOut(c, b.base + out), b.base + in,
                                  BlankLine(cols, FALSE)), b, Upto(n))

InRegion(b) == b.y \in b.top..b.bot

InsertLines(t, n) ==
  LET r == Restricted(t)
      b == Buf(r)
  IN IF ~InRegion(b) THEN r
     ELSE With(r, [Exchange(b, b.bot, b.y, n, t.cols) EXCEPT !.x = 0])

DeleteLines(t, n) ==
  LET r == Restricted(t)
      b == Buf(r)
  IN IF ~InRegion(b) THEN r
     ELSE With(r, [Exchange(b, b.y, b.bot, n, t.cols) EXCEPT !.x = 0])

ScrollUp(t, n) ==
  LET b == Buf(t) IN With(t, Exchange(b, b.top, b.bot, n, t.cols))

ScrollDown(t, n) ==
  LET b == Buf(t) IN With(t, Exchange(b, b.bot, b.top, n, t.cols))

\* Columns of the whole region, at the cursor or (SL, SR) at the left margin.
ShiftColumns(t, f(_)) ==
  LET b == Buf(t)
  IN IF ~InRegion(b) THEN t
     ELSE OnRows(t, b.top..b.bot,
                 LAMBDA l : [wrapped |-> FALSE, cells |-> f(l.cells)])

ScrollLeft(t, n) == ShiftColumns(t, LAMBDA c : DeleteCells(c, 0, n))
ScrollRight(t, n) == ShiftColumns(t, LAMBDA c : InsertCells(c, 0, n))
InsertColumns(t, n) == ShiftColumns(t, LAMBDA c : InsertCells(c, Buf(t).x, n))
DeleteColumns(t, n) == ShiftColumns(t, LAMBDA c : DeleteCells(c, Buf(t).x, n))

\* REP: the cell before the cursor is printed n times.
RepeatPreceding(t, n) ==
  LET b == Buf(t)
      c == b.lines[Slot(b, b.base + b.y)].cells[Most(b.x - t.join, 0) + 1]
      text == IF HasContent(c) THEN [i \in 1..n |-> c] ELSE <<>>
  IN IF t.join = 0 THEN t ELSE PrintRun(t, text)

-----------------------------------------------------------------------------
(* CSI: the scroll region and the modes.                                   *)
SoftReset(t) ==
  LET b == Buf(t)
  IN [With(t, [b EXCEPT !.top = 0, !.bot = t.rows - 1,
                        !.saved.x = 0, !.saved.y = b.base])
        EXCEPT !.origin = FALSE, !.wrap = TRUE, !.insert = FALSE,
               !.rev = FALSE]

SetScrollRegion(t, top, bottom) ==
  IF bottom <= top THEN t
  ELSE SetCursor(With(t, [Buf(t) EXCEPT !.top = top - 1, !.bot = bottom - 1]),
                 0, 0)

SetInsert(t, set) == [t EXCEPT !.insert = set]
SetOrigin(t, set) == SetCursor([t EXCEPT !.origin = set], 0, 0)
SetWrap(t, set) == [t EXCEPT !.wrap = set]
SetReverse(t, set) == [t EXCEPT !.rev = set]

\* The cursor stays where it is when the buffer changes.
ActivateAlt(t) ==
  IF t.on = "alt" THEN t
  ELSE [t EXCEPT !.on = "alt",
                 !.alt = [FillViewport(@, t.cols, t.rows)
                            EXCEPT !.x = t.normal.x, !.y = t.normal.y]]

ActivateNormal(t) ==
  IF t.on = "normal" THEN t
  ELSE [t EXCEPT !.on = "normal", !.alt = Clear(@, t.cols, t.rows),
                 !.normal.x = t.alt.x, !.normal.y = t.alt.y]

EnterAlt(t) == ActivateAlt(SaveCursor(t))
LeaveAlt(t) == RestoreCursor(ActivateNormal(t))

-----------------------------------------------------------------------------
(* Resize.  PTYManager.Resize replaces a terminal that panics by a new one. *)
Resized(t, cols, rows, n, a) ==
  [t EXCEPT !.cols = cols, !.rows = rows,
            !.normal = SetupTabStops(n, cols), !.alt = SetupTabStops(a, cols)]

Resize(t, cols, rows) ==
  LET recovered(n, a) == IF n.panic THEN NewTerminal(cols, rows)
                         ELSE Resized(t, cols, rows, n.b, a.b)
  IN IF cols = t.cols /\ rows = t.rows THEN t
     ELSE recovered(ResizeBuffer(t.normal, t.cols, t.rows, cols, rows),
                    ResizeBuffer(t.alt, t.cols, t.rows, cols, rows))

-----------------------------------------------------------------------------
(* Serializing: what is written is a sequence of items, each a run of      *)
(* characters or a control function with its parameter.                    *)
Item(op, n) == <<[op |-> op, n |-> n, text |-> <<>>]>>
Chars(text) == <<[op |-> "text", n |-> 0, text |-> text]>>

\* Characters written one after the other are one run.
Then(out, more) ==
  IF /\ out # <<>> /\ more # <<>>
     /\ Last(out).op = "text" /\ Head(more).op = "text"
  THEN Front(out) \o Chars(Last(out).text \o Head(more).text) \o Tail(more)
  ELSE out \o more

\* What is written for a row so far, with the empty cells since the last
\* character and where a character has ended.
NextCell(s, c, col) ==
  IF Width(c) = 0 THEN s
  ELSE IF c = Null THEN [s EXCEPT !.nulls = @ + 1]
  ELSE LET gap == IF s.nulls = 0 THEN <<>> ELSE Item("CUF", s.nulls)
       IN [row |-> Then(s.row \o gap, Chars(<<c>>)),
           nulls |-> 0, end |-> col + Width(c)]

\* A row that runs into the next one needs no separator if the terminal wraps
\* there by itself when the next character is written.
\* The cells that are left empty at the end of the row are forgotten.
WrapsAnyway(this, next, nulls) ==
  /\ HasContent(next[1])
  /\ this[Len(this)] # Null \/ next[1] \in Wide

WrapsByItself(this, next, nulls) ==
  LET wide == next[1] \in Wide
      solid(c) == c # Null
  IN /\ HasContent(next[1])
     /\ nulls <= IF wide THEN 1 ELSE 0
     /\ (solid(this[Len(this)]) \/ (wide /\ solid(this[Len(this) - 1])))

ForcedWrap(len, nulls) ==
  Chars([i \in 1..(nulls + 1) |-> "-"]) \o Item("CUB", 1) \o Item("ECH", 1)
  \o (IF nulls = 0 THEN <<>>
      ELSE Item("CUU", 1) \o Item("CUF", len - nulls) \o Item("ECH", nulls)
           \o Item("CUB", len - nulls) \o Item("CUD", 1))

\* The rows of a buffer with what follows each, and the last position (row
\* and column) that holds content.
SerializeRow(s, b, cols, i) ==
  LET cells == b.lines[i].cells
      r == FoldLeft(LAMBDA a, k : NextCell(a, cells[k], k - 1),
                    [row |-> <<>>, nulls |-> 0, end |-> -1],
                    Upto(Least(Len(cells), cols)))
      t == IF r.end = -1 THEN s
           ELSE [s EXCEPT !.content = <<i, r.end>>, !.last = <<i, r.end>>]
      put(u, sep) == [u EXCEPT !.rows = Append(@, r.row),
                               !.seps = Append(@, sep)]
  IN IF i = Len(b.lines) THEN put(t, <<>>)
     ELSE IF ~b.lines[i + 1].wrapped
     THEN put([t EXCEPT !.last = <<i + 1, 0>>], Item("CRLF", 1))
     ELSE IF WrapsByItself(cells, b.lines[i + 1].cells, r.nulls)
     THEN put(t, <<>>)
     ELSE put([t EXCEPT !.content = <<i + 1, 0>>, !.last = <<i + 1, 0>>],
              ForcedWrap(Len(cells), r.nulls))

\* How the cursor gets from one position to another.
CursorMove(from, to) ==
  LET dy == to[1] - from[1]
      dx == to[2] - from[2]
  IN (IF dy > 0 THEN Item("CUD", dy) ELSE IF dy < 0 THEN Item("CUU", -dy)
      ELSE <<>>)
     \o (IF dx > 0 THEN Item("CUF", dx) ELSE IF dx < 0 THEN Item("CUB", -dx)
         ELSE <<>>)

\* Empty rows at the end are left out of a buffer no longer than the screen.
SerializeBuffer(b, cols, rows) ==
  LET s == FoldLeft(LAMBDA a, i : SerializeRow(a, b, cols, i),
                    [rows |-> <<>>, seps |-> <<>>,
                     content |-> <<1, 0>>, last |-> <<1, 0>>],
                    Upto(Len(b.lines)))
      short == Len(b.lines) <= rows
      n == IF short THEN s.content[1] ELSE Len(b.lines)
      text == FoldLeft(LAMBDA a, i :
                Then(Then(a, s.rows[i]), IF i < n THEN s.seps[i] ELSE <<>>),
                <<>>, Upto(n))
  IN text \o CursorMove(IF short THEN s.content ELSE s.last,
                        <<b.base + b.y + 1, b.x>>)

SerializeModes(t) ==
  (IF t.insert THEN Item("insert", 1) ELSE <<>>)
  \o (IF t.origin THEN Item("origin", 1) ELSE <<>>)
  \o (IF t.rev THEN Item("reverse", 1) ELSE <<>>)
  \o (IF t.wrap THEN <<>> ELSE Item("nowrap", 1))

SerializeScrollRegion(t) ==
  LET b == Buf(t)
  IN IF b.top = 0 /\ b.bot = t.rows - 1 THEN <<>>
     ELSE <<[op |-> "region", n |-> 0, text |-> <<b.top + 1, b.bot + 1>>]>>

Read(t) ==
  Then(SerializeBuffer(t.normal, t.cols, t.rows),
       IF t.on = "normal" THEN <<>>
       ELSE Item("alt", 1) \o Item("CUP", 1)
            \o SerializeBuffer(t.alt, t.cols, t.rows))
  \o SerializeModes(t) \o SerializeScrollRegion(t)

-----------------------------------------------------------------------------
(* Writing what was serialized to a terminal.                              *)
Apply(t, i) ==
  CASE i.op = "text" -> PrintRun(t, i.text)
    [] i.op = "CRLF" -> LineFeed(CarriageReturn(t))
    [] i.op = "CUU" -> CursorUp(t, Most(i.n, 1))
    [] i.op = "CUD" -> CursorDown(t, Most(i.n, 1))
    [] i.op = "CUF" -> CursorForward(t, Most(i.n, 1))
    [] i.op = "CUB" -> CursorBackward(t, Most(i.n, 1))
    [] i.op = "ECH" -> EraseChars(t, Most(i.n, 1))
    [] i.op = "CUP" -> CursorPosition(t, 1, 1)
    [] i.op = "alt" -> EnterAlt(t)
    [] i.op = "insert" -> SetInsert(t, TRUE)
    [] i.op = "origin" -> SetOrigin(t, TRUE)
    [] i.op = "reverse" -> SetReverse(t, TRUE)
    [] i.op = "nowrap" -> SetWrap(t, FALSE)
    [] i.op = "region" -> SetScrollRegion(t, i.text[1], i.text[2])

Ended(t, i) == IF i.op = "text" THEN t ELSE [t EXCEPT !.join = 0]
Write(t, items) == FoldLeft(LAMBDA u, i : Ended(Apply(u, i), i), t, items)

\* For a client the screen is written to a terminal of its size and read
\* again; the client writes that to its own.
ReadAt(t, cols, rows) == Read(Write(NewTerminal(cols, rows), Read(t)))
Attached(t) ==
  Write(NewTerminal(t.cols, t.rows), ReadAt(t, t.cols, t.rows))

-----------------------------------------------------------------------------
Init ==
  /\ \E s \in Sizes, p \in Past : term = Write(NewTerminal(s[1], s[2]), p)
  /\ ops = 0

Becomes(t) ==
  /\ ~term.dead
  /\ ops < MaxOps
  /\ ops' = ops + 1
  /\ term' = t

\* A control character or a sequence ends what a mark could join.
Step(t) == Becomes([t EXCEPT !.join = 0])

Printing == \E text \in Texts : Becomes(PrintRun(term, text))

C0 ==
  \/ Step(LineFeed(term))
  \/ Step(CarriageReturn(term))
  \/ Step(Backspace(term))
  \/ Step(Tab(term))

ESC ==
  \/ Step(SaveCursor(term))
  \/ Step(RestoreCursor(term))
  \/ Step(Index(term))
  \/ Step(ReverseIndex(term))
  \/ Step(NextLine(term))
  \/ Step(TabSet(term))
  \/ Step(FullReset(term))
  \/ Step(AlignmentPattern(term))

CSIMoves ==
  \/ \E n \in Counts : Step(CursorUp(term, n))
  \/ \E n \in Counts : Step(CursorDown(term, n))
  \/ \E n \in Counts : Step(CursorForward(term, n))
  \/ \E n \in Counts : Step(CursorBackward(term, n))
  \/ \E n \in Counts : Step(CursorNextLine(term, n))
  \/ \E n \in Counts : Step(CursorPrecedingLine(term, n))
  \/ \E n \in Counts : Step(CharPosAbsolute(term, n))
  \/ \E m, n \in Counts : Step(CursorPosition(term, m, n))
  \/ \E n \in Counts : Step(LinePosAbsolute(term, n))
  \/ \E n \in Counts : Step(VPositionRelative(term, n))
  \/ \E n \in Counts : Step(HPositionRelative(term, n))
  \/ \E n \in Counts : Step(CursorForwardTab(term, n))
  \/ \E n \in Counts : Step(CursorBackwardTab(term, n))
  \/ Step(TabClear(term))
  \/ Step(TabClearAll(term))

CSIEdits ==
  \/ Step(EraseBelow(term))
  \/ Step(EraseAbove(term))
  \/ Step(EraseScreen(term))
  \/ Step(EraseScrollback(term))
  \/ \E kind \in 0..2 : Step(EraseInLine(term, kind))
  \/ \E n \in Counts : Step(EraseChars(term, n))
  \/ \E n \in Counts : Step(InsertChars(term, n))
  \/ \E n \in Counts : Step(DeleteChars(term, n))
  \/ \E n \in Counts : Step(InsertLines(term, n))
  \/ \E n \in Counts : Step(DeleteLines(term, n))
  \/ \E n \in Counts : Step(ScrollUp(term, n))
  \/ \E n \in Counts : Step(ScrollDown(term, n))
  \/ \E n \in Counts : Step(ScrollLeft(term, n))
  \/ \E n \in Counts : Step(ScrollRight(term, n))
  \/ \E n \in Counts : Step(InsertColumns(term, n))
  \/ \E n \in Counts : Step(DeleteColumns(term, n))
  \/ \E n \in Counts : Step(RepeatPreceding(term, n))

CSIModes ==
  \/ Step(SoftReset(term))
  \/ \E m, n \in 1..term.rows : Step(SetScrollRegion(term, m, n))
  \/ \E set \in BOOLEAN : Step(SetInsert(term, set))
  \/ \E set \in BOOLEAN : Step(SetOrigin(term, set))
  \/ \E set \in BOOLEAN : Step(SetWrap(term, set))
  \/ \E set \in BOOLEAN : Step(SetReverse(term, set))
  \/ Step(ActivateAlt(term))
  \/ Step(ActivateNormal(term))
  \/ Step(EnterAlt(term))
  \/ Step(LeaveAlt(term))

\* What a mark could join stays: no byte has been read.
Resizing == \E s \in Sizes : Becomes(Resize(term, s[1], s[2]))

Next ==
  \/ Printing
  \/ C0
  \/ ESC
  \/ CSIMoves
  \/ CSIEdits
  \/ CSIModes
  \/ Resizing

Spec == Init /\ [][Next]_vars

-----------------------------------------------------------------------------
WellFormed(t, b) ==
  /\ b.base >= 0
  /\ Len(b.lines) \in (b.base + t.rows)..b.max
  /\ b.x >= 0 /\ (\E s \in Sizes : b.x <= s[1])
  /\ b.y \in 0..(t.rows - 1)
  /\ 0 <= b.top /\ b.bot < t.rows /\ (b.top < b.bot \/ t.rows = 1)

(* What every handler and every resize relies on when it indexes lines     *)
(* without a check: the lines cover the screen and fit the list, the       *)
(* cursor and the scroll region are on the screen, lines of the normal     *)
(* buffer are as wide as the screen and those of the alternate one at      *)
(* least as wide (they are not cut when the screen is made narrower, and   *)
(* only there can marks take the cursor further than the last column).     *)
ScreenWellFormed ==
  \/ term.dead
  \/ /\ WellFormed(term, term.normal)
     /\ \A i \in 1..Len(term.normal.lines) :
          Len(term.normal.lines[i].cells) = term.cols
     /\ (term.on = "alt" =>
          /\ WellFormed(term, term.alt)
          /\ \A i \in 1..Len(term.alt.lines) :
               Len(term.alt.lines[i].cells) >= term.cols)

-----------------------------------------------------------------------------
\* Wide characters have both their columns, and no mark is a cell.
Whole(t, b) ==
  \A i \in 1..Len(b.lines) : \A k \in 1..t.cols :
    LET c == b.lines[i].cells IN
    /\ c[k] # Mark
    /\ (c[k] = Tail0 => (k > 1 /\ c[k - 1] \in Wide))
    /\ (c[k] \in Wide => (k < t.cols /\ c[k + 1] = Tail0))

Blank(line) == \A k \in 1..Len(line.cells) : line.cells[k] = Null

\* No empty row is followed by its continuation.
NoHole(b) ==
  \A i \in 1..(Len(b.lines) - 1) : Blank(b.lines[i]) => ~b.lines[i + 1].wrapped

Shows(t) == IF t.on = "normal" THEN {t.normal} ELSE {t.normal, t.alt}
Sound(t) == ~t.dead /\ \A b \in Shows(t) : Whole(t, b) /\ NoHole(b)

\* The cursor is not past the last column, nor does the last row with text
\* end there; setting a mode does not move it.
CursorClear(t) ==
  LET b == Buf(t)
      last == SelectLastInSeq(b.lines, LAMBDA l : ~Blank(l))
  IN /\ b.x < t.cols
     /\ (last = 0 \/ b.lines[last].cells[t.cols] = Null)
     /\ ~t.origin /\ b.top = 0 /\ b.bot = t.rows - 1

Cursor(t) == <<Buf(t).x, Buf(t).y>>
Text(t, b) == [i \in 1..Len(b.lines) |-> SubSeq(b.lines[i].cells, 1, t.cols)]

Wraps(b) == {i \in 2..Len(b.lines) : b.lines[i].wrapped}

(* A client that attaches sees what the terminal holds: the scrollback and *)
(* the screen, cell by cell, which rows continue the one above, the        *)
(* alternate screen when it is on, and the cursor; although all it gets    *)
(* are characters and relative motions, written twice over.  Rows with     *)
(* half a wide character and empty rows that are continued are excepted:   *)
(* there the text comes out changed.                                       *)
AttachShowsTheSame ==
  LET same(c) ==
        /\ Text(c, c.normal) = Text(term, term.normal)
        /\ Wraps(c.normal) = Wraps(term.normal)
        /\ (term.on = "alt" => Text(c, c.alt) = Text(term, term.alt))
        /\ (CursorClear(term) => Cursor(c) = Cursor(term))
  IN Sound(term) => same(Attached(term))

(* The comment of serializeString (serialize_addon.go, "Restore cursor     *)
(* position") for a terminal with no mode set and the cursor on a column   *)
(* of the screen.                                                          *)
AttachRestoresCursor ==
  (/\ Sound(term)
   /\ Buf(term).x < term.cols
   /\ ~term.origin /\ Buf(term).top = 0 /\ Buf(term).bot = term.rows - 1)
  => Cursor(Attached(term)) = Cursor(term)

-----------------------------------------------------------------------------
Written(ls) ==
  FoldLeft(LAMBDA all, l :
             all \o SelectSeq(l.cells, HasContent),
           <<>>, ls)

CursorLine(b) == b.base + b.y + 1
CursorGroup(b) ==
  CHOOSE i \in Starts(b.lines) : CursorLine(b) \in i..GroupEnd(b.lines, i)

Above(b) == Written(SubSeq(b.lines, 1, CursorGroup(b) - 1))
Below(b) == Written(SubSeq(b.lines, GroupEnd(b.lines, CursorGroup(b)) + 1,
                         Len(b.lines)))
AtCursor(b) == Written(<<b.lines[CursorLine(b)]>>)

\* The first line is empty and continues one that is no longer kept.
HeadlessBlank(b) ==
  /\ b.lines[1].wrapped /\ Blank(b.lines[1])
  /\ GroupEnd(b.lines, 1) = 1 /\ CursorLine(b) # 1

(* A resize moves characters between lines and lines between the screen    *)
(* and the scrollback, and still: the text above the cursor's line is the  *)
(* same in the same order, but for what no longer fits at the top, and the *)
(* cursor stays on its line, which is cut but not moved.  That is for a    *)
(* shell's screen, nothing being written below the cursor.  Only a blank   *)
(* first line that continues a lost one costs the session its history.     *)
ResizeKeepsText ==
  [][\A s \in Sizes :
       LET b == term.normal
           c == term'.normal
       IN (/\ s # <<term.cols, term.rows>>
           /\ term' = Resize(term, s[1], s[2])
           /\ term.on = "normal" /\ Sound(term)
           /\ Below(b) = <<>> /\ ~HeadlessBlank(b))
          => (/\ IsSuffix(Above(c), Above(b))
              /\ IsPrefix(AtCursor(c), AtCursor(b))
              /\ (/\ term'.rows = term.rows
                  /\ Len(b.lines) + Len(Above(b)) <= b.max)
                 => Above(c) = Above(b))]_vars
=============================================================================
