------------------------------ MODULE LineEdit ------------------------------
(***************************************************************************)
(* The line editor of lib/readline.c: the list of lines, the line being    *)
(* edited, the escape sequences, and what is sent to keep the terminal's   *)
(* picture of the line up to date.  The text sent is modelled by what it   *)
(* does to a terminal TermWidth columns wide, which is external; a row     *)
(* longer than that is continued on the next.  The terminal is as high as  *)
(* it has to be (see the comment at the head of readline.c).               *)
(*                                                                         *)
(* One step is one character read, as in the loop of readline_rx.  What    *)
(* goes on between the thread, its callers and the console buffer is in    *)
(* module Readline.                                                        *)
(***************************************************************************)
EXTENDS Integers, Sequences, SequencesExt

CONSTANTS
    Glyph,       \* printable characters
    TermWidth,   \* columns of the terminal, written with one digit
    LINE_SIZE,   \* bytes of a line's buffer
    MaxLines,    \* bound: the lines there is memory for
    MaxKeys      \* bound: the keys pressed

(* There is memory for a line, a line's buffer has room for its zero, the   *)
(* terminal answers with one digit, and no key that edits is printable.     *)
ASSUME LinesAssumption == MaxLines \in Nat \ {0} /\ LINE_SIZE \in Nat \ {0}
ASSUME WidthAssumption == TermWidth \in 1 .. 9
ASSUME GlyphAssumption ==
    Glyph \cap {"ESC", "return", "backspace", "delete", "^A", "^E"} = {}

VARIABLES
    lines,       \* oldest_line .. newest_line: their text (buf and end) and pos
    line,        \* rl->line, by its place in the list
    loose,       \* rl->line was taken out of the list by get_newline
    width,       \* rl->width: 0 unless an ANSI terminal answered
    esc,         \* rl->state, num and num_idx
    in,          \* the characters received and not yet read
    term,        \* the terminal: its cells, and the cursor
    submitted,   \* history: the last line handed to the action and kept
    keys         \* history: the number of keys pressed

editVars == <<lines, line, loose, width, esc, in, term, submitted, keys>>

-----------------------------------------------------------------------------
(* The terminal (external).  Its cells are numbered from the row that the  *)
(* prompt is in.  A terminal that defers the wrap leaves the cursor on the *)
(* last column until another character comes ("pend").  It is "away" from  *)
(* the place readline reckons with while it reports its width.  "lost" is  *)
(* the cursor is in another column than readline reckons with, since it    *)
(* asked for the first ("astray").  "lost" is a picture nobody reckons     *)
(* with any more: the wrap was pending before a movement or an erasure     *)
(* ("edge"), something was shown while the cursor was away or astray, a    *)
(* backspace came at the first column.                                     *)

Prompt == ">"
Cells == 0 .. 4 * TermWidth - 1
Blank == [i \in Cells |-> " "]

RowOf(cell) == cell \div TermWidth
ColumnOf(cell) == cell % TermWidth

Lost(t) == [t EXCEPT !.cells = Blank, !.at = 0, !.pend = FALSE, !.away = FALSE,
                     !.astray = FALSE, !.lost = TRUE]

Put(t, c, cell) ==
    LET margin == t.defers /\ ColumnOf(cell) = TermWidth - 1
    IN  [t EXCEPT !.cells[cell] = c, !.pend = margin,
                  !.at = IF margin THEN cell ELSE cell + 1]

EraseRow(t, row) ==
    [t EXCEPT !.cells = [i \in Cells |-> IF RowOf(i) = row THEN " " ELSE @[i]],
              !.at = row * TermWidth, !.pend = FALSE, !.astray = FALSE]

(* The column is right again once the cursor was sent to the first one.    *)
MoveCursor(t, by) ==
    [t EXCEPT !.at = @ + by, !.pend = FALSE,
              !.astray = @ /\ by \in {-TermWidth, TermWidth}]

(* The next row becomes the first.                                         *)
NewLine(t) ==
    LET gone == (RowOf(t.at) + 1) * TermWidth
    IN  [t EXCEPT !.cells = [i \in Cells |-> IF i + gone \in Cells THEN @[i + gone]
                                                                   ELSE " "],
                  !.at = 0, !.pend = FALSE, !.astray = FALSE]

(* What one piece of output does.  "up", "down" and "right" move by one:   *)
(* the count of a movement is a repetition.                                *)
Receive(t, out) ==
    CASE t.lost -> t
      [] t.away -> IF out = "restore" THEN [t EXCEPT !.away = FALSE] ELSE Lost(t)
      [] t.astray /\ out \notin {"up", "down", "return", "erase", "newline"} -> Lost(t)
      [] t.edge /\ t.pend /\ out \in {"up", "down", "right", "back", "erase"} -> Lost(t)
      [] out = "newline" -> NewLine(t)
      [] out = "return" -> MoveCursor(t, -ColumnOf(t.at))
      [] out = "up" -> MoveCursor(t, -TermWidth)
      [] out = "down" -> MoveCursor(t, TermWidth)
      [] out = "right" -> MoveCursor(t, 1)
      [] out = "back" -> IF ColumnOf(t.at) = 0 THEN Lost(t) ELSE MoveCursor(t, -1)
      [] out = "erase" -> EraseRow(t, RowOf(t.at))
      [] out = "eraseup" -> EraseRow(t, RowOf(t.at) - 1)
      [] out = "size" -> [t EXCEPT !.away = TRUE]
      [] out = "astray" -> [t EXCEPT !.astray = TRUE]
      [] OTHER -> Put(t, out, IF t.pend THEN t.at + 1 ELSE t.at)

Show(t, out) ==
    [FoldLeft(Receive, [t EXCEPT !.edge = t.pend], out) EXCEPT !.edge = FALSE]

Repeat(out, n) == [i \in 1 .. (IF n > 0 THEN n ELSE 0) |-> out]

-----------------------------------------------------------------------------
(* Where things are                                                        *)

line_at(pos) == (pos + 1) \div TermWidth      \* the prompt is one column
column_at(pos) == (pos + 1) % TermWidth

(* set_cursor_temp: nothing is sent for a move to the first column.        *)
set_cursor_temp(from, pos) ==
    LET virt == line_at(pos) - line_at(from)
        horiz == column_at(pos)
    IN  Repeat("up", -virt) \o Repeat("down", virt) \o
        (IF horiz # 0 THEN <<"return">> \o Repeat("right", horiz)
         ELSE IF column_at(from) # 0 THEN <<"astray">> ELSE <<>>)

(* Mutant: the terminal is not made to start the row that the end falls on. *)
DisplayNoBlank(text, pos) ==
    IF pos = Len(text) THEN <<>>
    ELSE SubSeq(text, pos + 1, Len(text)) \o set_cursor_temp(Len(text), pos)

(* The text from pos on, a blank to make the terminal start the row that   *)
(* the end falls on, and the cursor back at pos.                           *)
display_to_end(text, pos) ==
    IF pos = Len(text) THEN <<>>
    ELSE SubSeq(text, pos + 1, Len(text)) \o
         (IF column_at(Len(text)) = 0 THEN <<" ", "back">> ELSE <<>>) \o
         set_cursor_temp(Len(text), pos)

hide_line(text, pos) ==
    set_cursor_temp(pos, Len(text)) \o <<"erase">> \o
    Repeat("eraseup", line_at(Len(text)))

unhide_line(text, pos) ==
    <<Prompt>> \o
    IF width # 0 THEN display_to_end(text, 0) \o set_cursor_temp(0, pos) ELSE text

-----------------------------------------------------------------------------
(* The list of lines                                                       *)

Text == lines[line].text
Pos == lines[line].pos
newest == Len(lines)

(* get_newline, by where the line comes from.                              *)
Newline ==
    CASE width = 0 \/ Text = <<>> -> "edited"
      [] OTHER -> CASE lines[newest].text = <<>> -> "newest"
                    [] lines[newest].text # <<>> /\ newest < MaxLines -> "alloc"
                    [] OTHER -> "oldest"

(* The list without the line that get_newline took.                        *)
Detached ==
    CASE Newline = "newest" -> Front(lines)
      [] Newline = "oldest" -> Tail(lines)
      [] OTHER -> lines

(* The place of the edited line in that list.                              *)
LineThere == IF Newline = "oldest" THEN line - 1 ELSE line

TakesEdited == Newline = "oldest" /\ line = 1

(* The line at its place in the list, or its copy at the end of the list   *)
(* when an older line is changed (dup_line).                               *)
Edited(text, pos) ==
    IF line < newest
    THEN /\ lines' = Append(Detached, [text |-> text, pos |-> pos])
         /\ line' = Len(lines')
    ELSE /\ lines' = [lines EXCEPT ![line] = [text |-> text, pos |-> pos]]
         /\ UNCHANGED line

(* Mutant: an older line is changed where it is.                           *)
ChangeInPlace(text, pos) ==
    /\ lines' = [lines EXCEPT ![line] = [text |-> text, pos |-> pos]]
    /\ UNCHANGED <<line, loose>>

(* With no memory for the copy, the line itself may be what get_newline    *)
(* finds: it is then out of the list, and edited all the same.             *)
Change(text, pos) ==
    IF line < newest /\ TakesEdited
    THEN loose' = TRUE /\ UNCHANGED <<lines, line>>
    ELSE Edited(text, pos) /\ UNCHANGED loose

MoveTo(pos) == lines' = [lines EXCEPT ![line].pos = pos]

Send(out) == term' = Show(term, out)

-----------------------------------------------------------------------------
(* The keys                                                                *)

set_cursor(pos) ==
    /\ MoveTo(pos)
    /\ Send(set_cursor_temp(Pos, pos))
    /\ UNCHANGED <<line, loose, width, submitted>>

NoEdit == UNCHANGED <<lines, line, loose, width, term, submitted>>

(* The character at pos goes; the row is shown with a blank in its place.  *)
delete_char ==
    IF Pos = Len(Text) THEN NoEdit
    ELSE LET rest == RemoveAt(Text, Pos + 1)
         IN  /\ Change(rest, Pos)
             /\ Send(display_to_end(Append(rest, " "), Pos))
             /\ UNCHANGED <<width, submitted>>

backspace ==
    IF Pos = 0 THEN NoEdit
    ELSE LET rest == RemoveAt(Text, Pos)
         IN  /\ Change(rest, Pos - 1)
             /\ Send(IF width # 0
                     THEN set_cursor_temp(Pos, Pos - 1) \o
                          display_to_end(Append(rest, " "), Pos - 1)
                     ELSE <<"back", " ", "back">>)
             /\ UNCHANGED <<width, submitted>>

Printable(c) ==
    IF Len(Text) + 1 = LINE_SIZE THEN NoEdit
    ELSE LET text == InsertAt(Text, Pos + 1, c)
         IN  /\ Change(text, Pos + 1)
             /\ Send(<<c>> \o display_to_end(text, Pos + 1))
             /\ UNCHANGED <<width, submitted>>

(* Up and down: another line of the list is edited.                        *)
SwitchTo(other) ==
    IF other \notin 1..newest THEN NoEdit
    ELSE /\ line' = other
         /\ Send(hide_line(Text, Pos) \o unhide_line(lines[other].text, lines[other].pos))
         /\ UNCHANGED <<lines, loose, width, submitted>>

(* The list when the line has been entered: the line is the newest, and an *)
(* empty one follows it.                                                   *)
Entered ==
    LET empty == [text |-> <<>>, pos |-> 0]
    IN  IF Newline = "edited" THEN [lines EXCEPT ![line] = empty]
        ELSE Append(Append(RemoveAt(Detached, LineThere), lines[line]), empty)

(* Return: what the line was is handed to the action.                      *)
Enter ==
    /\ IF TakesEdited
       THEN loose' = TRUE /\ UNCHANGED <<lines, line, submitted>>
       ELSE /\ lines' = Entered
            /\ line' = Len(lines')
            /\ submitted' = IF Newline = "edited" THEN <<>> ELSE Text
            /\ UNCHANGED loose
    /\ Send((IF Pos # Len(Text) THEN set_cursor_temp(Pos, Len(Text)) ELSE <<>>)
            \o <<"newline", Prompt>>)
    /\ UNCHANGED width

(* Moves along the line that need to know the width.                       *)
Home == IF width # 0 THEN set_cursor(0) ELSE NoEdit
End == IF width # 0 THEN set_cursor(Len(Text)) ELSE NoEdit
Left == IF Pos # 0 /\ width # 0 THEN set_cursor(Pos - 1) ELSE NoEdit
Right == IF Pos # Len(Text) THEN set_cursor(Pos + 1) ELSE NoEdit

Reply(out, w) ==
    /\ Send(<<out>>)
    /\ width' = w
    /\ UNCHANGED <<lines, line, loose, submitted>>

-----------------------------------------------------------------------------
(* The state machine of readline_rx                                        *)

Digits == <<"0", "1", "2", "3", "4", "5", "6", "7", "8", "9">>
DecimalChar == ToSet(Digits)
DecimalValue(c) == CHOOSE d \in 0..9 : Digits[d + 1] = c

NoEscape == [state |-> "st_normal", num |-> <<0, 0>>, num_idx |-> 0]

Into(state) == esc' = [esc EXCEPT !.state = state]
Leave == esc' = NoEscape

InNormal(c) ==
    /\ esc.state = "st_normal"
    /\ IF c = "ESC" THEN Into("st_escape") ELSE Leave
    /\ CASE c = "return" -> Enter
         [] c \in {"backspace", "delete"} -> backspace
         [] c = "^A" -> Home
         [] c = "^E" -> End
         [] c \in Glyph -> Printable(c)
         [] OTHER -> NoEdit

InEscape(c) ==
    /\ esc.state = "st_escape"
    /\ IF c = "[" THEN Into("st_bracket") ELSE Leave
    /\ NoEdit

ReadDigit(c) ==
    esc' = [esc EXCEPT !.state = "st_num",
                       !.num[esc.num_idx + 1] = @ * 10 + DecimalValue(c)]

InBracket(c) ==
    /\ esc.state = "st_bracket"
    /\ IF c \in DecimalChar THEN ReadDigit(c) ELSE Leave
    /\ CASE c = "A" -> SwitchTo(line - 1)
         [] c = "B" -> SwitchTo(line + 1)
         [] c = "D" -> Left
         [] c = "C" -> Right
         [] c = "H" -> Home
         [] c = "F" -> End
         [] OTHER -> NoEdit

(* A number has ended: the terminal's replies, and keys with a number.     *)
InNumber(c) ==
    /\ esc.state = "st_num"
    /\ CASE c \in DecimalChar -> ReadDigit(c)
         [] c = ";" /\ esc.num_idx < 2 -> esc' = [esc EXCEPT !.num_idx = @ + 1]
         [] OTHER -> Leave
    /\ LET key == <<c, esc.num_idx, esc.num[1]>>
       IN  CASE c = "R" /\ esc.num_idx = 1 -> Reply("restore", esc.num[2])
             [] key = <<"n", 0, 0>> -> Reply("size", width)
             [] key = <<"~", 0, 1>> -> Home
             [] key = <<"~", 0, 3>> -> delete_char
             [] key = <<"~", 0, 4>> -> End
             [] OTHER -> NoEdit

ReadChar ==
    /\ in # <<>>
    /\ in' = Tail(in)
    /\ LET c == Head(in) IN InNormal(c) \/ InEscape(c) \/ InBracket(c) \/ InNumber(c)
    /\ UNCHANGED keys

-----------------------------------------------------------------------------
(* What comes in (external): keys, each sent as a whole, and the answers   *)
(* of the terminal to ESC[5n, which readline_init sends, and to ESC[6n.    *)

Keys == {<<c>> : c \in Glyph \cup {"return", "backspace", "^A", "^E"}} \cup
        {<<"ESC", "[", c>> : c \in {"A", "B", "C", "D", "F"}} \cup
        {<<"ESC", "[", c, "~">> : c \in {"1", "3", "4"}} \cup
        {<<"ESC", "x">>}

Press ==
    /\ in = <<>> /\ ~loose /\ keys < MaxKeys
    /\ \E key \in Keys : in' = key
    /\ keys' = keys + 1
    /\ UNCHANGED <<lines, line, loose, width, esc, term, submitted>>

(* The status is answered once, the position once after that.              *)
Answer ==
    /\ in = <<>> /\ term.asked # "no" /\ ~loose
    /\ in' = IF term.asked = "status" THEN <<"ESC", "[", "0", "n">>
             ELSE <<"ESC", "[", "1", ";", Digits[TermWidth + 1], "R">>
    /\ term' = [term EXCEPT !.asked = IF @ = "status" THEN "position" ELSE "no"]
    /\ UNCHANGED <<lines, line, loose, width, esc, submitted, keys>>

(* A line of console output: readline_suspend, the line, readline_resume.  *)
ConsoleLine ==
    /\ in = <<>> /\ ~loose /\ keys < MaxKeys
    /\ Send((IF width # 0 THEN hide_line(Text, Pos) ELSE <<>>)
            \o <<"return">> \o <<"#", "newline">> \o unhide_line(Text, Pos))
    /\ keys' = keys + 1
    /\ UNCHANGED <<lines, line, loose, width, esc, in, submitted>>

EditInit ==
    /\ lines = <<[text |-> <<>>, pos |-> 0]>> /\ line = 1 /\ loose = FALSE
    /\ width = 0 /\ esc = NoEscape /\ in = <<>> /\ submitted = <<>> /\ keys = 0
    /\ \E defers \in BOOLEAN :
         term = Put([cells |-> Blank, at |-> 0, pend |-> FALSE, edge |-> FALSE,
                     away |-> FALSE, astray |-> FALSE, lost |-> FALSE, defers |-> defers, asked |-> "status"], Prompt, 0)

EditNext == ReadChar \/ Press \/ Answer \/ ConsoleLine

-----------------------------------------------------------------------------

EditTypeOK ==
    /\ newest \in 1..MaxLines /\ line \in 1..newest /\ loose \in BOOLEAN
    /\ width \in {0, TermWidth}
    /\ esc.state \in {"st_normal", "st_escape", "st_bracket", "st_num"}
    /\ term.cells \in [Cells -> Glyph \cup {" ", "#", Prompt}] /\ term.at \in Cells

(* The assertions of the file: a line fits its buffer with the zero after  *)
(* it, the cursor is in it, only the newest is empty, and without a width  *)
(* there is no list and no moving about.                                   *)
ListSound ==
    /\ \A i \in 1..newest :
         /\ Len(lines[i].text) < LINE_SIZE /\ lines[i].pos <= Len(lines[i].text)
         /\ lines[i].text = <<>> => i = newest
    /\ width = 0 => newest = 1 /\ Pos = Len(Text)

(* A line that was handed to the action is in the list as it was, until    *)
(* its memory is needed.                                                   *)
HistoryKept ==
    submitted # <<>> /\ newest < MaxLines => \E i \in 1..newest : lines[i].text = submitted

(* The terminal shows the prompt and the line, nothing else, and its       *)
(* cursor is where the next character goes.                                *)
PictureTrue ==
    LET shown == <<Prompt>> \o Text
        cursor == IF term.pend THEN term.at + 1 ELSE term.at
    IN  ~term.lost /\ ~term.away /\ ~loose =>
            /\ \A i \in Cells : term.cells[i] = IF i < Len(shown) THEN shown[i + 1] ELSE " "
            /\ term.astray \/ cursor = Pos + 1

(* What the functions that hide, redraw and move send leaves the terminal   *)
(* showing the line being edited (lib/readline.c:68-156, 218-332).          *)
LineSound == EditTypeOK /\ PictureTrue

(* What get_newline, dup_line and the action make of the list stays a list  *)
(* of whole lines, and the line last entered is not edited away             *)
(* (lib/readline.c:158-224, 383-425).                                       *)
LinesKept == ListSound /\ HistoryKept
=============================================================================
