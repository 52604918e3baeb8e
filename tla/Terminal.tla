------------------------------ MODULE Terminal ------------------------------
(***************************************************************************)
(* The terminal of src/src/drivers/terminal.c: a grid of characters and a  *)
(* cursor, the same over the VGA text buffer and over the framebuffer.     *)
(* Its state is a record, and each operation maps a state to the next.     *)
(* Colours are left out.                                                   *)
(***************************************************************************)
EXTENDS Integers, Sequences

CONSTANTS term_width, term_height

TERMINAL_TAB_SIZE == 4

\* What the terminal is told besides the characters that it shows.
Controls == {"newline", "tab", "backspace", "left", "right"}

ASSUME TerminalAssumption == term_width \in Nat \ {0} /\ term_height \in Nat \ {0}

Cells == 0..(term_width * term_height - 1)

\* mark is a history field: a place in the text, which moves up with it.
Terminal(Chars) ==
  [row : 0..(term_height - 1), column : 0..(term_width - 1), cells : [Cells -> Chars], mark : Int]

Place(t) == t.row * term_width + t.column

terminal_clear(t) ==
  [row |-> 0, column |-> 0, cells |-> [i \in Cells |-> " "], mark |-> t.mark]

terminal_put_entry(t, c) == [t EXCEPT !.cells[Place(t)] = c]

terminal_scroll(t) ==
  [t EXCEPT !.cells = [i \in Cells |-> IF i + term_width \in Cells THEN @[i + term_width] ELSE " "],
            !.row = term_height - 1,
            !.mark = @ - term_width]

terminal_blankline(t) ==
  IF t.row + 1 >= term_height THEN terminal_scroll([t EXCEPT !.column = 0])
  ELSE [t EXCEPT !.column = 0, !.row = @ + 1]

\* The cursor moves to a column of the row, or to the row below.
Advance(t, column) ==
  IF column >= term_width THEN terminal_blankline(t) ELSE [t EXCEPT !.column = column]

Back(t) ==
  IF t.column > 0 THEN [t EXCEPT !.column = @ - 1]
  ELSE IF t.row > 0 THEN [t EXCEPT !.row = @ - 1, !.column = term_width - 1]
  ELSE t

terminal_putchar(t, c) ==
  CASE c = "newline" -> terminal_blankline(t)
    [] c = "tab" -> Advance(t, t.column + TERMINAL_TAB_SIZE - (t.column % TERMINAL_TAB_SIZE))
    [] c = "backspace" -> terminal_put_entry(Back(t), " ")
    [] OTHER -> Advance(terminal_put_entry(t, c), t.column + 1)

terminal_cursor_left(t) == IF t.column > 0 THEN [t EXCEPT !.column = @ - 1] ELSE t
terminal_cursor_right(t) == IF t.column < term_width - 1 THEN [t EXCEPT !.column = @ + 1] ELSE t

\* A call: a cursor move, or a character to put.
Called(t, c) ==
  CASE c = "left" -> terminal_cursor_left(t)
    [] c = "right" -> terminal_cursor_right(t)
    [] OTHER -> terminal_putchar(t, c)

\* What a sequence of calls does.
Feed(t, calls) ==
  LET after[n \in 0..Len(calls)] == IF n = 0 THEN t ELSE Called(after[n - 1], calls[n])
  IN after[Len(calls)]

=============================================================================
