------------------------------- MODULE Shell -------------------------------
(***************************************************************************)
(* The line editor of src/src/kernel/shell/init.c: shell_handle_key on the *)
(* input buffer, the ring of lines entered before, and the terminal that   *)
(* shows the line.  InputPath says how a key gets here.                    *)
(*                                                                         *)
(* A row of history_buffer is the string that it holds: what follows its   *)
(* NUL is never read.                                                      *)
(***************************************************************************)
EXTENDS Terminal

CONSTANTS
  SHELL_INPUT_BUF_SIZE, SHELL_HISTORY_MAX,
  Glyphs,     \* printable characters, and
  Letters,    \* those that are typed
  Outputs,    \* what commands print
  MaxLines    \* bound: lines that are entered

ASSUME ShellAssumption ==
  /\ SHELL_INPUT_BUF_SIZE \in Nat \ {0} /\ SHELL_HISTORY_MAX \in Nat \ {0}
  /\ Letters \subseteq Glyphs /\ {" ", "$"} \subseteq Glyphs /\ Glyphs \cap Controls = {}
  /\ MaxLines \in Nat

\* Commands only print, and what they print ends with a newline.
ASSUME OutputAssumption ==
  \A out \in Outputs : /\ out \in Seq(Glyphs \cup {"newline", "tab"})
                       /\ out = <<>> \/ out[Len(out)] = "newline"

VARIABLES
  input_buffer, input_len, input_pos,
  history_buffer, history_count, history_index,
  term

line == <<input_buffer, input_len, input_pos>>
history == <<history_buffer, history_count, history_index>>
vars == <<line, history, term>>

NUL == "nul"
Buffer == 0..(SHELL_INPUT_BUF_SIZE - 1)
Text(n) == [i \in 1..n |-> input_buffer[i - 1]]
Times(call, n) == [i \in 1..n |-> call]

\* The characters of the buffer from i on, as far as the line goes.
Rest(buffer, i, len) == [k \in 1..(len - i) |-> buffer[i + k - 1]]

\* shell_print_prompt; what is typed next begins at the mark.
Prompt(t) == LET p == Feed(t, <<"$", " ">>) IN [p EXCEPT !.mark = Place(p)]

Init ==
  /\ input_buffer = [i \in Buffer |-> NUL] /\ input_len = 0 /\ input_pos = 0
  /\ history_buffer = [i \in 0..(SHELL_HISTORY_MAX - 1) |-> <<>>]
  /\ history_count = 0 /\ history_index = -1
  /\ \E out \in Outputs :
       term = Prompt(Feed(terminal_clear([mark |-> 0]), out))

-----------------------------------------------------------------------------
(* The editing keys.                                                        *)

Room == input_len < SHELL_INPUT_BUF_SIZE - 1

Insert(c) ==
  /\ Room
  /\ LET shifted == [i \in Buffer |-> IF input_pos < i /\ i <= input_len THEN input_buffer[i - 1]
                                      ELSE input_buffer[i]]
     IN input_buffer' = [shifted EXCEPT ![input_pos] = c, ![input_len + 1] = NUL]
  /\ input_len' = input_len + 1 /\ input_pos' = input_pos + 1
  /\ term' = Feed(term, Rest(input_buffer', input_pos, input_len')
                          \o Times("left", input_len' - input_pos'))
  /\ UNCHANGED history

\* Wrong variant: the blank put after the line is not counted.
LeftOverRest(pos, len) == len - pos
LeftAfterErase(pos, len) == len - pos + 1

Backspace ==
  /\ input_pos > 0
  /\ input_buffer' = [i \in Buffer |-> IF input_pos - 1 <= i /\ i < input_len THEN input_buffer[i + 1]
                                       ELSE input_buffer[i]]
  /\ input_pos' = input_pos - 1 /\ input_len' = input_len - 1
  /\ term' = Feed(term, <<"left">> \o Rest(input_buffer', input_pos', input_len') \o <<" ">>
                          \o Times("left", LeftAfterErase(input_pos', input_len')))
  /\ UNCHANGED history

CursorLeft ==
  /\ input_pos > 0 /\ input_pos' = input_pos - 1
  /\ term' = terminal_cursor_left(term)
  /\ UNCHANGED <<input_buffer, input_len, history>>

CursorRight ==
  /\ input_pos < input_len /\ input_pos' = input_pos + 1
  /\ term' = terminal_cursor_right(term)
  /\ UNCHANGED <<input_buffer, input_len, history>>

-----------------------------------------------------------------------------
(* The history keys.                                                        *)

\* strcpy writes the string and its NUL.
Copied(s) ==
  [i \in Buffer |-> IF i < Len(s) THEN s[i + 1] ELSE IF i = Len(s) THEN NUL ELSE input_buffer[i]]

\* Wrong variant: the line is erased from the cursor on.
ClearFromCursor == Times("backspace", input_len)
ClearLine == Times("right", input_len - input_pos) \o Times("backspace", input_len)

\* shell_clear_current_line writes a NUL too, which the copy overwrites.
shell_set_current_line(s) ==
  /\ input_buffer' = Copied(s)
  /\ input_len' = Len(s) /\ input_pos' = Len(s)
  /\ term' = Feed(term, ClearLine \o s)

Recalled(i) == history_buffer[i % SHELL_HISTORY_MAX]

\* Wrong variant: lines that were overwritten are still looked for.
FirstEver(count) == 0
Oldest(count) == IF count > SHELL_HISTORY_MAX THEN count - SHELL_HISTORY_MAX ELSE 0

KeyUp ==
  /\ history_count > 0 /\ history_index > Oldest(history_count)
  /\ history_index' = history_index - 1
  /\ shell_set_current_line(Recalled(history_index'))
  /\ UNCHANGED <<history_buffer, history_count>>

KeyDown ==
  /\ history_index < history_count
  /\ history_index' = history_index + 1
  /\ shell_set_current_line(IF history_index' = history_count THEN <<>> ELSE Recalled(history_index'))
  /\ UNCHANGED <<history_buffer, history_count>>

-----------------------------------------------------------------------------
(* Enter.                                                                   *)

\* shell_execute, when the command comes back.
Executed(t) == {Feed(t, out) : out \in Outputs} \cup {terminal_clear(t)}

AtEnd == Feed(term, Times("right", input_len - input_pos) \o <<"newline">>)

\* The NUL is there already but after Enter itself, which leaves the text.
EnterLine ==
  /\ input_len > 0 /\ history_count < MaxLines
  /\ history_buffer' = [history_buffer EXCEPT ![history_count % SHELL_HISTORY_MAX] = Text(input_len)]
  /\ history_count' = history_count + 1 /\ history_index' = history_count + 1
  /\ \E t \in Executed(AtEnd) : term' = Prompt(t)
  /\ input_buffer' = [input_buffer EXCEPT ![input_len] = NUL]
  /\ input_len' = 0 /\ input_pos' = 0

EnterNothing ==
  /\ input_len = 0
  /\ input_buffer' = [input_buffer EXCEPT ![0] = NUL]
  /\ term' = Prompt(AtEnd)
  /\ UNCHANGED <<input_len, input_pos, history>>

shell_handle_key ==
  \/ EnterLine \/ EnterNothing
  \/ Backspace \/ CursorLeft \/ CursorRight
  \/ KeyUp \/ KeyDown
  \/ \E c \in Letters : Insert(c)

Next == shell_handle_key
Spec == Init /\ [][Next]_vars

-----------------------------------------------------------------------------
(* Properties.                                                              *)

\* The screen shows the line after the prompt and nothing else in its row,
\* as long as a row has room for every line.
LineShown ==
  \A i \in 0..(term_width - 1) :
    term.mark + i < (term.row + 1) * term_width =>
      term.cells[term.mark + i] = IF i < input_len THEN input_buffer[i] ELSE " "

\* The visible cursor stands where the next character goes.
CursorAtInsertion == Place(term) = term.mark + input_pos

Remembered == IF history_count < SHELL_HISTORY_MAX THEN history_count ELSE SHELL_HISTORY_MAX

\* Buffer, indices and ring implement a line that is edited at a cursor and
\* a list of the latest lines.
Abs == INSTANCE LineEditor WITH
  Limit <- SHELL_INPUT_BUF_SIZE - 1, Kept <- SHELL_HISTORY_MAX,
  before <- Text(input_pos),
  after <- Rest(input_buffer, input_pos, input_len),
  past <- [k \in 1..Remembered |-> Recalled(history_count - k)],
  back <- history_count - history_index
ImplementsLineEditor == Abs!Spec

=============================================================================
