----------------------------- MODULE LineEditor -----------------------------
(***************************************************************************)
(* What the line editor of src/src/kernel/shell/init.c promises: a line    *)
(* before and after a cursor, and the latest lines that were entered.      *)
(***************************************************************************)
EXTENDS Integers, Sequences

CONSTANTS
  Letters,
  Limit,   \* length of the longest line
  Kept     \* how many lines are remembered

VARIABLES
  before, after,
  past,    \* the lines remembered, the latest first
  back     \* how far back the line shown was recalled from

vars == <<before, after, past, back>>

\* The shell starts as though it showed a line already forgotten.
Init == before = <<>> /\ after = <<>> /\ past = <<>> /\ back = 1

Whole == before \o after
Show(s) == before' = s /\ after' = <<>>

Type(c) ==
  /\ Len(Whole) < Limit
  /\ before' = Append(before, c)
  /\ UNCHANGED <<after, past, back>>

Erase ==
  /\ before # <<>>
  /\ before' = SubSeq(before, 1, Len(before) - 1)
  /\ UNCHANGED <<after, past, back>>

Left ==
  /\ before # <<>>
  /\ before' = SubSeq(before, 1, Len(before) - 1)
  /\ after' = <<before[Len(before)]>> \o after
  /\ UNCHANGED <<past, back>>

Right ==
  /\ after # <<>>
  /\ before' = Append(before, Head(after)) /\ after' = Tail(after)
  /\ UNCHANGED <<past, back>>

Older ==
  /\ back < Len(past) /\ back' = back + 1
  /\ Show(past[back'])
  /\ UNCHANGED past

Newer ==
  /\ back > 0 /\ back' = back - 1
  /\ Show(IF back' = 0 THEN <<>> ELSE past[back'])
  /\ UNCHANGED past

\* A line entered is remembered as it was, at the expense of the oldest.
Enter ==
  /\ Whole # <<>> /\ Show(<<>>)
  /\ past' = SubSeq(<<Whole>> \o past, 1, IF Len(past) < Kept THEN Len(past) + 1 ELSE Kept)
  /\ back' = 0

Next ==
  \/ \E c \in Letters : Type(c)
  \/ Erase \/ Left \/ Right \/ Older \/ Newer \/ Enter

Spec == Init /\ [][Next]_vars

=============================================================================
