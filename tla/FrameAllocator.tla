--------------------------- MODULE FrameAllocator ---------------------------
(***************************************************************************)
(* What src/src/arch/x86/mem/pmm.c promises: once started, each call lends *)
(* frames that are free and belong to nobody, and fails only when there    *)
(* are none such.  No bitmap, no order of search.                          *)
(***************************************************************************)
EXTENDS Integers

VARIABLES
  started,
  free,      \* frames that can be lent
  lent,      \* frames that were
  wanted,    \* <<pages, alignment>> of the request under way, or <<>>
  answer,    \* first frame of the last one granted, 0 if it was not
  status     \* "no" until the kernel stops, then why

vars == <<started, free, lent, wanted, answer, status>>

\* A run of n frames from f on that the alignment allows.
Fits(f, n, alignment) == f % alignment = 0 /\ f..(f + n - 1) \subseteq free

Init ==
  /\ started = FALSE /\ free = {} /\ lent = {}
  /\ wanted = <<>> /\ answer = 0 /\ status = "no"

Start ==
  /\ status = "no" /\ ~started
  /\ \/ started' = TRUE /\ free' \subseteq Nat \ {0} /\ status' = status
     \/ started' = FALSE /\ free' = free /\ status' = "bad_boot"
  /\ UNCHANGED <<lent, wanted, answer>>

Running == status = "no" /\ started /\ started' = started

LendOne ==
  /\ Running /\ wanted = <<>> /\ answer' \in free
  /\ free' = free \ {answer'} /\ lent' = lent \cup {answer'}
  /\ UNCHANGED <<wanted, status>>

Exhaust ==
  /\ Running /\ wanted = <<>> /\ free = {} /\ status' = "exhausted"
  /\ UNCHANGED <<free, lent, wanted, answer>>

Ask ==
  /\ Running /\ wanted = <<>> /\ wanted' \in (Nat \ {0}) \X (Nat \ {0})
  /\ UNCHANGED <<free, lent, answer, status>>

\* A request that no memory could satisfy is not even looked at.
Decline ==
  /\ Running /\ wanted = <<>> /\ answer' = 0
  /\ UNCHANGED <<free, lent, wanted, status>>

Grant ==
  /\ Running /\ wanted # <<>> /\ wanted' = <<>>
  /\ answer' # 0 /\ Fits(answer', wanted[1], wanted[2])
  /\ LET run == answer'..(answer' + wanted[1] - 1)
     IN free' = free \ run /\ lent' = lent \cup run
  /\ UNCHANGED status

Refuse ==
  /\ Running /\ wanted # <<>> /\ wanted' = <<>> /\ answer' = 0
  /\ \A f \in free : ~Fits(f, wanted[1], wanted[2])
  /\ UNCHANGED <<free, lent, status>>

\* A device turns out to live among the frames.
Withdraw ==
  /\ Running /\ wanted = <<>> /\ free' \subseteq free
  /\ UNCHANGED <<lent, wanted, answer, status>>

Next == Start \/ LendOne \/ Exhaust \/ Ask \/ Decline \/ Grant \/ Refuse \/ Withdraw

Spec == Init /\ [][Next]_vars

=============================================================================
