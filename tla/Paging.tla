------------------------------- MODULE Paging -------------------------------
(***************************************************************************)
(* Two-level paging as the processor walks it and src/src/arch/x86/mem/    *)
(* vmm.c builds it.  Directory and tables are pages of memory themselves:  *)
(* the code reaches them at the virtual addresses that the directory's     *)
(* last entry, which refers to the directory, makes of them.               *)
(*                                                                         *)
(* An address counts entries, N to a page; memory is a function from the   *)
(* frames that were written to what they hold.                             *)
(***************************************************************************)
EXTENDS Integers

CONSTANTS
  N,            \* entries in a page, and pages in a table
  KERNEL_DIR,   \* directory index of KERNEL_VIRTUAL_OFFSET
  LARGE,        \* large pages mapped there when the kernel starts
  DIR,          \* frame of initial_page_dir
  Garbage       \* what a frame holds that was not written yet

Index == 0..(N - 1)
Entry == [present : BOOLEAN, user : BOOLEAN, large : BOOLEAN, frame : Nat]
Absent == [present |-> FALSE, user |-> FALSE, large |-> FALSE, frame |-> 0]
Large(f) == [present |-> TRUE, user |-> FALSE, large |-> TRUE, frame |-> f]
Small(f, user) == [present |-> TRUE, user |-> user, large |-> FALSE, frame |-> f]

ASSUME PagingAssumption ==
  /\ N \in Nat /\ N > 2 /\ DIR \in Nat
  /\ KERNEL_DIR \in Index \ {0} /\ LARGE \in Nat \ {0} /\ KERNEL_DIR + LARGE < N
  /\ Garbage \in [Index -> Entry]

-----------------------------------------------------------------------------
(* The processor.                                                           *)

DirIndex(v) == v \div (N * N)
TableIndex(v) == (v \div N) % N
Page(v) == v \div N
VirtualEnd == N * N * N

Content(m, f) == IF f \in DOMAIN m THEN m[f] ELSE Garbage
Pde(m, v) == Content(m, DIR)[DirIndex(v)]
Pte(m, v) == Content(m, Pde(m, v).frame)[TableIndex(v)]

IsMapped(m, v) == Pde(m, v).present /\ (Pde(m, v).large \/ Pte(m, v).present)
FrameAt(m, v) == IF Pde(m, v).large THEN Pde(m, v).frame + TableIndex(v) ELSE Pte(m, v).frame
UserReaches(m, v) ==
  IsMapped(m, v) /\ Pde(m, v).user /\ (Pde(m, v).large \/ Pte(m, v).user)

\* Memory at a virtual address.  A store to a page that is not mapped faults.
Load(m, v) == Content(m, FrameAt(m, v))[v % N]
Put(m, f, page) == [g \in DOMAIN m \cup {f} |-> IF g = f THEN page ELSE m[g]]
Store(m, v, entry) ==
  Put(m, FrameAt(m, v), [Content(m, FrameAt(m, v)) EXCEPT ![v % N] = entry])

-----------------------------------------------------------------------------
(* vmm.c.                                                                   *)

\* The bootstrap maps the kernel's large pages, the first of them twice.
initial_page_dir ==
  [i \in Index |-> IF i = 0 THEN Large(0)
                   ELSE IF KERNEL_DIR <= i /\ i < KERNEL_DIR + LARGE THEN Large((i - KERNEL_DIR) * N)
                   ELSE Absent]

\* vmm_init's directory: no identity mapping, and a way to itself.
Recursive(m) == Put(m, DIR, [m[DIR] EXCEPT ![0] = Absent, ![N - 1] = Small(DIR, FALSE)])

get_pde(v) == (VirtualEnd - N) + DirIndex(v)
\* Wrong variant: the entry is looked up in the order of the directories.
PteOfDir(v) == (VirtualEnd - N * N) + TableIndex(v) * N + DirIndex(v)
get_pte(v) == (VirtualEnd - N * N) + v \div N

NeedsTable(m, v) == ~Load(m, get_pde(v)).present

\* Wrong variants: the new table is not cleared; the table is never user's.
Uncleared(m, v) == m
Cleared(m, v) == Put(m, FrameAt(m, get_pte(v)), [i \in Index |-> Absent])
KernelTable(m, v, f, user) == Cleared(Store(m, get_pde(v), Small(f, FALSE)), v)
NewTable(m, v, f, user) == Cleared(Store(m, get_pde(v), Small(f, user)), v)

\* vmm_map_page once there is a table.  A page under a large page is refused,
\* or is there already.
Refuses(m, v, f) == Load(m, get_pde(v)).large /\ FrameAt(m, v) # f
SetPage(m, v, f, user) ==
  IF Load(m, get_pde(v)).large THEN m ELSE Store(m, get_pte(v), Small(f, user))

=============================================================================
