---------------------------- MODULE AddressSpace ----------------------------
(***************************************************************************)
(* What vmm.c and its callers in the boot promise: pages are mapped one by *)
(* one where nothing was mapped, and a page mapped stays as it is.         *)
(***************************************************************************)
EXTENDS Integers

CONSTANTS
  Bootstrap,   \* what is mapped when the kernel starts
  Low,         \* pages of the identity mapping
  Windows      \* pages that the kernel may map, and for whom: <<page, user>>

VARIABLE space   \* page |-> [frame, user]

Init == space = Bootstrap

\* The identity mapping goes, once and as a whole.
DropLow ==
  /\ Low \subseteq DOMAIN space
  /\ space' = [p \in DOMAIN space \ Low |-> space[p]]

Map ==
  \E w \in Windows :
    /\ w[1] \notin DOMAIN space /\ DOMAIN space' = DOMAIN space \cup {w[1]}
    /\ \A p \in DOMAIN space : space'[p] = space[p]
    /\ space'[w[1]].frame \in Nat /\ space'[w[1]].user = w[2]

Next == DropLow \/ Map
Spec == Init /\ [][Next]_space

=============================================================================
