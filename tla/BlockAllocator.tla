--------------------------- MODULE BlockAllocator ---------------------------
(***************************************************************************)
(* What the kernel heap promises its callers (src/include/arch/x86/heap.h, *)
(* src/tests/heap_allocator_harness.c), with no headers, links or order of *)
(* search: live blocks are disjoint and keep their place until freed, a    *)
(* request fails only when no block could be placed anywhere, and only a   *)
(* wrong request is refused.  Failing or refusing stops the kernel.        *)
(***************************************************************************)
EXTENDS Integers

CONSTANT MaxRequest   \* the largest size that can be aligned within a word

VARIABLES
  lo, hi,    \* the arena, empty until it is opened
  blocks,    \* payload address |-> capacity, for every live block
  op, req,   \* the call in progress and its argument
  status     \* "ok" until the kernel stops

vars == <<lo, hi, blocks, op, req, status>>

Overhead == 16                      \* in front of each block
MaxSlack == 32                      \* the most a block exceeds its rounded request
Rounded(n) == (n + 15) - ((n + 15) % 16)

\* A block of n bytes can be placed at p.
Room(p, n) ==
  /\ p % 16 = 0 /\ p - Overhead >= lo /\ p + n <= hi
  /\ \A q \in DOMAIN blocks :
        p + n <= q - Overhead \/ q + blocks[q] <= p - Overhead

WrongRequest(o, x) ==
  \/ o = "heap_init"
  \/ lo = hi
  \/ o = "kmalloc" /\ (x = 0 \/ x > MaxRequest)
  \/ o = "kfree" /\ x \notin DOMAIN blocks

Init ==
  /\ lo = 0 /\ hi = 0
  /\ blocks = [p \in {} |-> 0]
  /\ op = "idle" /\ req = 0 /\ status = "ok"

Open ==
  /\ status = "ok" /\ op = "idle" /\ lo = hi
  /\ lo' \in Nat /\ hi' \in Nat /\ lo' % 16 = 0 /\ hi' >= lo' + 2 * Overhead
  /\ UNCHANGED <<blocks, op, req, status>>

Begin ==
  /\ status = "ok" /\ op = "idle" /\ lo # hi
  /\ op' \in {"kmalloc", "kfree"} /\ req' \in Nat
  /\ op' = "kmalloc" => req' \in 1..MaxRequest
  /\ UNCHANGED <<lo, hi, blocks, status>>

Alloc ==
  /\ status = "ok" /\ op = "kmalloc" /\ op' = "idle" /\ req' = 0
  /\ \E p \in lo..hi, cap \in Rounded(req)..(Rounded(req) + MaxSlack) :
        /\ Room(p, cap)
        /\ blocks' = [q \in DOMAIN blocks \cup {p} |->
                        IF q = p THEN cap ELSE blocks[q]]
  /\ UNCHANGED <<lo, hi, status>>

Exhaust ==
  /\ status = "ok" /\ op = "kmalloc" /\ status' = "exhausted"
  /\ \A p \in lo..hi : ~Room(p, Rounded(req))
  /\ UNCHANGED <<lo, hi, blocks, op, req>>

Release ==
  /\ status = "ok" /\ op = "kfree" /\ op' = "idle" /\ req' = 0
  /\ req \in DOMAIN blocks
  /\ blocks' = [q \in DOMAIN blocks \ {req} |-> blocks[q]]
  /\ UNCHANGED <<lo, hi, status>>

\* A wrong request is refused when it is made, or when the call has looked for
\* the block it names.
Refuse ==
  /\ status = "ok" /\ status' = "refused"
  /\ \/ op = "idle"
     \/ op = "kfree" /\ op' = op /\ req' = req
  /\ WrongRequest(op', req')
  /\ UNCHANGED <<lo, hi, blocks>>

Next == Open \/ Begin \/ Alloc \/ Exhaust \/ Release \/ Refuse

Spec == Init /\ [][Next]_vars

=============================================================================
