-------------------------------- MODULE Heap --------------------------------
(***************************************************************************)
(* The kernel heap, src/src/arch/x86/mem/heap.c: one arena cut into        *)
(* segments, each a 16-byte header followed by its payload, the headers    *)
(* linked in both directions.  kmalloc takes the first free segment that   *)
(* is long enough and splits it, kfree merges the freed segment with its   *)
(* free neighbours, and every misuse or exhaustion ends in a panic.        *)
(*                                                                         *)
(* Addresses and lengths are bytes, as in the code.  A call is several     *)
(* steps: one for its entry checks, then one per iteration of its walk     *)
(* along the links, so that the walk is the code's and not a summary.      *)
(***************************************************************************)
EXTENDS Integers

CONSTANTS
  WordMax,   \* UINT32_MAX; a smaller word when TLC runs
  Extents,   \* the <<start_addr, total_size>> pairs heap_init is called with
  Sizes,     \* the sizes kmalloc is called with
  Ptrs       \* the pointers kfree is called with, valid or not

ASSUME HeapAssumption ==
  /\ WordMax \in Nat /\ WordMax >= 63 /\ WordMax % 16 = 15
  /\ Extents \subseteq (0..WordMax) \X (0..WordMax)
  /\ Sizes \subseteq 0..WordMax
  /\ Ptrs \subseteq 0..WordMax

VARIABLES
  heap_start,  \* address of the first header, NULL before heap_init
  heap_end,    \* first byte past the arena
  segs,        \* linked headers: address |-> [len, free, next, prev]
  op,          \* the call in progress
  req,         \* its argument: a size for kmalloc, a payload address for kfree
  need,        \* aligned_size of the kmalloc in progress
  cur,         \* header its walk has reached, NULL once past the last one
  owned,       \* history: payloads handed out and not yet freed |-> size asked
  panic        \* why the kernel stopped, or "no"

call == <<op, req, need, cur>>
vars == <<heap_start, heap_end, segs, call, owned, panic>>

NULL == 0
HEADER == 16              \* sizeof(struct heap_segment)
HEAP_MIN_SPLIT_SIZE == 32
HEAP_LEN_MASK == WordMax - 15

Ops == {"idle", "heap_init", "kmalloc", "kfree"}
Misuse == {"bad extent", "uninitialized", "bad size", "bad pointer", "double free"}
Panics == {"no", "exhausted", "corrupt"} \cup Misuse

MaskDown(x) == x - (x % 16)
\* A 32-bit addition: x and y are words.
WordAdd(x, y) == IF x + y > WordMax THEN x + y - (WordMax + 1) ELSE x + y
HEAP_ALIGN_UP(x) == MaskDown(WordAdd(x, 15))

Segment == [len : {n \in Nat : n >= 16}, free : BOOLEAN, next : Nat, prev : Nat]
End(h, a) == a + HEADER + h[a].len
Payload(a) == a + HEADER

\* The end of the last segment: total_size loses the bytes before the first
\* header and those after the last multiple of 16.
Limit == heap_start + HEADER + MaskDown(heap_end - heap_start - HEADER)

-----------------------------------------------------------------------------
(* What a call does to the links, as functions of the linked headers h.     *)

\* Segment a keeps n bytes; the rest becomes a free segment linked after it.
Cut(h, a, n) ==
  LET b == a + HEADER + n
  IN [x \in DOMAIN h \cup {b} |->
        IF x = b THEN [len |-> h[a].len - n - HEADER, free |-> TRUE,
                       next |-> h[a].next, prev |-> a]
        ELSE IF x = a THEN [h[a] EXCEPT !.len = n, !.next = b]
        ELSE IF x = h[a].next THEN [h[x] EXCEPT !.prev = b]
        ELSE h[x]]

TooSmall(h, a, n) == h[a].len - n < HEADER + HEAP_MIN_SPLIT_SIZE

\* Wrong variant: the segment after the new one keeps its back link.
SplitNoBackLink(h, a, n) ==
  IF TooSmall(h, a, n) THEN h
  ELSE [x \in DOMAIN Cut(h, a, n) |->
          IF x = h[a].next THEN h[x] ELSE Cut(h, a, n)[x]]

\* split_segment
Split(h, a, n) == IF TooSmall(h, a, n) THEN h ELSE Cut(h, a, n)

MarkTaken(h, a) == [h EXCEPT ![a].free = FALSE]
MarkFree(h, a) == [h EXCEPT ![a].free = TRUE]

\* Segment b, the next of a, disappears into a.
Coalesce(h, a, b) ==
  [x \in DOMAIN h \ {b} |->
     IF x = a THEN [h[a] EXCEPT !.len = @ + HEADER + h[b].len, !.next = h[b].next]
     ELSE IF x = h[b].next THEN [h[x] EXCEPT !.prev = a]
     ELSE h[x]]

MergeNext(h, a) ==
  IF h[a].next # NULL /\ h[h[a].next].free THEN Coalesce(h, a, h[a].next) ELSE h

\* Wrong variant: a freed segment is merged only with the one after it.
NoMergePrev(h, a) == h

MergePrev(h, a) ==
  IF h[a].prev # NULL /\ h[h[a].prev].free THEN Coalesce(h, h[a].prev, a) ELSE h

\* The assertions met while links are written: every length stored is a
\* multiple of 16, and a segment about to be merged is not its own neighbour.
LengthsAligned(h) == \A a \in DOMAIN h : h[a].len % 16 = 0
SelfLinked(h, a) == h[a].next = a \/ h[a].prev = a

-----------------------------------------------------------------------------
(* The calls.                                                               *)

Init ==
  /\ heap_start = NULL /\ heap_end = 0
  /\ segs = [a \in {} |-> [len |-> 0, free |-> TRUE, next |-> NULL, prev |-> NULL]]
  /\ op = "idle" /\ req = 0 /\ need = 0 /\ cur = NULL
  /\ owned = [p \in {} |-> 0]
  /\ panic = "no"

Ready == panic = "no" /\ op = "idle"

\* A failed entry check: the kernel panics inside the call it was making.
Reject(o, x, why) ==
  /\ op' = o /\ req' = x /\ panic' = why
  /\ UNCHANGED <<heap_start, heap_end, segs, need, cur, owned>>

\* The entry checks pass and the walk starts at the first header.
StartWalk(o, x, n) ==
  /\ op' = o /\ req' = x /\ need' = n /\ cur' = heap_start
  /\ UNCHANGED <<heap_start, heap_end, segs, owned, panic>>

Return ==
  /\ op' = "idle" /\ req' = 0 /\ need' = 0 /\ cur' = NULL
  /\ UNCHANGED <<heap_start, heap_end, panic>>

ExtentOk(start, total) ==
  /\ start # NULL /\ total > 0
  /\ total <= WordMax - start
  /\ start <= WordMax - 15
  /\ LET lost == HEAP_ALIGN_UP(start) - start
     IN /\ total > HEADER + lost
        /\ MaskDown(total - lost - HEADER) >= 16

\* mem.c:43 is the only caller, and it calls once.
HeapInit(start, total) ==
  /\ Ready /\ heap_start = NULL
  /\ IF ExtentOk(start, total)
     THEN LET first == HEAP_ALIGN_UP(start)
          IN /\ heap_start' = first
             /\ heap_end' = start + total
             /\ segs' = [a \in {first} |->
                           [len |-> MaskDown(total - (first - start) - HEADER),
                            free |-> TRUE, next |-> NULL, prev |-> NULL]]
             /\ UNCHANGED <<call, owned, panic>>
     ELSE Reject("heap_init", 0, "bad extent")

\* Wrong variant: no bound that keeps the alignment of n within the word.
SizePositive(n) == n > 0
SizeOk(n) == n > 0 /\ n <= HEAP_LEN_MASK - 15

Kmalloc(n) ==
  /\ Ready
  /\ IF heap_start = NULL THEN Reject("kmalloc", n, "uninitialized")
     ELSE IF ~SizeOk(n) THEN Reject("kmalloc", n, "bad size")
     ELSE StartWalk("kmalloc", n, HEAP_ALIGN_UP(n))

Fits(a, n) == segs[a].free /\ segs[a].len >= n

Walking(o) == panic = "no" /\ op = o /\ cur # NULL

\* Wrong variant: a free segment that is too short is tried again and again.
StepPastTaken ==
  /\ cur' = IF segs[cur].free THEN cur ELSE segs[cur].next
  /\ UNCHANGED <<heap_start, heap_end, segs, op, req, need, owned, panic>>
StepWalk ==
  /\ cur' = segs[cur].next
  /\ UNCHANGED <<heap_start, heap_end, segs, op, req, need, owned, panic>>

KmallocSkip == Walking("kmalloc") /\ ~Fits(cur, need) /\ StepWalk

\* A segment that fits is split, taken and handed to the caller.
KmallocTake ==
  /\ Walking("kmalloc") /\ Fits(cur, need)
  /\ LET taken == MarkTaken(Split(segs, cur, need), cur)
     IN IF LengthsAligned(taken)
        THEN /\ segs' = taken
             /\ owned' = [p \in DOMAIN owned \cup {Payload(cur)} |->
                            IF p = Payload(cur) THEN req ELSE owned[p]]
             /\ Return
        ELSE Reject("kmalloc", req, "corrupt")

KmallocExhausted ==
  /\ panic = "no" /\ op = "kmalloc" /\ cur = NULL
  /\ Reject("kmalloc", req, "exhausted")

\* Wrong variant: the first payload is taken for a pointer out of range.
PtrPastFirst(p) == p > heap_start + HEADER /\ p < heap_end /\ p % 16 = 0
PtrOk(p) == p >= heap_start + HEADER /\ p < heap_end /\ p % 16 = 0

Kfree(p) ==
  /\ Ready /\ p # NULL
  /\ IF heap_start = NULL THEN Reject("kfree", p, "uninitialized")
     ELSE IF ~PtrOk(p) THEN Reject("kfree", p, "bad pointer")
     ELSE StartWalk("kfree", p, 0)

\* kfree(nullptr) returns at once.
KfreeNull == Ready /\ NULL \in Ptrs /\ UNCHANGED vars

KfreeSkip == Walking("kfree") /\ req # Payload(cur) /\ StepWalk

\* Wrong variant: a freed segment is not recognised.
NeverFree(h, a) == FALSE
IsFree(h, a) == h[a].free

KfreeFound ==
  /\ Walking("kfree") /\ req = Payload(cur)
  /\ LET marked == MarkFree(segs, cur)
         merged == MergePrev(MergeNext(marked, cur), cur)
     IN IF IsFree(segs, cur) THEN Reject("kfree", req, "double free")
        ELSE IF SelfLinked(segs, cur) \/ ~LengthsAligned(merged)
             THEN Reject("kfree", req, "corrupt")
        ELSE /\ segs' = merged
             /\ owned' = [p \in DOMAIN owned \ {req} |-> owned[p]]
             /\ Return

KfreeNotFound ==
  /\ panic = "no" /\ op = "kfree" /\ cur = NULL
  /\ Reject("kfree", req, "bad pointer")

\* runtime_panic never returns.
Halted == panic # "no" /\ UNCHANGED vars

Finish == KmallocSkip \/ KmallocTake \/ KmallocExhausted
          \/ KfreeSkip \/ KfreeFound \/ KfreeNotFound

Next ==
  \/ \E e \in Extents : HeapInit(e[1], e[2])
  \/ \E n \in Sizes : Kmalloc(n)
  \/ \E p \in Ptrs : Kfree(p)
  \/ KfreeNull
  \/ Finish
  \/ Halted

Spec == Init /\ [][Next]_vars
\* The processor keeps executing a call that has begun.
FairSpec == Spec /\ WF_vars(Finish)

-----------------------------------------------------------------------------
(* Properties.                                                              *)

\* Every variable keeps its type; a segment never has an empty payload.
TypeInv ==
  /\ heap_start \in 0..WordMax /\ heap_end \in 0..WordMax
  /\ DOMAIN segs \subseteq Nat /\ segs \in [DOMAIN segs -> Segment]
  /\ op \in Ops /\ req \in 0..WordMax /\ need \in 0..WordMax
  /\ cur \in DOMAIN segs \cup {NULL}
  /\ DOMAIN owned \subseteq Nat /\ owned \in [DOMAIN owned -> 0..WordMax]
  /\ panic \in Panics

\* The headers h tile lo..hi: each link leads to the header that follows or,
\* from the last one, to NULL; back links mirror the links; no byte is in two
\* segments and none is in no segment.
Linked(h, lo, hi) ==
  /\ lo \in DOMAIN h
  /\ \A a \in DOMAIN h :
       /\ a >= lo /\ End(h, a) <= hi /\ a % 16 = 0 /\ h[a].len % 16 = 0
       /\ h[a].next = IF End(h, a) = hi THEN NULL ELSE End(h, a)
       /\ h[a].next # NULL => h[a].next \in DOMAIN h /\ h[h[a].next].prev = a
       /\ h[a].prev = NULL <=> a = lo
       /\ h[a].prev # NULL => h[a].prev \in DOMAIN h /\ h[h[a].prev].next = a
Disjoint(h) == \A a, b \in DOMAIN h : a < b => End(h, a) <= b
Covers(h, lo, hi) ==
  \A x \in lo..(hi - 1) : \E a \in DOMAIN h : a <= x /\ x < End(h, a)
WellFormed(h, lo, hi) == Linked(h, lo, hi) /\ Disjoint(h) /\ Covers(h, lo, hi)

\* Splitting and merging keep the doubly linked list a tiling of the arena,
\* whatever the order of calls: split_segment and kfree rewrite up to three
\* headers each.
HeapWellFormed == heap_start # NULL => WellFormed(segs, heap_start, Limit)

\* No free segment follows a free segment: kfree merged both ways.
NoFreePair(h) == \A a \in DOMAIN h : h[a].free /\ h[a].next # NULL => ~h[h[a].next].free
Coalesced == NoFreePair(segs)

\* A payload that was handed out keeps its segment, at least as long as what
\* was asked for, until it is freed, and no segment is taken but for one of
\* these payloads: nothing leaks.
BlocksIntact ==
  /\ \A p \in DOMAIN owned :
       /\ p - HEADER \in DOMAIN segs
       /\ ~segs[p - HEADER].free
       /\ segs[p - HEADER].len >= owned[p]
  /\ \A a \in DOMAIN segs : ~segs[a].free => Payload(a) \in DOMAIN owned

\* The walk has passed nothing it was looking for.
Passed(a) == cur = NULL \/ a < cur
WalkSound ==
  panic = "no" =>
    /\ op = "kmalloc" => \A a \in DOMAIN segs : Passed(a) => ~Fits(a, need)
    /\ op = "kfree" => \A a \in DOMAIN segs : Passed(a) => req # Payload(a)

Room(p, n) ==
  /\ p % 16 = 0 /\ p - HEADER >= heap_start /\ p + n <= Limit
  /\ \A a \in DOMAIN segs : ~segs[a].free => p + n <= a \/ End(segs, a) <= p - HEADER

\* The kernel stops on the heap's account only with a reason: the arena has no
\* room for the request anywhere, however the free bytes came to be split, or
\* the caller freed something it does not own.  The corruption assertions of
\* heap.c are never met.
PanicsJustified ==
  /\ panic = "exhausted" => \A p \in heap_start..Limit : ~Room(p, need)
  /\ panic \in {"bad pointer", "double free"} => req \notin DOMAIN owned
  /\ panic # "corrupt"

\* The walks of kmalloc and kfree end: a call that has begun returns or stops
\* the kernel.
CallsEnd == (op # "idle") ~> (op = "idle" \/ panic # "no")

\* The heap implements the allocator its callers rely on.
Abs == INSTANCE BlockAllocator WITH
  MaxRequest <- HEAP_LEN_MASK - 15,
  lo <- heap_start,
  hi <- IF heap_start = NULL THEN 0 ELSE Limit,
  blocks <- [p \in DOMAIN owned |-> segs[p - HEADER].len],
  status <- CASE panic = "no" -> "ok"
              [] panic \in Misuse -> "refused"
              [] OTHER -> panic
ImplementsBlockAllocator == Abs!Spec

=============================================================================
