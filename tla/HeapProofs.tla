----------------------------- MODULE HeapProofs -----------------------------
(***************************************************************************)
(* Proofs about the kernel heap, for every word size, arena, request and   *)
(* pointer.                                                                *)
(***************************************************************************)
EXTENDS Heap, TLAPS

\* A well typed list of headers, as the walks use it.
IsHeap(h) == DOMAIN h \subseteq Nat /\ h \in [DOMAIN h -> Segment]

LEMMA MaskDownFacts ==
  ASSUME NEW x \in Nat
  PROVE  /\ MaskDown(x) \in Nat /\ MaskDown(x) <= x /\ x < MaskDown(x) + 16
         /\ MaskDown(x) % 16 = 0
BY DEF MaskDown

LEMMA CutWellFormed ==
  ASSUME NEW h, IsHeap(h), NEW lo \in Nat \ {0}, NEW hi \in Nat,
         WellFormed(h, lo, hi),
         NEW a \in DOMAIN h, NEW n \in Nat, n % 16 = 0, n >= 16, ~TooSmall(h, a, n)
  PROVE  IsHeap(Cut(h, a, n)) /\ WellFormed(Cut(h, a, n), lo, hi)
<1> DEFINE b == a + HEADER + n
           c == Cut(h, a, n)
<1>1. /\ h[a] \in Segment /\ a \in Nat /\ b \in Nat /\ a < b /\ b < End(h, a)
      /\ b % 16 = 0
      /\ b \notin DOMAIN h
  <2>1. h[a] \in Segment /\ a \in Nat
    BY DEF IsHeap
  <2>2. a < b /\ b \in Nat /\ b < End(h, a)
    BY <2>1 DEF End, TooSmall, HEADER, HEAP_MIN_SPLIT_SIZE, Segment
  <2>3. a % 16 = 0
    BY DEF WellFormed, Linked
  <2>4. b % 16 = 0
    BY <2>1, <2>3 DEF HEADER
  <2>5. b \notin DOMAIN h
    BY <2>1, <2>2 DEF IsHeap, WellFormed, Disjoint, End, HEADER, Segment
  <2>. QED
    BY <2>1, <2>2, <2>4, <2>5
<1>2. DOMAIN c = DOMAIN h \cup {b}
  BY DEF Cut
<1>3. IsHeap(c)
  <2>1. DOMAIN c \subseteq Nat
    BY <1>1, <1>2 DEF IsHeap
  <2>2. ASSUME NEW x \in DOMAIN c
        PROVE  c[x] \in Segment
    <3>1. x # b => h[x] \in Segment
      BY <1>2 DEF IsHeap
    <3>2. CASE x = b
      BY <1>1, <3>2 DEF Cut, TooSmall, HEADER, HEAP_MIN_SPLIT_SIZE, Segment
    <3>3. CASE x # b
      BY <1>1, <1>2, <3>1, <3>3 DEF Cut, Segment
    <3>. QED
      BY <3>2, <3>3
  <2>3. c = [x \in DOMAIN c |-> c[x]]
    BY <1>2 DEF Cut
  <2>. QED
    BY <2>1, <2>2, <2>3 DEF IsHeap
<1>4. /\ End(c, a) = b /\ c[a].next = b /\ c[a].prev = h[a].prev /\ c[a].len = n
      /\ End(c, b) = End(h, a) /\ c[b].next = h[a].next /\ c[b].prev = a
      /\ c[b].len = h[a].len - n - HEADER
  BY <1>1, <1>2 DEF Cut, End, HEADER, Segment, IsHeap
<1>5. ASSUME NEW x \in DOMAIN h, x # a
      PROVE  /\ c[x].len = h[x].len /\ End(c, x) = End(h, x) /\ c[x].next = h[x].next
             /\ c[x].prev = IF x = h[a].next THEN b ELSE h[x].prev
  BY <1>1, <1>2, <1>5 DEF Cut, End, Segment, IsHeap
<1>6. Disjoint(c)
  <2> SUFFICES ASSUME NEW x \in DOMAIN c, NEW y \in DOMAIN c, x < y
               PROVE  End(c, x) <= y
    BY DEF Disjoint
  <2>1. \A u, v \in DOMAIN h : u < v => End(h, u) <= v
    BY DEF WellFormed, Disjoint
  <2>. QED
    BY <1>1, <1>2, <1>4, <1>5, <2>1 DEF IsHeap, End, HEADER, Segment
<1>7. Covers(c, lo, hi)
  <2> SUFFICES ASSUME NEW x \in lo..(hi - 1)
               PROVE  \E u \in DOMAIN c : u <= x /\ x < End(c, u)
    BY DEF Covers
  <2>1. PICK u \in DOMAIN h : u <= x /\ x < End(h, u)
    BY DEF WellFormed, Covers
  <2>2. CASE u = a /\ x >= b
    BY <1>2, <1>4, <2>1, <2>2
  <2>3. CASE u = a /\ ~(x >= b)
    BY <1>1, <1>2, <1>4, <2>1, <2>3
  <2>4. CASE u # a
    BY <1>2, <1>5, <2>1, <2>4
  <2>. QED
    BY <2>2, <2>3, <2>4
<1>8. Linked(c, lo, hi)
  <2> DEFINE Link(g, x) ==
               /\ x >= lo /\ End(g, x) <= hi /\ x % 16 = 0 /\ g[x].len % 16 = 0
               /\ g[x].next = IF End(g, x) = hi THEN NULL ELSE End(g, x)
               /\ g[x].next # NULL => g[x].next \in DOMAIN g /\ g[g[x].next].prev = x
               /\ g[x].prev = NULL <=> x = lo
               /\ g[x].prev # NULL => g[x].prev \in DOMAIN g /\ g[g[x].prev].next = x
  <2>1. lo \in DOMAIN h /\ \A x \in DOMAIN h : Link(h, x)
    BY DEF WellFormed, Linked
  <2>2. h[a].len % 16 = 0 /\ a % 16 = 0
    BY <2>1
  <2>3. Link(c, a)
    BY <1>1, <1>2, <1>4, <1>5, <2>1, <2>2 DEF NULL, HEADER, Segment
  <2>4. Link(c, b)
    BY <1>1, <1>2, <1>4, <1>5, <2>1, <2>2 DEF NULL, HEADER, Segment
  <2>5. ASSUME NEW x \in DOMAIN h, x # a
        PROVE  Link(c, x)
    <3>1. Link(h, x) /\ Link(h, a)
      BY <2>1
    <3>2. h[x].next # h[a].next \/ h[x].next = NULL
      BY <2>1, <2>5
    <3>. QED
      BY <1>1, <1>2, <1>4, <1>5, <2>5, <3>1, <3>2 DEF NULL
  <2>. QED
    BY <1>2, <2>1, <2>3, <2>4, <2>5 DEF Linked
<1>. QED
  BY <1>3, <1>6, <1>7, <1>8 DEF WellFormed


LEMMA CoalesceWellFormed ==
  ASSUME NEW h, IsHeap(h), NEW lo \in Nat \ {0}, NEW hi \in Nat,
         WellFormed(h, lo, hi),
         NEW a \in DOMAIN h, NEW b \in DOMAIN h, h[a].next = b
  PROVE  IsHeap(Coalesce(h, a, b)) /\ WellFormed(Coalesce(h, a, b), lo, hi)
<1> DEFINE c == Coalesce(h, a, b)
<1>1. /\ h[a] \in Segment /\ h[b] \in Segment /\ a \in Nat /\ b \in Nat
      /\ b = End(h, a) /\ a < b /\ b # NULL
  <2>1. h[a] \in Segment /\ h[b] \in Segment /\ a \in Nat /\ b \in Nat
    BY DEF IsHeap
  <2>2. b # NULL
    BY DEF WellFormed, Linked, NULL
  <2>3. b = End(h, a)
    BY <2>2 DEF WellFormed, Linked
  <2>4. h[a].len \in Nat
    BY <2>1 DEF Segment
  <2>5. a < End(h, a)
    BY <2>1, <2>4 DEF End, HEADER
  <2>. QED
    BY <2>1, <2>2, <2>3, <2>5
<1>2. DOMAIN c = DOMAIN h \ {b} /\ a \in DOMAIN c
  BY <1>1 DEF Coalesce
<1>3. /\ c[a].len = h[a].len + HEADER + h[b].len /\ c[a].next = h[b].next
      /\ c[a].prev = h[a].prev /\ End(c, a) = End(h, b) /\ c[a].free = h[a].free
  <2>1. c[a] = [h[a] EXCEPT !.len = h[a].len + HEADER + h[b].len, !.next = h[b].next]
    BY <1>2 DEF Coalesce
  <2>2. /\ c[a].len = h[a].len + HEADER + h[b].len /\ c[a].next = h[b].next
        /\ c[a].prev = h[a].prev /\ c[a].free = h[a].free
    BY <1>1, <2>1 DEF Segment
  <2>3. h[a].len \in Nat /\ h[b].len \in Nat
    BY <1>1 DEF Segment
  <2>4. End(c, a) = End(h, b)
    BY <1>1, <2>2, <2>3 DEF End, HEADER
  <2>. QED
    BY <2>2, <2>4
<1>4. ASSUME NEW x \in DOMAIN c, x # a
      PROVE  /\ c[x].len = h[x].len /\ End(c, x) = End(h, x) /\ c[x].next = h[x].next
             /\ c[x].free = h[x].free
             /\ c[x].prev = IF x = h[b].next THEN a ELSE h[x].prev
  <2>1. h[x] \in Segment
    BY <1>2 DEF IsHeap
  <2>. QED
    BY <1>1, <1>2, <1>4, <2>1 DEF Coalesce, End, Segment
<1>5. IsHeap(c)
  <2>1. DOMAIN c \subseteq Nat
    BY <1>2 DEF IsHeap
  <2>2. ASSUME NEW x \in DOMAIN c
        PROVE  c[x] \in Segment
    <3>1. h[x] \in Segment
      BY <1>2 DEF IsHeap
    <3>2. CASE x = a
      <4>1. c[a] = [h[a] EXCEPT !.len = h[a].len + HEADER + h[b].len,
                                !.next = h[b].next]
        BY <1>2 DEF Coalesce
      <4>2. /\ h[a].len + HEADER + h[b].len \in {n \in Nat : n >= 16}
            /\ h[b].next \in Nat
        BY <1>1 DEF HEADER, Segment
      <4>. QED
        BY <1>1, <3>2, <4>1, <4>2 DEF Segment
    <3>3. CASE x # a
      BY <1>1, <1>2, <3>1, <3>3 DEF Coalesce, Segment
    <3>. QED
      BY <3>2, <3>3
  <2>3. c = [x \in DOMAIN c |-> c[x]]
    BY <1>2 DEF Coalesce
  <2>. QED
    BY <2>1, <2>2, <2>3 DEF IsHeap
<1>6. Disjoint(c)
  <2> SUFFICES ASSUME NEW x \in DOMAIN c, NEW y \in DOMAIN c, x < y
               PROVE  End(c, x) <= y
    BY DEF Disjoint
  <2>1. \A u, v \in DOMAIN h : u < v => End(h, u) <= v
    BY DEF WellFormed, Disjoint
  <2>. QED
    BY <1>1, <1>2, <1>3, <1>4, <2>1 DEF IsHeap, End, HEADER, Segment
<1>7. Covers(c, lo, hi)
  <2> SUFFICES ASSUME NEW x \in lo..(hi - 1)
               PROVE  \E u \in DOMAIN c : u <= x /\ x < End(c, u)
    BY DEF Covers
  <2>1. PICK u \in DOMAIN h : u <= x /\ x < End(h, u)
    BY DEF WellFormed, Covers
  <2>2. CASE u \in {a, b}
    BY <1>1, <1>2, <1>3, <2>1, <2>2 DEF End, HEADER, Segment
  <2>3. CASE u \notin {a, b}
    BY <1>2, <1>4, <2>1, <2>3
  <2>. QED
    BY <2>2, <2>3
<1>8. Linked(c, lo, hi)
  <2> DEFINE Link(g, x) ==
               /\ x >= lo /\ End(g, x) <= hi /\ x % 16 = 0 /\ g[x].len % 16 = 0
               /\ g[x].next = IF End(g, x) = hi THEN NULL ELSE End(g, x)
               /\ g[x].next # NULL => g[x].next \in DOMAIN g /\ g[g[x].next].prev = x
               /\ g[x].prev = NULL <=> x = lo
               /\ g[x].prev # NULL => g[x].prev \in DOMAIN g /\ g[g[x].prev].next = x
  <2>1. lo \in DOMAIN h /\ \A x \in DOMAIN h : Link(h, x)
    BY DEF WellFormed, Linked
  <2>2. h[a].len % 16 = 0 /\ a % 16 = 0 /\ h[b].len % 16 = 0 /\ h[b].prev = a
    BY <1>1, <2>1
  <2>3. lo \in DOMAIN c
    BY <1>1, <1>2, <2>1, <2>2
  <2>4. Link(c, a)
    <3>1. Link(h, a) /\ Link(h, b)
      BY <2>1
    <3>2. h[b].next # a /\ h[b].next # b /\ h[a].prev # b /\ h[a].prev # a
      BY <1>1, <2>1 DEF NULL, End, HEADER, Segment
    <3>. QED
      BY <1>1, <1>2, <1>3, <1>4, <2>2, <3>1, <3>2 DEF NULL, HEADER, Segment
  <2>5. ASSUME NEW x \in DOMAIN c, x # a
        PROVE  Link(c, x)
    <3>1. x \in DOMAIN h /\ Link(h, x) /\ Link(h, a) /\ Link(h, b)
      BY <1>2, <2>1
    <3>2. h[x].next # b /\ (h[x].next # h[b].next \/ h[x].next = NULL)
      BY <1>1, <1>2, <2>1, <2>5
    <3>3. h[x].prev = b <=> x = h[b].next
      BY <1>1, <2>1, <3>1 DEF NULL
    <3>. QED
      BY <1>1, <1>2, <1>3, <1>4, <2>5, <3>1, <3>2, <3>3 DEF NULL
  <2>. QED
    BY <1>2, <2>3, <2>4, <2>5 DEF Linked
<1>. QED
  BY <1>5, <1>6, <1>7, <1>8 DEF WellFormed


LEMMA MarkWellFormed ==
  ASSUME NEW h, IsHeap(h), NEW lo, NEW hi, WellFormed(h, lo, hi), NEW a \in DOMAIN h,
         NEW g, g = MarkTaken(h, a) \/ g = MarkFree(h, a)
  PROVE  /\ IsHeap(g) /\ WellFormed(g, lo, hi) /\ DOMAIN g = DOMAIN h
         /\ \A x \in DOMAIN h :
              /\ g[x].len = h[x].len /\ g[x].next = h[x].next /\ g[x].prev = h[x].prev
              /\ x # a => g[x].free = h[x].free
         /\ g = MarkTaken(h, a) => ~g[a].free
         /\ g = MarkFree(h, a) => g[a].free
<1>1. DOMAIN g = DOMAIN h
  BY DEF MarkTaken, MarkFree
<1>2. ASSUME NEW x \in DOMAIN h
      PROVE  /\ g[x] \in Segment /\ g[x].len = h[x].len /\ g[x].next = h[x].next
             /\ g[x].prev = h[x].prev /\ End(g, x) = End(h, x)
             /\ x # a => g[x].free = h[x].free
             /\ x = a /\ g = MarkTaken(h, a) => ~g[x].free
             /\ x = a /\ g = MarkFree(h, a) => g[x].free
  <2>1. h[x] \in Segment
    BY DEF IsHeap
  <2>2. CASE g = MarkTaken(h, a)
    <3>1. g[x] = IF x = a THEN [h[x] EXCEPT !.free = FALSE] ELSE h[x]
      BY <2>2 DEF MarkTaken
    <3>2. g # MarkFree(h, a)
      <4>1. h[a] \in Segment
        BY DEF IsHeap
      <4>2. ~MarkTaken(h, a)[a].free
        BY <4>1 DEF MarkTaken, Segment
      <4>3. MarkFree(h, a)[a].free
        BY <4>1 DEF MarkFree, Segment
      <4>. QED
        BY <2>2, <4>2, <4>3
    <3>. QED
      BY <2>1, <3>1, <3>2 DEF End, Segment
  <2>3. CASE g = MarkFree(h, a)
    <3>1. g[x] = IF x = a THEN [h[x] EXCEPT !.free = TRUE] ELSE h[x]
      BY <2>3 DEF MarkFree
    <3>2. g # MarkTaken(h, a)
      <4>1. h[a] \in Segment
        BY DEF IsHeap
      <4>2. ~MarkTaken(h, a)[a].free
        BY <4>1 DEF MarkTaken, Segment
      <4>3. MarkFree(h, a)[a].free
        BY <4>1 DEF MarkFree, Segment
      <4>. QED
        BY <2>3, <4>2, <4>3
    <3>. QED
      BY <2>1, <3>1, <3>2 DEF End, Segment
  <2>. QED
    BY <2>2, <2>3
<1>3. IsHeap(g)
  <2>1. g = [x \in DOMAIN g |-> g[x]]
    BY DEF MarkTaken, MarkFree
  <2>. QED
    BY <1>1, <1>2, <2>1 DEF IsHeap
<1>4. Disjoint(g) /\ Covers(g, lo, hi)
  BY <1>1, <1>2 DEF WellFormed, Disjoint, Covers
<1>5. Linked(g, lo, hi)
  BY <1>1, <1>2 DEF WellFormed, Linked
<1>. QED
  BY <1>1, <1>2, <1>3, <1>4, <1>5 DEF WellFormed

\* The order of the links is the order of the addresses.
LEMMA NextIsNearest ==
  ASSUME NEW h, IsHeap(h), NEW lo \in Nat, NEW hi \in Nat, WellFormed(h, lo, hi),
         NEW a \in DOMAIN h, NEW x \in DOMAIN h, h[a].next = NULL \/ x < h[a].next
  PROVE  x <= a
<1>1. a \in Nat /\ x \in Nat /\ h[a] \in Segment /\ h[x] \in Segment
  BY DEF IsHeap
<1>2. SUFFICES ASSUME a < x PROVE FALSE
  BY <1>1
<1>3. End(h, a) <= x /\ x < End(h, x) /\ End(h, x) <= hi /\ End(h, a) \in Nat
  <2>1. End(h, a) <= x /\ End(h, x) <= hi
    BY <1>2 DEF WellFormed, Disjoint, Linked
  <2>2. h[a].len \in Nat /\ h[x].len \in Nat
    BY <1>1 DEF Segment
  <2>3. x < End(h, x) /\ End(h, a) \in Nat
    BY <1>1, <2>2 DEF End, HEADER
  <2>. QED
    BY <2>1, <2>3
<1>4. h[a].next = IF End(h, a) = hi THEN NULL ELSE End(h, a)
  BY DEF WellFormed, Linked
<1>. QED
  BY <1>1, <1>3, <1>4 DEF NULL, End, HEADER, Segment

LEMMA NextIsHigher ==
  ASSUME NEW h, IsHeap(h), NEW lo \in Nat \ {0}, NEW hi, WellFormed(h, lo, hi),
         NEW a \in DOMAIN h, h[a].next # NULL
  PROVE  h[a].next \in DOMAIN h /\ h[a].next \in Nat /\ a < h[a].next
<1>1. a \in Nat /\ h[a] \in Segment
  BY DEF IsHeap
<1>2. a < End(h, a) /\ End(h, a) \in Nat
  BY <1>1 DEF End, HEADER, Segment
<1>. QED
  BY <1>1, <1>2 DEF WellFormed, Linked

\* No segment is linked to itself.
LEMMA NotSelfLinked ==
  ASSUME NEW h, IsHeap(h), NEW lo \in Nat \ {0}, NEW hi, WellFormed(h, lo, hi),
         NEW a \in DOMAIN h
  PROVE  ~SelfLinked(h, a)
<1>1. a \in Nat /\ h[a] \in Segment
  BY DEF IsHeap
<1>2. a < End(h, a)
  BY <1>1 DEF End, HEADER, Segment
<1>3. a # NULL /\ (h[a].next = NULL \/ h[a].next = End(h, a))
  BY <1>1 DEF WellFormed, Linked, NULL
<1>4. h[a].next # a
  BY <1>1, <1>2, <1>3
<1>5. h[a].prev # NULL => h[h[a].prev].next = a /\ h[a].prev \in DOMAIN h
  BY DEF WellFormed, Linked
<1>6. h[a].prev # a
  BY <1>3, <1>4, <1>5
<1>. QED
  BY <1>4, <1>6 DEF SelfLinked


-----------------------------------------------------------------------------
(* What the merges of kfree do to h.                                        *)

\* Segments of h disappear in g, but only free ones; the others keep their
\* payload, and none changes hands.
Keeps(g, h) ==
  /\ DOMAIN g \subseteq DOMAIN h
  /\ \A x \in DOMAIN g : g[x].free = h[x].free
  /\ \A x \in DOMAIN h : ~h[x].free => x \in DOMAIN g /\ g[x].len = h[x].len

\* Two free neighbours are found only next to a.
OnlyPairAt(h, a) ==
  \A x \in DOMAIN h :
     h[x].free /\ h[x].next # NULL /\ h[h[x].next].free => x = a \/ h[x].next = a

LEMMA CoalesceKeeps ==
  ASSUME NEW h, IsHeap(h), NEW lo \in Nat \ {0}, NEW hi \in Nat, WellFormed(h, lo, hi),
         NEW a \in DOMAIN h, NEW b \in DOMAIN h, h[a].next = b, h[a].free, h[b].free
  PROVE  /\ Keeps(Coalesce(h, a, b), h)
         /\ DOMAIN Coalesce(h, a, b) = DOMAIN h \ {b} /\ a # b
         /\ Coalesce(h, a, b)[a].next = h[b].next
         /\ Coalesce(h, a, b)[a].prev = h[a].prev
         /\ \A x \in DOMAIN h \ {a, b} : Coalesce(h, a, b)[x].next = h[x].next
<1> DEFINE c == Coalesce(h, a, b)
<1>1. a # b
  BY NotSelfLinked DEF SelfLinked
<1>2. DOMAIN c = DOMAIN h \ {b}
  BY DEF Coalesce
<1>3. /\ c[a].next = h[b].next /\ c[a].prev = h[a].prev /\ c[a].free = h[a].free
  <2>1. c[a] = [h[a] EXCEPT !.len = h[a].len + HEADER + h[b].len, !.next = h[b].next]
    BY <1>1, <1>2 DEF Coalesce
  <2>2. h[a] \in Segment
    BY DEF IsHeap
  <2>. QED
    BY <2>1, <2>2 DEF Segment
<1>4. ASSUME NEW x \in DOMAIN h \ {a, b}
      PROVE  c[x].len = h[x].len /\ c[x].free = h[x].free /\ c[x].next = h[x].next
  <2>1. h[x] \in Segment
    BY DEF IsHeap
  <2>. QED
    BY <1>2, <2>1 DEF Coalesce, Segment
<1>5. Keeps(c, h)
  <2>1. \A x \in DOMAIN c : c[x].free = h[x].free
    BY <1>2, <1>3, <1>4
  <2>2. ASSUME NEW x \in DOMAIN h, ~h[x].free
        PROVE  x \in DOMAIN c /\ c[x].len = h[x].len
    BY <1>2, <1>4, <2>2
  <2>. QED
    BY <1>2, <2>1, <2>2 DEF Keeps
<1>. QED
  BY <1>1, <1>2, <1>3, <1>4, <1>5

LEMMA MergeNextCorrect ==
  ASSUME NEW h, IsHeap(h), NEW lo \in Nat \ {0}, NEW hi \in Nat, WellFormed(h, lo, hi),
         NEW a \in DOMAIN h, h[a].free, OnlyPairAt(h, a)
  PROVE  LET g == MergeNext(h, a)
         IN /\ IsHeap(g) /\ WellFormed(g, lo, hi) /\ Keeps(g, h)
            /\ a \in DOMAIN g /\ OnlyPairAt(g, a)
            /\ g[a].next # NULL => ~g[g[a].next].free
<1> DEFINE b == h[a].next
           c == Coalesce(h, a, b)
<1>1. CASE b # NULL /\ h[b].free
  <2>1. b \in DOMAIN h
    BY <1>1 DEF WellFormed, Linked
  <2>2. IsHeap(c) /\ WellFormed(c, lo, hi)
    BY <2>1, CoalesceWellFormed
  <2>3. /\ Keeps(c, h) /\ DOMAIN c = DOMAIN h \ {b} /\ a # b
        /\ c[a].next = h[b].next
        /\ \A x \in DOMAIN h \ {a, b} : c[x].next = h[x].next
    BY <1>1, <2>1, CoalesceKeeps
  <2>4. c[a].next # NULL => c[a].next \in DOMAIN c
    BY <2>2, <2>3 DEF WellFormed, Linked
  <2>5. c[a].next # NULL => ~c[c[a].next].free
    <3>1. h[b].next # NULL => h[b].next # a /\ h[b].next \in DOMAIN h
      <4>1. h[a].prev # b
        <5>1. h[a].prev = b => h[b].next = a
          BY <1>1, <2>1 DEF WellFormed, Linked
        <5>2. a \in Nat /\ b \in Nat /\ a < b
          BY <1>1, NextIsHigher DEF IsHeap
        <5>3. h[b].next # NULL => b < h[b].next /\ h[b].next \in Nat
          BY <2>1, NextIsHigher
        <5>4. a # NULL
          BY DEF WellFormed, Linked, NULL
        <5>. QED
          BY <5>1, <5>2, <5>3, <5>4
      <4>. QED
        BY <2>1, <4>1 DEF WellFormed, Linked
    <3>2. h[b].next # NULL => ~h[h[b].next].free
      BY <1>1, <2>1, <2>3, <3>1 DEF OnlyPairAt
    <3>. QED
      BY <2>3, <2>4, <3>2 DEF Keeps
  <2>6. OnlyPairAt(c, a)
    <3> SUFFICES ASSUME NEW x \in DOMAIN c, c[x].free, c[x].next # NULL,
                        c[c[x].next].free, x # a, c[x].next # a
                 PROVE  FALSE
      BY DEF OnlyPairAt
    <3>1. c[x].next \in DOMAIN c /\ c[x].next = h[x].next
      BY <2>2, <2>3 DEF WellFormed, Linked
    <3>. QED
      BY <2>3, <3>1 DEF Keeps, OnlyPairAt
  <2>7. MergeNext(h, a) = c /\ a \in DOMAIN c
    BY <1>1, <2>3 DEF MergeNext
  <2>. QED
    BY <2>2, <2>3, <2>5, <2>6, <2>7
<1>2. CASE ~(b # NULL /\ h[b].free)
  <2>1. MergeNext(h, a) = h
    BY <1>2 DEF MergeNext
  <2>. QED
    BY <1>2, <2>1 DEF Keeps
<1>. QED
  BY <1>1, <1>2


LEMMA MergePrevCorrect ==
  ASSUME NEW h, IsHeap(h), NEW lo \in Nat \ {0}, NEW hi \in Nat, WellFormed(h, lo, hi),
         NEW a \in DOMAIN h, h[a].free, OnlyPairAt(h, a),
         h[a].next # NULL => ~h[h[a].next].free
  PROVE  LET g == MergePrev(h, a)
         IN IsHeap(g) /\ WellFormed(g, lo, hi) /\ Keeps(g, h) /\ NoFreePair(g)
<1> DEFINE b == h[a].prev
           c == Coalesce(h, b, a)
<1>1. CASE b # NULL /\ h[b].free
  <2>1. b \in DOMAIN h /\ h[b].next = a
    BY <1>1 DEF WellFormed, Linked
  <2>2. IsHeap(c) /\ WellFormed(c, lo, hi)
    BY <2>1, CoalesceWellFormed
  <2>3. /\ Keeps(c, h) /\ DOMAIN c = DOMAIN h \ {a} /\ a # b
        /\ c[b].next = h[a].next
        /\ \A x \in DOMAIN h \ {b, a} : c[x].next = h[x].next
    BY <1>1, <2>1, CoalesceKeeps
  <2>4. ASSUME NEW x \in DOMAIN c, c[x].free, c[x].next # NULL, c[c[x].next].free
        PROVE  FALSE
    <3>1. c[x].next \in DOMAIN c
      BY <2>2, <2>4 DEF WellFormed, Linked
    <3>2. CASE x = b
      BY <2>3, <2>4, <3>1, <3>2 DEF Keeps
    <3>3. CASE x # b
      BY <2>3, <2>4, <3>1, <3>3 DEF Keeps, OnlyPairAt
    <3>. QED
      BY <3>2, <3>3
  <2>5. NoFreePair(c)
    BY <2>4 DEF NoFreePair
  <2>6. MergePrev(h, a) = c
    BY <1>1 DEF MergePrev
  <2>. QED
    BY <2>2, <2>3, <2>5, <2>6
<1>2. CASE ~(b # NULL /\ h[b].free)
  <2>1. MergePrev(h, a) = h
    BY <1>2 DEF MergePrev
  <2>2. ASSUME NEW x \in DOMAIN h, h[x].free, h[x].next # NULL, h[h[x].next].free
        PROVE  FALSE
    <3>1. x # a /\ h[x].next = a
      BY <2>2 DEF OnlyPairAt
    <3>2. b = x
      BY <2>2, <3>1 DEF WellFormed, Linked
    <3>3. x # NULL
      BY DEF WellFormed, Linked, NULL
    <3>. QED
      BY <1>2, <2>2, <3>2, <3>3
  <2>. QED
    BY <2>1, <2>2 DEF Keeps, NoFreePair
<1>. QED
  BY <1>1, <1>2

\* Freeing the taken segment a and merging it both ways.
LEMMA FreeCorrect ==
  ASSUME NEW h, IsHeap(h), NEW lo \in Nat \ {0}, NEW hi \in Nat, WellFormed(h, lo, hi),
         NEW a \in DOMAIN h, ~h[a].free, NoFreePair(h)
  PROVE  LET m == MarkFree(h, a)
             g == MergePrev(MergeNext(m, a), a)
         IN /\ IsHeap(g) /\ WellFormed(g, lo, hi) /\ NoFreePair(g)
            /\ DOMAIN g \subseteq DOMAIN h
            /\ \A x \in DOMAIN g : ~g[x].free => x # a /\ ~h[x].free
            /\ \A x \in DOMAIN h :
                 x # a /\ ~h[x].free => x \in DOMAIN g /\ ~g[x].free /\ g[x].len = h[x].len
<1> DEFINE m == MarkFree(h, a)
           n == MergeNext(m, a)
           g == MergePrev(n, a)
<1>1. /\ IsHeap(m) /\ WellFormed(m, lo, hi) /\ DOMAIN m = DOMAIN h
      /\ \A x \in DOMAIN h :
           /\ m[x].len = h[x].len /\ m[x].next = h[x].next
           /\ x # a => m[x].free = h[x].free
      /\ m[a].free
  BY MarkWellFormed
<1> HIDE DEF m
<1>2. OnlyPairAt(m, a)
  <2> SUFFICES ASSUME NEW x \in DOMAIN h, m[x].free, m[x].next # NULL,
                      m[m[x].next].free, x # a, m[x].next # a
               PROVE  FALSE
    BY <1>1 DEF OnlyPairAt
  <2>1. h[x].next = m[x].next /\ h[x].next \in DOMAIN h
    BY <1>1 DEF WellFormed, Linked
  <2>. QED
    BY <1>1, <2>1 DEF NoFreePair
<1>3. /\ IsHeap(n) /\ WellFormed(n, lo, hi) /\ Keeps(n, m)
      /\ a \in DOMAIN n /\ OnlyPairAt(n, a)
      /\ n[a].next # NULL => ~n[n[a].next].free
  BY <1>1, <1>2, MergeNextCorrect
<1>4. n[a].free
  BY <1>1, <1>3 DEF Keeps
<1>5. IsHeap(g) /\ WellFormed(g, lo, hi) /\ Keeps(g, n) /\ NoFreePair(g)
  BY <1>3, <1>4, MergePrevCorrect
<1>6. DOMAIN g \subseteq DOMAIN h
  BY <1>1, <1>3, <1>5 DEF Keeps
<1>7. ASSUME NEW x \in DOMAIN g, ~g[x].free
      PROVE  x # a /\ ~h[x].free
  BY <1>1, <1>3, <1>4, <1>5, <1>7 DEF Keeps
<1>8. ASSUME NEW x \in DOMAIN h, x # a, ~h[x].free
      PROVE  x \in DOMAIN g /\ ~g[x].free /\ g[x].len = h[x].len
  BY <1>1, <1>3, <1>5, <1>8 DEF Keeps
<1>. QED
  BY <1>5, <1>6, <1>7, <1>8 DEF m


-----------------------------------------------------------------------------
(* What kmalloc does to h.                                                  *)

LEMMA SplitCorrect ==
  ASSUME NEW h, IsHeap(h), NEW lo \in Nat \ {0}, NEW hi \in Nat, WellFormed(h, lo, hi),
         NEW a \in DOMAIN h, NEW n \in Nat, n % 16 = 0, n >= 16, h[a].len >= n
  PROVE  LET g == Split(h, a, n)
         IN /\ IsHeap(g) /\ WellFormed(g, lo, hi) /\ a \in DOMAIN g
            /\ g[a].len >= n /\ g[a].len < n + HEADER + HEAP_MIN_SPLIT_SIZE
            /\ \A x \in DOMAIN h \ {a} :
                 x \in DOMAIN g /\ g[x].len = h[x].len /\ g[x].free = h[x].free
                 /\ g[x].next = h[x].next
            /\ \A x \in DOMAIN g \ DOMAIN h : g[x].free /\ g[x].next = h[a].next
<1>1. h[a] \in Segment /\ h[a].len \in Nat /\ a \in Nat
  BY DEF IsHeap, Segment
<1>2. CASE TooSmall(h, a, n)
  <2>1. Split(h, a, n) = h
    BY <1>2 DEF Split
  <2>. QED
    BY <1>1, <1>2, <2>1 DEF TooSmall, HEADER, HEAP_MIN_SPLIT_SIZE
<1>3. CASE ~TooSmall(h, a, n)
  <2> DEFINE b == a + HEADER + n
             c == Cut(h, a, n)
  <2>1. Split(h, a, n) = c
    BY <1>3 DEF Split
  <2>2. IsHeap(c) /\ WellFormed(c, lo, hi)
    BY <1>3, CutWellFormed
  <2>3. DOMAIN c = DOMAIN h \cup {b} /\ a # b
    BY <1>1 DEF Cut, HEADER
  <2>4. c[a].len = n
    <3>1. c[a] = [h[a] EXCEPT !.len = n, !.next = b]
      BY <2>3 DEF Cut
    <3>. QED
      BY <1>1, <3>1 DEF Segment
  <2>5. b \notin DOMAIN h
    <3>1. a < b /\ b < End(h, a) /\ b \in Nat
      BY <1>1, <1>3 DEF End, TooSmall, HEADER, HEAP_MIN_SPLIT_SIZE
    <3>. QED
      BY <1>1, <3>1 DEF WellFormed, Disjoint, End, HEADER
  <2>6. ASSUME NEW x \in DOMAIN h \ {a}
        PROVE  c[x].len = h[x].len /\ c[x].free = h[x].free /\ c[x].next = h[x].next
    <3>1. h[x] \in Segment
      BY DEF IsHeap
    <3>. QED
      BY <2>3, <2>5, <3>1 DEF Cut, Segment
  <2>7. c[b].free /\ c[b].next = h[a].next
    BY <2>3 DEF Cut
  <2>. QED
    BY <1>1, <2>1, <2>2, <2>3, <2>4, <2>6, <2>7 DEF HEADER, HEAP_MIN_SPLIT_SIZE
<1>. QED
  BY <1>2, <1>3

LEMMA TakeCorrect ==
  ASSUME NEW h, IsHeap(h), NEW lo \in Nat \ {0}, NEW hi \in Nat, WellFormed(h, lo, hi),
         NEW a \in DOMAIN h, h[a].free, NoFreePair(h),
         NEW n \in Nat, n % 16 = 0, n >= 16, h[a].len >= n
  PROVE  LET g == MarkTaken(Split(h, a, n), a)
         IN /\ IsHeap(g) /\ WellFormed(g, lo, hi) /\ NoFreePair(g)
            /\ a \in DOMAIN g /\ ~g[a].free
            /\ g[a].len >= n /\ g[a].len < n + HEADER + HEAP_MIN_SPLIT_SIZE
            /\ \A x \in DOMAIN h \ {a} :
                 x \in DOMAIN g /\ g[x].len = h[x].len /\ g[x].free = h[x].free
            /\ \A x \in DOMAIN g \ {a} : ~g[x].free => x \in DOMAIN h /\ ~h[x].free
<1> DEFINE s == Split(h, a, n)
           g == MarkTaken(s, a)
<1>1. /\ IsHeap(s) /\ WellFormed(s, lo, hi) /\ a \in DOMAIN s
      /\ s[a].len >= n /\ s[a].len < n + HEADER + HEAP_MIN_SPLIT_SIZE
      /\ \A x \in DOMAIN h \ {a} :
           x \in DOMAIN s /\ s[x].len = h[x].len /\ s[x].free = h[x].free
           /\ s[x].next = h[x].next
      /\ \A x \in DOMAIN s \ DOMAIN h : s[x].free /\ s[x].next = h[a].next
  BY SplitCorrect
<1> HIDE DEF s
<1>2. IsHeap(g) /\ WellFormed(g, lo, hi) /\ DOMAIN g = DOMAIN s
  BY <1>1, MarkWellFormed
<1>3. g[a].len = s[a].len /\ ~g[a].free
  BY <1>1, MarkWellFormed
<1>4. \A x \in DOMAIN s \ {a} : g[x] = s[x]
  BY DEF MarkTaken
<1>5. NoFreePair(g)
  <2> SUFFICES ASSUME NEW x \in DOMAIN g, g[x].free, g[x].next # NULL, g[g[x].next].free
               PROVE  FALSE
    BY DEF NoFreePair
  <2>1. x # a /\ g[x].next \in DOMAIN s /\ g[x].next # a /\ g[x] = s[x]
    BY <1>2, <1>3, <1>4 DEF WellFormed, Linked
  <2> DEFINE y == s[x].next
  <2>2. s[x].free /\ s[y].free /\ y \in DOMAIN s \ {a} /\ y # NULL
    BY <1>2, <1>4, <2>1
  <2>3. CASE x \in DOMAIN h
    <3>1. h[x].next = y /\ h[x].free /\ y \in DOMAIN h
      <4>1. h[x].next = y /\ h[x].free
        BY <1>1, <2>1, <2>2, <2>3
      <4>. QED
        BY <2>2, <2>3, <4>1 DEF WellFormed, Linked
    <3>. QED
      BY <1>1, <2>2, <2>3, <3>1 DEF NoFreePair
  <2>4. CASE x \notin DOMAIN h
    <3>1. h[a].next = y /\ y \in DOMAIN h
      <4>1. h[a].next = y
        BY <1>1, <1>2, <2>1, <2>2, <2>4
      <4>. QED
        BY <2>2, <4>1 DEF WellFormed, Linked
    <3>. QED
      BY <1>1, <2>2, <3>1 DEF NoFreePair
  <2>. QED
    BY <2>3, <2>4
<1>6. ASSUME NEW x \in DOMAIN h \ {a}
      PROVE  x \in DOMAIN g /\ g[x].len = h[x].len /\ g[x].free = h[x].free
  BY <1>1, <1>2, <1>4
<1>7. ASSUME NEW x \in DOMAIN g \ {a}, ~g[x].free
      PROVE  x \in DOMAIN h /\ ~h[x].free
  BY <1>1, <1>2, <1>4, <1>7
<1>. QED
  BY <1>1, <1>2, <1>3, <1>5, <1>6, <1>7 DEF s


-----------------------------------------------------------------------------
(* The inductive invariant: the properties, and what the entry checks of    *)
(* the calls establish for the walks.                                       *)

Uninitialized ==
  heap_start = NULL =>
    /\ DOMAIN segs = {} /\ DOMAIN owned = {} /\ cur = NULL
    /\ panic = "no" => op = "idle"

ArenaOk ==
  heap_start # NULL => Limit \in Nat /\ heap_start + 32 <= Limit /\ Limit <= heap_end

RequestOk ==
  op = "kmalloc" /\ panic \in {"no", "exhausted"} =>
    /\ req \in 1..(HEAP_LEN_MASK - 15)
    /\ need = (req + 15) - ((req + 15) % 16)

IInv ==
  /\ TypeInv /\ HeapWellFormed /\ Coalesced /\ BlocksIntact /\ PanicsJustified
  /\ WalkSound /\ Uninitialized /\ ArenaOk /\ RequestOk

LEMMA InitInv == Init => IInv
<1> SUFFICES ASSUME Init PROVE IInv
  OBVIOUS
<1>1. DOMAIN segs = {} /\ DOMAIN owned = {}
  BY DEF Init
<1>2. segs \in [DOMAIN segs -> Segment] /\ owned \in [DOMAIN owned -> 0..WordMax]
  BY DEF Init
<1>3. TypeInv
  BY <1>1, <1>2, HeapAssumption DEF Init, TypeInv, Ops, Panics, NULL
<1>. QED
  BY <1>1, <1>3 DEF Init, IInv, HeapWellFormed, Coalesced, NoFreePair, BlocksIntact,
     PanicsJustified, WalkSound, Uninitialized, ArenaOk, RequestOk, NULL

\* A call that is rejected changes nothing but what says so.
LEMMA RejectInv ==
  ASSUME IInv, panic = "no", NEW o \in Ops, NEW x \in 0..WordMax,
         NEW why \in Panics \ {"no", "corrupt"}, Reject(o, x, why),
         why = "exhausted" =>
           /\ o = op /\ x = req /\ op = "kmalloc"
           /\ \A p \in heap_start..Limit : ~Room(p, need),
         why \in {"bad pointer", "double free"} => x \notin DOMAIN owned
  PROVE  IInv'
<1> USE DEF IInv, Reject
<1>1. TypeInv'
  BY DEF TypeInv
<1>2. HeapWellFormed' /\ Coalesced' /\ BlocksIntact'
  BY DEF HeapWellFormed, Limit, Coalesced, BlocksIntact
<1>3. PanicsJustified'
  BY DEF PanicsJustified, Panics, Room, Limit
<1>4. WalkSound' /\ Uninitialized' /\ ArenaOk' /\ RequestOk'
  BY DEF WalkSound, Uninitialized, ArenaOk, Limit, RequestOk, Panics
<1>. QED
  BY <1>1, <1>2, <1>3, <1>4

LEMMA AlignUpFacts ==
  ASSUME NEW n \in Nat, n <= HEAP_LEN_MASK
  PROVE  HEAP_ALIGN_UP(n) = (n + 15) - ((n + 15) % 16)
BY HeapAssumption DEF HEAP_LEN_MASK, HEAP_ALIGN_UP, WordAdd, MaskDown

LEMMA HeapInitInv ==
  ASSUME IInv, NEW e \in Extents, HeapInit(e[1], e[2])
  PROVE  IInv'
<1> DEFINE start == e[1]
           total == e[2]
           first == HEAP_ALIGN_UP(start)
           len == MaskDown(total - (first - start) - HEADER)
<1>1. start \in 0..WordMax /\ total \in 0..WordMax /\ WordMax \in Nat
  BY HeapAssumption
<1>2. CASE ~ExtentOk(start, total)
  <2>1. Reject("heap_init", 0, "bad extent") /\ panic = "no"
    BY <1>2 DEF HeapInit, Ready
  <2>. QED
    <3>1. "heap_init" \in Ops /\ 0 \in 0..WordMax
      BY <1>1 DEF Ops
    <3>2. /\ "bad extent" \in Panics \ {"no", "corrupt"} /\ "bad extent" # "exhausted"
          /\ "bad extent" \notin {"bad pointer", "double free"}
      BY DEF Panics, Misuse
    <3>. QED
      BY <2>1, <3>1, <3>2, RejectInv
<1>3. CASE ExtentOk(start, total)
  <2>1. /\ heap_start = NULL /\ panic = "no" /\ op = "idle"
        /\ heap_start' = first /\ heap_end' = start + total
        /\ segs' = [a \in {first} |-> [len |-> len, free |-> TRUE,
                                       next |-> NULL, prev |-> NULL]]
        /\ UNCHANGED <<op, req, need, cur, owned, panic>>
    BY <1>3 DEF HeapInit, Ready, call
  <2>2. /\ first = (start + 15) - ((start + 15) % 16) /\ first # NULL
        /\ total > HEADER + (first - start) /\ start + total <= WordMax
    BY <1>1, <1>3, HeapAssumption DEF ExtentOk, HEAP_ALIGN_UP, WordAdd, MaskDown, NULL
  <2>3. /\ first \in Nat /\ first >= start /\ first % 16 = 0 /\ first > 0
        /\ total - (first - start) - HEADER \in Nat
        /\ first + (total - (first - start)) = start + total
    BY <1>1, <2>2 DEF HEADER, NULL
  <2>4. /\ len \in Nat /\ len % 16 = 0 /\ len >= 16
        /\ len <= total - (first - start) - HEADER
    BY <1>3, <2>3, MaskDownFacts DEF ExtentOk
  <2> HIDE DEF first, len
  <2>5. Limit' = first + HEADER + len
    <3>1. total - (first - start) - HEADER = start + total - first - HEADER
      BY <1>1, <2>3 DEF HEADER
    <3>. QED
      <4>1. Limit' = first + HEADER + MaskDown(start + total - first - HEADER)
        BY <1>1, <2>1, <2>3 DEF Limit, MaskDown, HEADER
      <4>. QED
        BY <3>1, <4>1 DEF len
  <2>6. /\ DOMAIN segs' = {first} /\ segs'[first].len = len /\ segs'[first].free
        /\ segs'[first].next = NULL /\ segs'[first].prev = NULL
        /\ segs'[first] \in Segment /\ End(segs', first) = Limit'
    BY <2>1, <2>4, <2>5 DEF Segment, NULL, End
  <2>7. DOMAIN owned = {}
    BY <2>1 DEF IInv, Uninitialized
  <2>8. TypeInv'
    <3>1. segs' \in [DOMAIN segs' -> Segment]
      BY <2>1, <2>6
    <3>2. start + total \in 0..WordMax /\ first \in 0..WordMax
      BY <1>1, <2>2, <2>3 DEF HEADER
    <3>3. cur' = NULL
      BY <2>1 DEF IInv, TypeInv, Uninitialized
    <3>. QED
      BY <2>1, <2>3, <2>6, <3>1, <3>2, <3>3 DEF IInv, TypeInv
  <2>9. HeapWellFormed'
    <3>1. Linked(segs', first, Limit')
      BY <2>3, <2>4, <2>5, <2>6 DEF Linked, NULL
    <3>2. Disjoint(segs')
      BY <2>3, <2>6 DEF Disjoint
    <3>3. Covers(segs', first, Limit')
      BY <2>3, <2>4, <2>5, <2>6 DEF Covers, HEADER
    <3>. QED
      BY <2>1, <3>1, <3>2, <3>3 DEF HeapWellFormed, WellFormed
  <2>10. Coalesced' /\ BlocksIntact'
    BY <2>1, <2>6, <2>7 DEF Coalesced, NoFreePair, BlocksIntact
  <2>11. ArenaOk'
    BY <1>1, <2>1, <2>3, <2>4, <2>5 DEF ArenaOk, HEADER
  <2>. QED
    BY <2>1, <2>2, <2>8, <2>9, <2>10, <2>11
    DEF IInv, PanicsJustified, WalkSound, Uninitialized, RequestOk
<1>. QED
  BY <1>2, <1>3


\* What IInv says of a heap that has been initialized, in the lemmas' terms.
LEMMA HeapFacts ==
  ASSUME IInv, heap_start # NULL
  PROVE  /\ IsHeap(segs) /\ heap_start \in Nat \ {0} /\ Limit \in Nat
         /\ WellFormed(segs, heap_start, Limit) /\ NoFreePair(segs)
         /\ heap_start \in DOMAIN segs
         /\ \A a \in DOMAIN segs : a >= heap_start /\ a % 16 = 0 /\ End(segs, a) <= heap_end
         /\ \A a \in DOMAIN segs : a \in Nat /\ segs[a] \in Segment
<1>1. IsHeap(segs) /\ heap_start \in Nat \ {0} /\ Limit \in Nat /\ Limit <= heap_end
  BY DEF IInv, TypeInv, IsHeap, ArenaOk, NULL
<1>2. WellFormed(segs, heap_start, Limit) /\ NoFreePair(segs)
  BY DEF IInv, HeapWellFormed, Coalesced
<1>3. heap_start \in DOMAIN segs
  BY <1>2 DEF WellFormed, Linked
<1>4. \A a \in DOMAIN segs : a \in Nat /\ segs[a] \in Segment
  BY <1>1 DEF IsHeap
<1>5. \A a \in DOMAIN segs : a >= heap_start /\ a % 16 = 0 /\ End(segs, a) <= Limit
  BY <1>2 DEF WellFormed, Linked
<1>6. ASSUME NEW a \in DOMAIN segs PROVE End(segs, a) <= heap_end
  <2>1. End(segs, a) \in Nat
    BY <1>4 DEF End, HEADER, Segment
  <2>2. heap_end \in Nat
    BY HeapAssumption DEF IInv, TypeInv
  <2>. QED
    BY <1>1, <1>5, <2>1, <2>2
<1>. QED
  BY <1>1, <1>2, <1>3, <1>4, <1>5, <1>6

\* The payloads of the callers are payloads of segments, inside the arena.
LEMMA OwnedInArena ==
  ASSUME IInv, NEW p \in DOMAIN owned
  PROVE  heap_start # NULL /\ PtrOk(p)
<1>1. heap_start # NULL
  BY DEF IInv, Uninitialized
<1>2. p \in Nat /\ p - HEADER \in DOMAIN segs
  BY DEF IInv, TypeInv, BlocksIntact
<1> DEFINE a == p - HEADER
<1>3. /\ a \in Nat /\ a >= heap_start /\ a % 16 = 0 /\ End(segs, a) <= heap_end
      /\ segs[a] \in Segment
  BY <1>1, <1>2, HeapFacts
<1>4. heap_start \in Nat /\ heap_end \in Nat
  BY HeapAssumption DEF IInv, TypeInv
<1>. QED
  BY <1>1, <1>2, <1>3, <1>4 DEF PtrOk, End, HEADER, Segment

LEMMA StartWalkInv ==
  ASSUME IInv, Ready, heap_start # NULL,
         NEW o \in {"kmalloc", "kfree"}, NEW x \in 0..WordMax, NEW n \in 0..WordMax,
         StartWalk(o, x, n),
         o = "kmalloc" => /\ x \in 1..(HEAP_LEN_MASK - 15)
                          /\ n = (x + 15) - ((x + 15) % 16)
  PROVE  IInv'
<1> USE DEF StartWalk
<1>1. heap_start \in DOMAIN segs /\ \A a \in DOMAIN segs : a >= heap_start /\ a \in Nat
  BY HeapFacts
<1>2. TypeInv'
  BY <1>1 DEF IInv, TypeInv, Ops
<1>3. HeapWellFormed' /\ Coalesced' /\ BlocksIntact'
  BY DEF IInv, HeapWellFormed, Limit, Coalesced, BlocksIntact
<1>4. PanicsJustified' /\ Uninitialized' /\ ArenaOk' /\ RequestOk'
  BY DEF IInv, Ready, PanicsJustified, Uninitialized, ArenaOk, Limit, RequestOk
<1>5. WalkSound'
  BY <1>1 DEF IInv, TypeInv, WalkSound, Passed
<1>. QED
  BY <1>2, <1>3, <1>4, <1>5 DEF IInv

LEMMA KmallocInv ==
  ASSUME IInv, NEW n \in Sizes, Kmalloc(n)
  PROVE  IInv'
<1>1. n \in 0..WordMax /\ panic = "no" /\ Ready /\ WordMax \in Nat
  BY HeapAssumption DEF Kmalloc, Ready
<1>2. /\ "kmalloc" \in Ops /\ "kmalloc" \in {"kmalloc", "kfree"}
      /\ \A w \in {"uninitialized", "bad size"} :
           /\ w \in Panics \ {"no", "corrupt"} /\ w # "exhausted"
           /\ w \notin {"bad pointer", "double free"}
  BY DEF Ops, Panics, Misuse
<1>3. CASE heap_start = NULL
  <2>1. Reject("kmalloc", n, "uninitialized")
    BY <1>3 DEF Kmalloc
  <2>. QED
    BY <1>1, <1>2, <2>1, RejectInv
<1>4. CASE heap_start # NULL /\ ~SizeOk(n)
  <2>1. Reject("kmalloc", n, "bad size")
    BY <1>4 DEF Kmalloc
  <2>. QED
    BY <1>1, <1>2, <2>1, RejectInv
<1>5. CASE heap_start # NULL /\ SizeOk(n)
  <2>1. StartWalk("kmalloc", n, HEAP_ALIGN_UP(n))
    BY <1>5 DEF Kmalloc
  <2>2. n \in 1..(HEAP_LEN_MASK - 15)
    BY <1>1, <1>5, HeapAssumption DEF SizeOk, HEAP_LEN_MASK
  <2>3. HEAP_ALIGN_UP(n) = (n + 15) - ((n + 15) % 16)
    BY <1>1, <2>2, AlignUpFacts DEF HEAP_LEN_MASK
  <2>4. HEAP_ALIGN_UP(n) \in 0..WordMax
    BY <1>1, <2>2, <2>3 DEF HEAP_LEN_MASK
  <2>. QED
    BY <1>1, <1>2, <1>5, <2>1, <2>2, <2>3, <2>4, StartWalkInv
<1>. QED
  BY <1>3, <1>4, <1>5

LEMMA KfreeInv ==
  ASSUME IInv, NEW p \in Ptrs, Kfree(p)
  PROVE  IInv'
<1>1. p \in 0..WordMax /\ panic = "no" /\ Ready /\ WordMax \in Nat
  BY HeapAssumption DEF Kfree, Ready
<1>2. /\ "kfree" \in Ops /\ "kfree" \in {"kmalloc", "kfree"} /\ "kfree" # "kmalloc"
      /\ \A w \in {"uninitialized", "bad pointer"} :
           w \in Panics \ {"no", "corrupt"} /\ w # "exhausted"
      /\ "uninitialized" \notin {"bad pointer", "double free"}
  BY DEF Ops, Panics, Misuse
<1>3. CASE heap_start = NULL
  <2>1. Reject("kfree", p, "uninitialized")
    BY <1>3 DEF Kfree
  <2>. QED
    BY <1>1, <1>2, <2>1, RejectInv
<1>4. CASE heap_start # NULL /\ ~PtrOk(p)
  <2>1. Reject("kfree", p, "bad pointer")
    BY <1>4 DEF Kfree
  <2>2. p \notin DOMAIN owned
    BY <1>4, OwnedInArena
  <2>. QED
    BY <1>1, <1>2, <2>1, <2>2, RejectInv
<1>5. CASE heap_start # NULL /\ PtrOk(p)
  <2>1. StartWalk("kfree", p, 0)
    BY <1>5 DEF Kfree
  <2>2. 0 \in 0..WordMax
    BY <1>1
  <2>. QED
    BY <1>1, <1>2, <1>5, <2>1, <2>2, StartWalkInv
<1>. QED
  BY <1>3, <1>4, <1>5


LEMMA WalkingFacts ==
  ASSUME IInv, NEW o \in {"kmalloc", "kfree"}, Walking(o)
  PROVE  heap_start # NULL /\ cur \in DOMAIN segs /\ cur # NULL /\ panic = "no" /\ op = o
BY DEF Walking, IInv, TypeInv, Uninitialized

LEMMA SkipInv ==
  ASSUME IInv, KmallocSkip \/ KfreeSkip
  PROVE  IInv'
<1>1. /\ heap_start # NULL /\ cur \in DOMAIN segs /\ cur # NULL /\ panic = "no" /\ StepWalk
      /\ op \in {"kmalloc", "kfree"}
      /\ op = "kmalloc" => ~Fits(cur, need)
      /\ op = "kfree" => req # Payload(cur)
  BY WalkingFacts DEF KmallocSkip, KfreeSkip, Walking
<1>2. /\ IsHeap(segs) /\ heap_start \in Nat \ {0} /\ Limit \in Nat
      /\ WellFormed(segs, heap_start, Limit)
      /\ \A a \in DOMAIN segs : a \in Nat
  BY <1>1, HeapFacts
<1> USE DEF StepWalk
<1>3. cur' \in DOMAIN segs \cup {NULL}
  BY <1>1, <1>2 DEF WellFormed, Linked
<1>4. TypeInv'
  BY <1>1, <1>3 DEF IInv, TypeInv
<1>5. HeapWellFormed' /\ Coalesced' /\ BlocksIntact'
  BY <1>1 DEF IInv, HeapWellFormed, Limit, Coalesced, BlocksIntact
<1>6. PanicsJustified' /\ Uninitialized' /\ ArenaOk' /\ RequestOk'
  BY <1>1 DEF IInv, PanicsJustified, Uninitialized, ArenaOk, Limit, RequestOk
<1>7. ASSUME NEW a \in DOMAIN segs, Passed(a)'
      PROVE  Passed(a) \/ a = cur
  <2>1. segs[cur].next = NULL \/ a < segs[cur].next
    BY <1>1, <1>7 DEF Passed
  <2>2. a <= cur
    BY <1>1, <1>2, <2>1, NextIsNearest
  <2>. QED
    BY <1>1, <1>2, <2>2 DEF Passed
<1>8. WalkSound'
  BY <1>1, <1>7 DEF IInv, WalkSound, Fits
<1>. QED
  BY <1>4, <1>5, <1>6, <1>8 DEF IInv

LEMMA KmallocTakeInv ==
  ASSUME IInv, KmallocTake
  PROVE  IInv'
<1> DEFINE g == MarkTaken(Split(segs, cur, need), cur)
<1>1. /\ heap_start # NULL /\ cur \in DOMAIN segs /\ cur # NULL /\ panic = "no"
      /\ op = "kmalloc" /\ segs[cur].free /\ segs[cur].len >= need
  BY WalkingFacts DEF KmallocTake, Fits
<1>2. /\ IsHeap(segs) /\ heap_start \in Nat \ {0} /\ Limit \in Nat
      /\ WellFormed(segs, heap_start, Limit) /\ NoFreePair(segs)
      /\ \A a \in DOMAIN segs : a \in Nat
  BY <1>1, HeapFacts
<1>3. req \in Nat /\ req >= 1 /\ need = (req + 15) - ((req + 15) % 16)
  BY <1>1, HeapAssumption DEF IInv, RequestOk, HEAP_LEN_MASK
<1>4. need \in Nat /\ need % 16 = 0 /\ need >= 16 /\ need >= req
  BY <1>3
<1>5. /\ IsHeap(g) /\ WellFormed(g, heap_start, Limit) /\ NoFreePair(g)
      /\ cur \in DOMAIN g /\ ~g[cur].free /\ g[cur].len >= need
      /\ \A x \in DOMAIN segs \ {cur} :
           x \in DOMAIN g /\ g[x].len = segs[x].len /\ g[x].free = segs[x].free
      /\ \A x \in DOMAIN g \ {cur} : ~g[x].free => x \in DOMAIN segs /\ ~segs[x].free
  BY <1>1, <1>2, <1>4, TakeCorrect
<1> HIDE DEF g
<1>6. LengthsAligned(g)
  BY <1>5 DEF LengthsAligned, WellFormed, Linked
<1>7. /\ segs' = g
      /\ owned' = [p \in DOMAIN owned \cup {Payload(cur)} |->
                     IF p = Payload(cur) THEN req ELSE owned[p]]
      /\ op' = "idle" /\ req' = 0 /\ need' = 0 /\ cur' = NULL
      /\ UNCHANGED <<heap_start, heap_end, panic>>
  BY <1>6 DEF KmallocTake, Return, g
<1>8. Limit' = Limit
  BY <1>7 DEF Limit
<1>9. Payload(cur) \in Nat /\ Payload(cur) - HEADER = cur
  BY <1>1, <1>2 DEF Payload, HEADER
<1>10. TypeInv'
  <2>1. DOMAIN owned' \subseteq Nat /\ owned' \in [DOMAIN owned' -> 0..WordMax]
    BY <1>7, <1>9 DEF IInv, TypeInv
  <2>2. 0 \in 0..WordMax
    BY HeapAssumption
  <2>. QED
    BY <1>5, <1>7, <2>1, <2>2 DEF IInv, TypeInv, IsHeap, Ops
<1>11. HeapWellFormed' /\ Coalesced'
  BY <1>5, <1>7, <1>8 DEF HeapWellFormed, Coalesced
<1>12. BlocksIntact'
  <2>1. ASSUME NEW p \in DOMAIN owned'
        PROVE  /\ p - HEADER \in DOMAIN g /\ ~g[p - HEADER].free
               /\ g[p - HEADER].len >= owned'[p]
    <3>1. CASE p = Payload(cur)
      <4>1. g[cur].len \in Nat
        BY <1>5 DEF IsHeap, Segment
      <4>. QED
        BY <1>3, <1>4, <1>5, <1>7, <1>9, <3>1, <4>1
    <3>2. CASE p # Payload(cur)
      <4>1. p \in DOMAIN owned /\ owned'[p] = owned[p]
        BY <1>7, <2>1, <3>2
      <4>2. /\ p - HEADER \in DOMAIN segs /\ ~segs[p - HEADER].free
            /\ segs[p - HEADER].len >= owned[p]
        BY <4>1 DEF IInv, BlocksIntact
      <4>3. p - HEADER # cur
        BY <1>1, <4>2
      <4>. QED
        BY <1>5, <4>1, <4>2, <4>3
    <3>. QED
      BY <3>1, <3>2
  <2>2. ASSUME NEW a \in DOMAIN g, ~g[a].free
        PROVE  Payload(a) \in DOMAIN owned'
    BY <1>5, <1>7, <2>2 DEF IInv, BlocksIntact
  <2>3. \A a : Payload(a)' = Payload(a)
    BY DEF Payload, HEADER
  <2>4. HEADER' = HEADER
    BY DEF HEADER
  <2>. QED
    BY <1>7, <2>1, <2>2, <2>3, <2>4 DEF BlocksIntact, Payload, HEADER
<1>13. PanicsJustified' /\ WalkSound' /\ Uninitialized' /\ ArenaOk' /\ RequestOk'
  BY <1>1, <1>7, <1>8
  DEF IInv, PanicsJustified, WalkSound, Uninitialized, ArenaOk, RequestOk
<1>. QED
  BY <1>10, <1>11, <1>12, <1>13 DEF IInv

LEMMA KmallocExhaustedInv ==
  ASSUME IInv, KmallocExhausted
  PROVE  IInv'
<1>1. /\ panic = "no" /\ op = "kmalloc" /\ cur = NULL /\ heap_start # NULL
      /\ Reject("kmalloc", req, "exhausted")
  BY DEF KmallocExhausted, IInv, Uninitialized
<1>2. /\ IsHeap(segs) /\ heap_start \in Nat \ {0} /\ Limit \in Nat
      /\ WellFormed(segs, heap_start, Limit) /\ NoFreePair(segs)
      /\ \A a \in DOMAIN segs : a \in Nat /\ segs[a] \in Segment
  BY <1>1, HeapFacts
<1>3. \A a \in DOMAIN segs : ~Fits(a, need)
  BY <1>1 DEF IInv, WalkSound, Passed
<1>4. need \in Nat /\ need >= 16
  <2>1. req \in Nat /\ req >= 1 /\ need = (req + 15) - ((req + 15) % 16)
    BY <1>1, HeapAssumption DEF IInv, RequestOk, HEAP_LEN_MASK
  <2>. QED
    BY <2>1
<1>5. ASSUME NEW p \in heap_start..Limit, Room(p, need)
      PROVE  FALSE
  <2>1. /\ p \in Nat /\ p - HEADER >= heap_start /\ p + need <= Limit
        /\ \A a \in DOMAIN segs :
             ~segs[a].free => p + need <= a \/ End(segs, a) <= p - HEADER
    BY <1>2, <1>5 DEF Room
  <2>2. PICK a \in DOMAIN segs : a <= p - HEADER /\ p - HEADER < End(segs, a)
    <3>1. p - HEADER \in heap_start..(Limit - 1)
      BY <1>2, <1>4, <2>1 DEF HEADER
    <3>. QED
      BY <1>2, <3>1 DEF WellFormed, Covers
  <2>3. /\ a \in Nat /\ segs[a].len \in Nat /\ End(segs, a) \in Nat
        /\ End(segs, a) = a + HEADER + segs[a].len
    BY <1>2 DEF End, HEADER, Segment
  <2>4. segs[a].free
    BY <1>2, <1>4, <2>1, <2>2, <2>3 DEF HEADER
  <2>5. segs[a].len < need
    BY <1>2, <1>3, <1>4, <2>3, <2>4 DEF Fits
  <2>6. End(segs, a) < p + need
    BY <1>4, <2>1, <2>2, <2>3, <2>5 DEF HEADER
  <2>7. End(segs, a) # Limit
    BY <1>2, <1>4, <2>1, <2>3, <2>6
  <2> DEFINE b == segs[a].next
  <2>8. b = End(segs, a) /\ b # NULL /\ b \in DOMAIN segs
    <3>1. b = End(segs, a)
      BY <1>2, <2>7 DEF WellFormed, Linked
    <3>2. b # NULL
      BY <2>3, <3>1 DEF HEADER, NULL
    <3>. QED
      BY <1>2, <3>1, <3>2 DEF WellFormed, Linked
  <2>9. ~segs[b].free
    BY <1>2, <2>4, <2>8 DEF NoFreePair
  <2>10. b < End(segs, b) /\ End(segs, b) \in Nat
    BY <1>2, <2>8 DEF End, HEADER, Segment
  <2>11. p + need <= b \/ End(segs, b) <= p - HEADER
    BY <2>1, <2>8, <2>9
  <2>. QED
    BY <1>4, <2>1, <2>2, <2>3, <2>6, <2>8, <2>10, <2>11 DEF HEADER
<1>6. /\ "kmalloc" \in Ops /\ "exhausted" \in Panics \ {"no", "corrupt"}
      /\ "exhausted" \notin {"bad pointer", "double free"}
  BY DEF Ops, Panics, Misuse
<1>7. req \in 0..WordMax
  BY DEF IInv, TypeInv
<1>. QED
  BY <1>1, <1>5, <1>6, <1>7, RejectInv


LEMMA KfreeFoundInv ==
  ASSUME IInv, KfreeFound
  PROVE  IInv'
<1> DEFINE g == MergePrev(MergeNext(MarkFree(segs, cur), cur), cur)
<1>1. /\ heap_start # NULL /\ cur \in DOMAIN segs /\ panic = "no"
      /\ op = "kfree" /\ req = Payload(cur)
  BY WalkingFacts DEF KfreeFound
<1>2. /\ IsHeap(segs) /\ heap_start \in Nat \ {0} /\ Limit \in Nat
      /\ WellFormed(segs, heap_start, Limit) /\ NoFreePair(segs)
      /\ \A a \in DOMAIN segs : a \in Nat
  BY <1>1, HeapFacts
<1>3. cur \in Nat /\ req - HEADER = cur /\ req \in 0..WordMax
  BY <1>1, <1>2 DEF Payload, HEADER, IInv, TypeInv
<1>4. CASE segs[cur].free
  <2>1. Reject("kfree", req, "double free")
    BY <1>4 DEF KfreeFound, IsFree
  <2>2. req \notin DOMAIN owned
    BY <1>3, <1>4 DEF IInv, BlocksIntact
  <2>3. /\ "kfree" \in Ops /\ "double free" \in Panics \ {"no", "corrupt"}
        /\ "double free" # "exhausted"
    BY DEF Ops, Panics, Misuse
  <2>. QED
    BY <1>1, <1>3, <2>1, <2>2, <2>3, RejectInv
<1>5. CASE ~segs[cur].free
  <2>1. /\ IsHeap(g) /\ WellFormed(g, heap_start, Limit) /\ NoFreePair(g)
        /\ DOMAIN g \subseteq DOMAIN segs
        /\ \A x \in DOMAIN g : ~g[x].free => x # cur /\ ~segs[x].free
        /\ \A x \in DOMAIN segs :
             x # cur /\ ~segs[x].free
               => x \in DOMAIN g /\ ~g[x].free /\ g[x].len = segs[x].len
    BY <1>1, <1>2, <1>5, FreeCorrect
  <2> HIDE DEF g
  <2>2. LengthsAligned(g) /\ ~SelfLinked(segs, cur)
    BY <1>1, <1>2, <2>1, NotSelfLinked DEF LengthsAligned, WellFormed, Linked
  <2>3. /\ segs' = g
        /\ owned' = [p \in DOMAIN owned \ {req} |-> owned[p]]
        /\ op' = "idle" /\ req' = 0 /\ need' = 0 /\ cur' = NULL
        /\ UNCHANGED <<heap_start, heap_end, panic>>
    BY <1>5, <2>2 DEF KfreeFound, IsFree, Return, g
  <2>4. Limit' = Limit
    BY <2>3 DEF Limit
  <2>5. TypeInv'
    <3>1. DOMAIN owned' \subseteq Nat /\ owned' \in [DOMAIN owned' -> 0..WordMax]
      BY <2>3 DEF IInv, TypeInv
    <3>2. 0 \in 0..WordMax
      BY HeapAssumption
    <3>. QED
      BY <2>1, <2>3, <3>1, <3>2 DEF IInv, TypeInv, IsHeap, Ops
  <2>6. HeapWellFormed' /\ Coalesced'
    BY <2>1, <2>3, <2>4 DEF HeapWellFormed, Coalesced
  <2>7. BlocksIntact'
    <3>1. ASSUME NEW p \in DOMAIN owned'
          PROVE  /\ p - HEADER \in DOMAIN g /\ ~g[p - HEADER].free
                 /\ g[p - HEADER].len >= owned'[p]
      <4>1. p \in DOMAIN owned /\ p # req /\ owned'[p] = owned[p]
        BY <2>3, <3>1
      <4>2. /\ p - HEADER \in DOMAIN segs /\ ~segs[p - HEADER].free
            /\ segs[p - HEADER].len >= owned[p] /\ p \in Nat
        BY <4>1 DEF IInv, BlocksIntact, TypeInv
      <4>3. p - HEADER # cur
        BY <1>3, <4>1, <4>2 DEF HEADER
      <4>. QED
        BY <2>1, <4>1, <4>2, <4>3
    <3>2. ASSUME NEW a \in DOMAIN g, ~g[a].free
          PROVE  Payload(a) \in DOMAIN owned'
      <4>1. a # cur /\ a \in DOMAIN segs /\ ~segs[a].free /\ a \in Nat
        BY <1>2, <2>1, <3>2
      <4>2. Payload(a) \in DOMAIN owned
        BY <4>1 DEF IInv, BlocksIntact
      <4>3. Payload(a) # req
        BY <1>1, <1>3, <4>1 DEF Payload, HEADER
      <4>. QED
        BY <2>3, <4>2, <4>3
    <3>. QED
      BY <2>3, <3>1, <3>2 DEF BlocksIntact, Payload, HEADER
  <2>8. PanicsJustified' /\ WalkSound' /\ Uninitialized' /\ ArenaOk' /\ RequestOk'
    BY <1>1, <2>3, <2>4
    DEF IInv, PanicsJustified, WalkSound, Uninitialized, ArenaOk, RequestOk
  <2>. QED
    BY <2>5, <2>6, <2>7, <2>8 DEF IInv
<1>. QED
  BY <1>4, <1>5

LEMMA KfreeNotFoundInv ==
  ASSUME IInv, KfreeNotFound
  PROVE  IInv'
<1>1. /\ panic = "no" /\ op = "kfree" /\ cur = NULL /\ heap_start # NULL
      /\ Reject("kfree", req, "bad pointer")
  BY DEF KfreeNotFound, IInv, Uninitialized
<1>2. req \notin DOMAIN owned
  <2>1. SUFFICES ASSUME req \in DOMAIN owned PROVE FALSE
    OBVIOUS
  <2>2. req - HEADER \in DOMAIN segs /\ req \in Nat
    BY <2>1 DEF IInv, BlocksIntact, TypeInv
  <2>3. Payload(req - HEADER) = req
    BY <2>2 DEF Payload, HEADER
  <2>. QED
    BY <1>1, <2>2, <2>3 DEF IInv, WalkSound, Passed
<1>3. /\ "kfree" \in Ops /\ "bad pointer" \in Panics \ {"no", "corrupt"}
      /\ "bad pointer" # "exhausted"
  BY DEF Ops, Panics, Misuse
<1>4. req \in 0..WordMax
  BY DEF IInv, TypeInv
<1>. QED
  BY <1>1, <1>2, <1>3, <1>4, RejectInv

LEMMA StutterInv == IInv /\ UNCHANGED vars => IInv'
<1> SUFFICES ASSUME IInv, UNCHANGED vars PROVE IInv'
  OBVIOUS
<1> USE DEF vars, call
<1>1. TypeInv'
  BY DEF IInv, TypeInv
<1>2. HeapWellFormed' /\ Coalesced' /\ BlocksIntact'
  BY DEF IInv, HeapWellFormed, Limit, Coalesced, BlocksIntact
<1>3. PanicsJustified'
  BY DEF IInv, PanicsJustified, Room, Limit
<1>4. WalkSound' /\ Uninitialized' /\ ArenaOk' /\ RequestOk'
  BY DEF IInv, WalkSound, Passed, Fits, Uninitialized, ArenaOk, Limit, RequestOk
<1>. QED
  BY <1>1, <1>2, <1>3, <1>4 DEF IInv

LEMMA NextInv == IInv /\ [Next]_vars => IInv'
<1> SUFFICES ASSUME IInv, [Next]_vars PROVE IInv'
  OBVIOUS
<1>1. ASSUME NEW e \in Extents, HeapInit(e[1], e[2]) PROVE IInv'
  BY <1>1, HeapInitInv
<1>2. ASSUME NEW n \in Sizes, Kmalloc(n) PROVE IInv'
  BY <1>2, KmallocInv
<1>3. ASSUME NEW p \in Ptrs, Kfree(p) PROVE IInv'
  BY <1>3, KfreeInv
<1>4. ASSUME KmallocSkip \/ KfreeSkip PROVE IInv'
  BY <1>4, SkipInv
<1>5. ASSUME KmallocTake PROVE IInv'
  BY <1>5, KmallocTakeInv
<1>6. ASSUME KmallocExhausted PROVE IInv'
  BY <1>6, KmallocExhaustedInv
<1>7. ASSUME KfreeFound PROVE IInv'
  BY <1>7, KfreeFoundInv
<1>8. ASSUME KfreeNotFound PROVE IInv'
  BY <1>8, KfreeNotFoundInv
<1>9. ASSUME KfreeNull \/ Halted \/ UNCHANGED vars PROVE IInv'
  BY <1>9, StutterInv DEF KfreeNull, Halted
<1>. QED
  BY <1>1, <1>2, <1>3, <1>4, <1>5, <1>6, <1>7, <1>8, <1>9 DEF Next, Finish

LEMMA Inductive == Spec => []IInv
  BY InitInv, NextInv, PTL DEF Spec

-----------------------------------------------------------------------------
(* The theorems.                                                            *)

\* Every variable keeps its type, for every word size, arena and caller.
THEOREM TypeCorrect == Spec => []TypeInv
<1>1. IInv => TypeInv
  BY DEF IInv
<1>. QED
  BY <1>1, Inductive, PTL

\* The headers tile the arena and stay linked both ways.
THEOREM ListCorrect == Spec => []HeapWellFormed
<1>1. IInv => HeapWellFormed
  BY DEF IInv
<1>. QED
  BY <1>1, Inductive, PTL

\* kfree leaves no two free segments side by side.
THEOREM NoFreePairs == Spec => []Coalesced
<1>1. IInv => Coalesced
  BY DEF IInv
<1>. QED
  BY <1>1, Inductive, PTL

\* What kmalloc has handed out is not disturbed until it is freed, and nothing
\* else is taken.
THEOREM BlocksSafe == Spec => []BlocksIntact
<1>1. IInv => BlocksIntact
  BY DEF IInv
<1>. QED
  BY <1>1, Inductive, PTL

\* The heap stops the kernel only for want of room anywhere in the arena, or
\* for a pointer the caller does not own; its corruption assertions never fire.
THEOREM PanicsCorrect == Spec => []PanicsJustified
<1>1. IInv => PanicsJustified
  BY DEF IInv
<1>. QED
  BY <1>1, Inductive, PTL


-----------------------------------------------------------------------------
(* The heap implements BlockAllocator.  The mapping of Heap!Abs, by name.   *)

Hi == IF heap_start = NULL THEN 0 ELSE Limit
Blocks == [p \in DOMAIN owned |-> segs[p - HEADER].len]
Status == CASE panic = "no" -> "ok"
            [] panic \in Misuse -> "refused"
            [] OTHER -> panic

LEMMA StatusFacts ==
  /\ panic = "no" => Status = "ok"
  /\ panic \in Misuse => Status = "refused"
  /\ panic = "exhausted" => Status = "exhausted"
BY DEF Status, Misuse

LEMMA StatusFactsNext ==
  /\ panic' = "no" => Status' = "ok"
  /\ panic' \in Misuse => Status' = "refused"
  /\ panic' = "exhausted" => Status' = "exhausted"
BY DEF Status, Misuse

LEMMA AbsInit == Init => Abs!Init
<1> SUFFICES ASSUME Init PROVE Abs!Init
  OBVIOUS
<1>1. heap_start = 0 /\ Hi = 0
  BY DEF Init, Hi, NULL
<1>2. Blocks = [p \in {} |-> 0]
  BY DEF Init, Blocks
<1>3. Status = "ok"
  BY StatusFacts DEF Init
<1>. QED
  BY <1>1, <1>2, <1>3 DEF Init, Abs!Init, Hi, Blocks, Status

\* Nothing the abstract state is made of changes.
LEMMA AbsStutter ==
  ASSUME UNCHANGED <<heap_start, heap_end, segs, op, req, owned, panic>>
  PROVE  UNCHANGED Abs!vars
BY DEF Abs!vars, Limit, HEADER, NULL, MaskDown

LEMMA AbsRefuse ==
  ASSUME panic = "no", NEW o, NEW x, NEW why \in Misuse, Reject(o, x, why),
         op = "idle" \/ (op = "kfree" /\ o = op /\ x = req),
         \/ o = "heap_init"
         \/ heap_start = NULL
         \/ o = "kmalloc" /\ (x = 0 \/ x > HEAP_LEN_MASK - 15)
         \/ o = "kfree" /\ x \notin DOMAIN owned
  PROVE  Abs!Refuse
<1>1. Status = "ok" /\ Status' = "refused"
  BY StatusFacts, StatusFactsNext DEF Reject
<1>2. UNCHANGED <<heap_start, Hi, Blocks>> /\ op' = o /\ req' = x
  BY DEF Reject, Hi, Blocks, Limit, HEADER, NULL, MaskDown
<1>3. heap_start = NULL => heap_start = Hi
  BY DEF Hi, NULL
<1>4. DOMAIN Blocks = DOMAIN owned
  BY DEF Blocks
<1>. QED
  BY <1>1, <1>2, <1>3, <1>4 DEF Abs!Refuse, Abs!WrongRequest, Hi, Blocks, Status


LEMMA AbsHeapInit ==
  ASSUME IInv, IInv', NEW e \in Extents, HeapInit(e[1], e[2])
  PROVE  Abs!Next
<1>1. panic = "no" /\ op = "idle" /\ heap_start = NULL
  BY DEF HeapInit, Ready
<1>2. CASE ~ExtentOk(e[1], e[2])
  <2>1. Reject("heap_init", 0, "bad extent") /\ "bad extent" \in Misuse
    BY <1>2 DEF HeapInit, Misuse
  <2>. QED
    BY <1>1, <2>1, AbsRefuse DEF Abs!Next
<1>3. CASE ExtentOk(e[1], e[2])
  <2>1. /\ heap_start' = HEAP_ALIGN_UP(e[1])
        /\ segs' = [a \in {HEAP_ALIGN_UP(e[1])} |->
                      [len |-> MaskDown(e[2] - (HEAP_ALIGN_UP(e[1]) - e[1]) - HEADER),
                       free |-> TRUE, next |-> NULL, prev |-> NULL]]
        /\ UNCHANGED <<op, req, owned, panic>>
    BY <1>3 DEF HeapInit, call
  <2>2. heap_start' # NULL
    <3>1. heap_start' \in DOMAIN segs'
      BY <2>1
    <3>. QED
      BY <3>1 DEF IInv, Uninitialized
  <2>3. /\ heap_start' \in Nat /\ heap_start' % 16 = 0
        /\ Limit' \in Nat /\ Limit' >= heap_start' + 32
    <3>1. Limit' \in Nat /\ heap_start' + 32 <= Limit' /\ heap_start' \in Nat
      BY <2>2 DEF IInv, ArenaOk, TypeInv, NULL
    <3>2. heap_start' % 16 = 0
      BY <2>2 DEF IInv, HeapWellFormed, WellFormed, Linked, NULL
    <3>. QED
      BY <3>1, <3>2
  <2>4. Hi = 0 /\ Hi' = Limit' /\ heap_start = 0
    BY <1>1, <2>2 DEF Hi, NULL
  <2>5. DOMAIN owned = {} /\ owned' = owned
    BY <1>1, <2>1 DEF IInv, Uninitialized
  <2>6. Blocks' = Blocks
    BY <2>5 DEF Blocks
  <2>7. Status = "ok" /\ Status' = Status
    BY <1>1, <2>1, StatusFacts, StatusFactsNext
  <2>8. Abs!Open
    BY <1>1, <2>1, <2>3, <2>4, <2>6, <2>7 DEF Abs!Open, Abs!Overhead, Hi, Blocks, Status
  <2>. QED
    BY <2>8 DEF Abs!Next
<1>. QED
  BY <1>2, <1>3

\* The entry of a walk is the start of an abstract call.
LEMMA AbsBegin ==
  ASSUME IInv, Ready, heap_start # NULL, NEW o \in {"kmalloc", "kfree"},
         NEW x \in Nat, NEW n, StartWalk(o, x, n),
         o = "kmalloc" => x \in 1..(HEAP_LEN_MASK - 15)
  PROVE  Abs!Begin
<1>1. panic = "no" /\ op = "idle"
  BY DEF Ready
<1>2. Status = "ok" /\ Status' = Status
  BY <1>1, StatusFacts, StatusFactsNext DEF StartWalk
<1>3. UNCHANGED <<heap_start, Hi, Blocks>> /\ op' = o /\ req' = x
  BY DEF StartWalk, Hi, Blocks, Limit, HEADER, NULL, MaskDown
<1>4. heap_start # Hi
  BY HeapAssumption DEF Hi, IInv, ArenaOk, TypeInv
<1>. QED
  BY <1>1, <1>2, <1>3, <1>4 DEF Abs!Begin, Hi, Blocks, Status

LEMMA AbsKmalloc ==
  ASSUME IInv, NEW n \in Sizes, Kmalloc(n)
  PROVE  Abs!Next
<1>1. n \in Nat /\ Ready /\ panic = "no" /\ op = "idle"
  <2>1. n \in 0..WordMax
    BY HeapAssumption
  <2>. QED
    <3>1. n \in Nat
      BY <2>1, HeapAssumption
    <3>2. Ready
      BY DEF Kmalloc
    <3>. QED
      BY <3>1, <3>2 DEF Ready
<1>2. {"uninitialized", "bad size"} \subseteq Misuse
  BY DEF Misuse
<1>3. CASE heap_start = NULL
  <2>1. Reject("kmalloc", n, "uninitialized")
    BY <1>3 DEF Kmalloc
  <2>. QED
    BY <1>1, <1>2, <1>3, <2>1, AbsRefuse DEF Abs!Next
<1>4. CASE heap_start # NULL /\ ~SizeOk(n)
  <2>1. Reject("kmalloc", n, "bad size")
    BY <1>4 DEF Kmalloc
  <2>2. n = 0 \/ n > HEAP_LEN_MASK - 15
    BY <1>1, <1>4, HeapAssumption DEF SizeOk, HEAP_LEN_MASK
  <2>. QED
    BY <1>1, <1>2, <2>1, <2>2, AbsRefuse DEF Abs!Next
<1>5. CASE heap_start # NULL /\ SizeOk(n)
  <2>1. StartWalk("kmalloc", n, HEAP_ALIGN_UP(n))
    BY <1>5 DEF Kmalloc
  <2>2. n \in 1..(HEAP_LEN_MASK - 15)
    BY <1>1, <1>5, HeapAssumption DEF SizeOk, HEAP_LEN_MASK
  <2>. QED
    BY <1>1, <1>5, <2>1, <2>2, AbsBegin DEF Abs!Next
<1>. QED
  BY <1>3, <1>4, <1>5

LEMMA AbsKfree ==
  ASSUME IInv, NEW p \in Ptrs, Kfree(p)
  PROVE  Abs!Next
<1>1. p \in Nat /\ Ready /\ panic = "no" /\ op = "idle"
  <2>1. p \in 0..WordMax
    BY HeapAssumption
  <2>. QED
    <3>1. p \in Nat
      BY <2>1, HeapAssumption
    <3>2. Ready
      BY DEF Kfree
    <3>. QED
      BY <3>1, <3>2 DEF Ready
<1>2. {"uninitialized", "bad pointer"} \subseteq Misuse
  BY DEF Misuse
<1>3. CASE heap_start = NULL
  <2>1. Reject("kfree", p, "uninitialized")
    BY <1>3 DEF Kfree
  <2>. QED
    BY <1>1, <1>2, <1>3, <2>1, AbsRefuse DEF Abs!Next
<1>4. CASE heap_start # NULL /\ ~PtrOk(p)
  <2>1. Reject("kfree", p, "bad pointer")
    BY <1>4 DEF Kfree
  <2>2. p \notin DOMAIN owned
    BY <1>4, OwnedInArena
  <2>. QED
    BY <1>1, <1>2, <2>1, <2>2, AbsRefuse DEF Abs!Next
<1>5. CASE heap_start # NULL /\ PtrOk(p)
  <2>1. StartWalk("kfree", p, 0)
    BY <1>5 DEF Kfree
  <2>. QED
    BY <1>1, <1>5, <2>1, AbsBegin DEF Abs!Next
<1>. QED
  BY <1>3, <1>4, <1>5

LEMMA AbsExhaust ==
  ASSUME IInv, IInv', KmallocExhausted
  PROVE  Abs!Exhaust
<1>1. /\ panic = "no" /\ op = "kmalloc" /\ panic' = "exhausted"
      /\ UNCHANGED <<heap_start, heap_end, segs, owned, need, op, req>>
  BY DEF KmallocExhausted, Reject
<1>2. Status = "ok" /\ Status' = "exhausted"
  BY <1>1, StatusFacts, StatusFactsNext
<1>3. UNCHANGED <<heap_start, Hi, Blocks, op, req>>
  BY <1>1 DEF Hi, Blocks, Limit, HEADER, NULL, MaskDown
<1>4. heap_start # NULL /\ Hi = Limit
  BY <1>1 DEF IInv, Uninitialized, Hi
<1>5. need = Abs!Rounded(req)
  BY <1>1 DEF IInv, RequestOk, Abs!Rounded
<1>6. \A p \in heap_start..Limit : ~Room(p, need)
  BY <1>1 DEF IInv, PanicsJustified, Room, Limit, HEADER, MaskDown, End
<1>7. ASSUME NEW p \in heap_start..Hi, Abs!Room(p, need)
      PROVE  FALSE
  <2>1. \A q \in DOMAIN owned :
          p + need <= q - HEADER \/ q + segs[q - HEADER].len <= p - HEADER
    BY <1>7 DEF Abs!Room, Abs!Overhead, HEADER
  <2>2. p % 16 = 0 /\ p - HEADER >= heap_start /\ p + need <= Limit
    BY <1>4, <1>7 DEF Abs!Room, Abs!Overhead, HEADER, Hi
  <2>3. ASSUME NEW a \in DOMAIN segs, ~segs[a].free
        PROVE  p + need <= a \/ End(segs, a) <= p - HEADER
    <3>1. Payload(a) \in DOMAIN owned
      BY <2>3 DEF IInv, BlocksIntact
    <3>2. a \in Nat /\ Payload(a) - HEADER = a
      BY <1>4, HeapFacts DEF Payload, HEADER
    <3>. QED
      BY <2>1, <3>1, <3>2 DEF Payload, End
  <2>. QED
    BY <1>4, <1>6, <1>7, <2>2, <2>3 DEF Room
<1>. QED
  BY <1>1, <1>2, <1>3, <1>5, <1>7 DEF Abs!Exhaust, Hi, Blocks, Status


LEMMA AbsAlloc ==
  ASSUME IInv, KmallocTake
  PROVE  Abs!Alloc
<1> DEFINE g == MarkTaken(Split(segs, cur, need), cur)
           p == Payload(cur)
           cap == g[cur].len
<1>1. /\ heap_start # NULL /\ cur \in DOMAIN segs /\ cur # NULL /\ panic = "no"
      /\ op = "kmalloc" /\ segs[cur].free /\ segs[cur].len >= need
  BY WalkingFacts DEF KmallocTake, Fits
<1>2. /\ IsHeap(segs) /\ heap_start \in Nat \ {0} /\ Limit \in Nat
      /\ WellFormed(segs, heap_start, Limit) /\ NoFreePair(segs)
      /\ \A a \in DOMAIN segs : a \in Nat
  BY <1>1, HeapFacts
<1>3. req \in Nat /\ req >= 1 /\ need = (req + 15) - ((req + 15) % 16)
  BY <1>1, HeapAssumption DEF IInv, RequestOk, HEAP_LEN_MASK
<1>4. need \in Nat /\ need % 16 = 0 /\ need >= 16 /\ need = Abs!Rounded(req)
  BY <1>3 DEF Abs!Rounded
<1>5. /\ IsHeap(g) /\ WellFormed(g, heap_start, Limit) /\ cur \in DOMAIN g
      /\ g[cur].len >= need /\ g[cur].len < need + HEADER + HEAP_MIN_SPLIT_SIZE
      /\ \A x \in DOMAIN segs \ {cur} :
           x \in DOMAIN g /\ g[x].len = segs[x].len /\ g[x].free = segs[x].free
  BY <1>1, <1>2, <1>4, TakeCorrect
<1> HIDE DEF g
<1>6. LengthsAligned(g)
  BY <1>5 DEF LengthsAligned, WellFormed, Linked
<1>7. /\ segs' = g /\ op' = "idle" /\ req' = 0
      /\ owned' = [q \in DOMAIN owned \cup {p} |-> IF q = p THEN req ELSE owned[q]]
      /\ UNCHANGED <<heap_start, heap_end, panic>>
  BY <1>6 DEF KmallocTake, Return, g
<1>8. /\ cur \in Nat /\ p \in Nat /\ p - HEADER = cur /\ p = cur + HEADER
      /\ cap \in Nat /\ End(g, cur) = p + cap
  BY <1>1, <1>2, <1>5 DEF Payload, HEADER, IsHeap, Segment, End
<1>9. cap \in need..(need + 32)
  <2>1. cap % 16 = 0
    BY <1>5 DEF WellFormed, Linked
  <2>2. cap >= need /\ cap < need + 48
    BY <1>4, <1>5, <1>8 DEF HEADER, HEAP_MIN_SPLIT_SIZE
  <2>. QED
    BY <1>4, <1>8, <2>1, <2>2
<1>10. p % 16 = 0 /\ p - HEADER >= heap_start /\ p + cap <= Limit
  <2>1. cur % 16 = 0 /\ cur >= heap_start /\ End(g, cur) <= Limit
    BY <1>5 DEF WellFormed, Linked
  <2>. QED
    BY <1>8, <2>1 DEF HEADER
<1>11. ASSUME NEW q \in DOMAIN owned
       PROVE  /\ q # p /\ q - HEADER \in DOMAIN g
              /\ g[q - HEADER].len = segs[q - HEADER].len
              /\ p + cap <= q - HEADER \/ q + segs[q - HEADER].len <= p - HEADER
  <2> DEFINE a == q - HEADER
  <2>1. a \in DOMAIN segs /\ ~segs[a].free /\ q \in Nat /\ a \in Nat
    BY <1>2 DEF IInv, BlocksIntact, TypeInv
  <2>2. a # cur /\ a \in DOMAIN g /\ g[a].len = segs[a].len /\ q # p
    BY <1>1, <1>5, <1>8, <2>1
  <2>3. End(g, a) = q + segs[a].len
    BY <2>1, <2>2 DEF End, HEADER
  <2>4. End(g, cur) <= a \/ End(g, a) <= cur
    BY <1>5, <1>8, <2>1, <2>2 DEF WellFormed, Disjoint
  <2>. QED
    BY <1>8, <2>2, <2>3, <2>4
<1>12. Hi = Limit /\ UNCHANGED <<heap_start, Hi>>
  BY <1>1, <1>7 DEF Hi, Limit, HEADER, NULL, MaskDown
<1>13. Status = "ok" /\ Status' = Status
  BY <1>1, <1>7, StatusFacts, StatusFactsNext
<1>14. Blocks' = [q \in DOMAIN Blocks \cup {p} |-> IF q = p THEN cap ELSE Blocks[q]]
  <2>1. Blocks' = [q \in DOMAIN owned \cup {p} |-> g[q - HEADER].len]
    BY <1>7 DEF Blocks, HEADER
  <2>2. \A q \in DOMAIN owned \cup {p} :
          g[q - HEADER].len = IF q = p THEN cap ELSE segs[q - HEADER].len
    BY <1>8, <1>11
  <2>3. Blocks = [q \in DOMAIN owned |-> segs[q - HEADER].len]
    BY DEF Blocks
  <2>. QED
    BY <1>11, <2>1, <2>2, <2>3
<1>15. Abs!Room(p, cap)
  BY <1>10, <1>11, <1>12 DEF Abs!Room, Abs!Overhead, HEADER, Hi
<1>16. p \in heap_start..Limit
  BY <1>2, <1>8, <1>10 DEF HEADER
<1>17. \E r \in heap_start..Hi, c \in Abs!Rounded(req)..(Abs!Rounded(req) + Abs!MaxSlack) :
         /\ Abs!Room(r, c)
         /\ Blocks' = [q \in DOMAIN Blocks \cup {r} |-> IF q = r THEN c ELSE Blocks[q]]
  <2>1. cap \in Abs!Rounded(req)..(Abs!Rounded(req) + Abs!MaxSlack)
    BY <1>4, <1>9 DEF Abs!MaxSlack
  <2> HIDE DEF p, cap
  <2>. QED
    BY <1>12, <1>14, <1>15, <1>16, <2>1
<1>. QED
  BY <1>1, <1>7, <1>12, <1>13, <1>17 DEF Abs!Alloc, Hi, Blocks, Status

LEMMA AbsKfreeFound ==
  ASSUME IInv, KfreeFound
  PROVE  Abs!Next
<1> DEFINE g == MergePrev(MergeNext(MarkFree(segs, cur), cur), cur)
<1>1. /\ heap_start # NULL /\ cur \in DOMAIN segs /\ panic = "no"
      /\ op = "kfree" /\ req = Payload(cur)
  BY WalkingFacts DEF KfreeFound
<1>2. /\ IsHeap(segs) /\ heap_start \in Nat \ {0} /\ Limit \in Nat
      /\ WellFormed(segs, heap_start, Limit) /\ NoFreePair(segs)
      /\ \A a \in DOMAIN segs : a \in Nat
  BY <1>1, HeapFacts
<1>3. cur \in Nat /\ req - HEADER = cur
  BY <1>1, <1>2 DEF Payload, HEADER
<1>4. CASE segs[cur].free
  <2>1. Reject("kfree", req, "double free") /\ "double free" \in Misuse
    BY <1>4 DEF KfreeFound, IsFree, Misuse
  <2>2. req \notin DOMAIN owned
    BY <1>3, <1>4 DEF IInv, BlocksIntact
  <2>. QED
    BY <1>1, <2>1, <2>2, AbsRefuse DEF Abs!Next
<1>5. CASE ~segs[cur].free
  <2>1. /\ IsHeap(g) /\ WellFormed(g, heap_start, Limit)
        /\ \A x \in DOMAIN segs :
             x # cur /\ ~segs[x].free
               => x \in DOMAIN g /\ ~g[x].free /\ g[x].len = segs[x].len
    BY <1>1, <1>2, <1>5, FreeCorrect
  <2> HIDE DEF g
  <2>2. LengthsAligned(g) /\ ~SelfLinked(segs, cur)
    BY <1>1, <1>2, <2>1, NotSelfLinked DEF LengthsAligned, WellFormed, Linked
  <2>3. /\ segs' = g /\ op' = "idle" /\ req' = 0
        /\ owned' = [p \in DOMAIN owned \ {req} |-> owned[p]]
        /\ UNCHANGED <<heap_start, heap_end, panic>>
    BY <1>5, <2>2 DEF KfreeFound, IsFree, Return, g
  <2>4. req \in DOMAIN owned
    BY <1>1, <1>5 DEF IInv, BlocksIntact
  <2>5. \A q \in DOMAIN owned \ {req} : g[q - HEADER].len = segs[q - HEADER].len
    <3> SUFFICES ASSUME NEW q \in DOMAIN owned \ {req}
                 PROVE  g[q - HEADER].len = segs[q - HEADER].len
      OBVIOUS
    <3>1. q - HEADER \in DOMAIN segs /\ ~segs[q - HEADER].free /\ q \in Nat
      BY DEF IInv, BlocksIntact, TypeInv
    <3>2. q - HEADER # cur
      BY <1>1, <1>3, <3>1 DEF Payload, HEADER
    <3>. QED
      BY <2>1, <3>1, <3>2
  <2>6. Blocks' = [q \in DOMAIN Blocks \ {req} |-> Blocks[q]] /\ DOMAIN Blocks = DOMAIN owned
    <3>1. Blocks' = [q \in DOMAIN owned \ {req} |-> g[q - HEADER].len]
      BY <2>3 DEF Blocks, HEADER
    <3>2. Blocks = [q \in DOMAIN owned |-> segs[q - HEADER].len]
      BY DEF Blocks
    <3>. QED
      BY <2>5, <3>1, <3>2
  <2>7. Status = "ok" /\ Status' = Status
    BY <1>1, <2>3, StatusFacts, StatusFactsNext
  <2>8. UNCHANGED <<heap_start, Hi>>
    BY <2>3 DEF Hi, Limit, HEADER, NULL, MaskDown
  <2>9. Abs!Release
    BY <1>1, <2>3, <2>4, <2>6, <2>7, <2>8 DEF Abs!Release, Hi, Blocks, Status
  <2>. QED
    BY <2>9 DEF Abs!Next
<1>. QED
  BY <1>4, <1>5

LEMMA AbsKfreeNotFound ==
  ASSUME IInv, IInv', KfreeNotFound
  PROVE  Abs!Next
<1>1. /\ panic = "no" /\ op = "kfree" /\ Reject("kfree", req, "bad pointer")
      /\ "bad pointer" \in Misuse
  BY DEF KfreeNotFound, Misuse
<1>2. req \notin DOMAIN owned
  BY <1>1 DEF IInv, PanicsJustified, Reject
<1>. QED
  BY <1>1, <1>2, AbsRefuse DEF Abs!Next

LEMMA AbsStep == IInv /\ IInv' /\ [Next]_vars => [Abs!Next]_(Abs!vars)
<1> SUFFICES ASSUME IInv, IInv', [Next]_vars PROVE [Abs!Next]_(Abs!vars)
  OBVIOUS
<1>1. ASSUME NEW e \in Extents, HeapInit(e[1], e[2]) PROVE Abs!Next
  BY <1>1, AbsHeapInit
<1>2. ASSUME NEW n \in Sizes, Kmalloc(n) PROVE Abs!Next
  BY <1>2, AbsKmalloc
<1>3. ASSUME NEW p \in Ptrs, Kfree(p) PROVE Abs!Next
  BY <1>3, AbsKfree
<1>4. ASSUME KmallocSkip \/ KfreeSkip PROVE UNCHANGED Abs!vars
  <2>1. UNCHANGED <<heap_start, heap_end, segs, op, req, owned, panic>>
    BY <1>4 DEF KmallocSkip, KfreeSkip, StepWalk
  <2>. QED
    BY <2>1, AbsStutter
<1>5. ASSUME KmallocTake PROVE Abs!Next
  BY <1>5, AbsAlloc DEF Abs!Next
<1>6. ASSUME KmallocExhausted PROVE Abs!Next
  BY <1>6, AbsExhaust DEF Abs!Next
<1>7. ASSUME KfreeFound PROVE Abs!Next
  BY <1>7, AbsKfreeFound
<1>8. ASSUME KfreeNotFound PROVE Abs!Next
  BY <1>8, AbsKfreeNotFound
<1>9. ASSUME KfreeNull \/ Halted \/ UNCHANGED vars PROVE UNCHANGED Abs!vars
  <2>1. UNCHANGED <<heap_start, heap_end, segs, op, req, owned, panic>>
    BY <1>9 DEF KfreeNull, Halted, vars, call
  <2>. QED
    BY <2>1, AbsStutter
<1>. QED
  BY <1>1, <1>2, <1>3, <1>4, <1>5, <1>6, <1>7, <1>8, <1>9 DEF Next, Finish

\* Every behaviour of the heap is a behaviour of the allocator its callers
\* rely on: kmalloc returns room nobody else has, fails only when there is
\* none, and only wrong requests are refused.
THEOREM Refinement == Spec => ImplementsBlockAllocator
  BY AbsInit, AbsStep, Inductive, PTL DEF Spec, ImplementsBlockAllocator, Abs!Spec

=============================================================================
