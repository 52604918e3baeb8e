----------------------------- MODULE PmmProofs -----------------------------
(***************************************************************************)
(* Proofs about the physical memory manager, for every page size, amount   *)
(* of memory, boot report and sequence of calls.                           *)
(***************************************************************************)
EXTENDS Pmm, TLAPS

-----------------------------------------------------------------------------
(* Division by the page size and by an alignment.                           *)

LEMMA DivFacts ==
  ASSUME NEW n \in Nat, NEW p \in Nat \ {0}
  PROVE  /\ n \div p \in Nat
         /\ p * (n \div p) <= n /\ n < p * (n \div p) + p
         /\ n % p \in Nat /\ n % p < p /\ n = p * (n \div p) + (n % p)
<1>1. n \div p \in Nat
  OBVIOUS
<1>2. p * (n \div p) <= n
  OBVIOUS
<1>3. n < p * (n \div p) + p
  OBVIOUS
<1>4. n % p \in Nat /\ n % p < p
  OBVIOUS
<1>5. n - p * (n \div p) = n % p
  BY SMT
<1>6. n = p * (n \div p) + (n % p)
  <2> DEFINE d == p * (n \div p)
             r == n % p
  <2>1. d \in Int
    BY <1>1
  <2>2. r \in Int
    BY <1>4
  <2>3. n - d = r
    BY <1>5
  <2> HIDE DEF d, r
  <2>4. n = d + r
    BY <2>1, <2>2, <2>3
  <2>. QED
    BY <2>4 DEF d, r
<1>. QED
  BY <1>1, <1>2, <1>3, <1>4, <1>6

LEMMA MulMono ==
  ASSUME NEW a \in Nat, NEW b \in Nat, NEW p \in Nat, a <= b
  PROVE  p * a <= p * b
OBVIOUS

LEMMA DivUnique ==
  ASSUME NEW q \in Nat, NEW r \in Nat, NEW p \in Nat \ {0}, r < p
  PROVE  (p * q + r) \div p = q /\ (p * q + r) % p = r
OBVIOUS

\* q multiples of p fit below n just when n \div p counts them.
LEMMA DivGalois ==
  ASSUME NEW n \in Nat, NEW q \in Nat, NEW p \in Nat \ {0}
  PROVE  q <= n \div p <=> p * q <= n
<1> DEFINE d == n \div p
<1>1. d \in Nat /\ p * d <= n /\ n < p * d + p
  BY DivFacts
<1> HIDE DEF d
<1>2. ASSUME q <= d PROVE p * q <= n
  <2>1. p * q <= p * d
    BY <1>1, <1>2, MulMono
  <2>. QED
    BY <1>1, <2>1
<1>3. ASSUME q > d PROVE n < p * q
  <2>1. p * (d + 1) <= p * q
    BY <1>1, <1>3, MulMono
  <2>2. p * (d + 1) = p * d + p
    BY <1>1
  <2>. QED
    BY <1>1, <2>1, <2>2
<1>4. q <= d <=> p * q <= n
  BY <1>1, <1>2, <1>3
<1>. QED
  BY <1>4 DEF d

\* The addresses between a misaligned one and the next aligned one are not
\* aligned either.
LEMMA NoneAlignedBetween ==
  ASSUME NEW x \in Nat, NEW a \in Nat \ {0}, x % a # 0,
         NEW g \in Nat, x <= g, g < x + a - (x % a)
  PROVE  g % a # 0
<1> DEFINE q == x \div a
           r == x % a
<1>1. q \in Nat /\ r \in Nat /\ r < a /\ x = a * q + r
  BY DivFacts
<1>2. r # 0 /\ g < x + a - r
  OBVIOUS
<1> HIDE DEF q, r
<1>3. r + (g - x) \in Nat /\ r + (g - x) < a /\ r + (g - x) # 0
  BY <1>1, <1>2
<1>4. (a * q + (r + (g - x))) % a = r + (g - x)
  BY <1>1, <1>3, DivUnique
<1>5. a * q \in Nat
  BY <1>1
<1>6. g = a * q + (r + (g - x))
  BY <1>1, <1>5
<1>. QED
  BY <1>3, <1>4, <1>6

-----------------------------------------------------------------------------
(* The frames that a range covers, and those inside it.                     *)

LEMMA FrameSetTypes ==
  ASSUME NEW s, NEW e, NEW t \in 0..TOTAL_PAGES
  PROVE  /\ Covering(s, e, t) \subseteq 1..(t - 1)
         /\ Inside(s, e, t) \subseteq 1..(t - 1)
         /\ Reserved(s, e, t) \subseteq 1..(t - 1)
BY DEF Covering, Inside, Reserved, Frames

LEMMA TotalPages ==
  /\ TOTAL_PAGES \in Nat
  /\ MAX_PHYSICAL_BYTES = PAGE_SIZE * TOTAL_PAGES
<1>1. /\ TOTAL_PAGES \in Nat
      /\ MAX_PHYSICAL_BYTES = PAGE_SIZE * TOTAL_PAGES + (MAX_PHYSICAL_BYTES % PAGE_SIZE)
  BY PmmAssumption, DivFacts DEF TOTAL_PAGES
<1>. QED
  BY <1>1, PmmAssumption

\* Any byte of a frame below the total lies in the memory.
LEMMA ByteBounds ==
  ASSUME NEW t \in 0..TOTAL_PAGES, NEW f \in 1..(t - 1), NEW x \in Bytes(f)
  PROVE  /\ x \in Nat /\ x < MAX_PHYSICAL_BYTES
         /\ PAGE_SIZE * f <= x /\ x < PAGE_SIZE * (f + 1)
<1>1. f \in Nat /\ f + 1 <= TOTAL_PAGES /\ PAGE_SIZE \in Nat \ {0}
  BY TotalPages, PmmAssumption
<1>2. PAGE_SIZE * f \in Nat /\ f * PAGE_SIZE = PAGE_SIZE * f
      /\ PAGE_SIZE * (f + 1) = PAGE_SIZE * f + PAGE_SIZE
  BY <1>1
<1>3. x \in Int /\ PAGE_SIZE * f <= x /\ x < PAGE_SIZE * f + PAGE_SIZE
  BY <1>1, <1>2 DEF Bytes
<1>4. PAGE_SIZE * (f + 1) <= PAGE_SIZE * TOTAL_PAGES
  BY <1>1, TotalPages, MulMono
<1>. QED
  BY <1>1, <1>2, <1>3, <1>4, TotalPages

\* A frame with a byte in a range is covered by it.
LEMMA CoveringComplete ==
  ASSUME NEW t \in 0..TOTAL_PAGES, NEW f \in 1..(t - 1), NEW x \in Bytes(f),
         NEW s \in Nat, NEW e \in Nat, In(x, s, e)
  PROVE  f \in Covering(s, e, t)
<1> DEFINE m == Least(e, MAX_PHYSICAL_BYTES)
<1>1. /\ x \in Nat /\ x < MAX_PHYSICAL_BYTES
      /\ PAGE_SIZE * f <= x /\ x < PAGE_SIZE * (f + 1)
      /\ s <= x /\ x < e
  BY ByteBounds DEF In
<1>2. PAGE_SIZE \in Nat \ {0} /\ MAX_PHYSICAL_BYTES \in Nat /\ f \in Nat
  BY PmmAssumption
<1>3. m \in Nat /\ x < m /\ s < m
  BY <1>1, <1>2 DEF Least
<1> HIDE DEF m
<1>4. s \div PAGE_SIZE <= f
  <2>1. s \div PAGE_SIZE \in Nat /\ ~(PAGE_SIZE * (f + 1) <= s)
    BY <1>1, <1>2, DivFacts
  <2>2. f + 1 <= s \div PAGE_SIZE <=> PAGE_SIZE * (f + 1) <= s
    BY <1>2, DivGalois
  <2>. QED
    BY <1>2, <2>1, <2>2
<1>5. f < (m + PAGE_SIZE - 1) \div PAGE_SIZE
  <2>1. PAGE_SIZE * (f + 1) = PAGE_SIZE * f + PAGE_SIZE /\ PAGE_SIZE * f \in Nat
    BY <1>2
  <2>2. m + PAGE_SIZE - 1 \in Nat /\ PAGE_SIZE * (f + 1) <= m + PAGE_SIZE - 1
    BY <1>1, <1>2, <1>3, <2>1
  <2>3. f + 1 <= (m + PAGE_SIZE - 1) \div PAGE_SIZE
    BY <1>2, <2>2, DivGalois
  <2>4. (m + PAGE_SIZE - 1) \div PAGE_SIZE \in Nat
    BY <1>2, <2>2, DivFacts
  <2>. QED
    BY <1>2, <2>3, <2>4
<1>. QED
  BY <1>3, <1>4, <1>5 DEF Covering, Frames, m

\* Every byte of a frame inside a range is in the range.
LEMMA InsideSound ==
  ASSUME NEW t \in 0..TOTAL_PAGES, NEW s \in Nat, NEW e \in Nat,
         NEW f \in Inside(s, e, t), NEW x \in Bytes(f)
  PROVE  In(x, s, e)
<1> DEFINE m == Least(e, MAX_PHYSICAL_BYTES)
<1>1. f \in 1..(t - 1)
  BY FrameSetTypes
<1>2. /\ x \in Nat /\ PAGE_SIZE * f <= x /\ x < PAGE_SIZE * (f + 1)
  BY <1>1, ByteBounds
<1>3. PAGE_SIZE \in Nat \ {0} /\ MAX_PHYSICAL_BYTES \in Nat /\ f \in Nat
  BY <1>1, PmmAssumption, TotalPages
<1>4. m \in Nat /\ m <= e
  BY <1>3 DEF Least
<1>5. (s + PAGE_SIZE - 1) \div PAGE_SIZE <= f /\ f < m \div PAGE_SIZE
  BY DEF Inside, Frames
<1> HIDE DEF m
<1>6. s <= PAGE_SIZE * f
  <2>1. s + PAGE_SIZE - 1 \in Nat /\ f + 1 \in Nat
    BY <1>3
  <2>2. (s + PAGE_SIZE - 1) \div PAGE_SIZE \in Nat
    BY <1>3, <2>1, DivFacts
  <2>3. f + 1 <= (s + PAGE_SIZE - 1) \div PAGE_SIZE
          <=> PAGE_SIZE * (f + 1) <= s + PAGE_SIZE - 1
    BY <1>3, <2>1, DivGalois
  <2>4. ~(PAGE_SIZE * (f + 1) <= s + PAGE_SIZE - 1)
    BY <1>3, <1>5, <2>2, <2>3
  <2>5. PAGE_SIZE * (f + 1) = PAGE_SIZE * f + PAGE_SIZE /\ PAGE_SIZE * f \in Nat
    BY <1>3
  <2>6. PAGE_SIZE * f + PAGE_SIZE > s + PAGE_SIZE - 1
    BY <1>3, <2>1, <2>4, <2>5
  <2>. QED
    BY <1>3, <2>1, <2>5, <2>6
<1>7. PAGE_SIZE * (f + 1) <= e
  <2>1. m \div PAGE_SIZE \in Nat
    BY <1>3, <1>4, DivFacts
  <2>2. PAGE_SIZE * (f + 1) <= m
    BY <1>3, <1>4, <1>5, <2>1, DivGalois
  <2>3. PAGE_SIZE * (f + 1) \in Nat
    BY <1>3
  <2>. QED
    BY <1>4, <2>2, <2>3
<1>8. PAGE_SIZE * (f + 1) \in Nat /\ PAGE_SIZE * f \in Nat
  BY <1>3
<1>. QED
  BY <1>2, <1>6, <1>7, <1>8 DEF In

-----------------------------------------------------------------------------
(* The invariant.                                                           *)

\* No aligned run of clear frames starts before the search's place.
NoneBefore ==
  \A f \in 1..(first - 1) :
    f % alignment_frames = 0 => \E g \in f..(f + pages - 1) : ~Clear(g)

SearchSound ==
  op = "contiguous" =>
    /\ total_frames # 0
    /\ pages \in 1..total_frames /\ first >= 1
    /\ NoneBefore

\* What the start left set stays set and is never lent.
KeptApart ==
  /\ lent \subseteq allocated
  /\ total_frames = 0 => op = "idle"
  /\ total_frames # 0 =>
       Kept(total_frames) \subseteq allocated /\ Kept(total_frames) \cap lent = {}

IInv == TypeInv /\ KeptApart /\ SearchSound

\* The frames kept are frames.
LEMMA KeptType ==
  ASSUME NEW t \in 0..TOTAL_PAGES
  PROVE  Kept(t) \subseteq 0..(TOTAL_PAGES - 1)
<1>1. TOTAL_PAGES \in Nat
  BY TotalPages
<1>2. 1..(t - 1) \subseteq 0..(TOTAL_PAGES - 1)
  BY <1>1
<1>3. BootStructures(t) \subseteq 1..(t - 1)
  BY FrameSetTypes DEF BootStructures
<1>4. \A s, e : Covering(s, e, t) \subseteq 1..(t - 1)
  BY FrameSetTypes
<1>. QED
  BY <1>2, <1>3, <1>4 DEF Kept, MapRead

LEMMA InitIInv == Init => IInv
<1> SUFFICES ASSUME Init PROVE IInv
  OBVIOUS
<1>1. TOTAL_PAGES \in Nat /\ MAX_PHYSICAL_BYTES \in Nat \ {0}
  BY TotalPages, PmmAssumption
<1>2. TypeInv
  BY <1>1 DEF Init, TypeInv
<1>. QED
  BY <1>2 DEF Init, IInv, KeptApart, SearchSound

LEMMA StutterIInv == IInv /\ UNCHANGED vars => IInv'
BY DEF IInv, TypeInv, KeptApart, SearchSound, NoneBefore, Clear, Kept, MapRead,
       BootStructures, Entries, vars, search

\* The highest address read counts no more frames than the bitmap has.
LEMMA TotalBounded ==
  ASSUME NEW h \in 0..MAX_PHYSICAL_BYTES
  PROVE  h \div PAGE_SIZE \in 0..TOTAL_PAGES
<1> DEFINE q == h \div PAGE_SIZE
<1>1. h \in Nat /\ PAGE_SIZE \in Nat \ {0} /\ MAX_PHYSICAL_BYTES \in Nat
  BY PmmAssumption
<1>2. q \in Nat /\ PAGE_SIZE * q <= h
  BY <1>1, DivFacts
<1> HIDE DEF q
<1>3. PAGE_SIZE * q <= MAX_PHYSICAL_BYTES
  BY <1>1, <1>2
<1>4. q <= TOTAL_PAGES
  BY <1>1, <1>2, <1>3, DivGalois DEF TOTAL_PAGES
<1>. QED
  BY <1>2, <1>4, TotalPages DEF q

LEMMA InitCallIInv == IInv /\ pmm_init => IInv'
<1> SUFFICES ASSUME IInv, pmm_init PROVE IInv'
  OBVIOUS
<1> USE DEF IInv
<1>1. lent = {} /\ op = "idle" /\ total_frames = 0
  BY DEF pmm_init, TypeInv, KeptApart
<1>2. PICK h \in 0..MAX_PHYSICAL_BYTES :
        LET total == h \div PAGE_SIZE
        IN IF ~MapOk THEN Panic("bad_map")
           ELSE IF total = 0 THEN Panic("no_memory")
           ELSE IF ~ModulesOk THEN Panic("bad_module")
           ELSE /\ total_frames' = total
                /\ allocated' = Kept(total)
                /\ UNCHANGED <<boot, search, result, lent, panic>>
  BY DEF pmm_init
<1>3. ASSUME NEW w \in {"bad_map", "no_memory", "bad_module"}, Panic(w) PROVE IInv'
  BY <1>1, <1>3 DEF Panic, TypeInv, KeptApart, SearchSound, search
<1>4. ASSUME NEW t \in 0..TOTAL_PAGES, total_frames' = t, allocated' = Kept(t),
             UNCHANGED <<boot, search, result, lent, panic>>
      PROVE  IInv'
  <2>1. TypeInv'
    BY <1>1, <1>4, KeptType DEF TypeInv, search
  <2>2. Kept(t)' = Kept(t)
    BY <1>4 DEF Kept, MapRead, BootStructures, Entries
  <2>3. KeptApart'
    BY <1>1, <1>4, <2>2 DEF KeptApart, search
  <2>4. SearchSound'
    BY <1>1, <1>4 DEF SearchSound, search
  <2>. QED
    BY <2>1, <2>3, <2>4
<1>5. h \div PAGE_SIZE \in 0..TOTAL_PAGES
  BY TotalBounded
<1>. QED
  BY <1>2, <1>3, <1>4, <1>5

-----------------------------------------------------------------------------
(* The calls keep the invariant.                                            *)

\* The kept frames depend on the boot's report alone.
LEMMA KeptSame ==
  ASSUME NEW t, boot' = boot
  PROVE  Kept(t)' = Kept(t)
BY DEF Kept, MapRead, BootStructures, Entries

\* A page count below the total gives an address below the top.
LEMMA AddressBelow ==
  ASSUME NEW f \in Nat, f + 1 <= TOTAL_PAGES
  PROVE  f * PAGE_SIZE \in 0..(MAX_PHYSICAL_BYTES - 1)
<1>1. PAGE_SIZE \in Nat \ {0} /\ f + 1 \in Nat
  BY PmmAssumption
<1>2. PAGE_SIZE * (f + 1) <= PAGE_SIZE * TOTAL_PAGES
  BY <1>1, TotalPages, MulMono
<1>3. PAGE_SIZE * (f + 1) = f * PAGE_SIZE + PAGE_SIZE /\ f * PAGE_SIZE \in Nat
  BY <1>1
<1>. QED
  BY <1>1, <1>2, <1>3, TotalPages, PmmAssumption

LEMMA AllocFrameIInv == IInv /\ pmm_alloc_frame => IInv'
<1> SUFFICES ASSUME IInv, pmm_alloc_frame PROVE IInv'
  OBVIOUS
<1> USE DEF IInv
<1>1. PICK f \in 1..(total_frames - 1) :
        /\ f \notin allocated
        /\ allocated' = allocated \cup {f} /\ lent' = lent \cup {f}
        /\ result' = f * PAGE_SIZE
  BY DEF pmm_alloc_frame, Clear
<1>2. /\ op = "idle" /\ total_frames # 0
      /\ UNCHANGED <<boot, total_frames, search, panic>>
  BY DEF pmm_alloc_frame, Ready
<1>3. total_frames \in 0..TOTAL_PAGES /\ TOTAL_PAGES \in Nat
  BY TotalPages DEF TypeInv
<1>4. f \in Nat /\ f + 1 <= TOTAL_PAGES /\ f \in 0..(TOTAL_PAGES - 1)
  BY <1>3
<1>5. result' \in 0..(MAX_PHYSICAL_BYTES - 1)
  BY <1>1, <1>4, AddressBelow
<1>6. TypeInv'
  BY <1>1, <1>2, <1>4, <1>5 DEF TypeInv, search
<1>7. KeptApart'
  <2>1. Kept(total_frames)' = Kept(total_frames)
    BY <1>2, KeptSame
  <2>. QED
    BY <1>1, <1>2, <2>1 DEF KeptApart, search
<1>8. SearchSound'
  BY <1>2 DEF SearchSound, search
<1>. QED
  BY <1>6, <1>7, <1>8

LEMMA ExhaustedIInv == IInv /\ AllocFrameExhausted => IInv'
<1> SUFFICES ASSUME IInv, AllocFrameExhausted PROVE IInv'
  OBVIOUS
<1>1. /\ op = "idle" /\ panic' = "exhausted"
      /\ UNCHANGED <<boot, allocated, total_frames, search, result, lent>>
  BY DEF AllocFrameExhausted, Ready, Panic
<1>2. Kept(total_frames)' = Kept(total_frames)
  BY <1>1, KeptSame
<1>. QED
  BY <1>1, <1>2 DEF IInv, TypeInv, KeptApart, SearchSound, search

\* Below the top nothing wraps, and a request has a page at least.
LEMMA PagesOfType ==
  ASSUME NEW size \in 0..(MAX_PHYSICAL_BYTES - 1), NEW alignment \in Nat,
         total_frames \in Nat, RequestOk(size, alignment)
  PROVE  /\ PagesOf(size) \in 1..total_frames
         /\ alignment \div PAGE_SIZE \in Nat \ {0}
<1> DEFINE n == size + PAGE_SIZE - 1
<1>1. /\ PAGE_SIZE \in Nat \ {0} /\ MAX_PHYSICAL_BYTES \in Nat \ {0}
      /\ size \in Nat \ {0} /\ size <= MAX_PHYSICAL_BYTES - PAGE_SIZE
      /\ alignment >= PAGE_SIZE
  BY PmmAssumption DEF RequestOk
<1>2. n \in Nat /\ n < MAX_PHYSICAL_BYTES /\ n >= PAGE_SIZE
  BY <1>1
<1>3. PagesOf(size) = (n % MAX_PHYSICAL_BYTES) \div PAGE_SIZE /\ PagesOf(size) <= total_frames
  BY DEF PagesOf, RequestOk
<1> HIDE DEF n
<1>4. n % MAX_PHYSICAL_BYTES = n
  <2>1. (MAX_PHYSICAL_BYTES * 0 + n) % MAX_PHYSICAL_BYTES = n
    BY <1>1, <1>2, DivUnique
  <2>2. MAX_PHYSICAL_BYTES * 0 + n = n
    BY <1>1, <1>2
  <2>. QED
    BY <2>1, <2>2
<1>5. ASSUME NEW x \in Nat, x >= PAGE_SIZE PROVE x \div PAGE_SIZE \in Nat \ {0}
  <2>1. x \div PAGE_SIZE \in Nat
    BY <1>1, DivFacts
  <2>2. PAGE_SIZE * 1 <= x /\ 1 \in Nat
    BY <1>1, <1>5
  <2>3. 1 <= x \div PAGE_SIZE
    BY <1>1, <2>2, DivGalois
  <2>. QED
    BY <2>1, <2>3
<1>6. n \div PAGE_SIZE \in Nat \ {0} /\ alignment \div PAGE_SIZE \in Nat \ {0}
  BY <1>1, <1>2, <1>5
<1>. QED
  BY <1>3, <1>4, <1>6

LEMMA AskIInv ==
  ASSUME IInv, NEW r \in Requests, pmm_alloc_contiguous(r[1], r[2])
  PROVE  IInv'
<1>1. r[1] \in 0..(MAX_PHYSICAL_BYTES - 1) /\ r[2] \in 0..(MAX_PHYSICAL_BYTES - 1)
  BY PmmAssumption
<1>2. /\ op = "idle" /\ total_frames # 0
      /\ UNCHANGED <<boot, allocated, total_frames, lent, panic>>
  BY DEF pmm_alloc_contiguous, Ready
<1>3. KeptApart'
  <2>1. Kept(total_frames)' = Kept(total_frames)
    BY <1>2, KeptSame
  <2>. QED
    BY <1>2, <2>1 DEF KeptApart, IInv
<1>4. CASE RequestOk(r[1], r[2])
  <2>1. /\ op' = "contiguous" /\ first' = 1 /\ result' = result
        /\ pages' = PagesOf(r[1]) /\ alignment_frames' = r[2] \div PAGE_SIZE
    BY <1>4 DEF pmm_alloc_contiguous
  <2>2. total_frames \in Nat /\ r[2] \in Nat
    BY <1>1, TotalPages DEF IInv, TypeInv
  <2>3. pages' \in 1..total_frames /\ alignment_frames' \in Nat \ {0}
    BY <1>1, <1>4, <2>1, <2>2, PagesOfType
  <2>4. TypeInv'
    BY <1>2, <2>1, <2>3 DEF IInv, TypeInv
  <2>5. SearchSound'
    BY <1>2, <2>1, <2>3 DEF SearchSound, NoneBefore
  <2>. QED
    BY <1>3, <2>4, <2>5 DEF IInv
<1>5. CASE ~RequestOk(r[1], r[2])
  <2>1. result' = 0 /\ UNCHANGED search
    BY <1>5 DEF pmm_alloc_contiguous
  <2>2. 0 \in 0..(MAX_PHYSICAL_BYTES - 1)
    BY PmmAssumption
  <2>. QED
    BY <1>2, <1>3, <2>1, <2>2 DEF IInv, TypeInv, SearchSound, search
<1>. QED
  BY <1>4, <1>5

LEMMA ReserveIInv ==
  ASSUME IInv, NEW d \in Devices, pmm_reserve_phys(d[1], d[2])
  PROVE  IInv'
<1>1. /\ op = "idle"
      /\ allocated' = allocated \cup Reserved(d[1], d[2], total_frames)
      /\ UNCHANGED <<boot, total_frames, search, result, lent, panic>>
  BY DEF pmm_reserve_phys, Ready
<1>2. Reserved(d[1], d[2], total_frames) \subseteq 0..(TOTAL_PAGES - 1)
  <2>1. total_frames \in 0..TOTAL_PAGES /\ TOTAL_PAGES \in Nat
    BY TotalPages DEF IInv, TypeInv
  <2>2. Reserved(d[1], d[2], total_frames) \subseteq 1..(total_frames - 1)
    BY <2>1, FrameSetTypes
  <2>. QED
    BY <2>1, <2>2
<1>3. Kept(total_frames)' = Kept(total_frames)
  BY <1>1, KeptSame
<1>. QED
  BY <1>1, <1>2, <1>3 DEF IInv, TypeInv, KeptApart, SearchSound, search

-----------------------------------------------------------------------------
(* So does the search.                                                      *)

LEMMA SearchTypes ==
  ASSUME IInv, op = "contiguous"
  PROVE  /\ total_frames \in 0..TOTAL_PAGES /\ TOTAL_PAGES \in Nat
         /\ pages \in Nat /\ 1 <= pages /\ pages <= total_frames
         /\ first \in Nat /\ first >= 1
         /\ alignment_frames \in Nat \ {0}
         /\ NoneBefore
BY TotalPages DEF IInv, TypeInv, SearchSound

\* The search may go on from any later frame that misses no run.
LEMMA SearchOnIInv ==
  ASSUME IInv, op = "contiguous", NEW next \in Nat, next >= first, SearchOn(next),
         \A f \in first..(next - 1) :
           f % alignment_frames = 0 => \E g \in f..(f + pages - 1) : ~Clear(g)
  PROVE  IInv'
<1>1. /\ pages \in 1..total_frames /\ first \in Nat /\ first >= 1
      /\ total_frames # 0 /\ NoneBefore
  BY SearchTypes DEF IInv, SearchSound
<1>2. /\ first' = next
      /\ UNCHANGED <<boot, allocated, total_frames, op, pages, alignment_frames,
                     result, lent, panic>>
  BY DEF SearchOn
<1>3. TypeInv'
  BY <1>2 DEF IInv, TypeInv
<1>4. KeptApart'
  <2>1. Kept(total_frames)' = Kept(total_frames)
    BY <1>2, KeptSame
  <2>. QED
    BY <1>2, <2>1 DEF KeptApart, IInv
<1>5. NoneBefore'
  <2> SUFFICES ASSUME NEW f \in 1..(next - 1), f % alignment_frames = 0
               PROVE  \E g \in f..(f + pages - 1) : ~Clear(g)
    BY <1>2 DEF NoneBefore, Clear
  <2>1. CASE f < first
    <3>1. f \in 1..(first - 1)
      BY <1>1, <2>1
    <3>. QED
      BY <1>1, <3>1 DEF NoneBefore
  <2>2. CASE f >= first
    <3>1. f \in first..(next - 1)
      BY <1>1, <2>2
    <3>. QED
      BY <3>1
  <2>. QED
    BY <1>1, <2>1, <2>2
<1>6. SearchSound'
  BY <1>1, <1>2, <1>5 DEF SearchSound
<1>. QED
  BY <1>3, <1>4, <1>6 DEF IInv

LEMMA SearchAlignIInv == IInv /\ SearchAlign => IInv'
<1> SUFFICES ASSUME IInv, SearchAlign PROVE IInv'
  OBVIOUS
<1> DEFINE r == first % alignment_frames
           next == first + alignment_frames - r
<1>1. op = "contiguous" /\ r # 0 /\ SearchOn(next)
  BY DEF SearchAlign, Searching, Aligned
<1>2. first \in Nat /\ alignment_frames \in Nat \ {0}
  BY <1>1, SearchTypes
<1>3. r \in Nat /\ r < alignment_frames
  BY <1>2, DivFacts
<1>4. ASSUME NEW f \in first..(next - 1) PROVE f % alignment_frames # 0
  <2>1. next \in Nat
    BY <1>2, <1>3
  <2>2. f \in Nat /\ first <= f /\ f < next
    BY <1>2, <1>4, <2>1
  <2>. QED
    BY <1>1, <1>2, <2>2, NoneAlignedBetween
<1> HIDE DEF r
<1>5. next \in Nat /\ next >= first
  BY <1>2, <1>3
<1>. QED
  BY <1>1, <1>4, <1>5, SearchOnIInv

LEMMA SearchSkipIInv == IInv /\ SearchSkip => IInv'
<1> SUFFICES ASSUME IInv, SearchSkip PROVE IInv'
  OBVIOUS
<1>1. op = "contiguous"
  BY DEF SearchSkip, Searching
<1>2. PICK f \in Run : ~Clear(f) /\ SearchOn(f + 1)
  BY DEF SearchSkip, PastFrame
<1>3. first \in Nat /\ pages \in Nat
  BY <1>1, SearchTypes
<1>4. f \in first..(first + pages - 1) /\ f \in Nat
  BY <1>2, <1>3 DEF Run
<1>5. ASSUME NEW h \in Nat, first <= h, h <= f PROVE f \in h..(h + pages - 1)
  BY <1>3, <1>4, <1>5
<1> DEFINE next == f + 1
<1>6. next \in Nat /\ next >= first /\ SearchOn(next)
  BY <1>2, <1>3, <1>4
<1>7. ASSUME NEW h \in first..(next - 1), h % alignment_frames = 0
      PROVE  \E g \in h..(h + pages - 1) : ~Clear(g)
  <2>1. f \in h..(h + pages - 1)
    <3>1. h \in Nat /\ first <= h /\ h <= f
      BY <1>3, <1>4, <1>7
    <3>. QED
      BY <1>5, <3>1
  <2>. QED
    BY <1>2, <2>1
<1> HIDE DEF next
<1>. QED
  BY <1>1, <1>6, <1>7, SearchOnIInv

LEMMA SearchTakeIInv == IInv /\ SearchTake => IInv'
<1> SUFFICES ASSUME IInv, SearchTake PROVE IInv'
  OBVIOUS
<1>1. /\ op = "contiguous" /\ first <= total_frames - pages
      /\ \A f \in Run : Clear(f)
      /\ allocated' = allocated \cup Run /\ lent' = lent \cup Run
      /\ op' = "idle" /\ pages' = 0 /\ alignment_frames' = 1 /\ first' = 0
      /\ result' = first * PAGE_SIZE
      /\ UNCHANGED <<boot, total_frames, panic>>
  BY DEF SearchTake, Searching, Return
<1>2. /\ total_frames \in 0..TOTAL_PAGES /\ TOTAL_PAGES \in Nat
      /\ pages \in Nat /\ 1 <= pages /\ first \in Nat /\ first >= 1
  BY <1>1, SearchTypes
<1>3. Run \subseteq 1..(total_frames - 1) /\ Run \subseteq 0..(TOTAL_PAGES - 1)
  BY <1>1, <1>2 DEF Run
<1>4. result' \in 0..(MAX_PHYSICAL_BYTES - 1)
  <2>1. first + 1 <= TOTAL_PAGES
    BY <1>1, <1>2
  <2>. QED
    BY <1>1, <1>2, <2>1, AddressBelow
<1>5. TypeInv'
  BY <1>1, <1>3, <1>4 DEF IInv, TypeInv
<1>6. KeptApart'
  <2>1. Kept(total_frames)' = Kept(total_frames)
    BY <1>1, KeptSame
  <2>. QED
    BY <1>1, <2>1 DEF KeptApart, IInv, Clear
<1>7. SearchSound'
  BY <1>1 DEF SearchSound
<1>. QED
  BY <1>5, <1>6, <1>7 DEF IInv

LEMMA SearchFailIInv == IInv /\ SearchFail => IInv'
<1> SUFFICES ASSUME IInv, SearchFail PROVE IInv'
  OBVIOUS
<1>1. /\ op' = "idle" /\ pages' = 0 /\ alignment_frames' = 1 /\ first' = 0
      /\ result' = 0
      /\ UNCHANGED <<boot, total_frames, panic, allocated, lent>>
  BY DEF SearchFail, Return
<1>2. Kept(total_frames)' = Kept(total_frames)
  BY <1>1, KeptSame
<1>3. 0 \in 0..(MAX_PHYSICAL_BYTES - 1)
  BY PmmAssumption
<1>. QED
  BY <1>1, <1>2, <1>3 DEF IInv, TypeInv, KeptApart, SearchSound

LEMMA NextIInv == IInv /\ [Next]_vars => IInv'
<1> SUFFICES ASSUME IInv, [Next]_vars PROVE IInv'
  OBVIOUS
<1>1. CASE pmm_init
  BY <1>1, InitCallIInv
<1>2. CASE pmm_alloc_frame
  BY <1>2, AllocFrameIInv
<1>3. CASE AllocFrameExhausted
  BY <1>3, ExhaustedIInv
<1>4. CASE \E r \in Requests : pmm_alloc_contiguous(r[1], r[2])
  BY <1>4, AskIInv
<1>5. CASE Search
  BY <1>5, SearchAlignIInv, SearchSkipIInv, SearchTakeIInv, SearchFailIInv DEF Search
<1>6. CASE \E d \in Devices : pmm_reserve_phys(d[1], d[2])
  BY <1>6, ReserveIInv
<1>7. CASE Halted \/ UNCHANGED vars
  BY <1>7, StutterIInv DEF Halted
<1>. QED
  BY <1>1, <1>2, <1>3, <1>4, <1>5, <1>6, <1>7 DEF Next

THEOREM Invariant == Spec => []IInv
<1>. QED
  BY InitIInv, NextIInv, PTL DEF Spec

\* Every variable of the memory manager keeps its type: frames lent exist, and
\* an address returned is one of the memory's.
THEOREM TypeCorrect == Spec => []TypeInv
<1>1. IInv => TypeInv
  BY DEF IInv
<1>. QED
  BY <1>1, Invariant, PTL

-----------------------------------------------------------------------------
(* Only usable memory is lent.                                              *)

\* Reports name addresses.
LEMMA BootTypes ==
  ASSUME boot \in Boots
  PROVE  /\ \A e \in boot.mmap : e.base \in Nat /\ e.length \in Nat /\ End(e) \in Nat
         /\ boot.kernel_end \in Nat
         /\ \A s \in boot.structures : s[1] \in Nat /\ s[2] \in Nat
         /\ \A m \in boot.modules : m[1] \in Nat /\ m[2] \in Nat
<1>1. boot \in BootInfo
  BY PmmAssumption
<1>2. /\ boot.mmap \subseteq [base : Nat, length : Nat, available : BOOLEAN]
      /\ boot.kernel_end \in Nat
      /\ boot.structures \subseteq Nat \X Nat
      /\ boot.modules \subseteq Nat \X Nat
  BY <1>1 DEF BootInfo
<1>. QED
  BY <1>2 DEF End

\* A frame with a byte in a range that is reserved by address and size.
LEMMA ReservedComplete ==
  ASSUME NEW t \in 0..TOTAL_PAGES, NEW f \in 1..(t - 1), NEW x \in Bytes(f),
         NEW a \in Nat, NEW n \in Int, In(x, a, a + n)
  PROVE  f \in Reserved(a, n, t)
<1>1. x \in Nat /\ x < MAX_PHYSICAL_BYTES /\ a <= x /\ x < a + n
  BY ByteBounds DEF In
<1>2. n # 0 /\ a < MAX_PHYSICAL_BYTES /\ a + n \in Nat
  BY <1>1, PmmAssumption
<1>3. f \in Covering(a, a + n, t)
  BY <1>2, CoveringComplete
<1>. QED
  BY <1>2, <1>3, PmmAssumption DEF Reserved

LEMMA ClearUsable ==
  ASSUME boot \in Boots, NEW t \in 0..TOTAL_PAGES, NEW f \in 1..(t - 1),
         f \notin Kept(t), NEW x \in Bytes(f)
  PROVE  Usable(x)
<1>1. x \in Nat /\ TOTAL_PAGES \in Nat /\ f \in 0..(TOTAL_PAGES - 1)
  BY ByteBounds, TotalPages
<1>2. /\ f \notin MapRead(t) /\ f \notin Covering(0, boot.kernel_end, t)
      /\ f \notin BootStructures(t)
  BY DEF Kept
<1>3. \E e \in boot.mmap : e.available /\ In(x, e.base, End(e))
  <2>1. PICK e \in Entries(TRUE) : f \in Inside(e.base, End(e), t)
    BY <1>1, <1>2 DEF MapRead
  <2>2. e \in boot.mmap /\ e.available = TRUE
    BY DEF Entries
  <2>3. e.base \in Nat /\ End(e) \in Nat
    BY <2>2, BootTypes
  <2>4. In(x, e.base, End(e))
    BY <2>1, <2>3, InsideSound
  <2>. QED
    BY <2>2, <2>4
<1>4. ASSUME NEW e \in boot.mmap, In(x, e.base, End(e)) PROVE e.available
  <2>1. e.base \in Nat /\ e.length \in Nat /\ End(e) \in Nat
    BY BootTypes
  <2>2. f \in Covering(e.base, End(e), t)
    BY <1>4, <2>1, CoveringComplete
  <2>3. e.length > 0
    BY <1>1, <1>4, <2>1 DEF In, End
  <2>4. e \notin Entries(FALSE)
    BY <1>2, <2>2 DEF MapRead
  <2>5. e.available \in BOOLEAN
    BY PmmAssumption DEF BootInfo
  <2>. QED
    BY <2>3, <2>4, <2>5 DEF Entries
<1>5. ~In(x, 0, boot.kernel_end)
  BY <1>2, BootTypes, CoveringComplete
<1>6. ASSUME NEW s \in boot.structures PROVE ~In(x, s[1], s[1] + s[2])
  <2>1. s[1] \in Nat /\ s[2] \in Int
    BY BootTypes
  <2>2. f \notin Reserved(s[1], s[2], t)
    BY <1>2 DEF BootStructures
  <2>. QED
    BY <2>1, <2>2, ReservedComplete
<1>7. ASSUME NEW m \in boot.modules PROVE ~In(x, m[1], m[2])
  <2>1. m[1] \in Nat /\ m[2] \in Nat
    BY BootTypes
  <2>2. m[2] - m[1] \in Int /\ m[1] + (m[2] - m[1]) = m[2]
    BY <2>1
  <2>3. f \notin Reserved(m[1], m[2] - m[1], t)
    BY <1>2 DEF BootStructures
  <2>. QED
    BY <2>1, <2>2, <2>3, ReservedComplete
<1>. QED
  BY <1>3, <1>4, <1>5, <1>6, <1>7 DEF Usable

\* No byte of a frame that was lent belongs to the kernel, to the boot
\* loader, to a module or to no RAM at all, however the reported ranges
\* overlap and wherever they end within frames.
THEOREM OnlyUsable == Spec => []OnlyUsableLent
<1>1. IInv => OnlyUsableLent
  <2> SUFFICES ASSUME IInv, NEW f \in lent, NEW x \in Bytes(f) PROVE Usable(x)
    BY DEF OnlyUsableLent
  <2>1. /\ boot \in Boots /\ total_frames \in 0..TOTAL_PAGES
        /\ f \in 1..(total_frames - 1)
    BY DEF IInv, TypeInv
  <2>2. f \notin Kept(total_frames)
    BY <2>1 DEF IInv, KeptApart
  <2>. QED
    BY <2>1, <2>2, ClearUsable
<1>. QED
  BY <1>1, Invariant, PTL

-----------------------------------------------------------------------------
(* The bitmap implements the frame allocator.                               *)

FreeFrames == {f \in 1..(total_frames - 1) : Clear(f)}
Status == IF panic \in {"no", "exhausted"} THEN panic ELSE "bad_boot"
Wanted == IF op = "idle" THEN <<>> ELSE <<pages, alignment_frames>>

LEMMA ZeroAddress == 0 \div PAGE_SIZE = 0
<1>1. (PAGE_SIZE * 0 + 0) \div PAGE_SIZE = 0
  BY PmmAssumption, DivUnique
<1>2. PAGE_SIZE * 0 + 0 = 0
  BY PmmAssumption
<1>. QED
  BY <1>1, <1>2

LEMMA InitAbs == Init => Abs!Init
<1> SUFFICES ASSUME Init PROVE Abs!Init
  OBVIOUS
<1>. QED
  BY ZeroAddress DEF Init, Abs!Init

LEMMA FrameOfAddress ==
  ASSUME NEW f \in Nat
  PROVE  (f * PAGE_SIZE) \div PAGE_SIZE = f
<1>1. (PAGE_SIZE * f + 0) \div PAGE_SIZE = f
  BY PmmAssumption, DivUnique
<1>2. PAGE_SIZE * f + 0 = f * PAGE_SIZE
  BY PmmAssumption
<1>. QED
  BY <1>1, <1>2

LEMMA InitCallAbs == IInv /\ pmm_init => Abs!Start
<1> SUFFICES ASSUME IInv, pmm_init PROVE Abs!Start
  OBVIOUS
<1>1. /\ total_frames = 0 /\ panic = "no"
      /\ UNCHANGED <<search, result, lent>>
      /\ \/ panic' \in {"bad_map", "no_memory", "bad_module"}
            /\ UNCHANGED <<allocated, total_frames>>
         \/ panic' = "no" /\ total_frames' # 0
  BY DEF pmm_init, Panic
<1>2. (total_frames \in Int)'
  <2>1. TypeInv'
    BY InitCallIInv DEF IInv
  <2>. QED
    BY <2>1, TotalPages DEF TypeInv
<1>. QED
  BY <1>1, <1>2 DEF Abs!Start, search, Clear

LEMMA AllocFrameAbs == IInv /\ pmm_alloc_frame => Abs!LendOne
<1> SUFFICES ASSUME IInv, pmm_alloc_frame PROVE Abs!LendOne
  OBVIOUS
<1>1. PICK f \in 1..(total_frames - 1) :
        /\ f \notin allocated
        /\ allocated' = allocated \cup {f} /\ lent' = lent \cup {f}
        /\ result' = f * PAGE_SIZE
  BY DEF pmm_alloc_frame, Clear
<1>2. /\ op = "idle" /\ total_frames # 0 /\ panic = "no"
      /\ UNCHANGED <<boot, total_frames, search, panic>>
  BY DEF pmm_alloc_frame, Ready
<1>3. total_frames \in Int
  BY TotalPages DEF IInv, TypeInv
<1>4. result' \div PAGE_SIZE = f
  BY <1>1, <1>3, FrameOfAddress
<1>. QED
  BY <1>1, <1>2, <1>4 DEF Abs!LendOne, Abs!Running, Clear, search

LEMMA ExhaustedAbs == AllocFrameExhausted => Abs!Exhaust
BY DEF AllocFrameExhausted, Ready, Panic, Abs!Exhaust, Abs!Running, Clear, search

LEMMA AskAbs ==
  ASSUME IInv, NEW r \in Requests, pmm_alloc_contiguous(r[1], r[2])
  PROVE  Abs!Ask \/ Abs!Decline
<1>1. r[1] \in 0..(MAX_PHYSICAL_BYTES - 1) /\ r[2] \in 0..(MAX_PHYSICAL_BYTES - 1)
  BY PmmAssumption
<1>2. /\ op = "idle" /\ total_frames # 0 /\ panic = "no"
      /\ UNCHANGED <<boot, allocated, total_frames, lent, panic>>
  BY DEF pmm_alloc_contiguous, Ready
<1>3. CASE RequestOk(r[1], r[2])
  <2>1. /\ op' = "contiguous" /\ result' = result
        /\ pages' = PagesOf(r[1]) /\ alignment_frames' = r[2] \div PAGE_SIZE
    BY <1>3 DEF pmm_alloc_contiguous
  <2>2. total_frames \in Nat /\ r[2] \in Nat
    BY <1>1, TotalPages DEF IInv, TypeInv
  <2>3. pages' \in Nat \ {0} /\ alignment_frames' \in Nat \ {0}
    BY <1>1, <1>3, <2>1, <2>2, PagesOfType
  <2>. QED
    BY <1>2, <2>1, <2>3 DEF Abs!Ask, Abs!Running, Clear
<1>4. CASE ~RequestOk(r[1], r[2])
  <2>1. result' = 0 /\ UNCHANGED search
    BY <1>4 DEF pmm_alloc_contiguous
  <2>. QED
    BY <1>2, <2>1, ZeroAddress DEF Abs!Decline, Abs!Running, Clear, search
<1>. QED
  BY <1>3, <1>4

LEMMA ReserveAbs ==
  ASSUME NEW d \in Devices, pmm_reserve_phys(d[1], d[2])
  PROVE  Abs!Withdraw
BY DEF pmm_reserve_phys, Ready, Abs!Withdraw, Abs!Running, Clear, search

LEMMA SearchOnAbs ==
  ASSUME NEW next, SearchOn(next)
  PROVE  UNCHANGED Abs!vars
BY DEF SearchOn, Abs!vars, Clear

LEMMA SearchTakeAbs == IInv /\ SearchTake => Abs!Grant
<1> SUFFICES ASSUME IInv, SearchTake PROVE Abs!Grant
  OBVIOUS
<1>1. /\ panic = "no" /\ op = "contiguous" /\ first <= total_frames - pages
      /\ first % alignment_frames = 0
      /\ \A f \in Run : Clear(f)
      /\ allocated' = allocated \cup Run /\ lent' = lent \cup Run
      /\ op' = "idle"
      /\ result' = first * PAGE_SIZE
      /\ UNCHANGED <<boot, total_frames, panic>>
  BY DEF SearchTake, Searching, Aligned, Return
<1>2. /\ total_frames \in Nat /\ total_frames # 0
      /\ pages \in Nat /\ 1 <= pages /\ first \in Nat /\ first >= 1
  BY <1>1, SearchTypes
<1>3. result' \div PAGE_SIZE = first
  BY <1>1, <1>2, FrameOfAddress
<1>4. Run \subseteq FreeFrames
  BY <1>1, <1>2 DEF FreeFrames, Run
<1>5. Wanted = <<pages, alignment_frames>> /\ Wanted # <<>> /\ Wanted' = <<>>
  BY <1>1 DEF Wanted
<1>6. FreeFrames' = FreeFrames \ Run
  BY <1>1 DEF FreeFrames, Clear
<1>7. Status' = Status /\ Status = "no"
  BY <1>1 DEF Status
<1>. QED
  BY <1>1, <1>2, <1>3, <1>4, <1>5, <1>6, <1>7
  DEF Abs!Grant, Abs!Running, Abs!Fits, FreeFrames, Wanted, Status, Run

LEMMA SearchFailAbs == IInv /\ SearchFail => Abs!Refuse
<1> SUFFICES ASSUME IInv, SearchFail PROVE Abs!Refuse
  OBVIOUS
<1>1. /\ panic = "no" /\ op = "contiguous" /\ first > total_frames - pages
      /\ op' = "idle" /\ result' = 0
      /\ UNCHANGED <<boot, total_frames, panic, allocated, lent>>
  BY DEF SearchFail, Return
<1>2. /\ total_frames \in Nat /\ total_frames # 0
      /\ pages \in Nat /\ 1 <= pages /\ first \in Nat /\ first >= 1
      /\ NoneBefore
  BY <1>1, SearchTypes
<1>3. ASSUME NEW f \in FreeFrames, f % alignment_frames = 0,
             f..(f + pages - 1) \subseteq FreeFrames
      PROVE  FALSE
  <2>1. f \in Nat /\ f >= 1 /\ f <= total_frames - 1
    BY <1>2 DEF FreeFrames
  <2>2. CASE f < first
    <3>1. f \in 1..(first - 1)
      BY <1>2, <2>1, <2>2
    <3>. QED
      BY <1>2, <1>3, <3>1 DEF NoneBefore, FreeFrames
  <2>3. CASE f >= first
    <3>1. f + pages - 1 \in f..(f + pages - 1)
      BY <1>2, <2>1
    <3>2. f + pages - 1 \in 1..(total_frames - 1)
      BY <1>3, <3>1 DEF FreeFrames
    <3>. QED
      BY <1>1, <1>2, <2>1, <2>3, <3>2
  <2>. QED
    BY <1>2, <2>1, <2>2, <2>3
<1>4. Wanted = <<pages, alignment_frames>> /\ Wanted # <<>> /\ Wanted' = <<>>
  BY <1>1 DEF Wanted
<1>5. Status' = Status /\ Status = "no"
  BY <1>1 DEF Status
<1>6. FreeFrames' = FreeFrames
  BY <1>1 DEF FreeFrames, Clear
<1>. QED
  BY <1>1, <1>2, <1>3, <1>4, <1>5, <1>6, ZeroAddress
  DEF Abs!Refuse, Abs!Running, Abs!Fits, FreeFrames, Wanted, Status

LEMMA StutterAbs == UNCHANGED vars => UNCHANGED Abs!vars
BY DEF vars, search, Abs!vars, Clear

\* The frames that are clear are those that can be lent: every call lends
\* frames that nobody has, aligned as asked, and a search that gives up has
\* overlooked no run.
THEOREM Refinement == Spec => ImplementsFrameAllocator
<1>1. IInv /\ [Next]_vars => [Abs!Next]_(Abs!vars)
  <2> SUFFICES ASSUME IInv, [Next]_vars PROVE [Abs!Next]_(Abs!vars)
    OBVIOUS
  <2> USE DEF Abs!Next
  <2>1. CASE pmm_init
    BY <2>1, InitCallAbs
  <2>2. CASE pmm_alloc_frame
    BY <2>2, AllocFrameAbs
  <2>3. CASE AllocFrameExhausted
    BY <2>3, ExhaustedAbs
  <2>4. CASE \E r \in Requests : pmm_alloc_contiguous(r[1], r[2])
    BY <2>4, AskAbs
  <2>5. CASE Search
    BY <2>5, SearchOnAbs, SearchTakeAbs, SearchFailAbs DEF Search, SearchAlign, SearchSkip
  <2>6. CASE \E d \in Devices : pmm_reserve_phys(d[1], d[2])
    BY <2>6, ReserveAbs
  <2>7. CASE Halted \/ UNCHANGED vars
    BY <2>7, StutterAbs DEF Halted
  <2>. QED
    BY <2>1, <2>2, <2>3, <2>4, <2>5, <2>6, <2>7 DEF Next
<1>2. Init => Abs!Init
  BY InitAbs
<1>. QED
  BY <1>1, <1>2, Invariant, PTL DEF Spec, ImplementsFrameAllocator, Abs!Spec

=============================================================================
