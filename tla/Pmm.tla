-------------------------------- MODULE Pmm --------------------------------
(***************************************************************************)
(* The physical memory manager, src/src/arch/x86/mem/pmm.c: a bitmap with  *)
(* a bit for every page frame, set when the frame may not be handed out.   *)
(* pmm_init clears the bits of the RAM that the Multiboot memory map       *)
(* declares and sets again those of everything that the boot left in it;   *)
(* frames are then handed out, one at a time or in aligned runs, and never *)
(* come back.                                                              *)
(*                                                                         *)
(* A range of bytes is its first address and the one past its last.        *)
(* pmm_alloc_contiguous searches step by step; the other calls are atomic, *)
(* as nothing else runs during the boot.                                   *)
(***************************************************************************)
EXTENDS Integers

CONSTANTS
  PAGE_SIZE,
  MAX_PHYSICAL_BYTES,   \* UINT32_MAX + 1
  AddrMax,              \* UINT64_MAX; a smaller word when TLC runs
  Boots,     \* what the boot loader may report, see BootInfo
  Requests,  \* <<size, alignment>> pairs that a run of frames is asked for with
  Devices    \* <<phys_addr, size>> pairs that are reserved after the start

BootInfo == [mmap : SUBSET [base : Nat, length : Nat, available : BOOLEAN],
             map_readable : BOOLEAN,   \* the entries are well formed and in reach
             kernel_end : Nat,                  \* physical_alloc_start
             structures : SUBSET (Nat \X Nat),  \* <<address, size>>
             modules : SUBSET (Nat \X Nat),     \* <<mod_start, mod_end>>
             modules_readable : BOOLEAN]        \* at most 256, in reach

ASSUME PmmAssumption ==
  /\ PAGE_SIZE \in Nat \ {0}
  /\ MAX_PHYSICAL_BYTES \in Nat \ {0} /\ MAX_PHYSICAL_BYTES % PAGE_SIZE = 0
  /\ AddrMax \in Nat /\ AddrMax >= MAX_PHYSICAL_BYTES
  /\ Boots \subseteq BootInfo
  /\ Requests \subseteq (0..(MAX_PHYSICAL_BYTES - 1)) \X (0..(MAX_PHYSICAL_BYTES - 1))
  /\ Devices \subseteq Nat \X Nat

VARIABLES
  boot,          \* the boot loader's report
  allocated,     \* frames whose bit is set in physical_mem_bitmap
  total_frames,  \* 0 before pmm_init
  op,            \* the call in progress
  pages, alignment_frames, first,  \* its search for a run
  result,        \* what the last call returned
  lent,          \* history: frames handed out
  panic          \* why the kernel stopped, or "no"

search == <<op, pages, alignment_frames, first>>
vars == <<boot, allocated, total_frames, search, result, lent, panic>>

TOTAL_PAGES == MAX_PHYSICAL_BYTES \div PAGE_SIZE

-----------------------------------------------------------------------------
(* Which bits set_frames writes.                                            *)

Least(x, y) == IF x <= y THEN x ELSE y

\* Frame 0 is never touched, nor are those past the end of the memory.
Frames(from, to, total) == {f \in 1..(total - 1) : from <= f /\ f < to}

\* Wrong variant: a range is cut down to whole frames when it is reserved.
WholeFramesOnly(start, end, total) ==
  Frames((start + PAGE_SIZE - 1) \div PAGE_SIZE, Least(end, MAX_PHYSICAL_BYTES) \div PAGE_SIZE, total)

\* set_frames(start, end, true): every frame with a byte of the range.
Covering(start, end, total) ==
  IF start >= Least(end, MAX_PHYSICAL_BYTES) THEN {}
  ELSE Frames(start \div PAGE_SIZE,
              (Least(end, MAX_PHYSICAL_BYTES) + PAGE_SIZE - 1) \div PAGE_SIZE, total)

\* set_frames(start, end, false): the frames that lie within the range.
Inside(start, end, total) ==
  IF start >= Least(end, MAX_PHYSICAL_BYTES) THEN {}
  ELSE Frames((start + PAGE_SIZE - 1) \div PAGE_SIZE,
              Least(end, MAX_PHYSICAL_BYTES) \div PAGE_SIZE, total)

\* pmm_reserve_phys; a range that wraps ends at the top.
Reserved(addr, size, total) ==
  IF size = 0 \/ addr >= MAX_PHYSICAL_BYTES THEN {}
  ELSE Covering(addr, addr + size, total)

-----------------------------------------------------------------------------
(* The start.                                                               *)

Init ==
  /\ boot \in Boots
  /\ allocated = {} /\ total_frames = 0
  /\ op = "idle" /\ pages = 0 /\ alignment_frames = 1 /\ first = 0
  /\ result = 0 /\ lent = {}
  /\ panic = "no"

Ready == panic = "no" /\ op = "idle" /\ total_frames # 0

Panic(why) ==
  /\ panic' = why
  /\ UNCHANGED <<boot, allocated, total_frames, search, result, lent>>

End(e) == e.base + e.length
Entries(available) == {e \in boot.mmap : e.length > 0 /\ e.available = available}
\* What pass 0 of read_memory_map finds, cut off at the top of the memory
IsHighest(a) ==
  /\ \A e \in boot.mmap : e.length > 0 => a >= Least(End(e), MAX_PHYSICAL_BYTES)
  /\ a = 0 \/ \E e \in boot.mmap : e.length > 0 /\ a = Least(End(e), MAX_PHYSICAL_BYTES)

\* The passes 1 and 2 of read_memory_map over a bitmap of ones
MapRead(total) ==
  LET ones == 0..(TOTAL_PAGES - 1)
      freed == UNION {Inside(e.base, End(e), total) : e \in Entries(TRUE)}
      barred == UNION {Covering(e.base, End(e), total) : e \in Entries(FALSE)}
  IN (ones \ freed) \cup barred

\* reserve_boot_structures
BootStructures(total) ==
  (UNION {Reserved(s[1], s[2], total) : s \in boot.structures})
    \cup (UNION {Reserved(m[1], m[2] - m[1], total) : m \in boot.modules})

MapOk == boot.mmap # {} /\ boot.map_readable /\ \A e \in boot.mmap : End(e) <= AddrMax
ModulesOk == boot.modules_readable /\ \A m \in boot.modules : m[1] <= m[2]

\* All that pmm_init leaves set
Kept(total) ==
  MapRead(total) \cup Covering(0, boot.kernel_end, total) \cup BootStructures(total)

\* vmm_init calls it once, before any other call.
pmm_init ==
  /\ panic = "no" /\ total_frames = 0
  /\ \E highest \in 0..MAX_PHYSICAL_BYTES :
       /\ IsHighest(highest)
       /\ LET total == highest \div PAGE_SIZE
          IN IF ~MapOk THEN Panic("bad_map")
             ELSE IF total = 0 THEN Panic("no_memory")
             ELSE IF ~ModulesOk THEN Panic("bad_module")
             ELSE /\ total_frames' = total
                  /\ allocated' = Kept(total)
                  /\ UNCHANGED <<boot, search, result, lent, panic>>

-----------------------------------------------------------------------------
(* The calls.                                                               *)

Clear(f) == f \notin allocated

pmm_alloc_frame ==
  /\ Ready
  /\ \E f \in 1..(total_frames - 1) :
       /\ Clear(f)
       /\ \A g \in 1..(f - 1) : ~Clear(g)
       /\ allocated' = allocated \cup {f} /\ lent' = lent \cup {f}
       /\ result' = f * PAGE_SIZE
  /\ UNCHANGED <<boot, total_frames, search, panic>>

AllocFrameExhausted ==
  /\ Ready
  /\ \A f \in 1..(total_frames - 1) : ~Clear(f)
  /\ Panic("exhausted")

\* An addition of 32 bits
PagesOf(size) == ((size + PAGE_SIZE - 1) % MAX_PHYSICAL_BYTES) \div PAGE_SIZE
RequestOk(size, alignment) ==
  /\ size # 0 /\ size <= MAX_PHYSICAL_BYTES - PAGE_SIZE
  /\ alignment >= PAGE_SIZE /\ alignment % PAGE_SIZE = 0
  /\ PagesOf(size) <= total_frames

\* pmm_alloc_contiguous returns 0 at once, or begins its search.
pmm_alloc_contiguous(size, alignment) ==
  /\ Ready
  /\ IF RequestOk(size, alignment)
     THEN /\ op' = "contiguous" /\ first' = 1
          /\ pages' = PagesOf(size)
          /\ alignment_frames' = alignment \div PAGE_SIZE
          /\ UNCHANGED result
     ELSE result' = 0 /\ UNCHANGED search
  /\ UNCHANGED <<boot, allocated, total_frames, lent, panic>>

Searching == panic = "no" /\ op = "contiguous" /\ first <= total_frames - pages
Aligned == first % alignment_frames = 0
Run == first..(first + pages - 1)

Return(answer) ==
  /\ op' = "idle" /\ pages' = 0 /\ alignment_frames' = 1 /\ first' = 0
  /\ result' = answer
  /\ UNCHANGED <<boot, total_frames, panic>>

SearchOn(next) ==
  /\ first' = next
  /\ UNCHANGED <<boot, allocated, total_frames, op, pages, alignment_frames,
                 result, lent, panic>>

SearchAlign ==
  /\ Searching /\ ~Aligned
  /\ SearchOn(first + alignment_frames - (first % alignment_frames))

\* Wrong variants: the search goes on past the whole run, or at the frame
\* that is taken.
PastRun(f) == first + pages
AtFrame(f) == f
\* The search goes on past the frame that is taken.
PastFrame(f) == f + 1

SearchSkip ==
  /\ Searching /\ Aligned
  /\ \E f \in Run :
       /\ ~Clear(f)
       /\ \A g \in first..(f - 1) : Clear(g)
       /\ SearchOn(PastFrame(f))

SearchTake ==
  /\ Searching /\ Aligned /\ \A f \in Run : Clear(f)
  /\ allocated' = allocated \cup Run /\ lent' = lent \cup Run
  /\ Return(first * PAGE_SIZE)

SearchFail ==
  /\ panic = "no" /\ op = "contiguous" /\ first > total_frames - pages
  /\ Return(0)
  /\ UNCHANGED <<allocated, lent>>

Search == SearchAlign \/ SearchSkip \/ SearchTake \/ SearchFail

pmm_reserve_phys(addr, size) ==
  /\ Ready
  /\ allocated' = allocated \cup Reserved(addr, size, total_frames)
  /\ UNCHANGED <<boot, total_frames, search, result, lent, panic>>

\* runtime_panic never returns.
Halted == panic # "no" /\ UNCHANGED vars

Next ==
  \/ pmm_init
  \/ pmm_alloc_frame \/ AllocFrameExhausted
  \/ \E r \in Requests : pmm_alloc_contiguous(r[1], r[2])
  \/ Search
  \/ \E d \in Devices : pmm_reserve_phys(d[1], d[2])
  \/ Halted

Spec == Init /\ [][Next]_vars
\* The processor keeps executing a call that has begun.
FairSpec == Spec /\ WF_vars(Search)

-----------------------------------------------------------------------------
(* Properties.                                                              *)

\* Every variable keeps its type.
TypeInv ==
  /\ boot \in Boots
  /\ allocated \subseteq 0..(TOTAL_PAGES - 1)
  /\ total_frames \in 0..TOTAL_PAGES
  /\ op \in {"idle", "contiguous"}
  /\ pages \in Nat /\ first \in Nat /\ alignment_frames \in Nat \ {0}
  /\ result \in 0..(MAX_PHYSICAL_BYTES - 1)
  /\ lent \subseteq 1..(total_frames - 1)
  /\ panic \in {"no", "bad_map", "no_memory", "bad_module", "exhausted"}

\* The bytes of a frame, and those of the range [start, end).
Bytes(f) == (f * PAGE_SIZE)..(f * PAGE_SIZE + PAGE_SIZE - 1)
In(x, start, end) == start <= x /\ x < end

\* The bytes that the boot's report lets the kernel use.
Usable(x) ==
  /\ \E e \in boot.mmap : e.available /\ In(x, e.base, End(e))
  /\ \A e \in boot.mmap : In(x, e.base, End(e)) => e.available
  /\ ~In(x, 0, boot.kernel_end)
  /\ \A s \in boot.structures : ~In(x, s[1], s[1] + s[2])
  /\ \A m \in boot.modules : ~In(x, m[1], m[2])

\* Each byte of a frame handed out is RAM, and none belongs to the kernel, to
\* what the boot loader left, to a module or to a range that some entry of the
\* memory map keeps: the ranges overlap and end within frames.
OnlyUsableLent == \A f \in lent : \A x \in Bytes(f) : Usable(x)

\* A search for a run of frames ends.
SearchEnds == (op = "contiguous") ~> (op = "idle")

\* The bitmap implements the frame allocator its callers rely on.
Abs == INSTANCE FrameAllocator WITH
  free <- {f \in 1..(total_frames - 1) : Clear(f)},
  wanted <- IF op = "idle" THEN <<>> ELSE <<pages, alignment_frames>>,
  answer <- result \div PAGE_SIZE,
  status <- IF panic \in {"no", "exhausted"} THEN panic ELSE "bad_boot",
  started <- total_frames # 0
ImplementsFrameAllocator == Abs!Spec

=============================================================================
