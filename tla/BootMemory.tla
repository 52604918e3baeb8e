----------------------------- MODULE BootMemory -----------------------------
(***************************************************************************)
(* The boot as far as it maps memory: mem.c maps the heap, acpi.c, fadt.c  *)
(* and dsdt.c map the firmware's tables to find them, framebuffer.c maps   *)
(* the screen and enter.c the init program, all through vmm_map_page,      *)
(* which takes frames for page tables in the middle of it.                 *)
(*                                                                         *)
(* Nothing else runs.  A loop over pages takes a step for each page, job   *)
(* being what is left of it; what frames are free at the start and how     *)
(* they are found is the matter of Pmm.                                    *)
(***************************************************************************)
EXTENDS Paging, FiniteSets, FiniteSetsExt

CONSTANTS
  FRAMES,      \* MAX_PHYSICAL_BYTES in frames
  HEAP_PAGES,
  KERNEL_HEAP_VIRTUAL_START, ACPI_MAPPING_BASE, ACPI_MAPPING_LIMIT,
  virtual_base, virtual_size,   \* of the framebuffer's window
  USER_PROGRAM_BASE,
  HEADER, FADT,   \* sizes of an ACPI header and of the FADT that is required
  Machines        \* see Machine

\* A machine: its RAM in frames, which of them Pmm does not hand out, and
\* what the firmware and the boot loader give.  rom holds the words of the
\* firmware's tables: a signature, a length, then pointers.  init is the size of
\* bin/init.bin, if the initramfs has_init.
Machine ==
  [total : 1..FRAMES, used : SUBSET (0..(FRAMES - 1)),
   rom : UNION {[D -> Nat] : D \in SUBSET (0..(FRAMES * N - 1))},
   is_xsdt : BOOLEAN, root : Nat, framebuffer : Nat \X Nat,
   has_init : BOOLEAN, init : Nat]

ASSUME BootAssumption ==
  /\ FRAMES \in Nat /\ HEAP_PAGES \in Nat \ {0}
  /\ \A k \in Machines :
       /\ k.total \in 1..FRAMES /\ DIR \in k.used /\ 0 \in k.used
       /\ \A p \in DOMAIN k.rom : p \in 0..(FRAMES * N - 1) /\ k.rom[p] \in Nat
       /\ k.root \in Nat /\ k.framebuffer \in Nat \X Nat
       /\ k.has_init \in BOOLEAN /\ k.init \in Nat /\ (~k.has_init => k.init = 0)

USER_STACK_PAGE == KERNEL_DIR * N * N - N

\* The windows lie one above the other, each at the start of a page: the user's
\* between the identity mapping and the kernel, the others above the kernel.
ASSUME LayoutAssumption ==
  /\ HEADER \in Nat /\ HEADER > 1 /\ FADT \in Nat /\ FADT > HEADER
  /\ \A a \in {USER_PROGRAM_BASE, ACPI_MAPPING_BASE, ACPI_MAPPING_LIMIT,
              KERNEL_HEAP_VIRTUAL_START, virtual_base} : a \in Nat /\ a % N = 0
  /\ N * N <= USER_PROGRAM_BASE /\ USER_PROGRAM_BASE <= USER_STACK_PAGE
  /\ (KERNEL_DIR + LARGE) * N * N <= ACPI_MAPPING_BASE
  /\ ACPI_MAPPING_BASE <= ACPI_MAPPING_LIMIT /\ ACPI_MAPPING_LIMIT <= KERNEL_HEAP_VIRTUAL_START
  /\ KERNEL_HEAP_VIRTUAL_START + HEAP_PAGES * N <= virtual_base
  /\ virtual_base <= (N - 1) * N * N /\ virtual_size \in Nat

VARIABLES
  machine,
  mem,          \* memory as Paging has it
  allocated,    \* frames that pmm.c does not hand out
  acpi_mapping_next,
  job,          \* the mapping in progress
  pc,           \* what comes when it is done
  root, fadt, dsdt,   \* tables: <<virtual address, physical address>>
  entry,        \* index in the root table, and the pointer read there
  screen,       \* framebuffer_ready
  panic

tables == <<root, fadt, dsdt>>
memory == <<mem, allocated, acpi_mapping_next>>
vars == <<machine, memory, job, pc, tables, entry, screen, panic>>

None == <<>>
FACP == 1000
DSDT == 2000

NoJob == [left |-> 0, virt |-> 0, phys |-> 0, at |-> 0, kind |-> "none"]

Init ==
  /\ machine \in Machines
  /\ mem = [f \in {DIR} |-> initial_page_dir] /\ allocated = machine.used
  /\ acpi_mapping_next = ACPI_MAPPING_BASE
  /\ job = NoJob /\ pc = "vmm"
  /\ root = None /\ fadt = None /\ dsdt = None /\ entry = <<0, 0>>
  /\ screen = FALSE /\ panic = "no"

-----------------------------------------------------------------------------
(* Frames, and pages mapped one after another.                              *)

Free(taken) == (1..(machine.total - 1)) \ taken
Lowest(taken) == Min(Free(taken))

Running(p) == panic = "no" /\ job.left = 0 /\ pc = p
Panic(why) == panic' = why /\ UNCHANGED <<machine, memory, job, pc, tables, entry, screen>>

Pages(words) == (words + N - 1) \div N

\* at is where the caller finds phys when the job is done.
Map(kind, virt, phys, words, next) ==
  /\ job' = [left |-> Pages(words), virt |-> virt, phys |-> phys \div N, kind |-> kind,
             at |-> virt + (phys % N)]
  /\ pc' = next

\* acpi_map_range reserves a page before it maps it; the init program's page
\* is a new frame.
Kept == allocated \cup (IF job.kind = "acpi" THEN {job.phys} \cap (0..(machine.total - 1)) ELSE {})
IsUser == job.kind = "user"
Data == IF IsUser THEN Lowest(Kept) ELSE job.phys
WithData == Kept \cup (IF IsUser THEN {Data} ELSE {})
ForTable == IF NeedsTable(mem, job.virt) THEN 1 ELSE 0
Enough == Cardinality(Free(Kept)) >= ForTable + (IF IsUser THEN 1 ELSE 0)

\* Wrong variants: the table's frame stays free; a page is not counted.
Untaken(taken, f) == taken
Taken(taken, f) == taken \cup {f}

MapPage ==
  /\ panic = "no" /\ job.left > 0 /\ Enough
  /\ ~Refuses(mem, job.virt, Data)
  /\ IF NeedsTable(mem, job.virt)
     THEN LET f == Lowest(WithData)
          IN /\ allocated' = Taken(WithData, f)
             /\ mem' = SetPage(NewTable(mem, job.virt, f, IsUser), job.virt, Data, IsUser)
     ELSE allocated' = WithData /\ mem' = SetPage(mem, job.virt, Data, IsUser)
  /\ job' = [job EXCEPT !.left = @ - 1, !.virt = @ + N, !.phys = @ + 1]
  /\ acpi_mapping_next' = IF job.kind = "acpi" /\ job.left = 1 THEN job.virt + N
                          ELSE acpi_mapping_next
  /\ UNCHANGED <<machine, pc, tables, entry, screen, panic>>

\* pmm_alloc_frame has no frame left.
MapPageExhausted ==
  /\ panic = "no" /\ job.left > 0 /\ ~Enough
  /\ Panic("exhausted")

-----------------------------------------------------------------------------
(* mem_init: the directory, and the heap's run of frames.                   *)

VmmInit ==
  /\ Running("vmm")
  /\ mem' = Recursive(mem) /\ pc' = "heap"
  /\ UNCHANGED <<machine, allocated, acpi_mapping_next, job, tables, entry, screen, panic>>

Runs == {f \in Free(allocated) : f..(f + HEAP_PAGES - 1) \subseteq Free(allocated)}

MapHeap ==
  /\ Running("heap") /\ Runs # {}
  /\ allocated' = allocated \cup (Min(Runs)..(Min(Runs) + HEAP_PAGES - 1))
  /\ Map("heap", KERNEL_HEAP_VIRTUAL_START, Min(Runs) * N, HEAP_PAGES * N, "root")
  /\ UNCHANGED <<machine, mem, acpi_mapping_next, tables, entry, screen, panic>>

HeapFails == Running("heap") /\ Runs = {} /\ Panic("no_heap")

-----------------------------------------------------------------------------
(* acpi_init, find_fadt and parse_dsdt.  Every table is mapped twice: its   *)
(* header, which says how long it is, and then the whole of it.             *)

Mappable(phys, length) ==
  /\ phys # 0 /\ length # 0 /\ phys + length <= FRAMES * N
  /\ acpi_mapping_next + Pages((phys % N) + length) * N <= ACPI_MAPPING_LIMIT

MapRange(phys, length, next) ==
  /\ Mappable(phys, length)
  /\ Map("acpi", acpi_mapping_next, phys, (phys % N) + length, next)

\* A word of the firmware's memory, read through its mapping
Word(v) ==
  LET p == FrameAt(mem, v) * N + (v % N)
  IN IF IsMapped(mem, v) /\ p \in DOMAIN machine.rom THEN machine.rom[p] ELSE 0
Signature == Word(job.at)
Length == Word(job.at + 1)

Acpi == UNCHANGED <<machine, memory, screen, panic>>
MapOrPanic(phys, length, next) ==
  IF Mappable(phys, length)
  THEN MapRange(phys, length, next) /\ Acpi /\ UNCHANGED <<tables, entry>>
  ELSE Panic("acpi")

RootHeader ==
  /\ Running("root")
  /\ IF machine.root >= FRAMES * N THEN Panic("acpi")
     ELSE MapOrPanic(machine.root, HEADER, "root_header")

RootTable ==
  /\ Running("root_header")
  /\ IF Length < HEADER THEN Panic("acpi") ELSE MapOrPanic(machine.root, Length, "root_table")

PointerSize == IF machine.is_xsdt THEN 2 ELSE 1
\* Wrong variant: the last pointer is not looked at.
AllButOne == (Word(root[1] + 1) - HEADER) \div PointerSize - 1
Entries == (Word(root[1] + 1) - HEADER) \div PointerSize

FindFadt ==
  /\ Running("root_table")
  /\ IF (Length - HEADER) % PointerSize # 0 THEN Panic("acpi")
     ELSE /\ root' = <<job.at, machine.root>> /\ entry' = <<0, 0>> /\ pc' = "entry"
          /\ Acpi /\ UNCHANGED <<job, fadt, dsdt>>

\* continue, in the loop of find_fadt
\* Wrong variant: the table is looked at again.
SameEntry(next) == next = entry
NextEntry(next) == next = <<entry[1] + 1, 0>>
SkipEntry == NextEntry(entry') /\ pc' = "entry" /\ Acpi /\ UNCHANGED <<job, tables>>

EntryHeader ==
  /\ Running("entry") /\ entry[1] < Entries
  /\ LET phys == Word(root[1] + HEADER + entry[1] * PointerSize)
     IN IF phys < FRAMES * N /\ Mappable(phys, HEADER)
        THEN /\ MapRange(phys, HEADER, "entry_header") /\ entry' = <<entry[1], phys>>
             /\ Acpi /\ UNCHANGED tables
        ELSE SkipEntry

IsFadt == Length >= HEADER /\ Signature = FACP

EntryTable ==
  /\ Running("entry_header")
  /\ IF IsFadt /\ Mappable(entry[2], Length)
     THEN MapRange(entry[2], Length, "fadt") /\ Acpi /\ UNCHANGED <<tables, entry>>
     ELSE SkipEntry

NoFadt == Running("entry") /\ entry[1] >= Entries /\ Panic("acpi")

DsdtHeader ==
  /\ Running("fadt")
  /\ IF Length < FADT \/ ~Mappable(Word(job.at + HEADER), HEADER) THEN Panic("acpi")
     ELSE /\ MapRange(Word(job.at + HEADER), HEADER, "dsdt_header")
          /\ fadt' = <<job.at, entry[2]>>
          /\ Acpi /\ UNCHANGED <<root, dsdt, entry>>

DsdtTable ==
  /\ Running("dsdt_header")
  /\ IF Length < HEADER THEN Panic("acpi")
     ELSE MapOrPanic(Word(fadt[1] + HEADER), Length, "dsdt")

DsdtFound ==
  /\ Running("dsdt")
  /\ IF Signature # DSDT THEN Panic("acpi")
     ELSE /\ dsdt' = <<job.at, Word(fadt[1] + HEADER)>> /\ pc' = "screen"
          /\ Acpi /\ UNCHANGED <<job, root, fadt, entry>>

-----------------------------------------------------------------------------
(* framebuffer_init and execute_init_binary.                                *)

\* Wrong variant: the offset of the first byte in its page is left out.
SizeAlone == machine.framebuffer[2]
MapSize == machine.framebuffer[2] + (machine.framebuffer[1] % N)
FramebufferOk ==
  /\ machine.framebuffer[1] # 0 /\ machine.framebuffer[2] # 0 /\ MapSize <= virtual_size
  /\ machine.framebuffer[1] + machine.framebuffer[2] <= FRAMES * N

MapFramebuffer ==
  /\ Running("screen") /\ FramebufferOk
  /\ Map("screen", virtual_base, machine.framebuffer[1], MapSize, "screen_mapped")
  /\ UNCHANGED <<machine, memory, tables, entry, screen, panic>>

FramebufferReady ==
  /\ Running("screen_mapped")
  /\ screen' = TRUE /\ pc' = "init"
  /\ UNCHANGED <<machine, memory, job, tables, entry, panic>>

NoFramebuffer ==
  /\ Running("screen") /\ ~FramebufferOk
  /\ pc' = "init"
  /\ UNCHANGED <<machine, memory, job, tables, entry, screen, panic>>

InitFits == machine.init <= USER_STACK_PAGE - USER_PROGRAM_BASE

MapProgram ==
  /\ Running("init") /\ machine.has_init /\ machine.init > 0 /\ InitFits
  /\ Map("user", USER_PROGRAM_BASE, 0, machine.init, "stack")
  /\ UNCHANGED <<machine, memory, tables, entry, screen, panic>>

\* bin/init.bin is empty, or reaches into the stack.
ProgramRefused ==
  /\ Running("init") /\ machine.has_init
  /\ machine.init = 0 \/ ~InitFits
  /\ Panic("init_refused")

MapStack ==
  /\ Running("stack")
  /\ Map("user", USER_STACK_PAGE, 0, N, "user_mode")
  /\ UNCHANGED <<machine, memory, tables, entry, screen, panic>>

\* The initramfs holds no init program: the shell starts.
NoProgram ==
  /\ Running("init") /\ ~machine.has_init
  /\ pc' = "shell"
  /\ UNCHANGED <<machine, memory, job, tables, entry, screen, panic>>

Booted == (panic # "no" \/ Running("user_mode") \/ Running("shell")) /\ UNCHANGED vars

FindTables ==
  \/ RootHeader \/ RootTable \/ FindFadt \/ EntryHeader \/ EntryTable \/ NoFadt
  \/ DsdtHeader \/ DsdtTable \/ DsdtFound

Next ==
  \/ VmmInit \/ MapHeap \/ HeapFails
  \/ MapPage \/ MapPageExhausted
  \/ FindTables
  \/ MapFramebuffer \/ FramebufferReady \/ NoFramebuffer
  \/ MapProgram \/ ProgramRefused \/ MapStack \/ NoProgram
  \/ Booted

Spec == Init /\ [][Next]_vars
\* The kernel thread goes on as long as it has something to do.
FairSpec == Spec /\ WF_vars(Next)

-----------------------------------------------------------------------------
(* What the boot promises of the memory.                                    *)

PagesAt(virt, words) == {v \div N : v \in virt..(virt + words - 1)}
SelfMap == {p \in 0..(N * N - 1) : DirIndex(p * N) = N - 1}
Mapped == {p \in 0..(N * N - 1) : IsMapped(mem, p * N)} \ SelfMap
FrameOf(p) == FrameAt(mem, p * N)

HeapWindow == PagesAt(KERNEL_HEAP_VIRTUAL_START, HEAP_PAGES * N)
AcpiWindow == PagesAt(ACPI_MAPPING_BASE, ACPI_MAPPING_LIMIT - ACPI_MAPPING_BASE)
ScreenWindow == PagesAt(virtual_base, virtual_size)
UserWindow == PagesAt(USER_PROGRAM_BASE, USER_STACK_PAGE + N - USER_PROGRAM_BASE)

TableDirs ==
  {i \in Index \ {N - 1} : mem[DIR][i].present /\ ~mem[DIR][i].large}
TableFrames == {mem[DIR][i].frame : i \in TableDirs}
OwnPages == Mapped \cap (HeapWindow \cup UserWindow)
OwnFrames == {FrameOf(p) : p \in OwnPages}

Program == PagesAt(USER_PROGRAM_BASE, machine.init)
Stack == {Page(USER_STACK_PAGE)}

\* Ring 3 reaches the pages of its program and its stack, all of them when it
\* starts, and nothing else: not the heap, a table of ACPI, or the page tables
\* through the directory's entry for itself (enter.c:36-48, the user bits).
UserConfined ==
  LET reached == {p \in 0..(N * N - 1) : UserReaches(mem, p * N)}
  IN /\ reached \subseteq (IF machine.init = 0 THEN {} ELSE Program \cup Stack)
     /\ Running("user_mode") => reached = Program \cup Stack

\* Words from virt on are those from phys on.
Reads(virt, phys, words) ==
  \A k \in 0..(words - 1) :
    /\ IsMapped(mem, virt + k)
    /\ FrameAt(mem, virt + k) * N + ((virt + k) % N) = phys + k
Rom(p) == IF p \in DOMAIN machine.rom THEN machine.rom[p] ELSE 0
ReadsTable(t) == Reads(t[1], t[2], Rom(t[2] + 1))
Pointed(i) == Rom(machine.root + HEADER + i * PointerSize)
PointerIds == 0..((Rom(machine.root + 1) - HEADER) \div PointerSize - 1)
Pointers == {Pointed(i) : i \in PointerIds}

\* Whatever was mapped later, the tables that acpi.c found are read whole through
\* their mappings, they are the ones the firmware's pointers lead to, and so is
\* every pixel's place in the framebuffer.
RangesMapped ==
  /\ root # None => root[2] = machine.root /\ ReadsTable(root)
  /\ fadt # None =>
       fadt[2] \in Pointers /\ Rom(fadt[2]) = FACP /\ Rom(fadt[2] + 1) >= FADT /\ ReadsTable(fadt)
  /\ dsdt # None =>
       dsdt[2] = Rom(fadt[2] + HEADER) /\ Rom(dsdt[2]) = DSDT /\ ReadsTable(dsdt)
  /\ screen =>
       Reads(virtual_base + (machine.framebuffer[1] % N), machine.framebuffer[1], machine.framebuffer[2])

Table(p) == p \in 1..(FRAMES * N - 1) /\ Rom(p + 1) >= HEADER /\ p + Rom(p + 1) <= FRAMES * N
\* Firmware as the ACPI specification has it
Conforming ==
  /\ Table(machine.root) /\ (Rom(machine.root + 1) - HEADER) % PointerSize = 0
  /\ \A p \in Pointers : Table(p)
  /\ Cardinality({p \in Pointers : Rom(p) = FACP}) = 1
  /\ \A p \in Pointers : Rom(p) = FACP =>
       Rom(p + 1) >= FADT /\ Table(Rom(p + HEADER)) /\ Rom(Rom(p + HEADER)) = DSDT
HeaderPages(p) == Pages((p % N) + HEADER)
WholePages(p) == Pages((p % N) + Rom(p + 1))
FadtId == Min({i \in PointerIds : Rom(Pointed(i)) = FACP})
\* The tables that are looked at, mapped twice unless their header is enough
PagesNeeded ==
  LET twice(p) == HeaderPages(p) + WholePages(p)
      headers[i \in 0..(FadtId + 1)] == IF i = 0 THEN 0 ELSE headers[i - 1] + HeaderPages(Pointed(i - 1))
      found == Pointed(FadtId)
  IN twice(machine.root) + headers[FadtId + 1] + WholePages(found) + twice(Rom(found + HEADER))

\* No frame of RAM serves two purposes: every page table, page of the heap and
\* page of the program has a frame of its own, which was free, which Pmm will
\* not hand out again, and which none of the tables it found or the screen lies
\* in, unless the firmware's lengths are wrong (pmm_alloc_frame in vmm_map_page,
\* between the frames that its callers take and reserve).
FramesApart ==
  pc # "vmm" =>
    /\ Cardinality(TableFrames \cup OwnFrames)
         = Cardinality(TableDirs) + Cardinality(OwnPages)
    /\ TableFrames \cup OwnFrames \subseteq (allocated \ machine.used) \cap (1..(machine.total - 1))
    /\ Conforming =>
         (TableFrames \cup OwnFrames) \cap {FrameOf(p) : p \in Mapped \cap (AcpiWindow \cup ScreenWindow)} = {}

\* The boot gives the machine up for its firmware only if the firmware is
\* malformed or its tables do not fit the window of mappings that only grows:
\* the root table, the FADT and the DSDT, each mapped twice, and the headers of
\* the tables before the FADT (acpi.c:37, and the loop of find_fadt).
AcpiPanicJustified ==
  panic = "acpi" /\ Conforming =>
    ACPI_MAPPING_BASE + PagesNeeded * N > ACPI_MAPPING_LIMIT

\* vmm_map_page keeps its promise to its callers in every window: it maps one
\* page where nothing was mapped, and moves, remaps or uncovers no other, also
\* when it has to start a table (AddressSpace).
Pictured == [p \in Mapped |-> [frame |-> FrameOf(p), user |-> UserReaches(mem, p * N)]]
Space == INSTANCE AddressSpace WITH
  space <- Pictured,
  Bootstrap <- [p \in PagesAt(0, N * N) \cup PagesAt(KERNEL_DIR * N * N, LARGE * N * N) |->
                  [frame |-> IF p < N THEN p ELSE p - KERNEL_DIR * N, user |-> FALSE]],
  Low <- PagesAt(0, N * N),
  Windows <- ((HeapWindow \cup AcpiWindow \cup ScreenWindow) \X {FALSE}) \cup (UserWindow \X {TRUE})
ImplementsAddressSpace == Space!Spec

\* The boot comes to its end, whatever the firmware's tables say: in Ring 3, in
\* the shell or in a panic.
BootEnds == <>(panic # "no" \/ Running("user_mode") \/ Running("shell"))

\* MEMORY.md:10-18: mapping preserves the bootstrap mappings and works through
\* the recursive one, and the framebuffer has a window of its own.
DirectoryKept ==
  pc # "vmm" =>
    \A i \in {N - 1} \cup (KERNEL_DIR..(KERNEL_DIR + LARGE - 1)) :
      mem[DIR][i] = Recursive([f \in {DIR} |-> initial_page_dir])[DIR][i]

=============================================================================
