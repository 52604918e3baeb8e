# KeiOS: models, checks and proofs

TLA+ models of the KeiOS kernel, the TLC runs that check them on small
instances, and TLAPS proofs of what matters most for every instance.
`PROJECT.json` lists the components, the runs, the lines of code behind every
definition, and the hazards that the properties are for.

## The system

KeiOS is a 32-bit kernel for one processor.  It boots through Multiboot, sets
up its memory, reads the ACPI tables, finds an initramfs among the boot
modules, starts its drivers, runs the init program in user mode, and then
serves a shell for ever.  There is one kernel thread; what runs besides it is
interrupt handlers.  C code calls C code directly; the IPC engine, the CPIO
reader and the display are Rust libraries called through C wrappers.

| component | state | operations | what makes it hard, and correct |
| --- | --- | --- | --- |
| kernel heap (`heap.c`) | list of segments, each with length, free flag, two links | `heap_init`, `kmalloc`, `kfree` | split and merge rewrite several headers in order; blocks must never overlap, and the only panics are those the caller earned |
| IPC (`ipc.rs`) | table of endpoints, each a ring of messages | `ipc_init`, create, send, receive | ring indices at their ends, slots reused, never cleared and handed out whole; each endpoint must be a FIFO of what lies within the lengths |
| input path (`ps2.c`, `irq.c`, shell `init.c`, `entry.c`) | controller, PIC, interrupt flag, ring, place of the thread | controller set-up, key press, IRQ, handler, poll, sleep | handler and thread share the ring; wake-ups between test and `hlt`; edges lost for good; replies of the controller behind bytes that wait |
| physical memory (`pmm.c`) | bitmap of frames | init from the memory map, allocate one or many, reserve | ranges that overlap and are not page-aligned; no frame may have two owners |
| paging and memory start-up (`vmm.c`, `mem.c`, `framebuffer.c`, `enter.c`) | page directory and tables | map a page, ask whether mapped | a table is a frame too, taken while a range is being mapped; each range has a window of its own |
| ACPI (`acpi.c`, `fadt.c`, `dsdt.c`, `shutdown.c`) | mapping window, found tables | map a range, find tables, parse the sleep package | lengths come from firmware |
| CPIO and modules (`archive.rs`, `wrapper.rs`, `core/cpio.c`, `multiboot.c`) | cursor into the archive | next entry, find | sizes come from the file; the walk must progress and stay inside |
| PS/2 decoder (`ps2.c`) | modifiers, extended prefix | one scancode per interrupt | state kept between interrupts |
| shell (`init.c`) | line buffer, position, history | one key | history ring, buffer limit, and the cursor on the screen that the code only implies |
| commands (`init.c`, `cmd.c`, `cmos.c`, `string.c`, `stdio`) | text colour, registers of the clock | parse a line, eleven commands, format numbers | arguments found by lengths in one copy of the line while the word is cut from another; a clock that goes on while it is read |
| terminal (`terminal.c`) | row, column | put a character, scroll, move the cursor | lines longer than the screen is wide |
| traps and system calls (`idt.c`, `gdt.c`, `tss.c`, stubs, `syscall.c`, `jump.asm`) | stacks, registers, segments, interrupt flag | interrupt and return, seven calls, enter user mode, exit | what one stub pushes, other code takes off; two stacks; a stack pointer that is saved for later; returns with interrupts off |
| timer and time (`pit.c`, `time.c`) | 64-bit tick count | tick, read | counted by the handler in halves that the thread reads one by one |
| panic, reboot, serial log, feature bits | - | - | small, or output only |

Components touch in three ways: calls on the one thread; the interrupt handler
that runs between any two instructions while interrupts are on; and memory
handed from one to another (frames to page tables and heap, the archive's
bytes to the boot code).


### What is hard

- **Interleaving.** The keyboard handler and the shell share one ring; the
  thread tests, enables interrupts and sleeps in separate instructions.
- **Edges and latches.** The interrupt controller remembers one edge per line
  and gives no second before the end of interrupt; the keyboard controller
  holds one byte at a time.
- **Headers in memory.** A split or a merge in the heap rewrites links of
  several segments; a mistake shows only calls later.
- **Ranges that are not aligned.** Frames and bytes, pages and tables, padded
  archive entries: a range ends within a unit, and the rounding must go the
  right way on either side.
- **Sizes that are not the kernel's own.** The boot loader's memory map, the
  ACPI tables and the archive carry lengths that must be believed only so far.
- **Words below the stack pointer.** `jump_to_user` leaves what the exit needs
  where the next interrupt in the kernel pushes its frame.
- **Values read piece by piece.** The tick count by halves, the clock by
  registers, the controller's replies by bytes, while their source goes on.
- **Two counts of one thing.** The shell's insertion point and the visible
  cursor, the ring's count and its indices, the driver's modifiers and the
  keys that are down.

- **Two copies of one line.** A command's word and its arguments come from
  different copies of what was entered.

Nothing is written to disk and no message crosses a network, so there are no
restarts to recover from and no messages to lose; a panic ends everything.

## The modules

Every `MC...` module only gives constants their values.  A definition that a
comment calls a *wrong variant* is not used by the specification: it is a
plausible mistake which `PROJECT.json` lists as a mutant, and with it in the
place of the definition that follows TLC finds a property violated.

| module | models | state and actions |
| --- | --- | --- |
| `Heap` | `heap.c` | The headers are a function from addresses to `[len, free, next, prev]`. A call is one step for its entry checks, one for each link it follows (`StepWalk`) and one to finish: `Split` on `kmalloc`, `MergeNext` and `MergePrev` on `kfree`, or the panic. Integers are words modulo `WordMax + 1`. |
| `BlockAllocator` | its promise | Disjoint live blocks; allocate any free range that is long enough, free a live one, or stop. |
| `IpcRing` | the ring of `ipc.rs` | Operators on one endpoint: `Put`, `Take`, `Reset`. Used by both modules that have rings. |
| `Ipc` | `ipc.rs` | The table of endpoints; one action for each call with its status: `ipc_init`, `ipc_endpoint_create`, `ipc_send`, `ipc_receive`, and the calls that fail. A receive answers with the whole slot. |
| `IpcFifo` | its promise | For every open endpoint a sequence of messages, as senders meant them; what stands behind a message in the buffer it is delivered in is left open. |
| `Traps` | `idt.c`, `gdt.c`, `tss.c`, `irq_stub.asm`, `syscall_stub.asm`, `jump.asm` | A processor is a record of registers, interrupt flag and stacks, a stack the sequence of its words; each operator is an instruction or a stub that maps a processor to the next. |
| `Ps2Setup` | `ps2_init` | One action per command to the 8042 with the byte that is read for it; bytes of keys stand before the replies. |
| `Uptime` | `time.c`, `cmd_uptime` | The count as a number with two halves; each load of a half is a step, and the compiler may read the count once or twice and either half first. |
| `InputPath` | `ps2.c`, `irq.c`, `boot/drivers.c` and `entry.c`, `init.c` (poll), the system calls | Composes the four above with `Ipc`: keyboard controller, timer, interrupt controller, handler, the endpoints, and the thread from `ps2_init` through the init program to the idle loop. The thread's steps are the instructions between which an interrupt may come, and `ipc_receive` is four of them. The program makes any calls, faults, and exits. A key is its number. |
| `Pmm` | `pmm.c` | The bitmap as the set of frames that are taken. `pmm_init` is one step with its passes in order (nothing else runs yet); `pmm_alloc_contiguous` takes a step for each place it tries. |
| `FrameAllocator` | its promise | Frames lent are free, aligned and consecutive; a search that fails has overlooked nothing. |
| `Keyboard` | `keyboard_handler` | The keyboard types ahead of the driver by up to `Backlog` keystrokes; each run of the handler decodes one byte from modifiers and prefix. |
| `Terminal` | `terminal.c` | Operators on a grid of cells with a cursor: put, newline, backspace, tab, scroll, move; `Feed` runs a sequence of calls. |
| `Shell` | the shell's `init.c` | One action per key and case of `shell_handle_key`, each with its calls to `Terminal`. The text a command prints is a choice from `Outputs`. |
| `LineEditor` | its promise | A line, an insertion point, and the last lines entered, newest first. |
| `Cpio` | `archive.rs`, `wrapper.rs`, `mods.c`, `multiboot.c`, `fs.c`, `core/cpio.c` | Boot modules are looked at one by one, and then their number; then one action for each way `next_entry` can end, in the order of its checks; then the assertion on the status. |
| `Paging` | `vmm.c` and the processor's page walk | Operators whose parameter is memory: directory and tables are pages of it, and the code's loads and stores go through the recursive mapping like any others. |
| `BootMemory` | `mem.c`, `acpi.c`, `fadt.c`, `dsdt.c`, `framebuffer_init`, `execute_init_binary` | Composes frames and paging along the boot. A loop over pages takes a step per page (`MapPage`, one `vmm_map_page` with what its caller does for that page); the searches between are steps of their own. |
| `AddressSpace` | its promise | Pages mapped one by one where nothing was mapped; the identity mapping goes at once. |
| `AcpiShutdown` | `acpi/shutdown.c` | The search for `_S5_`: a step per byte passed over, then length, count and integers. |
| `Text` | `string.c`, `stdio/buffer.c`, `stdio/print.c` | Operators on strings: `strtok`, `atoi`, `uvalue_to_str`, `kvsnprintf` format by format, `kprintf` with its buffer. |
| `Commands` | `shell_execute`, `cmd.c`, `cmos.c`, `bcd.c` | A line is entered; one action for each command and each refusal, with all that it prints; `datetime` takes a step per register while seconds pass; `shutdown` goes on as `AcpiShutdown`. |
| `HeapProofs`, `PmmProofs`, `BootMemoryProofs`, `ParserProofs`, `IpcProofs`, `InputPartsProofs`, `InputPathProofs`, `TypingProofs` | | Theorems and their lemmas. `ParserProofs` holds those of `Cpio`, `AcpiShutdown` and `Commands`, `InputPartsProofs` those of the parts of `InputPath` (`IpcRing`, `Traps`, `Ps2Setup`, `Uptime`), `TypingProofs` those of `Keyboard` and `Shell`. |

A panic is a terminal state in every module.  Variables that a comment calls
*history* or *ghost* are not in the code: they remember what callers were given
or typed, so that a property can speak of it.

## The runs

| run | bounds, and why they are enough | what it shows |
| --- | --- | --- |
| `heap` | 10-bit words, an arena of twelve 16-byte units whose ends need not be aligned. Three blocks with free ones between them fit, so both merges, a split in the middle and one that leaves too little all happen, and sizes near the top of the word wrap. | The list tiles the arena and is coalesced after every call, live blocks survive untouched, a panic has the reason it names, walks end, and the heap implements `BlockAllocator`. |
| `ipc` | Two endpoints of two slots (identifiers 0 to 3), payloads of up to two bytes, lengths 0, 2 and 3. Indices wrap, queues fill, every status is returned, and the engine restarts over full rings. | Indices and count agree, every endpoint is a FIFO whose messages come with their own sender, length and bytes up to the length. |
| `input_path` | Three keys whose codes go from one byte to two, a ring of two, three endpoints, one system call before the exit with messages of length 1 (which the shell takes for a key) or 3 (which it refuses), ticks at any time, a count of two halves of two values with three ticks to the second, and one tick during `uptime`. The ring wraps and overflows, interrupts nest in the program and in the kernel, at every word of `jump_to_user` and of the receive. | Keys and the program's messages arrive in order, and none is lost short of the panic on a full ring; a byte that waits is always announced again; an interrupt gives back the place, the stack and the registers it came between, and a call all but `eax`; the exit comes back to the boot unless an interrupt fell in one instruction; no reply of the controller is taken for another's; the uptime shown is near the time; every key typed is handled unless the kernel stopped. |
| `init_return` | The same with one key and no call. | The exit that does not come back (below). |
| `pmm` | Ten frames of four bytes and nine reports of the boot loader: overlapping entries in either order, ranges within a frame, modules and their payloads, more memory than the kernel supports, malformed reports; reservations within frames and past the end. | No byte of a frame lent belongs to anybody else, searches end, and the bitmap implements `FrameAllocator`. |
| `keyboard` | Nine keys: a letter, Enter, both Shifts, Caps Lock, both Controls, an arrow and the keypad digit that has the arrow's code; three held at once, two keystrokes ahead, Pause and error bytes at any time. | Once the driver has caught up its modifiers are those of the keys down; no key is forgotten; each is published with the character it had when typed. |
| `shell` | Lines of up to three letters, two lines remembered, three lines entered, a screen of 6 by 2, on which a line with its prompt fits. History is full and wraps. | Buffer, ring and indices implement `LineEditor`; the screen shows the line and the cursor stands at the insertion point. |
| `shell_narrow` | The same on a screen of 5 by 2. | The cursor is lost when a line reaches the edge (below). |
| `cpio` | Archives of up to two entries with names of two and five bytes and data of none or five (padded differently), whole, cut to the first eight bytes or by up to an entry, and with one header garbled in nine ways, and none, one or two modules, or three where two are the most that the boot accepts. | What is handed out lies in the archive and apart; whole archives read back entry for entry; cut ones are refused; parsing ends. |
| `boot_memory` | Pages of nine words, 24 frames of RAM, 130 machines: root tables with and without the FADT, good and bad lengths, tables across pages, 32- and 64-bit pointers, too many tables for the window, scattered and scarce frames, framebuffers absent, unaligned or too large, init programs missing, empty, and of one page to more than fit. The program takes two page tables, the stack shares the second. Unwritten memory reads as entries for user mode. | No frame of RAM has two uses; Ring 3 reaches exactly its program and stack; tables and pixels lie where the pointers say, whatever is mapped later; the boot gives up for firmware only if the firmware is malformed or too large; mapping a page changes no other; the boot ends. |
| `framebuffer_window` | Framebuffers larger than the window below the recursive mapping. | The page directory is overwritten (below). |
| `commands` | Some 170 lines, each in each colour: every command with and without arguments, blanks before, between and behind the words, numbers about 15, 256 and `INT_MAX` (here 999); tick counts about each unit of time; a clock of twelve seconds to the minute and two of everything else, started anywhere, with two seconds passing; for `shutdown` alone packages in four length encodings and five integer encodings, behind nothing, parts of the name or packages that are malformed, every cut, and all strings of up to three of nine telling bytes behind the name. | A line does what its words say whatever blanks stand around them; times and dates are read back from the screen digit for digit; the date shown is never behind and is ahead only if a minute ended; no byte is read outside the firmware's table nor an integer outside its package, and exactly what was written in the package is sent to the ports, or nothing. |

The types of the heap, the endpoints and the frames are proved and not run:
see below.  Every run checks for deadlock: a stopped kernel is modelled by a step that
changes nothing.

### Fairness

- `Heap`, `Pmm`: weak fairness of the steps of a call that has begun. The
  processor goes on executing; both run with nothing to wait for.
- `InputPath`: weak fairness of the timer's tick and of a handler's steps;
  strong fairness of the delivery of each line, since an interrupt that is
  pending comes when interrupts are let in, even if briefly; strong fairness of
  the thread, because interrupts cannot take all its time: handlers are a few
  instructions, the tick comes every millisecond. Keys have no fairness: nobody
  need type.
- `Cpio`, `BootMemory`: weak fairness of the next step. The boot is one thread
  without interrupts.
- `Ipc`, `Keyboard`, `Shell`, `Commands`: none, they are checked for safety.

### Assumptions about the surroundings

- `Keyboard`: no key is down when the driver starts; a held Caps Lock repeats
  and toggles, as the code takes it. No key's release has the code of the
  prefix or of an error: scan code set 1 leaves 0x60 and 0x61 unassigned.
- `Shell`: what a command prints is letters and other glyphs, newlines and tabs,
  and ends with a newline or has cleared the screen (`OutputAssumption`), as
  every command's output does.
- `Cpio`: `AsWritten` says what `cpio` writes: entries one behind the other at
  multiples of four, from the start to the trailer (`WriterAssumption`). A
  whole archive holds all that up to the padding of the trailer, and one init
  program at most; one that was cut does not hold all of it. A cut within the
  zeros that fill up the last block loses nothing and is no cut. Any other
  archive is called garbled, and only `TypeInv` and `EntriesApart` are about it.
- `BootMemory`: the processor's TLB agrees with the tables, since each change
  is followed by the invalidation of the page. Firmware tables lie in memory
  that the boot loader does not report as available, or else are found before
  that memory runs out. `FramesApart` says where the lengths must be right. The
  windows lie one above the other and begin on pages (`LayoutAssumption`), as
  the constants of `mem.c`, `acpi.c`, `framebuffer.c` and `enter.c` do.
- `InputPath`: the init program exits or stops the machine, in finitely many
  calls. Its messages can be told from keys, which the shell cannot do; its
  buffers are valid memory, as the kernel checks no pointer. The timer's period
  is longer than the handling of one tick. A key is a number of 16 bits.
- `Ps2Setup`: the controller's reply has come when the pause is over, and after
  `ps2_init` has disabled the keyboard its keys stay in it.
- `AcpiShutdown`: `WrittenIn` says what an AML compiler writes: the length in
  any of its four forms, reserved bits as they fall, each integer in any of its
  encodings (`AmlWriterAssumption`). A table whose contents are `known` holds the
  pair that was `written` in the first place at which a package of two small
  integers stands, or has no such place. Of any other only `ShutdownTypeInv` speaks.
- `Commands`: the clock is in BCD and counts 24 hours, as the code takes it.
  A line is shorter than the buffer of `kprintf` (`LinesAssumption`), as
  `SHELL_INPUT_BUF_SIZE` is against `PRINT_BUF_SIZE`.
- `Text`: a string of TLA+ is the sequence of its characters, which TLC knows
  and TLAPS does not. `IsText` says it of one string: parts of parts are parts,
  the whole is a part, a part has the length of its interval.
  `StringsAssumption` says it of the few literals that the proofs look into, and
  `LinesAssumption` of the lines; TLC evaluates both.

## Findings

1. `shell_narrow` / `CursorAtInsertion`: `terminal_putchar` wraps at the right
   edge and `terminal_cursor_left` does not wrap back, so after an insertion
   into a line that reaches the edge the cursor is not "back to the insertion
   position" (`src/src/kernel/shell/init.c:230`).
2. `framebuffer_window` / `DirectoryKept`: `framebuffer_init` admits 256 MiB
   from `0xF0000000`; the last 4 MiB are the recursive mapping, so the pages of
   a larger framebuffer than 252 MiB are written into the page directory.
   `src/docs/subsystem/MEMORY.md:17` gives the framebuffer a separate window.
3. `init_return` / `ExitReturns`: `jump_to_user` keeps the stack pointer for the
   exit and then moves `esp` above what it has saved, with interrupts on. An
   interrupt before `iretd` writes over the words, and system call 6 then
   returns to one of the frame's, against "Returns to the kernel boot path"
   (`src/docs/subsystem/SYSCALL.md:22`). `KernelResumed` shows that nothing else
   loses them.

Seen while modelling, and not the subject of a run:

- `src/docs/subsystem/PROCESS.md:10`, `src/README.md:77` and `src/TODO.md:10`
  call the launch of the init program disabled; `kernel_entry` makes it
  (`src/src/kernel/boot/entry.c:64`).
- A message comes with leftovers: `ipc_send` writes only the bytes announced
  (`ipc.rs:164`), `ipc_receive` copies the whole slot (`ipc.rs:193`), and system
  call 5 passes that on to the program (`syscall_table/t5.c`). The receiver of a
  short message also finds the end of a longer one that its endpoint held
  earlier, whoever that was for. No comment or document promises otherwise, and
  `shell_poll_input` goes by the length. `Ipc` delivers the slot as it is, and
  `ImplementsIpcFifo` is about the bytes up to the length alone.
- An empty `bin/init.bin` panics (`enter.c:29`) where a missing one leads to the
  shell.
- The exit leaves the user's data segments and disabled interrupts behind;
  `kernel_entry` enables interrupts itself, and the segments are as wide as the
  kernel's.
- `pit_init(1193, ...)` (`src/src/kernel/boot/drivers.c:66`) makes about 1193
  ticks a second, of which `cmd_uptime` counts 1000 to the second: the uptime
  shown runs ahead of the time of day by a fifth.
- `cmd_datetime` does not look at the clock's update flag. Reading from the
  seconds up it can be a unit ahead, never behind; a register read in the
  middle of its own update is not modelled.
- `color 5 ` is refused, because arguments keep their trailing blanks; a number
  beyond an `int` may be taken for any colour.
- `%5d` ignores its width for want of a zero, and `kvprintf` prints as many
  bytes as the whole text has, beyond its buffer of 1024; no text of the kernel
  comes to either.

## What is proved

The theorems hold for every value of the constants that satisfies the named
assumptions of the modules.

- **Heap** (`HeapAssumption`: words of a multiple of 16 values, addresses and
  sizes are words). `TypeCorrect`, `ListCorrect`, `NoFreePairs`, `BlocksSafe`,
  `PanicsCorrect`, and `Refinement`: the heap implements `BlockAllocator`. The
  inductive invariant joins the checked invariants with what holds in the middle
  of a call: the walk stands on a header, every free segment it passed was too
  small (`WalkSound`), the request was rounded (`RequestOk`), there are no
  segments before `heap_init` and the arena keeps its ends. The lemmas say of
  `Split`, `MergeNext` and `MergePrev` that a well-formed list stays one and
  which segments it keeps; a free pair may exist only at the segment being
  freed, and the two merges remove it. The length of the list is never needed,
  so nothing is proved by induction over it.
- **IPC** (`RingAssumption`, `IpcAssumption`). `TypeCorrect`, `RingsCorrect`,
  and `Refinement`: the rings implement `IpcFifo`, whose answers are those of
  `ipc.rs` with each delivered slot cut to its length (`Delivered`). The invariant is
  `TypeInv /\ RingConsistent`; the lemmas on `IpcRing` are the arithmetic of
  an index that wraps at most once, and from it that `Put` appends to what the
  ring holds and `Take` removes its head.
- **Frames** (`PmmAssumption`). `TypeCorrect`, `OnlyUsable`, and `Refinement`.
  To the type invariant come `KeptApart` (a frame outside the set that
  initialisation leaves free is never free again) and `SearchSound` (where the
  search stands, every earlier place is too short or not aligned). Rounding is
  in two lemmas: what is reserved covers every byte of its range, what is freed
  lies inside its own.
- **Boot memory** (`PagingAssumption`, `BootAssumption`, `LayoutAssumption`; and
  `ScreenFits`: a framebuffer that the kernel accepts ends below the recursive
  mapping, which finding 2 shows to be needed). `WindowsHold`: the invariant
  `WindowsInv` joins the types, the place of each mapping in its window
  (`JobOk`), and that of the pages in the windows exactly those are mapped that
  the boot has asked for by now (`Done`). Its base is that the two addresses
  which `vmm_map_page` computes lie in the recursive mapping, so that its stores
  change one entry of the directory or of one table (`EntryOfDirectory`,
  `EntryOfTable`, `MapPageEffect`). From it follow `UserIsConfined`;
  `MapsOnePage`, the refinement of `AddressSpace`; and `DirectoryStays`: no
  other framebuffer than that of finding 2 harms the directory.
  `TablesStayRead` adds that each table found is read through pages that are
  mapped to where it lies: what a mapping that is under way has still to fill
  (`TablesInv`). `FramesStayApart` adds that every frame of a page table, of the
  heap or of the program was taken, once (`FramesInv`), and that what the ACPI
  and framebuffer windows show of a conforming firmware is its own
  (`FirmwareMapped`); its further condition `FirmwareReserved` is that the
  memory map gives none of that as free. The run goes beyond it, with firmware
  that does but is read before those frames are taken. `PanicsCorrect`: if the
  firmware is conforming and its tables fit the window, `RoomInv` says at each
  step of the search how much of the window is claimed, to the page, and that
  the first pointer to the FADT is not passed over, so no check fails.
- **Archive** (`CpioAssumption`, `WriterAssumption`). `TypeCorrect`: the cursor never leaves the
  archive, whatever sizes its headers give; `EntriesCorrect`: what is handed
  out lies in it, entries apart. The invariant adds that the archive is one of
  the modules' and that nothing is handed out before parsing starts. Every size
  is compared before it is added, so no addition reaches the end of a word.
  `ReadsWhole` and `CutsRefused`: `ReadInv` says that the cursor stands on a
  header of the archive and that the entries handed out are those in front of
  it (`Entries(offset)`), from which a step takes the next (`EntriesGrow`). The
  code's rounding is the format's (`PadsAlike`); in a whole archive no check of
  `next_entry` fails (`NoProblem`), and the trailer of one that was cut lies
  beyond its end (`CutTrailer`).
- **Shutdown** (`ShutdownAssumption`: the bytes are bytes; `AmlWriterAssumption`).
  `ShutdownTypeCorrect`: no read passes the end of the table, no integer its package.
  The invariant adds where each step stands (`Position`): the name and its
  opcode fit in front of the length, and the count lies in the package.
  `SleepCorrect`: `Meant` says what was parsed at the place where the search
  stands (`ReadHere`), that no package stands at an earlier one (`Passed`) and
  what was sent (`Outcome`). `LengthReads` and `IntegerReads` say that what is
  written there is read, `LengthWrites` and `IntegerWrites` that what is read is
  written there; so a place is given up exactly where no package stands, and
  since one place holds one pair (`OnePair`) the pair sent is the one written.
- **Commands** (`CommandsAssumption`, `LinesAssumption`, `TextAssumption`,
  `StringsAssumption`). `DateCorrect`: `ClockInv` compares the clock with the
  date that would be shown if the registers left were read now: the fields read
  so far below what the clock still holds of the larger units. That date never
  lies behind the time of asking (`NotBehind`), and ahead of the clock only once
  a minute ended (`NotAhead \/ rolled`); a second that passes carries into the
  unread fields only when the read ones all go round. It holds for units of any
  lengths, not only 60 and 24. `ShutsDown`: the command implements
  `AcpiShutdown`, and inherits its properties. `LinesMeant`: `Shape` says where
  the first word and the rest of a line stand; `strtok` and the skipping of
  blanks end there (`ParsedAs`), and the words of the line, counted, give the
  same (`SaidAs`). `EchoWrites` unfolds the recursion of `kvsnprintf` over the
  format `"%s\n"`, and `ChosenIs` compares the two ways to a colour, by `NAMES`
  and by `atoi`, overflow included, with the colours meant.
- **Controller set-up** (no constants). `RepliesCorrect`: the invariant says
  that the port is empty between commands, or holds exactly the one byte that
  the replies were pushed back by, and which bytes that may be at each command
  (`OutOfStep`); none of them passes both tests that follow, so the way to the
  end is barred once a reply is late.
- **Uptime** (`UptimeAssumption`: halves and seconds of at least one value).
  `UptimeCorrect`: while the low half does not go round, the high half stands
  still and the low halves loaded lie between the call's and the present one
  and never fall (`Steady`). From this each reading lies between the call and
  now, and seconds of an earlier with the rest of a later reading lie at most a
  second's rest behind.

- **Input path** (`RingAssumption`, the assumptions of `Ipc`, `Uptime` and
  `InputPath`). `RunInv` gives for every place of the thread and of the handlers
  the processor as the instructions before it have made it: the words on each
  stack, the registers, the interrupt flag. `KeptContext` and `ResumedKernel`
  follow from it, since an interrupt only adds its frame and takes it away
  again; the exception is the instruction of finding 3, which the invariant
  carries as a case of its own. `PathSetsUp` and `PathKeepsTime` show that
  `InputPath` takes the steps of `Ps2Setup` and `Uptime`, and so inherits
  `RepliesInStep` and `UptimeNear`. `AnnouncedKeys`: a byte that waits in the
  controller is announced by a request that is pending or being served, or the
  handler that reads it has not begun. `OrderedKeys`: what was typed is the
  concatenation of what the shell took, what `ipc_receive` holds, what the ring
  holds and what waits in the controller; each step moves one member from the
  end of one part to the end of the next, and the sequences are compared member
  by member.
- **Keyboard** (`KeyboardAssumption`). `ModifiersKnown`, `AllPublished`,
  `KeysAsTyped`: the invariant runs the driver over the bytes it has not read
  yet and compares what it would know and publish then with the keys that are
  down and the keys typed. A run of the handler moves one byte from what is
  unread to what is read; a keystroke adds bytes whose decoding is known.
- **Shell** (`ShellAssumption`, `OutputAssumption`). `EditorRefines`: the
  invariant `EditInv` ties `input_len`, `input_pos`, the bytes of the buffer and
  the ring of history with its indices to the line, insertion point and list
  of `LineEditor`. `LineOnScreen` and `CursorOnScreen`: `ScreenInv` says that
  behind the mark of the prompt's row stand the letters of the line and then
  blanks, for as long as the line leaves room for the cursor (`LineFits`); each
  key's calls to the terminal are run one after the other. `WideScreen`: on a
  screen wider than the buffer the condition always holds.

Where an argument goes along a sequence (the calls of one key, the bytes
unread, the pointers of a root table) it is made by the least number for which it would fail: the recursive
functions are unfolded at one number and the library's well-foundedness of the
naturals does the rest, since its induction theorems take an operator.

Model-checked only: liveness (`CallsEnd`, `KeysHandled`, `SearchEnds`,
`BootGoesOn`, `BootEnds`), which needs fairness and `ENABLED`, beyond the
prover; and `TimesReadBack`, which reads numbers back out of strings that were
put together from digits and formats: its proof would need the laws of
concatenation for all such strings, and `StringsAssumption` claims no more than
TLC can evaluate.

## What is not modelled

- Drawing, the VGA registers, the serial log, the screen of a panic: output
  that nothing reads back. The wording of help and usage texts is one line.
- The bytes of descriptors and the feature bits; the gates, levels and stacks
  that they stand for are in `Traps`. `%f` of `kvsnprintf`, which nothing uses.
- `enable_acpi_mode`, which polls a port a bounded number of times, and the
  choice among the reset methods: what follows depends on the machine only.
- The scan for the ACPI root pointer and the copying and comparing helpers of
  the kernel library: functions without state, whose results are inputs here
  or TLA+'s own operators.
- The checks of the boot loader's magic number and the order of the first steps
  of the boot, which nothing interleaves with.
- Build scripts and generated data.

## Plan

What would extend the work, in the order of what it protects:

1. `Pmm` as the allocator of `BootMemory` through its abstract specification,
   instead of the order of frames that `BootMemory` takes as given.
2. `TimesReadBack` as a theorem, once the strings of `Text` are sequences of
   characters instead.
3. Larger programs in `InputPath`: two calls need some ten times the states.
