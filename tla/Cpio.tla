-------------------------------- MODULE Cpio --------------------------------
(***************************************************************************)
(* The initramfs: the boot modules of src/src/kernel/multiboot.c and       *)
(* mods.c, the parser of src/rust/crates/drivers/src/cpio, and what        *)
(* src/src/kernel/core/cpio.c keeps of the archive.                        *)
(*                                                                         *)
(* The bytes of an archive are given by what a header read at an offset    *)
(* says, if it is one.                                                     *)
(***************************************************************************)
EXTENDS Integers, Sequences

CONSTANTS
  HEADER_SIZE,
  UsizeMax,      \* UINT32_MAX; a smaller word when TLC runs
  MaxModules,    \* 256, in boot_init_load_modules
  BootModules    \* sequences of modules that the boot loader may pass

\* A name of which the bytes are no string is "malformed".
Header == [name : {"bin/init.bin", "other", "TRAILER!!!", "malformed"},
           namesize : 0..UsizeMax, filesize : 0..UsizeMax]

\* Entries of an archive, each with the place of its data
Entry == [name : {"bin/init.bin", "other"}, at : Nat, start : Nat, len : Nat]

\* An archive as it was written, or cut short, or with a header garbled;
\* written holds the entries that were written.
IsArchive(a) ==
  /\ a.size \in 0..UsizeMax
  /\ \A o \in DOMAIN a.headers : o \in Nat /\ a.headers[o] \in Header
  /\ a.written \subseteq Entry
  /\ a.state \in {"whole", "cut", "garbled"}

\* What cpio writes with the header h at offset o: the data begins and the next
\* header stands at a multiple of four.
Padded(v) == 4 * ((v + 3) \div 4)
DataOf(o, h) == Padded(o + HEADER_SIZE + h.namesize)
NextOf(o, h) == Padded(DataOf(o, h) + h.filesize)
EntryOf(o, h) == [name |-> h.name, at |-> o, start |-> DataOf(o, h), len |-> h.filesize]

\* One entry stands behind the other from the start to the trailer, which is
\* the last but for what fills up its block; what a cut has taken away counts.
AsWritten(a) ==
  LET places == DOMAIN a.headers
      trailers == {o \in places : a.headers[o].name = "TRAILER!!!"}
      inits == {o \in places : a.headers[o].name = "bin/init.bin"}
      next(o) == NextOf(o, a.headers[o])
  IN /\ 0 \in places
     /\ \A o \in places : a.headers[o].name # "malformed" /\ a.headers[o].namesize # 0
     /\ \A o \in places \ trailers : next(o) \in places /\ \A p \in places : p <= o \/ next(o) <= p
     /\ trailers # {}
     /\ \A o \in trailers :
          /\ a.headers[o].filesize = 0 /\ \A p \in places : p <= o
          /\ IF a.state = "whole" THEN next(o) <= a.size ELSE a.size < next(o)
     /\ a.written = {EntryOf(o, a.headers[o]) : o \in places \ trailers}
     /\ a.state = "whole" => \A o, p \in inits : o = p

ASSUME CpioAssumption ==
  /\ HEADER_SIZE \in Nat \ {0} /\ UsizeMax \in Nat /\ MaxModules \in Nat
  /\ \A ms \in BootModules :
       /\ Len(ms) \in Nat /\ DOMAIN ms = 1..Len(ms)
       /\ \A i \in DOMAIN ms : ms[i].initramfs \in BOOLEAN /\ IsArchive(ms[i].archive)

ASSUME WriterAssumption ==
  \A ms \in BootModules : \A i \in DOMAIN ms :
    ms[i].archive.state # "garbled" => AsWritten(ms[i].archive)

VARIABLES
  modules,
  loaded,       \* how many modules mod_cb was called for
  archive,      \* GLOBAL_ARCHIVE: its data, None before cpio_init
  offset, trailer_seen,
  visited,      \* history: entries that the callback was given
  init_binary,  \* <<start, size>> of init_binary, or None
  status,       \* what cpio_parse returned, "none" before
  panic

vars == <<modules, loaded, archive, offset, trailer_seen, visited, init_binary, status, panic>>

None == <<>>

Init ==
  /\ modules \in BootModules /\ loaded = 0
  /\ archive = None /\ offset = 0 /\ trailer_seen = FALSE
  /\ visited = {} /\ init_binary = None
  /\ status = "none" /\ panic = "no"

Panic(why) ==
  /\ panic' = why
  /\ UNCHANGED <<modules, loaded, archive, init_binary>>

-----------------------------------------------------------------------------
(* mb_parse_mods and mod_cb: every module called initramfs becomes the      *)
(* archive in turn; how many there were is looked at behind the last.       *)

InfoOk(a) == a.size # 0 /\ a.size <= UsizeMax \div 2
Module == modules[loaded + 1]
Loading == panic = "no" /\ loaded < Len(modules)

LoadModule ==
  /\ Loading /\ (Module.initramfs => InfoOk(Module.archive))
  /\ loaded' = loaded + 1
  /\ IF Module.initramfs
     THEN archive' = Module.archive /\ offset' = 0 /\ trailer_seen' = FALSE
     ELSE UNCHANGED <<archive, offset, trailer_seen>>
  /\ UNCHANGED <<modules, visited, init_binary, status, panic>>

LoadFails ==
  /\ Loading /\ Module.initramfs /\ ~InfoOk(Module.archive)
  /\ Panic("cpio_init")
  /\ UNCHANGED <<offset, trailer_seen, visited, status>>

AllLoaded == panic = "no" /\ loaded = Len(modules)

TooManyModules ==
  /\ AllLoaded /\ Len(modules) > MaxModules
  /\ Panic("modules")
  /\ UNCHANGED <<offset, trailer_seen, visited, status>>

Loaded == AllLoaded /\ Len(modules) <= MaxModules

-----------------------------------------------------------------------------
(* CpioArchive::next_entry.                                                 *)

\* Wrong variants: an addition that wraps; names and data that are not padded.
Wraps(v) == v % (UsizeMax + 1)
Unpadded(v) == v
Sum(v) == v    \* a checked addition: past UsizeMax it is no address
align_to_4(v) == Sum((v + 3) - ((v + 3) % 4))

IsHeader == offset \in DOMAIN archive.headers
TheHeader == archive.headers[offset]
NameEnd == Sum(offset + HEADER_SIZE + TheHeader.namesize)
DataStart == align_to_4(NameEnd)
DataEnd == Sum(DataStart + TheHeader.filesize)
NextOffset == align_to_4(DataEnd)
IsTrailer == TheHeader.name = "TRAILER!!!"

\* Wrong variant: the padding after the data may be missing.
DataBeyond == DataEnd > archive.size
Beyond == DataEnd > archive.size \/ NextOffset > archive.size

NameOk == TheHeader.namesize # 0 /\ NameEnd <= archive.size /\ TheHeader.name # "malformed"
HeaderInside == archive.size - offset >= HEADER_SIZE

\* The first check that fails, or "ok"
Problem ==
  CASE ~HeaderInside -> "TruncatedArchive"
    [] HeaderInside /\ ~IsHeader -> "InvalidHeader"
    [] HeaderInside /\ IsHeader /\ ~NameOk -> "InvalidName"
    [] OTHER ->
         IF DataStart > archive.size THEN "TruncatedArchive"
         ELSE IF DataEnd > UsizeMax THEN "DataRange"
         ELSE IF Beyond THEN "TruncatedArchive"
         ELSE IF IsTrailer /\ TheHeader.filesize # 0 THEN "InvalidHeader"
         ELSE "ok"

\* A trailer is refused for its data once the cursor has moved behind it.
TrailerWithData == Problem = "InvalidHeader" /\ IsHeader

Parsing == Loaded /\ archive # None /\ status = "none"

\* Wrong variant: the parser stays where it is.
Stays == offset
Moves == NextOffset

\* cpio_parse calls cpio_cb with the entry.
ParseEntry ==
  /\ Parsing /\ ~trailer_seen /\ Problem = "ok" /\ ~IsTrailer
  /\ offset' = Moves
  /\ visited' = visited \cup {[name |-> TheHeader.name, at |-> offset,
                               start |-> DataStart, len |-> TheHeader.filesize]}
  /\ IF TheHeader.name # "bin/init.bin" THEN UNCHANGED <<init_binary, panic>>
     ELSE IF init_binary # None THEN panic' = "duplicate" /\ UNCHANGED init_binary
     ELSE init_binary' = <<DataStart, TheHeader.filesize>> /\ UNCHANGED panic
  /\ UNCHANGED <<modules, loaded, archive, trailer_seen, status>>

ParseTrailer ==
  /\ Parsing /\ ~trailer_seen /\ Problem = "ok" /\ IsTrailer
  /\ offset' = NextOffset /\ trailer_seen' = TRUE /\ status' = "ok"
  /\ UNCHANGED <<modules, loaded, archive, visited, init_binary, panic>>

\* Wrong variant: the end of the bytes is as good as a trailer.
EndOrProblem == IF offset >= archive.size THEN "ok" ELSE Problem
Reported == Problem

\* boot_init_cpio_filesystem asserts that the status is CPIO_OK.
ParseFails ==
  /\ Parsing /\ ~trailer_seen /\ Problem # "ok"
  /\ status' = Reported
  /\ IF Reported = "ok" THEN UNCHANGED <<modules, loaded, archive, init_binary, panic>>
     ELSE Panic("malformed")
  /\ offset' = IF TrailerWithData THEN NextOffset ELSE offset
  /\ UNCHANGED <<trailer_seen, visited>>

\* Without an archive there is nothing to parse.
NoArchive ==
  /\ Loaded /\ archive = None /\ status = "none"
  /\ status' = "InvalidInfo" /\ Panic("malformed")
  /\ UNCHANGED <<offset, trailer_seen, visited>>

\* The kernel has stopped, or goes on with its drivers.
Finished == (panic # "no" \/ status # "none") /\ UNCHANGED vars

Next ==
  \/ LoadModule \/ LoadFails \/ TooManyModules
  \/ ParseEntry \/ ParseTrailer \/ ParseFails \/ NoArchive
  \/ Finished

Spec == Init /\ [][Next]_vars
\* The boot goes on as long as it has something to do.
FairSpec == Spec /\ WF_vars(Next)

-----------------------------------------------------------------------------
(* Properties.                                                              *)

\* Every variable keeps its type, and the cursor stays in the archive.
TypeInv ==
  /\ modules \in BootModules /\ loaded \in 0..Len(modules)
  /\ archive # None => archive.size <= UsizeMax \div 2 /\ offset \in 0..archive.size
  /\ trailer_seen \in BOOLEAN
  /\ visited \subseteq Entry
  /\ status \in {"none", "ok", "InvalidInfo", "InvalidHeader", "InvalidName",
                 "TruncatedArchive", "DataRange"}

\* Headers and data that are handed out lie in the archive, one behind the
\* other: sizes come from the file and may be anything.
EntriesApart ==
  /\ \A e \in visited : e.at + HEADER_SIZE < e.start /\ e.start + e.len <= offset
  /\ \A e, f \in visited : e.at < f.at => e.start + e.len <= f.at

\* An archive as it was written is read to its end, entry for entry, and the
\* init program kept is the data of the only entry of that name.
ReadsBack ==
  (loaded = Len(modules) /\ archive # None /\ archive.state = "whole") =>
    /\ status \in {"none", "ok"} /\ visited \subseteq archive.written
    /\ status = "ok" =>
         /\ visited = archive.written
         /\ {<<e.start, e.len>> : e \in {w \in visited : w.name = "bin/init.bin"}}
              = {init_binary} \ {None}

\* An archive that was cut short does not pass for a whole one.
CutNoticed ==
  (loaded = Len(modules) /\ archive # None /\ archive.state = "cut") => status # "ok"

\* Parsing ends, whatever the bytes are.
BootGoesOn == <>(status # "none" \/ panic # "no")

=============================================================================
