---------------------------- MODULE ParserProofs ----------------------------
(***************************************************************************)
(* Proofs about the parsers of what comes from outside.  For every word    *)
(* size, every size of a header and every file, the parser of Cpio stays   *)
(* in the archive, and so does what it hands out; what cpio wrote is read  *)
(* back.  For every content of the table, the search of AcpiShutdown finds *)
(* what was written as the sleep package.  For every line, Commands does   *)
(* what its words say, and the date it reads is close to the clock's.      *)
(***************************************************************************)
EXTENDS Cpio, Commands, SequenceTheorems, FiniteSetTheorems, WellFoundedInduction, TLAPS

\* The archive comes from one of the modules, and nothing is handed out
\* before the last of them was looked at.
ArchiveKnown == archive # None => IsArchive(archive)
NothingEarly ==
  /\ loaded < Len(modules) => visited = {} /\ status = "none"
  /\ archive = None => visited = {}

\* The inductive invariant.
IInv == TypeInv /\ EntriesApart /\ ArchiveKnown /\ NothingEarly

-----------------------------------------------------------------------------
(* The arithmetic of next_entry.                                            *)

LEMMA AlignUp ==
  ASSUME NEW v \in Nat
  PROVE  align_to_4(v) \in Nat /\ align_to_4(v) >= v
<1> DEFINE r == (v + 3) % 4
<1>1. r \in 0..3
  OBVIOUS
<1>2. align_to_4(v) = (v + 3) - r
  BY DEF align_to_4, Sum
<1> HIDE DEF r
<1>. QED
  BY <1>1, <1>2

\* A header that was read is one of the file's, whatever its sizes are.
LEMMA HeaderType ==
  ASSUME archive # None, IsArchive(archive), IsHeader
  PROVE  TheHeader \in Header
BY DEF IsArchive, IsHeader, TheHeader

LEMMA RangeTypes ==
  ASSUME archive # None, IsArchive(archive), IsHeader, offset \in Nat
  PROVE  /\ NameEnd \in Nat /\ DataStart \in Nat /\ DataEnd \in Nat /\ NextOffset \in Nat
         /\ NameEnd = offset + HEADER_SIZE + TheHeader.namesize
         /\ DataStart >= NameEnd
         /\ DataEnd = DataStart + TheHeader.filesize /\ NextOffset >= DataEnd
<1>1. TheHeader.namesize \in Nat /\ TheHeader.filesize \in Nat
  BY HeaderType, CpioAssumption DEF Header
<1>2. /\ NameEnd = offset + HEADER_SIZE + TheHeader.namesize
      /\ NameEnd \in Nat
  BY <1>1, CpioAssumption DEF NameEnd, Sum
<1>3. DataStart \in Nat /\ DataStart >= NameEnd
  BY <1>2, AlignUp DEF DataStart
<1>4. DataEnd = DataStart + TheHeader.filesize /\ DataEnd \in Nat
  BY <1>1, <1>3 DEF DataEnd, Sum
<1>5. NextOffset \in Nat /\ NextOffset >= DataEnd
  BY <1>4, AlignUp DEF NextOffset
<1>. QED
  BY <1>2, <1>3, <1>4, <1>5

\* The cursor moves only behind data that lie in the archive.
LEMMA MovesInside ==
  ASSUME archive # None, IsArchive(archive), offset \in Nat,
         Problem = "ok" \/ TrailerWithData
  PROVE  /\ IsHeader
         /\ NextOffset \in Nat /\ NextOffset > offset /\ NextOffset <= archive.size
         /\ DataStart \in Nat /\ offset + HEADER_SIZE <= DataStart
         /\ DataStart + TheHeader.filesize <= NextOffset
         /\ NameOk
<1>1. archive.size \in Nat /\ HEADER_SIZE \in Nat \ {0}
  BY CpioAssumption DEF IsArchive
<1>2. HeaderInside /\ IsHeader /\ NameOk /\ ~Beyond
  BY DEF Problem, TrailerWithData
<1>3. NextOffset <= archive.size
  BY <1>1, <1>2, RangeTypes DEF Beyond
<1>4. TheHeader.namesize \in Nat /\ TheHeader.filesize \in Nat
  BY <1>2, HeaderType, CpioAssumption DEF Header
<1>. QED
  BY <1>1, <1>2, <1>3, <1>4, RangeTypes

LEMMA ProblemType ==
  Problem \in {"ok", "InvalidHeader", "InvalidName", "TruncatedArchive", "DataRange"}
BY DEF Problem

-----------------------------------------------------------------------------
(* The invariant.                                                           *)

LEMMA InitIInv == Init => IInv
<1> SUFFICES ASSUME Init PROVE IInv
  OBVIOUS
<1>1. Len(modules) \in Nat
  BY CpioAssumption DEF Init
<1>2. trailer_seen \in BOOLEAN
  BY DEF Init
<1>. QED
  BY <1>1, <1>2 DEF Init, IInv, TypeInv, EntriesApart, ArchiveKnown, NothingEarly

LEMMA LoadModuleIInv == IInv /\ LoadModule => IInv'
<1> SUFFICES ASSUME IInv, LoadModule PROVE IInv'
  OBVIOUS
<1>1. /\ Len(modules) \in Nat /\ loaded \in 0..Len(modules) /\ loaded < Len(modules)
      /\ DOMAIN modules = 1..Len(modules)
  BY CpioAssumption DEF IInv, TypeInv, LoadModule, Loading
<1>2. IsArchive(Module.archive)
  <2> DEFINE m == loaded + 1
  <2>1. m \in DOMAIN modules
    BY <1>1
  <2>2. Module = modules[m]
    BY DEF Module
  <2> HIDE DEF m
  <2>. QED
    BY <2>1, <2>2, CpioAssumption DEF IInv, TypeInv
<1>3. visited = {} /\ visited' = {} /\ status = "none" /\ status' = "none" /\ modules' = modules
  BY <1>1 DEF IInv, NothingEarly, LoadModule
<1>4. loaded' \in 0..Len(modules)
  BY <1>1 DEF LoadModule
<1>5. CASE Module.initramfs
  <2>1. archive' = Module.archive /\ offset' = 0 /\ trailer_seen' = FALSE /\ InfoOk(Module.archive)
    BY <1>5 DEF LoadModule
  <2>2. archive'.size \in Nat
    BY <1>2, <2>1, CpioAssumption DEF IsArchive
  <2>3. archive'.size <= UsizeMax \div 2 /\ offset' \in 0..archive'.size /\ trailer_seen' \in BOOLEAN
    <3>1. trailer_seen' \in BOOLEAN
      BY <2>1
    <3>2. offset' \in 0..archive'.size
      BY <2>1, <2>2
    <3>. QED
      BY <2>1, <3>1, <3>2 DEF InfoOk
  <2>4. TypeInv'
    BY <1>3, <1>4, <2>3 DEF IInv, TypeInv
  <2>5. ArchiveKnown'
    BY <1>2, <2>1 DEF ArchiveKnown, IsArchive
  <2>. QED
    BY <1>3, <2>1, <2>4, <2>5 DEF IInv, EntriesApart, NothingEarly
<1>6. CASE ~Module.initramfs
  <2>1. archive' = archive /\ offset' = offset /\ trailer_seen' = trailer_seen
    BY <1>6 DEF LoadModule
  <2>2. TypeInv'
    BY <1>3, <1>4, <2>1 DEF IInv, TypeInv
  <2>3. ArchiveKnown'
    BY <2>1 DEF IInv, ArchiveKnown, IsArchive
  <2>. QED
    BY <1>3, <2>2, <2>3 DEF IInv, EntriesApart, NothingEarly
<1>. QED
  BY <1>5, <1>6

\* A step that leaves the parser where it is.
LEMMA StandsStill ==
  ASSUME IInv, UNCHANGED <<modules, archive, offset, trailer_seen, visited, init_binary>>,
         loaded' = loaded, status' = status \/ loaded = Len(modules),
         status' \in {"none", "ok", "InvalidInfo", "InvalidHeader", "InvalidName",
                      "TruncatedArchive", "DataRange"}
  PROVE  IInv'
BY DEF IInv, TypeInv, EntriesApart, ArchiveKnown, IsArchive, NothingEarly

LEMMA LoadFailsIInv == IInv /\ LoadFails => IInv'
BY StandsStill DEF LoadFails, Panic, IInv, TypeInv

LEMMA TooManyIInv == IInv /\ TooManyModules => IInv'
BY StandsStill DEF TooManyModules, AllLoaded, Panic, IInv, TypeInv

\* What holds while the parser works.
LEMMA ParsingTypes ==
  ASSUME IInv, Parsing
  PROVE  /\ archive # None /\ IsArchive(archive)
         /\ archive.size \in Nat /\ offset \in Nat
         /\ Len(modules) \in Nat /\ loaded = Len(modules)
<1>1. archive # None /\ IsArchive(archive) /\ archive.size \in Nat /\ loaded = Len(modules)
  BY CpioAssumption DEF IInv, ArchiveKnown, Parsing, Loaded, AllLoaded, IsArchive
<1>. QED
  BY <1>1, CpioAssumption DEF IInv, TypeInv

\* The cursor moved forward and nothing was handed out.
LEMMA MovesOnly ==
  ASSUME IInv, Parsing, UNCHANGED <<modules, loaded, archive, visited>>,
         trailer_seen' \in BOOLEAN,
         status' \in {"ok", "InvalidHeader", "InvalidName", "TruncatedArchive", "DataRange"},
         offset' = NextOffset, Problem = "ok" \/ TrailerWithData
  PROVE  IInv'
<1>1. offset' \in 0..archive.size /\ offset' > offset /\ offset \in Nat /\ offset' \in Nat
  BY ParsingTypes, MovesInside
<1>2. TypeInv'
  BY <1>1 DEF IInv, TypeInv
<1>3. EntriesApart'
  <2>1. ASSUME NEW e \in visited PROVE e.start \in Nat /\ e.len \in Nat
    BY DEF IInv, TypeInv, Entry
  <2>. QED
    BY <1>1, <2>1 DEF IInv, EntriesApart
<1>4. ArchiveKnown'
  BY DEF IInv, ArchiveKnown, IsArchive
<1>. QED
  BY <1>2, <1>3, <1>4, ParsingTypes DEF IInv, NothingEarly

LEMMA ParseTrailerIInv == IInv /\ ParseTrailer => IInv'
BY MovesOnly DEF ParseTrailer

LEMMA ParseFailsIInv == IInv /\ ParseFails => IInv'
<1> SUFFICES ASSUME IInv, ParseFails PROVE IInv'
  OBVIOUS
<1>1. /\ status' \in {"ok", "InvalidHeader", "InvalidName", "TruncatedArchive", "DataRange"}
      /\ UNCHANGED <<modules, loaded, archive, init_binary, trailer_seen, visited>>
  BY ProblemType DEF ParseFails, Reported, Panic
<1>2. CASE TrailerWithData
  BY <1>1, <1>2, MovesOnly DEF ParseFails, IInv, TypeInv
<1>3. CASE ~TrailerWithData
  BY <1>1, <1>3, StandsStill DEF ParseFails, Parsing, Loaded, AllLoaded
<1>. QED
  BY <1>2, <1>3

LEMMA NoArchiveIInv == IInv /\ NoArchive => IInv'
BY StandsStill DEF NoArchive, Loaded, AllLoaded, Panic

LEMMA ParseEntryIInv == IInv /\ ParseEntry => IInv'
<1> SUFFICES ASSUME IInv, ParseEntry PROVE IInv'
  OBVIOUS
<1> DEFINE new == [name |-> TheHeader.name, at |-> offset,
                   start |-> DataStart, len |-> TheHeader.filesize]
<1>1. /\ Parsing /\ Problem = "ok" /\ ~IsTrailer /\ offset' = NextOffset
      /\ visited' = visited \cup {new}
      /\ UNCHANGED <<modules, loaded, archive, trailer_seen, status>>
  BY DEF ParseEntry, Moves
<1>2. /\ archive # None /\ IsArchive(archive) /\ archive.size \in Nat /\ offset \in Nat
      /\ loaded = Len(modules) /\ Len(modules) \in Nat
  BY <1>1, ParsingTypes
<1>3. /\ NextOffset \in Nat /\ NextOffset > offset /\ NextOffset <= archive.size
      /\ DataStart \in Nat /\ IsHeader /\ NameOk
      /\ DataStart + TheHeader.filesize <= NextOffset
  BY <1>1, <1>2, MovesInside
<1>4. TheHeader \in Header
  BY <1>2, <1>3, HeaderType
<1>5. TheHeader.filesize \in Nat /\ TheHeader.namesize \in Nat /\ TheHeader.namesize # 0
  BY <1>3, <1>4, CpioAssumption DEF Header, NameOk
<1>6. offset + HEADER_SIZE < DataStart
  BY <1>2, <1>3, <1>5, RangeTypes, CpioAssumption
<1>7. new \in Entry
  <2>1. TheHeader.name \in {"bin/init.bin", "other"}
    BY <1>1, <1>3, <1>4 DEF Header, NameOk, IsTrailer
  <2>. QED
    BY <2>1, <1>2, <1>3, <1>5 DEF Entry
<1>8. TypeInv'
  BY <1>1, <1>2, <1>3, <1>7 DEF IInv, TypeInv
<1>9. EntriesApart'
  <2>1. ASSUME NEW e \in visited
        PROVE  /\ e.start \in Nat /\ e.len \in Nat /\ e.at \in Nat
               /\ e.at + HEADER_SIZE < e.start /\ e.start + e.len <= offset
    BY DEF IInv, TypeInv, Entry, EntriesApart
  <2>2. /\ new.at = offset /\ new.start = DataStart /\ new.len = TheHeader.filesize
    OBVIOUS
  <2> HIDE DEF new
  <2>3. ASSUME NEW e \in visited'
        PROVE  e.at + HEADER_SIZE < e.start /\ e.start + e.len <= offset'
    BY <1>1, <1>2, <1>3, <1>5, <1>6, <2>1, <2>2
  <2>4. ASSUME NEW e \in visited', NEW f \in visited', e.at < f.at
        PROVE  e.start + e.len <= f.at
    <3>1. CASE e \in visited /\ f \in visited
      BY <2>4, <3>1 DEF IInv, EntriesApart
    <3>2. CASE e \in visited /\ f = new
      BY <2>1, <2>2, <3>2
    <3>3. CASE e = new
      BY <1>1, <1>2, <2>1, <2>2, <2>4, <3>3, CpioAssumption
    <3>. QED
      BY <1>1, <3>1, <3>2, <3>3
  <2>. QED
    BY <2>3, <2>4 DEF EntriesApart
<1>10. ArchiveKnown'
  BY <1>1 DEF IInv, ArchiveKnown, IsArchive
<1>. QED
  BY <1>1, <1>2, <1>8, <1>9, <1>10 DEF IInv, NothingEarly

LEMMA NextIInv == IInv /\ [Next]_vars => IInv'
<1> SUFFICES ASSUME IInv, [Next]_vars PROVE IInv'
  OBVIOUS
<1>1. CASE UNCHANGED vars
  BY <1>1, StandsStill DEF vars, IInv, TypeInv
<1>. QED
  BY <1>1, LoadModuleIInv, LoadFailsIInv, TooManyIInv, ParseEntryIInv, ParseTrailerIInv,
     ParseFailsIInv, NoArchiveIInv DEF Next, Finished

\* The inductive invariant of the parser is one.
THEOREM Invariant == Spec => []IInv
BY InitIInv, NextIInv, PTL DEF Spec

\* The parser's state keeps its type and the cursor stays in the archive,
\* whatever a file says of its sizes (archive.rs, next_entry).
THEOREM TypeCorrect == Spec => []TypeInv
<1>1. IInv => TypeInv
  BY DEF IInv
<1>. QED
  BY <1>1, Invariant, PTL

\* What cpio_parse hands to its callback lies in the archive behind its own
\* header, and no two entries share a byte.
THEOREM EntriesCorrect == Spec => []EntriesApart
<1>1. IInv => EntriesApart
  BY DEF IInv
<1>. QED
  BY <1>1, Invariant, PTL

-----------------------------------------------------------------------------
(* Archives as cpio writes them.                                            *)

\* The padding of the code is that of the format.
LEMMA PadsAlike ==
  ASSUME NEW v \in Nat
  PROVE  align_to_4(v) = Padded(v) /\ Padded(v) \in Nat /\ Padded(v) >= v
<1> DEFINE w == v + 3
           q == w \div 4
           r == w % 4
<1>1. w \in Nat
  OBVIOUS
<1>2. w = 4 * q + r /\ q \in Int /\ r \in 0..3
  <2> HIDE DEF w
  <2>. QED
    BY <1>1
<1>3. align_to_4(v) = w - r /\ Padded(v) = 4 * q
  BY DEF align_to_4, Padded, Sum
<1>4. w = v + 3
  OBVIOUS
<1> HIDE DEF w, q, r
<1>. QED
  BY <1>1, <1>2, <1>3, <1>4

LEMMA ReadsAlike ==
  ASSUME archive # None, IsArchive(archive), IsHeader, offset \in Nat
  PROVE  /\ DataStart = DataOf(offset, TheHeader) /\ NextOffset = NextOf(offset, TheHeader)
         /\ EntryOf(offset, TheHeader) = [name |-> TheHeader.name, at |-> offset,
                                          start |-> DataStart, len |-> TheHeader.filesize]
<1>1. /\ TheHeader.namesize \in Nat /\ TheHeader.filesize \in Nat /\ HEADER_SIZE \in Nat
      /\ NameEnd \in Nat /\ DataStart \in Nat /\ DataEnd \in Nat
  BY HeaderType, RangeTypes, CpioAssumption DEF Header
<1>2. DataStart = DataOf(offset, TheHeader)
  BY <1>1, PadsAlike DEF DataStart, DataOf, NameEnd, Sum
<1>3. NextOffset = NextOf(offset, TheHeader)
  BY <1>1, <1>2, PadsAlike DEF NextOffset, NextOf, DataEnd, Sum
<1>. QED
  BY <1>2, <1>3 DEF EntryOf

Places == DOMAIN archive.headers
At(o) == archive.headers[o]
Trailers == {o \in Places : At(o).name = "TRAILER!!!"}
Entries(before) == {EntryOf(o, At(o)) : o \in {p \in Places \ Trailers : p < before}}
InitData(es) == {<<e.start, e.len>> : e \in {w \in es : w.name = "bin/init.bin"}}

\* The archive that was written is read from the front.
Reading ==
  /\ status = "none" /\ panic = "no" => offset \in Places /\ visited = Entries(offset)
  /\ status \in {"none", "ok"}
  /\ status = "ok" => visited = archive.written
  /\ visited \subseteq archive.written
  /\ InitData(visited) = {init_binary} \ {None}

ReadInv ==
  /\ archive # None /\ archive.state # "garbled" => AsWritten(archive)
  /\ archive # None /\ archive.state = "whole" => Reading
  /\ archive # None /\ archive.state = "cut" => status # "ok"
  /\ loaded < Len(modules) => init_binary = None
  /\ archive = None => init_binary = None

\* What AsWritten says of a place.
LEMMA PlaceFacts ==
  ASSUME archive # None, IsArchive(archive), AsWritten(archive), NEW o \in Places
  PROVE  /\ o \in Nat /\ At(o).name # "malformed" /\ At(o).namesize # 0
         /\ NextOf(o, At(o)) \in Nat /\ o + HEADER_SIZE <= DataOf(o, At(o)) /\ DataOf(o, At(o)) \in Nat
         /\ DataOf(o, At(o)) + At(o).filesize <= NextOf(o, At(o)) /\ At(o).filesize \in Nat
         /\ o + HEADER_SIZE + At(o).namesize <= DataOf(o, At(o)) /\ At(o).namesize \in Nat
         /\ o \notin Trailers => /\ NextOf(o, At(o)) \in Places
                                 /\ \A p \in Places : p <= o \/ NextOf(o, At(o)) <= p
         /\ o \in Trailers => /\ At(o).filesize = 0 /\ \A p \in Places : p <= o
                              /\ IF archive.state = "whole" THEN NextOf(o, At(o)) <= archive.size
                                 ELSE archive.size < NextOf(o, At(o))
<1>1. o \in Nat /\ At(o) \in Header
  BY DEF IsArchive, Places, At
<1>2. At(o).namesize \in Nat /\ At(o).filesize \in Nat /\ HEADER_SIZE \in Nat
  BY <1>1, CpioAssumption DEF Header
<1>3. o + HEADER_SIZE + At(o).namesize \in Nat
  BY <1>1, <1>2
<1>4. DataOf(o, At(o)) \in Nat /\ o + HEADER_SIZE + At(o).namesize <= DataOf(o, At(o))
  BY <1>3, PadsAlike DEF DataOf
<1>5. DataOf(o, At(o)) + At(o).filesize \in Nat
  BY <1>2, <1>4
<1>6. NextOf(o, At(o)) \in Nat /\ DataOf(o, At(o)) + At(o).filesize <= NextOf(o, At(o))
  BY <1>5, PadsAlike DEF NextOf
<1>7. o + HEADER_SIZE <= DataOf(o, At(o))
  BY <1>1, <1>2, <1>4
<1>8. At(o).name # "malformed" /\ At(o).namesize # 0
  BY DEF AsWritten, Places, At
<1>9. o \notin Trailers => /\ NextOf(o, At(o)) \in Places
                           /\ \A p \in Places : p <= o \/ NextOf(o, At(o)) <= p
  BY DEF AsWritten, Places, At, Trailers
<1>10. o \in Trailers => /\ At(o).filesize = 0 /\ \A p \in Places : p <= o
                         /\ IF archive.state = "whole" THEN NextOf(o, At(o)) <= archive.size
                            ELSE archive.size < NextOf(o, At(o))
  BY DEF AsWritten, Places, At, Trailers
<1>. QED
  BY <1>1, <1>2, <1>4, <1>6, <1>7, <1>8, <1>9, <1>10

\* Every place of a whole archive passes the checks of next_entry.
LEMMA NoProblem ==
  ASSUME archive # None, IsArchive(archive), AsWritten(archive), archive.state = "whole", offset \in Places
  PROVE  /\ Problem = "ok" /\ IsHeader /\ TheHeader = At(offset) /\ (IsTrailer <=> offset \in Trailers)
         /\ NextOffset = NextOf(offset, At(offset))
<1>1. IsHeader /\ TheHeader = At(offset) /\ (IsTrailer <=> offset \in Trailers)
  BY DEF IsHeader, TheHeader, IsTrailer, Trailers, At, Places
<1>2. PICK t \in Trailers : TRUE
  BY DEF AsWritten, Trailers, Places, At
<1>3. t \in Places
  BY DEF Trailers
<1> DEFINE h == At(offset)
           n == NextOf(offset, h)
           d == DataOf(offset, h)
<1>4. /\ offset \in Nat /\ h.name # "malformed" /\ h.namesize # 0 /\ n \in Nat /\ d \in Nat
      /\ offset + HEADER_SIZE <= d /\ d + h.filesize <= n /\ h.filesize \in Nat /\ h.namesize \in Nat
      /\ offset + HEADER_SIZE + h.namesize <= d
      /\ offset \in Trailers => h.filesize = 0 /\ n <= archive.size
  BY PlaceFacts
<1>5. NextOf(t, At(t)) <= archive.size /\ \A p \in Places : p <= t
  BY <1>3, PlaceFacts
<1>6. /\ t \in Nat /\ NextOf(t, At(t)) \in Nat /\ t <= NextOf(t, At(t)) /\ HEADER_SIZE \in Nat
      /\ archive.size \in Nat /\ UsizeMax \in Nat /\ archive.size <= UsizeMax
  <2>1. HEADER_SIZE \in Nat /\ archive.size \in Nat /\ UsizeMax \in Nat /\ archive.size <= UsizeMax
    BY CpioAssumption DEF IsArchive
  <2>2. /\ t \in Nat /\ NextOf(t, At(t)) \in Nat /\ t + HEADER_SIZE <= DataOf(t, At(t))
        /\ DataOf(t, At(t)) + At(t).filesize <= NextOf(t, At(t)) /\ At(t).filesize \in Nat
        /\ DataOf(t, At(t)) \in Nat
    BY <1>3, PlaceFacts
  <2>. QED
    BY <2>1, <2>2
<1>7. n <= archive.size
  <2>1. CASE offset \in Trailers
    BY <1>4, <2>1
  <2>2. CASE offset \notin Trailers
    <3>1. n \in Places
      BY <2>2, PlaceFacts
    <3>2. n <= t
      BY <1>5, <3>1
    <3> HIDE DEF n
    <3>. QED
      BY <1>4, <1>5, <1>6, <3>2
  <2>. QED
    BY <2>1, <2>2
<1>8. DataStart = d /\ NextOffset = n /\ NameEnd = offset + HEADER_SIZE + h.namesize /\ DataEnd = d + h.filesize
  BY <1>1, <1>4, ReadsAlike, RangeTypes
<1> HIDE DEF h, n, d
<1>9. HeaderInside
  BY <1>4, <1>6, <1>7 DEF HeaderInside
<1>10. NameOk
  BY <1>1, <1>4, <1>6, <1>7, <1>8 DEF NameOk, h
<1>11. ~(DataStart > archive.size) /\ ~(DataEnd > UsizeMax) /\ ~Beyond
  BY <1>4, <1>6, <1>7, <1>8 DEF Beyond
<1>12. ~(IsTrailer /\ TheHeader.filesize # 0)
  BY <1>1, <1>4 DEF h
<1>13. Problem = "ok"
  BY <1>1, <1>9, <1>10, <1>11, <1>12 DEF Problem
<1>. QED
  BY <1>1, <1>8, <1>13 DEF n, h

\* The trailer of an archive that was cut lies beyond its end.
LEMMA CutTrailer ==
  ASSUME archive # None, IsArchive(archive), AsWritten(archive), archive.state = "cut",
         Problem = "ok", IsTrailer
  PROVE  FALSE
<1>1. IsHeader /\ ~Beyond
  BY DEF Problem
<1>2. offset \in Places /\ TheHeader = At(offset) /\ offset \in Trailers
  BY <1>1 DEF IsHeader, TheHeader, IsTrailer, Trailers, Places, At
<1>3. offset \in Nat /\ NextOf(offset, At(offset)) \in Nat /\ archive.size < NextOf(offset, At(offset))
  BY <1>2, PlaceFacts
<1>4. NextOffset = NextOf(offset, At(offset)) /\ archive.size \in Nat
  BY <1>1, <1>2, <1>3, ReadsAlike, CpioAssumption DEF IsArchive
<1>. QED
  BY <1>1, <1>3, <1>4 DEF Beyond

\* Behind an entry that was read comes the next.
LEMMA EntriesGrow ==
  ASSUME archive # None, IsArchive(archive), AsWritten(archive), NEW o \in Places, o \notin Trailers
  PROVE  Entries(NextOf(o, At(o))) = Entries(o) \cup {EntryOf(o, At(o))}
<1> DEFINE n == NextOf(o, At(o))
<1>1. /\ o \in Nat /\ n \in Nat /\ o < n
      /\ \A p \in Places : p \in Nat /\ (p <= o \/ n <= p)
  <2>1. /\ o \in Nat /\ n \in Nat /\ o + HEADER_SIZE <= DataOf(o, At(o)) /\ DataOf(o, At(o)) \in Nat
        /\ DataOf(o, At(o)) + At(o).filesize <= n /\ At(o).filesize \in Nat
        /\ \A p \in Places : p <= o \/ n <= p
    BY PlaceFacts
  <2>2. \A p \in Places : p \in Nat
    BY PlaceFacts
  <2>3. HEADER_SIZE \in Nat \ {0}
    BY CpioAssumption
  <2> HIDE DEF n
  <2>. QED
    BY <2>1, <2>2, <2>3
<1> HIDE DEF n
<1>2. \A p \in Places : p < n <=> (p < o \/ p = o)
  BY <1>1
<1>3. {p \in Places \ Trailers : p < n} = {p \in Places \ Trailers : p < o} \cup {o}
  BY <1>2
<1>4. Entries(n) = Entries(o) \cup {EntryOf(o, At(o))}
  BY <1>3 DEF Entries
<1>. QED
  BY <1>4 DEF n

LEMMA EntriesAll ==
  ASSUME archive # None, IsArchive(archive), AsWritten(archive)
  PROVE  /\ archive.written = {EntryOf(o, At(o)) : o \in Places \ Trailers}
         /\ \A n : Entries(n) \subseteq archive.written
         /\ \A t \in Trailers : Entries(t) = archive.written
         /\ Entries(0) = {}
<1>1. archive.written = {EntryOf(o, At(o)) : o \in Places \ Trailers}
  BY DEF AsWritten, Places, At, Trailers
<1>2. \A n : Entries(n) \subseteq archive.written
  BY <1>1 DEF Entries
<1>3. ASSUME NEW t \in Trailers PROVE Entries(t) = archive.written
  <2>1. t \in Places
    BY DEF Trailers
  <2>2. \A p \in Places : p <= t /\ p \in Nat
    BY <2>1, PlaceFacts
  <2>3. {p \in Places \ Trailers : p < t} = Places \ Trailers
    BY <2>1, <2>2
  <2>. QED
    BY <1>1, <2>3 DEF Entries
<1>4. Entries(0) = {}
  <2>1. \A p \in Places : p \in Nat
    BY PlaceFacts
  <2>. QED
    BY <2>1 DEF Entries
<1>. QED
  BY <1>1, <1>2, <1>3, <1>4

LEMMA NoneIsNoData == \A a, b : <<a, b>> # None
BY DEF None

LEMMA InitReadInv == Init => ReadInv
<1> SUFFICES ASSUME Init PROVE ReadInv
  OBVIOUS
<1>. QED
  BY DEF Init, ReadInv

\* A module that becomes the archive is read from its first place on.
LEMMA LoadModuleReadInv == IInv /\ ReadInv /\ LoadModule => ReadInv'
<1> SUFFICES ASSUME IInv, ReadInv, LoadModule PROVE ReadInv'
  OBVIOUS
<1>1. /\ Len(modules) \in Nat /\ loaded \in 0..Len(modules) /\ loaded < Len(modules)
      /\ DOMAIN modules = 1..Len(modules)
  BY CpioAssumption DEF IInv, TypeInv, LoadModule, Loading
<1>2. IsArchive(Module.archive) /\ (Module.archive.state # "garbled" => AsWritten(Module.archive))
  <2> DEFINE m == loaded + 1
  <2>1. m \in DOMAIN modules
    BY <1>1
  <2>2. Module = modules[m]
    BY DEF Module
  <2> HIDE DEF m
  <2>. QED
    BY <2>1, <2>2, CpioAssumption, WriterAssumption DEF IInv, TypeInv
<1>3. visited = {} /\ visited' = {} /\ status = "none" /\ status' = "none" /\ modules' = modules
  BY <1>1 DEF IInv, NothingEarly, LoadModule
<1>4. init_binary = None /\ init_binary' = None /\ None' = None
  BY <1>1 DEF ReadInv, LoadModule, None
<1>5. CASE Module.initramfs
  <2>1. archive' = Module.archive /\ offset' = 0
    BY <1>5 DEF LoadModule
  <2>2. IsArchive(archive') /\ (archive'.state # "garbled" => AsWritten(archive'))
    BY <1>2, <2>1
  <2>3. ASSUME archive'.state = "whole" PROVE Reading'
    <3>1. 0 \in Places' /\ \A p \in Places' : p \in Nat
      BY <2>2, <2>3 DEF AsWritten, IsArchive, Places
    <3>2. Entries(0)' = {}
      BY <3>1 DEF Entries
    <3>3. InitData(visited)' = {}
      BY <1>3 DEF InitData
    <3>4. Entries(offset)' = {}
      BY <2>1, <3>2 DEF Entries
    <3>. QED
      BY <1>3, <1>4, <2>1, <3>1, <3>3, <3>4 DEF Reading
  <2>. QED
    BY <1>3, <1>4, <2>2, <2>3 DEF ReadInv
<1>6. CASE ~Module.initramfs
  <2>1. archive' = archive /\ offset' = offset /\ panic' = panic
    BY <1>6 DEF LoadModule
  <2>. QED
    BY <1>1, <1>3, <1>4, <2>1 DEF ReadInv, Reading, Places, Entries, At, Trailers, InitData, AsWritten, LoadModule
<1>. QED
  BY <1>5, <1>6

\* A step that hands nothing out and does not go on either.
LEMMA NothingRead ==
  ASSUME ReadInv, UNCHANGED <<modules, loaded, archive, visited, init_binary>>,
         panic' # "no" \/ UNCHANGED <<offset, panic>>,
         archive # None /\ archive.state = "whole" => status' = status,
         archive # None /\ archive.state = "cut" => status' # "ok"
  PROVE  ReadInv'
BY DEF ReadInv, Reading, Places, Entries, At, Trailers, InitData, AsWritten

LEMMA LoadFailsReadInv == IInv /\ ReadInv /\ LoadFails => ReadInv'
<1> SUFFICES ASSUME IInv, ReadInv, LoadFails PROVE ReadInv'
  OBVIOUS
<1>. QED
  BY NothingRead DEF LoadFails, Panic, ReadInv

LEMMA TooManyReadInv == IInv /\ ReadInv /\ TooManyModules => ReadInv'
<1> SUFFICES ASSUME IInv, ReadInv, TooManyModules PROVE ReadInv'
  OBVIOUS
<1>. QED
  BY NothingRead DEF TooManyModules, Panic, ReadInv

LEMMA NoArchiveReadInv == IInv /\ ReadInv /\ NoArchive => ReadInv'
<1> SUFFICES ASSUME IInv, ReadInv, NoArchive PROVE ReadInv'
  OBVIOUS
<1>. QED
  BY NothingRead DEF NoArchive, Panic

\* The parser stands before the entries that are still to be read.
LEMMA ReadingWhole ==
  ASSUME IInv, ReadInv, Parsing, archive.state = "whole"
  PROVE  /\ archive # None /\ IsArchive(archive) /\ AsWritten(archive) /\ offset \in Nat
         /\ offset \in Places /\ visited = Entries(offset) /\ Reading
<1>1. archive # None /\ IsArchive(archive) /\ offset \in Nat
  BY ParsingTypes
<1>. QED
  BY <1>1 DEF ReadInv, Reading, Parsing, Loaded, AllLoaded

LEMMA ParseFailsReadInv == IInv /\ ReadInv /\ ParseFails => ReadInv'
<1> SUFFICES ASSUME IInv, ReadInv, ParseFails PROVE ReadInv'
  OBVIOUS
<1>1. archive # None /\ Problem # "ok" /\ Parsing
  BY DEF ParseFails, Parsing
<1>2. archive.state # "whole"
  BY <1>1, ReadingWhole, NoProblem
<1>. QED
  BY <1>1, <1>2, NothingRead DEF ParseFails, Panic, Reported

LEMMA ParseTrailerReadInv == IInv /\ ReadInv /\ ParseTrailer => ReadInv'
<1> SUFFICES ASSUME IInv, ReadInv, ParseTrailer PROVE ReadInv'
  OBVIOUS
<1>1. /\ Parsing /\ Problem = "ok" /\ IsTrailer /\ status' = "ok"
      /\ UNCHANGED <<modules, loaded, archive, visited, init_binary, panic>>
  BY DEF ParseTrailer
<1>2. archive # None /\ IsArchive(archive)
  BY <1>1, ParsingTypes
<1>3. archive.state # "cut"
  BY <1>1, <1>2, CutTrailer DEF ReadInv
<1>4. ASSUME archive.state = "whole" PROVE Reading'
  <2>1. /\ AsWritten(archive) /\ offset \in Places /\ visited = Entries(offset) /\ Reading
    BY <1>1, <1>4, ReadingWhole
  <2>2. offset \in Trailers
    BY <1>1, <1>2, <1>4, <2>1, NoProblem
  <2>3. visited = archive.written
    BY <1>2, <2>1, <2>2, EntriesAll
  <2>4. InitData(visited)' = InitData(visited)
    BY <1>1 DEF InitData
  <2>. QED
    BY <1>1, <2>1, <2>3, <2>4 DEF Reading, None
<1>5. AsWritten(archive') <=> AsWritten(archive)
  BY <1>1
<1>. QED
  BY <1>1, <1>2, <1>3, <1>4, <1>5 DEF ReadInv, None

LEMMA ParseEntryReadInv == IInv /\ ReadInv /\ ParseEntry => ReadInv'
<1> SUFFICES ASSUME IInv, ReadInv, ParseEntry PROVE ReadInv'
  OBVIOUS
<1> DEFINE new == EntryOf(offset, TheHeader)
<1>1. /\ Parsing /\ Problem = "ok" /\ ~IsTrailer /\ status = "none" /\ status' = "none"
      /\ offset' = NextOffset
      /\ UNCHANGED <<modules, loaded, archive>>
  BY DEF ParseEntry, Moves, Parsing
<1>2. archive # None /\ IsArchive(archive) /\ offset \in Nat /\ Len(modules) \in Nat /\ loaded = Len(modules)
  BY <1>1, ParsingTypes
<1>3. /\ visited' = visited \cup {new} /\ new.name = TheHeader.name
      /\ <<new.start, new.len>> = <<DataStart, TheHeader.filesize>>
  <2>1. IsHeader
    BY <1>1, <1>2, MovesInside
  <2>2. new = [name |-> TheHeader.name, at |-> offset, start |-> DataStart, len |-> TheHeader.filesize]
    BY <1>2, <2>1, ReadsAlike
  <2> HIDE DEF new
  <2>. QED
    BY <2>2 DEF ParseEntry
<1> HIDE DEF new
<1>4. ASSUME archive.state = "whole" PROVE Reading'
  <2>1. /\ AsWritten(archive) /\ offset \in Places /\ visited = Entries(offset) /\ Reading
    BY <1>1, <1>4, ReadingWhole
  <2>2. /\ IsHeader /\ TheHeader = At(offset) /\ offset \notin Trailers
        /\ offset' = NextOf(offset, At(offset))
    BY <1>1, <1>2, <1>4, <2>1, NoProblem
  <2>3. offset' \in Places /\ Places' = Places
    BY <1>1, <1>2, <2>1, <2>2, PlaceFacts DEF Places
  <2>4. visited' = Entries(offset)'
    <3>1. Entries(NextOf(offset, At(offset))) = visited \cup {new}
      BY <1>2, <2>1, <2>2, EntriesGrow DEF new
    <3>2. \A n : Entries(n)' = Entries(n)
      BY <1>1 DEF Entries, Places, At, Trailers
    <3>3. Entries(offset)' = Entries(offset')
      BY <1>1 DEF Entries, Places, At, Trailers
    <3>. QED
      BY <1>3, <2>2, <3>1, <3>3
  <2>5. visited' \subseteq archive.written
    <3>1. new \in archive.written
      BY <1>2, <2>1, <2>2, EntriesAll DEF new
    <3>. QED
      BY <1>3, <2>1, <3>1 DEF Reading
  <2>6. InitData(visited') = {init_binary'} \ {None}
    <3>1. CASE TheHeader.name # "bin/init.bin"
      <4>1. init_binary' = init_binary /\ InitData(visited') = InitData(visited)
        BY <1>3, <3>1 DEF ParseEntry, InitData
      <4>. QED
        BY <2>1, <4>1 DEF Reading
    <3>2. CASE TheHeader.name = "bin/init.bin"
      <4>1. \A p \in Places : At(p).name = "bin/init.bin" => p = offset
        BY <1>4, <2>1, <2>2, <3>2 DEF AsWritten, Places, At
      <4>2. \A e \in visited : e.name # "bin/init.bin"
        <5>1. \A p \in Places : p < offset => p # offset
          BY <1>2, PlaceFacts, <2>1
        <5>. QED
          BY <2>1, <4>1, <5>1 DEF Entries, EntryOf
      <4>3. InitData(visited) = {}
        BY <4>2 DEF InitData
      <4>4. init_binary = None
        BY <2>1, <4>3 DEF Reading
      <4>5. init_binary' = <<DataStart, TheHeader.filesize>>
        BY <3>2, <4>4 DEF ParseEntry
      <4>6. {w \in visited' : w.name = "bin/init.bin"} = {new}
        BY <1>3, <3>2, <4>2
      <4>7. InitData(visited') = {<<new.start, new.len>>}
        BY <4>6 DEF InitData
      <4>8. init_binary' # None
        BY <4>5, NoneIsNoData
      <4>. QED
        BY <1>3, <4>5, <4>7, <4>8
    <3>. QED
      BY <3>1, <3>2
  <2>7. InitData(visited)' = InitData(visited')
    BY DEF InitData
  <2>. QED
    BY <1>1, <2>3, <2>4, <2>5, <2>6, <2>7 DEF Reading, None
<1>5. AsWritten(archive') <=> AsWritten(archive)
  BY <1>1
<1>. QED
  BY <1>1, <1>2, <1>4, <1>5 DEF ReadInv, None

LEMMA NextReadInv == IInv /\ ReadInv /\ [Next]_vars => ReadInv'
<1> SUFFICES ASSUME IInv, ReadInv, [Next]_vars PROVE ReadInv'
  OBVIOUS
<1>1. CASE UNCHANGED vars
  BY <1>1, NothingRead DEF vars, ReadInv
<1>. QED
  BY <1>1, LoadModuleReadInv, LoadFailsReadInv, TooManyReadInv, ParseEntryReadInv,
     ParseTrailerReadInv, ParseFailsReadInv, NoArchiveReadInv DEF Next, Finished

\* The entries handed out are always those in front of the cursor.
THEOREM ReadInvariant == Spec => []ReadInv
BY InitReadInv, NextReadInv, Invariant, PTL DEF Spec

\* An archive as cpio writes it is read to its end, entry for entry, and the
\* init program that cpio_cb keeps is the data of the only entry of that name
\* (archive.rs, next_entry; cpio.c, cpio_cb), of whatever sizes it consists.
THEOREM ReadsWhole == Spec => []ReadsBack
<1>1. ReadInv => ReadsBack
  BY DEF ReadInv, Reading, InitData, ReadsBack
<1>. QED
  BY <1>1, ReadInvariant, PTL

\* An archive that lost its end, were it only the padding of its trailer, is
\* never reported as read (archive.rs, next_entry; cpio.c,
\* boot_init_cpio_filesystem).
THEOREM CutsRefused == Spec => []CutNoticed
<1>1. ReadInv => CutNoticed
  BY DEF ReadInv, CutNoticed
<1>. QED
  BY <1>1, ReadInvariant, PTL

-----------------------------------------------------------------------------
(* The search of AcpiShutdown: its inductive invariant.                     *)

\* Where each step of the search stands, beyond the types.
Position ==
  /\ pc \in {"length", "count", "integers", "sleep"} => i + 5 <= aml_len
  /\ pc = "length" => aml_offset = i + 5
  /\ pc = "count" => aml_offset < package_end
  /\ pc \in {"start", "search", "length", "count"} => values = <<>>
  /\ pc = "integers" => Len(values) <= 1

ShutdownIInv == ShutdownTypeInv /\ table \in Tables /\ Position

-----------------------------------------------------------------------------
(* What is read is a byte, and the numbers made of bytes are in range.      *)

LEMMA LengthType == table \in Tables => aml_len \in Nat /\ table.aml \in Seq(0..255)
<1>1. table \in Tables => table.aml \in Seq(0..255)
  BY ShutdownAssumption
<1>. QED
  BY <1>1 DEF aml_len

LEMMA ByteType == ASSUME table \in Tables, NEW o \in Nat PROVE Byte(o) \in 0..255
<1>1. CASE o < aml_len
  <2>1. o + 1 \in 1..Len(table.aml)
    BY <1>1, LengthType DEF aml_len
  <2>2. table.aml[o + 1] \in 0..255
    BY <2>1, LengthType, ElementOfSeq
  <2>. QED
    BY <1>1, <2>2 DEF Byte
<1>2. CASE ~(o < aml_len)
  BY <1>2 DEF Byte
<1>. QED
  BY <1>1, <1>2

LEMMA FollowType ==
  ASSUME table \in Tables, aml_offset \in Nat PROVE FollowBytes \in 0..3
<1>1. PICK b \in 0..255 : b = Byte(aml_offset)
  BY ByteType
<1>2. b \div 64 \in 0..3
  OBVIOUS
<1>. QED
  BY <1>1, <1>2 DEF FollowBytes

LEMMA PackageLengthType ==
  ASSUME table \in Tables, aml_offset \in Nat PROVE PackageLength \in Nat
<1>1. ASSUME NEW k \in 1..3 PROVE Following(k) \in Nat
  <2>1. Shift[k] \in Nat
    BY DEF Shift
  <2>2. aml_offset + k \in Nat
    OBVIOUS
  <2>3. Byte(aml_offset + k) \in Nat
    BY <2>2, ByteType
  <2> DEFINE b == Byte(aml_offset + k)
             s == Shift[k]
  <2>4. b \in Nat /\ s \in Nat
    BY <2>1, <2>3
  <2> HIDE DEF b, s
  <2>5. b * s \in Nat
    BY <2>4
  <2>. QED
    BY <2>5 DEF Following, b, s
<1>2. Following(1) \in Nat /\ Following(2) \in Nat /\ Following(3) \in Nat
  BY <1>1
<1>3. PICK b \in 0..255 : b = Byte(aml_offset)
  BY ByteType
<1>4. b % 64 \in Nat /\ b % 16 \in Nat
  OBVIOUS
<1>5. Byte(aml_offset) % 64 \in Nat /\ Byte(aml_offset) % 16 \in Nat
  BY <1>3, <1>4
<1> DEFINE low == Byte(aml_offset) % 16
<1>6. low \in Nat
  BY <1>5
<1> HIDE DEF low
<1>7. low + Following(1) + Following(2) + Following(3) \in Nat
  BY <1>2, <1>6
<1>. QED
  BY <1>5, <1>7 DEF PackageLength, low

LEMMA IntegerSizeType == IntegerSize \in {0, 1, 2, 4, 8}
BY DEF IntegerSize

\* An integer that is accepted fits the three bits of the port's register.
LEMMA IntegerType ==
  ASSUME table \in Tables, aml_offset \in Nat, IntegerInPackage, SmallInteger
  PROVE  Integer \in 0..7
<1>1. CASE IntegerSize = 0
  BY <1>1 DEF IntegerInPackage, SmallInteger, Integer, IntegerSize, Opcodes
<1>2. CASE IntegerSize # 0
  <2>1. aml_offset + 1 \in Nat
    OBVIOUS
  <2>2. Byte(aml_offset + 1) \in Nat
    BY <2>1, ByteType
  <2>3. IntegerSize > 0
    BY <1>2, IntegerSizeType
  <2>4. Byte(aml_offset + 1) <= 7
    BY <2>3 DEF SmallInteger
  <2>. QED
    BY <1>2, <2>2, <2>4 DEF Integer
<1>. QED
  BY <1>1, <1>2

-----------------------------------------------------------------------------
(* The first fact: the initial states satisfy the invariant.                *)

LEMMA InitInv == ShutdownInit => ShutdownIInv
<1> SUFFICES ASSUME ShutdownInit PROVE ShutdownIInv
  OBVIOUS
<1>1. table \in Tables /\ aml_len \in Nat
  BY LengthType DEF ShutdownInit
<1>2. <<>> \in Seq(0..7) /\ Len(<<>>) = 0
  OBVIOUS
<1>. QED
  BY <1>1, <1>2 DEF ShutdownInit, ShutdownIInv, ShutdownTypeInv, Position

-----------------------------------------------------------------------------
(* The second: every step preserves it.                                     *)

\* A position is given up, when there was room for the name at it.
LEMMA ContinueInv ==
  ASSUME ShutdownIInv, Continue, i + 5 <= aml_len, read' \in 0..aml_len
  PROVE  ShutdownIInv'
<1>1. table' = table /\ aml_len' = aml_len /\ aml_len \in Nat
  BY LengthType DEF Continue, ShutdownIInv, aml_len
<1>2. <<>> \in Seq(0..7) /\ Len(<<>>) = 0
  OBVIOUS
<1>. QED
  BY <1>1, <1>2 DEF Continue, ShutdownIInv, ShutdownTypeInv, Position

\* What is read stays in the table when what is looked at does.
LEMMA ReadsInTable ==
  ASSUME NEW upto \in Nat, ShutdownIInv, Reads(upto), upto <= aml_len
  PROVE  read' \in 0..aml_len
<1>1. aml_len \in Nat
  BY LengthType DEF ShutdownIInv
<1>. QED
  BY <1>1 DEF ShutdownIInv, ShutdownTypeInv, Reads

\* The name is looked for only where it and the opcode behind it fit.
LEMMA SearchInv == ASSUME ShutdownIInv, PassByte \/ FindName PROVE ShutdownIInv'
<1>1. aml_len \in Nat /\ i \in Nat /\ i + 5 <= aml_len
  BY LengthType DEF ShutdownIInv, ShutdownTypeInv, PassByte, FindName, Room
<1>2. i + 5 \in Nat /\ Reads(i + 5)
  BY <1>1 DEF PassByte, FindName
<1>3. read' \in 0..aml_len
  BY <1>1, <1>2, ReadsInTable
<1>4. CASE PassByte
  BY <1>1, <1>3, <1>4, ContinueInv DEF PassByte
<1>5. CASE FindName
  <2>1. aml_len' = aml_len
    BY <1>5 DEF FindName, aml_len
  <2>. QED
    BY <1>1, <1>3, <1>5, <2>1 DEF FindName, ShutdownIInv, ShutdownTypeInv, Position
<1>. QED
  BY <1>4, <1>5

\* A length is read only where all its bytes are in the table, and believed only
\* when the package it makes is.
LEMMA LengthInv == ASSUME ShutdownIInv, Truncated \/ BadLength \/ ReadLength PROVE ShutdownIInv'
<1>1. /\ table \in Tables /\ aml_len \in Nat /\ i \in Nat /\ i + 5 <= aml_len
      /\ aml_offset = i + 5 /\ aml_offset \in Nat /\ values = <<>>
  BY LengthType DEF ShutdownIInv, ShutdownTypeInv, Position, Truncated, BadLength, ReadLength
<1>2. FollowBytes \in 0..3 /\ PackageLength \in Nat
  BY <1>1, FollowType, PackageLengthType
<1>3. CASE Truncated
  <2>1. read' \in 0..aml_len
    BY <1>1, <1>3, ReadsInTable DEF Truncated
  <2>. QED
    BY <1>1, <1>3, <2>1, ContinueInv DEF Truncated
<1>4. ASSUME BadLength \/ ReadLength PROVE read' \in 0..aml_len
  <2>1. aml_offset + Encoded \in Nat /\ aml_offset + Encoded <= aml_len /\ Reads(aml_offset + Encoded)
    BY <1>1, <1>2, <1>4 DEF BadLength, ReadLength, Encoded
  <2>. QED
    BY <2>1, ReadsInTable
<1>5. CASE BadLength
  BY <1>1, <1>4, <1>5, ContinueInv DEF BadLength
<1>6. CASE ReadLength
  <2>1. aml_len' = aml_len
    BY <1>6 DEF ReadLength, aml_len
  <2>2. Encoded \in Nat /\ PackageLength > Encoded /\ PackageLength <= aml_len - aml_offset
    BY <1>2, <1>6 DEF ReadLength, LengthOk, Encoded
  <2>3. /\ package_end' \in 0..aml_len /\ aml_offset' \in 0..package_end'
        /\ aml_offset' < package_end'
    BY <1>1, <1>2, <1>6, <2>2 DEF ReadLength
  <2>4. read' \in 0..aml_len
    BY <1>4, <1>6
  <2>5. pc' = "count" /\ UNCHANGED <<table, i, values, sent>>
    BY <1>6 DEF ReadLength
  <2>6. ShutdownTypeInv'
    BY <2>1, <2>3, <2>4, <2>5 DEF ShutdownIInv, ShutdownTypeInv
  <2>7. Position'
    BY <1>1, <2>1, <2>3, <2>5 DEF Position
  <2>. QED
    BY <1>1, <2>5, <2>6, <2>7 DEF ShutdownIInv
<1>. QED
  BY <1>3, <1>5, <1>6

\* The number of elements lies in the package.
LEMMA CountInv == ASSUME ShutdownIInv, TooFew \/ ReadCount PROVE ShutdownIInv'
<1>1. /\ table \in Tables /\ aml_len \in Nat /\ i \in Nat /\ i + 5 <= aml_len
      /\ package_end \in 0..aml_len /\ aml_offset \in Nat /\ aml_offset < package_end /\ values = <<>>
  BY LengthType DEF ShutdownIInv, ShutdownTypeInv, Position, TooFew, ReadCount
<1>2. aml_offset + 1 \in Nat /\ aml_offset + 1 <= aml_len /\ Reads(aml_offset + 1)
  BY <1>1 DEF TooFew, ReadCount
<1>3. read' \in 0..aml_len
  BY <1>2, ReadsInTable
<1>4. CASE TooFew
  BY <1>1, <1>3, <1>4, ContinueInv DEF TooFew
<1>5. CASE ReadCount
  <2>1. aml_len' = aml_len
    BY <1>5 DEF ReadCount, aml_len
  <2>2. Len(values) = 0
    BY <1>1
  <2>. QED
    BY <1>1, <1>3, <1>5, <2>1, <2>2 DEF ReadCount, ShutdownIInv, ShutdownTypeInv, Position
<1>. QED
  BY <1>4, <1>5

\* An integer is read only where all its bytes lie in the package.
LEMMA IntegersInv == ASSUME ShutdownIInv, BadInteger \/ ReadInteger PROVE ShutdownIInv'
<1>1. /\ table \in Tables /\ aml_len \in Nat /\ i \in Nat /\ i + 5 <= aml_len
      /\ package_end \in 0..aml_len /\ aml_offset \in 0..package_end
      /\ read \in 0..aml_len /\ values \in Seq(0..7) /\ Len(values) <= 1
  BY LengthType DEF ShutdownIInv, ShutdownTypeInv, Position, BadInteger, ReadInteger
<1>2. IntegerSize \in 0..8
  BY IntegerSizeType
<1>3. IntegerInPackage => aml_offset + 1 + IntegerSize \in 0..package_end
  BY <1>1, <1>2 DEF IntegerInPackage
<1>4. CASE BadInteger
  <2> DEFINE upto == IF aml_offset >= package_end THEN read
                     ELSE IF IntegerInPackage THEN aml_offset + 1 + IntegerSize ELSE aml_offset + 1
  <2>1. upto \in 0..aml_len
    BY <1>1, <1>3
  <2>2. Reads(upto)
    BY <1>4 DEF BadInteger
  <2> HIDE DEF upto
  <2>3. read' \in 0..aml_len
    BY <1>1, <2>1, <2>2, ReadsInTable
  <2>. QED
    BY <1>1, <1>4, <2>3, ContinueInv DEF BadInteger
<1>5. CASE ReadInteger
  <2>1. aml_offset + 1 + IntegerSize \in 0..package_end
    BY <1>3, <1>5 DEF ReadInteger
  <2>2. read' \in 0..aml_len
    BY <1>1, <1>5, <2>1, ReadsInTable DEF ReadInteger
  <2>3. Integer \in 0..7
    BY <1>1, <1>5, IntegerType DEF ReadInteger
  <2>4. values' = Append(values, Integer)
    BY <1>5 DEF ReadInteger
  <2>5. values' \in Seq(0..7) /\ Len(values') = Len(values) + 1 /\ Len(values) \in Nat
    BY <1>1, <2>3, <2>4
  <2>6. /\ aml_offset' = aml_offset + 1 + IntegerSize
        /\ pc' = IF Len(values) = 1 THEN "sleep" ELSE "integers"
        /\ UNCHANGED <<table, i, package_end, sent>>
    BY <1>5 DEF ReadInteger
  <2>7. aml_len' = aml_len
    BY <2>6 DEF aml_len
  <2>8. ShutdownTypeInv'
    BY <1>1, <2>1, <2>2, <2>5, <2>6, <2>7 DEF ShutdownTypeInv
  <2>9. i' + 5 <= aml_len'
    BY <1>1, <2>6, <2>7
  <2>10. pc' \in {"integers", "sleep"}
    BY <2>6
  <2>11. pc' = "integers" => Len(values') <= 1
    <3>1. CASE Len(values) = 1
      BY <2>6, <3>1
    <3>2. CASE Len(values) # 1
      <4> DEFINE m == Len(values)
                 n == Len(values')
      <4>1. m \in Nat /\ m <= 1 /\ m # 1 /\ n = m + 1
        BY <1>1, <2>5, <3>2
      <4> HIDE DEF m, n
      <4>2. n <= 1
        BY <4>1
      <4>. QED
        BY <4>2 DEF n
    <3>. QED
      BY <3>1, <3>2
  <2>12. Position'
    BY <2>9, <2>10, <2>11 DEF Position
  <2>. QED
    BY <1>1, <2>6, <2>8, <2>12 DEF ShutdownIInv
<1>. QED
  BY <1>4, <1>5

LEMMA NextInv == ShutdownIInv /\ [ShutdownNext]_shutdownVars => ShutdownIInv'
<1> SUFFICES ASSUME ShutdownIInv, [ShutdownNext]_shutdownVars PROVE ShutdownIInv'
  OBVIOUS
<1>1. CASE Start \/ InvalidPort \/ NotFound
  <2>1. aml_len' = aml_len
    BY <1>1 DEF Start, InvalidPort, NotFound, aml_len
  <2>. QED
    BY <1>1, <2>1 DEF Start, InvalidPort, NotFound, ShutdownIInv, ShutdownTypeInv, Position
<1>2. CASE PassByte \/ FindName
  BY <1>2, SearchInv
<1>3. CASE Truncated \/ BadLength \/ ReadLength
  BY <1>3, LengthInv
<1>4. CASE TooFew \/ ReadCount
  BY <1>4, CountInv
<1>5. CASE BadInteger \/ ReadInteger
  BY <1>5, IntegersInv
<1>6. CASE Sleep
  <2>1. aml_len' = aml_len
    BY <1>6 DEF Sleep, aml_len
  <2>2. pc' = "halted" /\ UNCHANGED <<table, i, aml_offset, package_end, values, read>>
    BY <1>6 DEF Sleep
  <2>. QED
    BY <2>1, <2>2 DEF ShutdownIInv, ShutdownTypeInv, Position
<1>7. CASE Halted \/ UNCHANGED shutdownVars
  <2>1. UNCHANGED shutdownVars
    BY <1>7 DEF Halted
  <2>2. aml_len' = aml_len
    BY <2>1 DEF shutdownVars, aml_len
  <2>. QED
    BY <2>1, <2>2 DEF shutdownVars, ShutdownIInv, ShutdownTypeInv, Position
<1>. QED
  BY <1>1, <1>2, <1>3, <1>4, <1>5, <1>6, <1>7 DEF ShutdownNext

-----------------------------------------------------------------------------
(* The results.                                                             *)

\* The inductive invariant is one.
THEOREM ShutdownInvariant == ShutdownSpec => []ShutdownIInv
BY InitInv, NextInv, PTL DEF ShutdownSpec

\* Whatever bytes the firmware's table holds, and whatever lengths they make, the
\* search of aml_find_s5 reads no byte past the end of the table, takes no integer
\* from beyond its package, and what it takes fits the port's three bits.
THEOREM ShutdownTypeCorrect == ShutdownSpec => []ShutdownTypeInv
<1>1. ShutdownIInv => ShutdownTypeInv
  BY DEF ShutdownIInv
<1>. QED
  BY ShutdownInvariant, <1>1, PTL

-----------------------------------------------------------------------------
(* What is written and what is read.                                        *)

FollowAt(o) == Byte(o) \div 64
FollowingAt(o, k) == IF k <= FollowAt(o) THEN Byte(o + k) * Shift[k] ELSE 0
LengthAt(o) ==
  IF FollowAt(o) = 0 THEN Byte(o) % 64
  ELSE (Byte(o) % 16) + FollowingAt(o, 1) + FollowingAt(o, 2) + FollowingAt(o, 3)

LEMMA LengthHere == FollowBytes = FollowAt(aml_offset) /\ PackageLength = LengthAt(aml_offset)
BY DEF FollowBytes, FollowAt, PackageLength, LengthAt, Following, FollowingAt

LEMMA StandsBytes ==
  ASSUME table \in Tables, NEW o \in Nat, NEW bytes, Len(bytes) \in Nat
  PROVE  Stands(bytes, table.aml, o) <=>
           o + Len(bytes) <= aml_len /\ \A k \in 1..Len(bytes) : Byte(o + k - 1) = bytes[k]
<1> DEFINE n == Len(bytes)
<1>1. n \in Nat /\ aml_len \in Nat /\ aml_len = Len(table.aml)
  BY LengthType DEF aml_len
<1>2. Stands(bytes, table.aml, o) <=> o + n <= aml_len /\ \A k \in 1..n : table.aml[o + k] = bytes[k]
  BY <1>1 DEF Stands
<1> HIDE DEF n
<1>3. ASSUME NEW k \in 1..n, o + n <= aml_len PROVE Byte(o + k - 1) = table.aml[o + k]
  <2>1. o + k - 1 < aml_len /\ (o + k - 1) + 1 = o + k
    BY <1>1, <1>3
  <2>. QED
    BY <2>1 DEF Byte
<1>4. Stands(bytes, table.aml, o) <=> o + n <= aml_len /\ \A k \in 1..n : Byte(o + k - 1) = bytes[k]
  BY <1>2, <1>3
<1>. QED
  BY <1>4 DEF n

LEMMA FieldLength ==
  ASSUME NEW n, NEW follow \in 0..3, NEW r
  PROVE  Len(LengthField(n, follow, r)) = follow + 1
<1>1. CASE follow = 0
  BY <1>1 DEF LengthField
<1>2. CASE follow # 0
  <2> DEFINE F(k) == IF k = 1 THEN 64 * follow + 16 * r + (n % 16) ELSE (n \div FieldUnit[k - 1]) % 256
  <2>1. LengthField(n, follow, r) = [k \in 1..(follow + 1) |-> F(k)]
    BY <1>2 DEF LengthField
  <2> HIDE DEF F
  <2>2. follow + 1 \in Nat
    OBVIOUS
  <2>. QED
    BY <2>1, <2>2
<1>. QED
  BY <1>1, <1>2

\* The bytes of a length field.
LEMMA FieldBytes ==
  ASSUME table \in Tables, NEW o \in Nat, NEW n \in Nat, NEW follow \in 0..3, NEW r \in 0..3
  PROVE  Stands(LengthField(n, follow, r), table.aml, o) <=>
           /\ o + follow < aml_len
           /\ Byte(o) = IF follow = 0 THEN n ELSE 64 * follow + 16 * r + (n % 16)
           /\ follow >= 1 => Byte(o + 1) = (n \div FieldUnit[1]) % 256
           /\ follow >= 2 => Byte(o + 2) = (n \div FieldUnit[2]) % 256
           /\ follow >= 3 => Byte(o + 3) = (n \div FieldUnit[3]) % 256
<1> DEFINE field == LengthField(n, follow, r)
<1>1. Len(field) = follow + 1 /\ aml_len \in Nat
  BY FieldLength, LengthType
<1>2. /\ field[1] = IF follow = 0 THEN n ELSE 64 * follow + 16 * r + (n % 16)
      /\ follow >= 1 => field[2] = (n \div FieldUnit[1]) % 256
      /\ follow >= 2 => field[3] = (n \div FieldUnit[2]) % 256
      /\ follow >= 3 => field[4] = (n \div FieldUnit[3]) % 256
  <2>1. CASE follow = 0
    BY <2>1 DEF LengthField
  <2>2. CASE follow # 0
    <3> DEFINE F(k) == IF k = 1 THEN 64 * follow + 16 * r + (n % 16) ELSE (n \div FieldUnit[k - 1]) % 256
    <3>1. field = [k \in 1..(follow + 1) |-> F(k)]
      BY <2>2 DEF LengthField
    <3>2. /\ F(1) = 64 * follow + 16 * r + (n % 16) /\ F(2) = (n \div FieldUnit[1]) % 256
          /\ F(3) = (n \div FieldUnit[2]) % 256 /\ F(4) = (n \div FieldUnit[3]) % 256
      OBVIOUS
    <3> HIDE DEF F, field
    <3>3. /\ field[1] = F(1)
          /\ follow >= 1 => field[2] = F(2)
          /\ follow >= 2 => field[3] = F(3)
          /\ follow >= 3 => field[4] = F(4)
      BY <3>1
    <3>. QED
      BY <2>2, <3>2, <3>3
  <2>. QED
    BY <2>1, <2>2
<1> HIDE DEF field
<1>3. Stands(field, table.aml, o) <=>
        o + Len(field) <= aml_len /\ \A k \in 1..Len(field) : Byte(o + k - 1) = field[k]
  BY <1>1, StandsBytes
<1>4. /\ o + 1 - 1 = o /\ o + 2 - 1 = o + 1 /\ o + 3 - 1 = o + 2 /\ o + 4 - 1 = o + 3
      /\ o + (follow + 1) <= aml_len <=> o + follow < aml_len
  BY <1>1
<1>5. (\A k \in 1..(follow + 1) : Byte(o + k - 1) = field[k]) <=>
        /\ Byte(o) = field[1]
        /\ follow >= 1 => Byte(o + 1) = field[2]
        /\ follow >= 2 => Byte(o + 2) = field[3]
        /\ follow >= 3 => Byte(o + 3) = field[4]
  <2>1. CASE follow = 0
    BY <1>4, <2>1
  <2>2. CASE follow = 1
    BY <1>4, <2>2
  <2>3. CASE follow = 2
    BY <1>4, <2>3
  <2>4. CASE follow = 3
    BY <1>4, <2>4
  <2>. QED
    BY <2>1, <2>2, <2>3, <2>4
<1>6. Stands(field, table.aml, o) <=>
        /\ o + follow < aml_len
        /\ Byte(o) = field[1]
        /\ follow >= 1 => Byte(o + 1) = field[2]
        /\ follow >= 2 => Byte(o + 2) = field[3]
        /\ follow >= 3 => Byte(o + 3) = field[4]
  BY <1>1, <1>3, <1>4, <1>5
<1>. QED
  BY <1>2, <1>6 DEF field

\* A number below 2^28 in a nibble and three bytes.
LEMMA Digits ==
  ASSUME NEW n \in Nat
  PROVE  /\ n % 16 \in 0..15 /\ \A k \in 1..3 : (n \div FieldUnit[k]) % 256 \in 0..255
         /\ n \div FieldUnit[1] < 256 => n = (n % 16) + ((n \div FieldUnit[1]) % 256) * Shift[1]
         /\ n \div FieldUnit[2] < 256 =>
              n = (n % 16) + ((n \div FieldUnit[1]) % 256) * Shift[1] + ((n \div FieldUnit[2]) % 256) * Shift[2]
         /\ n \div FieldUnit[3] < 256 =>
              n = (n % 16) + ((n \div FieldUnit[1]) % 256) * Shift[1] + ((n \div FieldUnit[2]) % 256) * Shift[2]
                    + ((n \div FieldUnit[3]) % 256) * Shift[3]
BY SMTT(60) DEF FieldUnit, Shift

\* The other way round.
LengthFrom(a, b, c, d) == a + b * Shift[1] + c * Shift[2] + d * Shift[3]

ReadsAs(n, a, b, c, d) ==
  /\ n \in Nat /\ n % 16 = a /\ (n \div FieldUnit[1]) % 256 = b
  /\ (n \div FieldUnit[2]) % 256 = c /\ (n \div FieldUnit[3]) % 256 = d
  /\ n \div FieldUnit[3] < 256
  /\ c = 0 /\ d = 0 => n \div FieldUnit[1] < 256
  /\ d = 0 => n \div FieldUnit[2] < 256

LEMMA Composed ==
  ASSUME NEW a \in 0..15, NEW b \in 0..255, NEW c \in 0..255, NEW d \in 0..255
  PROVE  ReadsAs(LengthFrom(a, b, c, d), a, b, c, d)
BY SMTT(60) DEF ReadsAs, FieldUnit, Shift, LengthFrom

LEMMA TimesNat == ASSUME NEW x \in Nat, NEW y \in Nat PROVE x * y \in Nat
OBVIOUS

\* What was written as a length is read as that length,
LEMMA LengthReads ==
  ASSUME table \in Tables, NEW o \in Nat, NEW n \in Nat, NEW follow \in 0..3, NEW r \in 0..3,
         Fits(n, follow), Stands(LengthField(n, follow, r), table.aml, o)
  PROVE  FollowAt(o) = follow /\ LengthAt(o) = n /\ o + follow < aml_len
<1>1. /\ o + follow < aml_len
      /\ Byte(o) = IF follow = 0 THEN n ELSE 64 * follow + 16 * r + (n % 16)
      /\ follow >= 1 => Byte(o + 1) = (n \div FieldUnit[1]) % 256
      /\ follow >= 2 => Byte(o + 2) = (n \div FieldUnit[2]) % 256
      /\ follow >= 3 => Byte(o + 3) = (n \div FieldUnit[3]) % 256
  BY FieldBytes
<1>2. CASE follow = 0
  <2>1. n < 64
    BY <1>2 DEF Fits
  <2>2. n \div 64 = 0 /\ n % 64 = n
    BY <2>1
  <2>. QED
    BY <1>1, <1>2, <2>2 DEF FollowAt, LengthAt
<1>3. CASE follow # 0
  <2> DEFINE a == n % 16
             u(k) == (n \div FieldUnit[k]) % 256
  <2>1. a \in 0..15
    OBVIOUS
  <2>2. Byte(o) = 64 * follow + 16 * r + a
    BY <1>1, <1>3
  <2>3. n \div FieldUnit[follow] < 256
    BY <1>3 DEF Fits
  <2>4. /\ n \div FieldUnit[1] < 256 => n = a + u(1) * Shift[1]
        /\ n \div FieldUnit[2] < 256 => n = a + u(1) * Shift[1] + u(2) * Shift[2]
        /\ n \div FieldUnit[3] < 256 => n = a + u(1) * Shift[1] + u(2) * Shift[2] + u(3) * Shift[3]
        /\ u(1) \in 0..255 /\ u(2) \in 0..255 /\ u(3) \in 0..255
    BY Digits
  <2>5. /\ follow >= 1 => Byte(o + 1) = u(1)
        /\ follow >= 2 => Byte(o + 2) = u(2)
        /\ follow >= 3 => Byte(o + 3) = u(3)
    BY <1>1
  <2> HIDE DEF a, u
  <2>6. (64 * follow + 16 * r + a) \div 64 = follow /\ (64 * follow + 16 * r + a) % 16 = a
    BY <2>1
  <2>7. FollowAt(o) = follow /\ Byte(o) % 16 = a
    BY <2>2, <2>6 DEF FollowAt
  <2>8. Shift[1] \in Nat /\ Shift[2] \in Nat /\ Shift[3] \in Nat
    BY SMT DEF Shift
  <2>9. LengthAt(o) = a + FollowingAt(o, 1) + FollowingAt(o, 2) + FollowingAt(o, 3)
    BY <1>3, <2>7 DEF LengthAt
  <2>10. /\ FollowingAt(o, 1) = IF 1 <= follow THEN Byte(o + 1) * Shift[1] ELSE 0
         /\ FollowingAt(o, 2) = IF 2 <= follow THEN Byte(o + 2) * Shift[2] ELSE 0
         /\ FollowingAt(o, 3) = IF 3 <= follow THEN Byte(o + 3) * Shift[3] ELSE 0
    BY <2>7 DEF FollowingAt
  <2> DEFINE p1 == u(1) * Shift[1]
             p2 == u(2) * Shift[2]
             p3 == u(3) * Shift[3]
  <2>11. p1 \in Nat /\ p2 \in Nat /\ p3 \in Nat
    <3>1. u(1) \in Nat /\ u(2) \in Nat /\ u(3) \in Nat
      BY <2>4
    <3>. QED
      BY <2>8, <3>1, TimesNat, Zenon
  <2>12. /\ FollowingAt(o, 1) = IF 1 <= follow THEN p1 ELSE 0
         /\ FollowingAt(o, 2) = IF 2 <= follow THEN p2 ELSE 0
         /\ FollowingAt(o, 3) = IF 3 <= follow THEN p3 ELSE 0
    BY <2>5, <2>10
  <2>13. /\ follow = 1 => n = a + p1
         /\ follow = 2 => n = a + p1 + p2
         /\ follow = 3 => n = a + p1 + p2 + p3
    BY <2>3, <2>4
  <2> HIDE DEF p1, p2, p3
  <2>14. LengthAt(o) = n
    BY <1>3, <2>1, <2>9, <2>11, <2>12, <2>13
  <2>. QED
    BY <1>1, <2>7, <2>14
<1>. QED
  BY <1>2, <1>3

\* and what is read as a length can have been written as one.
LEMMA LengthWrites ==
  ASSUME table \in Tables, NEW o \in Nat, o + FollowAt(o) < aml_len
  PROVE  /\ FollowAt(o) \in 0..3 /\ LengthAt(o) \in Nat /\ Fits(LengthAt(o), FollowAt(o))
         /\ \E r \in 0..3 : Stands(LengthField(LengthAt(o), FollowAt(o), r), table.aml, o)
<1> DEFINE lead == Byte(o)
           f == FollowAt(o)
           n == LengthAt(o)
           r == (lead \div 16) % 4
           a == lead % 16
           u(k) == IF k <= f THEN Byte(o + k) ELSE 0
<1>1. lead \in 0..255 /\ \A k \in 1..3 : Byte(o + k) \in 0..255
  BY ByteType
<1>2. /\ lead \div 64 \in 0..3 /\ r \in 0..3 /\ a \in 0..15
      /\ lead = 64 * (lead \div 64) + 16 * r + a
      /\ lead \div 64 = 0 => lead < 64 /\ lead % 64 = lead
  <2> HIDE DEF lead
  <2>. QED
    BY <1>1
<1>3. f = lead \div 64
  BY DEF FollowAt
<1>4. f \in 0..3 /\ lead = 64 * f + 16 * r + a /\ (f = 0 => lead < 64 /\ lead % 64 = lead)
  BY <1>2, <1>3
<1>5. u(1) \in 0..255 /\ u(2) \in 0..255 /\ u(3) \in 0..255
  BY <1>1
<1>6. CASE f = 0
  <2>1. n = lead
    BY <1>4, <1>6 DEF LengthAt
  <2>2. n \in Nat /\ n < 64
    BY <1>1, <1>4, <1>6, <2>1
  <2>3. Fits(n, f)
    BY <1>6, <2>2 DEF Fits
  <2> HIDE DEF n, f, r, lead
  <2>4. Stands(LengthField(n, f, 0), table.aml, o)
    <3>1. o + f < aml_len
      BY DEF f
    <3>2. Byte(o) = n
      BY <2>1 DEF lead
    <3>. QED
      BY <1>6, <2>2, <3>1, <3>2, FieldBytes
  <2>5. f \in 0..3 /\ n \in Nat /\ Fits(n, f) /\ \E s \in 0..3 : Stands(LengthField(n, f, s), table.aml, o)
    BY <1>4, <2>2, <2>3, <2>4
  <2>. QED
    BY <2>5 DEF n, f
<1>7. CASE f # 0
  <2>1. n = a + FollowingAt(o, 1) + FollowingAt(o, 2) + FollowingAt(o, 3)
    BY <1>7 DEF LengthAt
  <2>2. Shift[1] \in Nat /\ Shift[2] \in Nat /\ Shift[3] \in Nat
    BY SMT DEF Shift
  <2>3. ASSUME NEW k \in 1..3 PROVE FollowingAt(o, k) = u(k) * Shift[k]
    <3>1. Shift[k] \in Nat
      BY <2>2
    <3>. QED
      BY <3>1 DEF FollowingAt
  <2>4. n = a + u(1) * Shift[1] + u(2) * Shift[2] + u(3) * Shift[3]
    BY <2>1, <2>3
  <2>5. (f < 2 => u(2) = 0) /\ (f < 3 => u(3) = 0)
    BY <1>4
  <2>6. /\ f >= 1 => Byte(o + 1) = u(1)
        /\ f >= 2 => Byte(o + 2) = u(2)
        /\ f >= 3 => Byte(o + 3) = u(3)
    OBVIOUS
  <2>7. o + f < aml_len /\ Byte(o) = lead
    OBVIOUS
  <2> HIDE DEF n, f, r, lead, a, u
  <2>8. /\ n \in Nat /\ n % 16 = a /\ (n \div FieldUnit[1]) % 256 = u(1)
        /\ (n \div FieldUnit[2]) % 256 = u(2) /\ (n \div FieldUnit[3]) % 256 = u(3)
        /\ n \div FieldUnit[3] < 256
        /\ u(2) = 0 /\ u(3) = 0 => n \div FieldUnit[1] < 256
        /\ u(3) = 0 => n \div FieldUnit[2] < 256
    <3> DEFINE u1 == u(1)
               u2 == u(2)
               u3 == u(3)
    <3>1. /\ a \in 0..15 /\ u1 \in 0..255 /\ u2 \in 0..255 /\ u3 \in 0..255
          /\ n = LengthFrom(a, u1, u2, u3)
      BY <1>2, <1>5, <2>4 DEF LengthFrom
    <3> HIDE DEF u1, u2, u3
    <3>2. ReadsAs(n, a, u1, u2, u3)
      BY <3>1, Composed, Zenon
    <3>. QED
      BY <3>2 DEF u1, u2, u3, ReadsAs
  <2>9. n \div FieldUnit[f] < 256
    BY <1>4, <1>7, <2>5, <2>8
  <2>10. Fits(n, f)
    BY <1>7, <2>9 DEF Fits
  <2>11. Stands(LengthField(n, f, r), table.aml, o)
    <3>1. /\ o + f < aml_len
          /\ Byte(o) = IF f = 0 THEN n ELSE 64 * f + 16 * r + (n % 16)
          /\ f >= 1 => Byte(o + 1) = (n \div FieldUnit[1]) % 256
          /\ f >= 2 => Byte(o + 2) = (n \div FieldUnit[2]) % 256
          /\ f >= 3 => Byte(o + 3) = (n \div FieldUnit[3]) % 256
      BY <1>4, <1>7, <2>6, <2>7, <2>8
    <3>. QED
      BY <1>2, <1>4, <2>8, <3>1, FieldBytes
  <2>12. f \in 0..3 /\ n \in Nat /\ Fits(n, f) /\ \E s \in 0..3 : Stands(LengthField(n, f, s), table.aml, o)
    BY <1>2, <1>4, <2>8, <2>10, <2>11
  <2>. QED
    BY <2>12 DEF n, f
<1>. QED
  BY <1>6, <1>7

SizeAt(o) == CASE Byte(o) = 10 -> 1 [] Byte(o) = 11 -> 2
               [] Byte(o) = 12 -> 4 [] Byte(o) = 14 -> 8 [] OTHER -> 0
ValueAt(o) == IF SizeAt(o) = 0 THEN Byte(o) ELSE Byte(o + 1)
\* An integer up to 7 stands here.
SmallAt(o) ==
  /\ Byte(o) \in Opcodes \ {255}
  /\ SizeAt(o) > 0 => Byte(o + 1) <= 7 /\ \A k \in 2..SizeAt(o) : Byte(o + k) = 0

LEMMA IntegerHere ==
  /\ IntegerSize = SizeAt(aml_offset) /\ Integer = ValueAt(aml_offset)
  /\ IntegerInPackage /\ SmallInteger <=>
       aml_offset < package_end /\ SmallAt(aml_offset) /\ SizeAt(aml_offset) <= package_end - (aml_offset + 1)
BY DEF IntegerSize, SizeAt, Integer, ValueAt, IntegerInPackage, SmallInteger, SmallAt

LEMMA SizeType == \A o : SizeAt(o) \in {0, 1, 2, 4, 8}
BY DEF SizeAt

\* What was written as an integer is read as that integer,
LEMMA IntegerReads ==
  ASSUME table \in Tables, NEW o \in Nat, NEW v \in 0..7, NEW x \in Encodings(v), Stands(x, table.aml, o)
  PROVE  /\ SmallAt(o) /\ ValueAt(o) = v /\ Len(x) = 1 + SizeAt(o)
         /\ o + Len(x) <= aml_len
<1>1. ASSUME NEW n \in 1..9, Len(x) = n
      PROVE  o + n <= aml_len /\ \A k \in 1..n : Byte(o + k - 1) = x[k]
  BY <1>1, StandsBytes
<1>2. ASSUME NEW k \in 1..9 PROVE o + (k + 1) - 1 = o + k
  OBVIOUS
<1>3. CASE v \in {0, 1} /\ x = <<v>>
  <2>1. Len(x) = 1 /\ x[1] = v
    BY <1>3
  <2>2. Byte(o + 1 - 1) = v /\ o + 1 - 1 = o /\ o + 1 <= aml_len
    BY <1>1, <2>1
  <2>. QED
    BY <1>3, <2>1, <2>2 DEF SmallAt, ValueAt, SizeAt, Opcodes
<1>4. CASE x = <<10, v>>
  <2>1. Len(x) = 2 /\ x[1] = 10 /\ x[2] = v
    BY <1>4
  <2>2. Byte(o + 1 - 1) = 10 /\ Byte(o + 2 - 1) = v /\ o + 2 <= aml_len
    BY <1>1, <2>1
  <2>3. Byte(o) = 10 /\ Byte(o + 1) = v
    BY <2>2
  <2>. QED
    BY <2>1, <2>2, <2>3 DEF SmallAt, ValueAt, SizeAt, Opcodes
<1>5. CASE x = <<11, v, 0>>
  <2>1. Len(x) = 3 /\ x[1] = 11 /\ x[2] = v /\ x[3] = 0
    BY <1>5
  <2>2. /\ Byte(o + 1 - 1) = 11 /\ Byte(o + 2 - 1) = v /\ Byte(o + 3 - 1) = 0
        /\ o + 3 <= aml_len
    BY <1>1, <2>1
  <2>3. Byte(o) = 11 /\ Byte(o + 1) = v /\ Byte(o + 2) = 0
    BY <2>2
  <2>. QED
    BY <2>1, <2>2, <2>3 DEF SmallAt, ValueAt, SizeAt, Opcodes
<1>6. CASE x = <<12, v, 0, 0, 0>>
  <2>1. Len(x) = 5 /\ x[1] = 12 /\ x[2] = v /\ \A k \in 3..5 : x[k] = 0
    BY <1>6
  <2>2. /\ Byte(o + 1 - 1) = 12 /\ Byte(o + 2 - 1) = v /\ \A k \in 3..5 : Byte(o + k - 1) = 0
        /\ o + 5 <= aml_len
    BY <1>1, <2>1
  <2>3. Byte(o) = 12 /\ Byte(o + 1) = v
    BY <2>2
  <2>4. ASSUME NEW k \in 2..4 PROVE Byte(o + k) = 0
    <3>1. k + 1 \in 3..5 /\ o + (k + 1) - 1 = o + k
      OBVIOUS
    <3>. QED
      BY <2>2, <3>1
  <2>. QED
    BY <2>1, <2>2, <2>3, <2>4 DEF SmallAt, ValueAt, SizeAt, Opcodes
<1>7. CASE x = <<14, v, 0, 0, 0, 0, 0, 0, 0>>
  <2>1. Len(x) = 9 /\ x[1] = 14 /\ x[2] = v /\ \A k \in 3..9 : x[k] = 0
    BY <1>7
  <2>2. /\ Byte(o + 1 - 1) = 14 /\ Byte(o + 2 - 1) = v /\ \A k \in 3..9 : Byte(o + k - 1) = 0
        /\ o + 9 <= aml_len
    BY <1>1, <2>1
  <2>3. Byte(o) = 14 /\ Byte(o + 1) = v
    BY <2>2
  <2>4. ASSUME NEW k \in 2..8 PROVE Byte(o + k) = 0
    <3>1. k + 1 \in 3..9 /\ o + (k + 1) - 1 = o + k
      OBVIOUS
    <3>. QED
      BY <2>2, <3>1
  <2>. QED
    BY <2>1, <2>2, <2>3, <2>4 DEF SmallAt, ValueAt, SizeAt, Opcodes
<1>. QED
  BY <1>3, <1>4, <1>5, <1>6, <1>7 DEF Encodings

\* and what is read as one can have been written as it.
LEMMA IntegerWrites ==
  ASSUME table \in Tables, NEW o \in Nat, SmallAt(o), o + 1 + SizeAt(o) <= aml_len
  PROVE  /\ ValueAt(o) \in 0..7
         /\ \E x \in Encodings(ValueAt(o)) : Stands(x, table.aml, o) /\ Len(x) = 1 + SizeAt(o)
<1> DEFINE v == ValueAt(o)
<1>1. Byte(o) \in 0..255 /\ Byte(o + 1) \in 0..255
  BY ByteType
<1>2. ASSUME NEW x \in Encodings(v), Len(x) = 1 + SizeAt(o), v \in 0..7,
             \A k \in 1..Len(x) : Byte(o + k - 1) = x[k]
      PROVE  /\ v \in 0..7
             /\ \E y \in Encodings(v) : Stands(y, table.aml, o) /\ Len(y) = 1 + SizeAt(o)
  <2>1. Len(x) \in Nat /\ o + Len(x) <= aml_len
    BY <1>2, SizeType, LengthType
  <2>2. Stands(x, table.aml, o)
    BY <1>2, <2>1, StandsBytes
  <2>. QED
    BY <1>2, <2>2
<1>3. CASE SizeAt(o) = 0
  <2>1. v = Byte(o) /\ v \in {0, 1}
    BY <1>3 DEF SmallAt, Opcodes, ValueAt, SizeAt
  <2>2. <<v>> \in Encodings(v)
    BY <2>1 DEF Encodings
  <2>3. Len(<<v>>) = 1 /\ \A k \in 1..1 : Byte(o + k - 1) = <<v>>[k]
    BY <2>1
  <2>. QED
    BY <1>2, <1>3, <2>1, <2>2, <2>3
<1>4. CASE SizeAt(o) # 0
  <2>1. v = Byte(o + 1) /\ v \in 0..7 /\ SizeAt(o) > 0
    BY <1>1, <1>4, SizeType DEF SmallAt, ValueAt
  <2>2. \A k \in 2..SizeAt(o) : Byte(o + k) = 0
    BY <2>1 DEF SmallAt
  <2> HIDE DEF v
  <2>3. ASSUME NEW k \in 3..(1 + SizeAt(o)) PROVE Byte(o + k - 1) = 0
    <3>1. k - 1 \in 2..SizeAt(o) /\ o + k - 1 = o + (k - 1)
      BY <2>1, SizeType
    <3>. QED
      BY <2>2, <3>1
  <2>4. o + 1 - 1 = o /\ o + 2 - 1 = o + 1
    OBVIOUS
  <2>5. CASE SizeAt(o) = 1
    <3>1. Byte(o) = 10
      BY <2>5 DEF SizeAt
    <3> DEFINE x == <<10, v>>
    <3>2. x \in Encodings(v) /\ Len(x) = 2 /\ x[1] = 10 /\ x[2] = v
      BY DEF Encodings
    <3> HIDE DEF x
    <3>3. \A k \in 1..Len(x) : Byte(o + k - 1) = x[k]
      BY <2>1, <2>4, <3>1, <3>2
    <3>4. Len(x) = 1 + SizeAt(o)
      BY <2>5, <3>2
    <3>. QED
      BY <1>2, <2>1, <3>2, <3>3, <3>4 DEF v
  <2>6. CASE SizeAt(o) = 2
    <3>1. Byte(o) = 11
      BY <2>6 DEF SizeAt
    <3> DEFINE x == <<11, v, 0>>
    <3>2. x \in Encodings(v) /\ Len(x) = 3 /\ x[1] = 11 /\ x[2] = v /\ \A k \in 3..3 : x[k] = 0
      BY DEF Encodings
    <3> HIDE DEF x
    <3>3. \A k \in 1..Len(x) : Byte(o + k - 1) = x[k]
      BY <2>1, <2>3, <2>4, <2>6, <3>1, <3>2
    <3>4. Len(x) = 1 + SizeAt(o)
      BY <2>6, <3>2
    <3>. QED
      BY <1>2, <2>1, <3>2, <3>3, <3>4 DEF v
  <2>7. CASE SizeAt(o) = 4
    <3>1. Byte(o) = 12
      BY <2>7 DEF SizeAt
    <3> DEFINE x == <<12, v, 0, 0, 0>>
    <3>2. x \in Encodings(v) /\ Len(x) = 5 /\ x[1] = 12 /\ x[2] = v /\ \A k \in 3..5 : x[k] = 0
      BY DEF Encodings
    <3> HIDE DEF x
    <3>3. \A k \in 1..Len(x) : Byte(o + k - 1) = x[k]
      BY <2>1, <2>3, <2>4, <2>7, <3>1, <3>2
    <3>4. Len(x) = 1 + SizeAt(o)
      BY <2>7, <3>2
    <3>. QED
      BY <1>2, <2>1, <3>2, <3>3, <3>4 DEF v
  <2>8. CASE SizeAt(o) = 8
    <3>1. Byte(o) = 14
      BY <2>8 DEF SizeAt
    <3> DEFINE x == <<14, v, 0, 0, 0, 0, 0, 0, 0>>
    <3>2. x \in Encodings(v) /\ Len(x) = 9 /\ x[1] = 14 /\ x[2] = v /\ \A k \in 3..9 : x[k] = 0
      BY DEF Encodings
    <3> HIDE DEF x
    <3>3. \A k \in 1..Len(x) : Byte(o + k - 1) = x[k]
      BY <2>1, <2>3, <2>4, <2>8, <3>1, <3>2
    <3>4. Len(x) = 1 + SizeAt(o)
      BY <2>8, <3>2
    <3>. QED
      BY <1>2, <2>1, <3>2, <3>3, <3>4 DEF v
  <2>. QED
    BY <1>4, <2>5, <2>6, <2>7, <2>8, SizeType
<1>. QED
  BY <1>3, <1>4

-----------------------------------------------------------------------------
(* A package stands where the code finds one.                               *)

Pairs == (0..7) \X (0..7)
NameStands(o) == Stands(NAME, table.aml, o) /\ Stands(<<PACKAGE>>, table.aml, o + 4)
ValuesStand(vs, o, n) ==
  \E v \in vs : \E x \in Encodings(v[1]) : \E y \in Encodings(v[2]) :
    /\ Stands(x, table.aml, o) /\ Stands(y, table.aml, o + Len(x))
    /\ o + Len(x) + Len(y) <= n
Usable(vs, o) ==
  /\ NameStands(o)
  /\ o + 5 + FollowAt(o + 5) < aml_len /\ LengthAt(o + 5) <= aml_len - (o + 5)
  /\ Byte(o + 6 + FollowAt(o + 5)) >= 2
  /\ ValuesStand(vs, o + 7 + FollowAt(o + 5), o + 5 + LengthAt(o + 5))

LEMMA EncodingLength == ASSUME NEW v \in 0..7, NEW x \in Encodings(v) PROVE Len(x) \in 1..9
<1>1. CASE x = <<v>>
  BY <1>1
<1>2. CASE x = <<10, v>>
  BY <1>2
<1>3. CASE x = <<11, v, 0>>
  BY <1>3
<1>4. CASE x = <<12, v, 0, 0, 0>>
  BY <1>4
<1>5. CASE x = <<14, v, 0, 0, 0, 0, 0, 0, 0>>
  BY <1>5
<1>. QED
  BY <1>1, <1>2, <1>3, <1>4, <1>5 DEF Encodings

LEMMA OneByte ==
  ASSUME table \in Tables, NEW o \in Nat, NEW b
  PROVE  Stands(<<b>>, table.aml, o) <=> o < aml_len /\ Byte(o) = b
<1> DEFINE x == <<b>>
<1>1. Len(x) = 1 /\ Len(x) \in Nat /\ x[1] = b /\ o + 1 - 1 = o /\ aml_len \in Nat
  BY LengthType
<1> HIDE DEF x
<1>2. Stands(x, table.aml, o) <=> o + Len(x) <= aml_len /\ \A k \in 1..Len(x) : Byte(o + k - 1) = x[k]
  BY <1>1, StandsBytes, Zenon
<1>3. Stands(x, table.aml, o) <=> o < aml_len /\ Byte(o) = b
  BY <1>1, <1>2
<1>. QED
  BY <1>3 DEF x

LEMMA PackageReads ==
  ASSUME table \in Tables, NEW o \in Nat, NEW vs \in SUBSET Pairs, PackageStands(vs, table.aml, o)
  PROVE  Usable(vs, o)
<1>1. aml_len = Len(table.aml) /\ aml_len \in Nat
  BY LengthType DEF aml_len
<1>2. PICK follow \in 0..3, n \in 0..(aml_len - (o + 5)) :
        /\ Fits(n, follow) /\ \E r \in 0..3 : Stands(LengthField(n, follow, r), table.aml, o + 5)
        /\ \E count \in 2..255 : Stands(<<count>>, table.aml, o + 6 + follow)
        /\ \E v \in vs : \E x \in Encodings(v[1]) :
             /\ Stands(x, table.aml, o + 7 + follow)
             /\ \E y \in Encodings(v[2]) :
                  /\ Stands(y, table.aml, o + 7 + follow + Len(x))
                  /\ 2 + follow + Len(x) + Len(y) <= n
  BY <1>1 DEF PackageStands
<1>3. o + 5 \in Nat /\ n \in Nat /\ n <= aml_len - (o + 5)
  BY <1>1
<1>4. PICK r \in 0..3 : Stands(LengthField(n, follow, r), table.aml, o + 5)
  BY <1>2
<1>5. FollowAt(o + 5) = follow /\ LengthAt(o + 5) = n /\ o + 5 + follow < aml_len
  BY <1>2, <1>3, <1>4, LengthReads
<1>6. PICK count \in 2..255 : Stands(<<count>>, table.aml, o + 6 + follow)
  BY <1>2
<1>7. Byte(o + 6 + follow) >= 2
  <2>1. o + 6 + follow \in Nat
    OBVIOUS
  <2>. QED
    BY <1>6, <2>1, OneByte
<1>8. PICK v \in vs : \E x \in Encodings(v[1]) : \E y \in Encodings(v[2]) :
        /\ Stands(x, table.aml, o + 7 + follow)
        /\ Stands(y, table.aml, o + 7 + follow + Len(x))
        /\ 2 + follow + Len(x) + Len(y) <= n
  BY <1>2
<1> PICK x \in Encodings(v[1]), y \in Encodings(v[2]) :
        /\ Stands(x, table.aml, o + 7 + follow)
        /\ Stands(y, table.aml, o + 7 + follow + Len(x))
        /\ 2 + follow + Len(x) + Len(y) <= n
  BY <1>8
<1>9. v[1] \in 0..7 /\ v[2] \in 0..7
  BY DEF Pairs
<1>10. Len(x) \in Nat /\ Len(y) \in Nat
  BY <1>9, EncodingLength
<1>11. o + 7 + follow + Len(x) + Len(y) <= o + 5 + n
  BY <1>3, <1>8, <1>10
<1>12. ValuesStand(vs, o + 7 + follow, o + 5 + n)
  BY <1>8, <1>11 DEF ValuesStand
<1>13. NameStands(o)
  BY DEF PackageStands, NameStands
<1>. QED
  BY <1>3, <1>5, <1>7, <1>12, <1>13 DEF Usable

LEMMA PackageWrites ==
  ASSUME table \in Tables, NEW o \in Nat, NEW vs \in SUBSET Pairs, Usable(vs, o)
  PROVE  PackageStands(vs, table.aml, o)
<1> DEFINE f == FollowAt(o + 5)
           n == LengthAt(o + 5)
<1>1. aml_len = Len(table.aml) /\ aml_len \in Nat /\ o + 5 \in Nat
  BY LengthType DEF aml_len
<1>2. /\ NameStands(o) /\ o + 5 + f < aml_len /\ n <= aml_len - (o + 5)
      /\ Byte(o + 6 + f) >= 2 /\ ValuesStand(vs, o + 7 + f, o + 5 + n)
  BY DEF Usable
<1>3. /\ f \in 0..3 /\ n \in Nat /\ Fits(n, f)
      /\ \E r \in 0..3 : Stands(LengthField(n, f, r), table.aml, o + 5)
  BY <1>1, <1>2, LengthWrites
<1> HIDE DEF f, n
<1>4. PICK v \in vs : \E x \in Encodings(v[1]) : \E y \in Encodings(v[2]) :
        /\ Stands(x, table.aml, o + 7 + f) /\ Stands(y, table.aml, o + 7 + f + Len(x))
        /\ o + 7 + f + Len(x) + Len(y) <= o + 5 + n
  BY <1>2 DEF ValuesStand
<1> PICK x \in Encodings(v[1]), y \in Encodings(v[2]) :
        /\ Stands(x, table.aml, o + 7 + f) /\ Stands(y, table.aml, o + 7 + f + Len(x))
        /\ o + 7 + f + Len(x) + Len(y) <= o + 5 + n
  BY <1>4
<1>5. v[1] \in 0..7 /\ v[2] \in 0..7
  BY DEF Pairs
<1>6. Len(x) \in 1..9 /\ Len(y) \in 1..9
  BY <1>5, EncodingLength
<1>7. 2 + f + Len(x) + Len(y) <= n /\ o + 6 + f < aml_len /\ n \in 0..(aml_len - (o + 5))
  BY <1>1, <1>2, <1>3, <1>4, <1>6
<1>8. \E count \in 2..255 : Stands(<<count>>, table.aml, o + 6 + f)
  <2>1. o + 6 + f \in Nat
    BY <1>3
  <2>2. Byte(o + 6 + f) \in 2..255
    <3> DEFINE b == Byte(o + 6 + f)
    <3>1. b \in 0..255 /\ b >= 2
      BY <1>2, <2>1, ByteType
    <3> HIDE DEF b
    <3>2. b \in 2..255
      BY <3>1
    <3>. QED
      BY <3>2 DEF b
  <2>3. Stands(<<Byte(o + 6 + f)>>, table.aml, o + 6 + f)
    BY <1>7, <2>1, OneByte
  <2>. QED
    BY <2>2, <2>3
<1>9. \E w \in vs : \E z \in Encodings(w[1]) :
        /\ Stands(z, table.aml, o + 7 + f)
        /\ \E y0 \in Encodings(w[2]) :
             /\ Stands(y0, table.aml, o + 7 + f + Len(z))
             /\ 2 + f + Len(z) + Len(y0) <= n
  BY <1>4, <1>7
<1>10. n \in 0..(Len(table.aml) - (o + 5))
  BY <1>1, <1>7
<1>. QED
  BY <1>2, <1>3, <1>8, <1>9, <1>10 DEF PackageStands, NameStands

\* What stands at a place is one pair, whoever asks.
LEMMA OnePair ==
  ASSUME table \in Tables, NEW o \in Nat, NEW v \in Pairs, PackageStands({v}, table.aml, o)
  PROVE  /\ PackageStands(Pairs, table.aml, o)
         /\ \A w \in Pairs : PackageStands({w}, table.aml, o) => v = w
<1> DEFINE q == o + 7 + FollowAt(o + 5)
           e == o + 5 + LengthAt(o + 5)
<1>1. Usable({v}, o)
  BY PackageReads
<1>2. q \in Nat
  <2>1. o + 5 \in Nat /\ o + 5 + FollowAt(o + 5) < aml_len
    BY <1>1 DEF Usable
  <2>2. FollowAt(o + 5) \in 0..3
    BY <2>1, LengthWrites
  <2>. QED
    BY <2>2
<1>3. Usable(Pairs, o)
  BY <1>1 DEF Usable, ValuesStand
<1>4. ASSUME NEW w \in Pairs, Usable({w}, o)
      PROVE  w[1] = ValueAt(q) /\ w[2] = ValueAt(q + 1 + SizeAt(q))
  <2>1. PICK x \in Encodings(w[1]), y \in Encodings(w[2]) :
          Stands(x, table.aml, q) /\ Stands(y, table.aml, q + Len(x))
    BY <1>4 DEF Usable, ValuesStand
  <2>2. w[1] \in 0..7 /\ w[2] \in 0..7
    BY DEF Pairs
  <2> HIDE DEF q
  <2>3. w[1] = ValueAt(q) /\ Len(x) = 1 + SizeAt(q)
    BY <1>2, <2>1, <2>2, IntegerReads
  <2>4. q + Len(x) = q + 1 + SizeAt(q) /\ q + Len(x) \in Nat
    BY <1>2, <2>3, SizeType
  <2>5. w[2] = ValueAt(q + Len(x))
    BY <2>1, <2>2, <2>4, IntegerReads
  <2>. QED
    BY <2>3, <2>4, <2>5
<1>5. PackageStands(Pairs, table.aml, o)
  BY <1>3, PackageWrites
<1>6. ASSUME NEW w \in Pairs, PackageStands({w}, table.aml, o) PROVE v = w
  <2>1. Usable({w}, o)
    BY <1>6, PackageReads
  <2>2. v[1] = w[1] /\ v[2] = w[2]
    BY <1>1, <1>4, <2>1
  <2>. QED
    BY <2>2 DEF Pairs
<1>. QED
  BY <1>5, <1>6

-----------------------------------------------------------------------------
(* What the search has found.                                               *)

Here == i + 5
FieldEnd == Here + 1 + FollowAt(Here)
PackageEnd == Here + LengthAt(Here)

\* What was read at the place where the search stands
ReadHere ==
  /\ pc \in {"length", "count", "integers", "sleep"} => NameStands(i)
  /\ pc \in {"count", "integers", "sleep"} =>
       /\ FieldEnd <= aml_len /\ LengthAt(Here) <= aml_len - Here
       /\ package_end = PackageEnd
  /\ pc = "count" => aml_offset = FieldEnd
  /\ pc \in {"integers", "sleep"} => Byte(FieldEnd) >= 2
  /\ pc = "integers" /\ values = <<>> => aml_offset = FieldEnd + 1
  /\ pc = "integers" /\ values # <<>> =>
       \E x \in Encodings(values[1]) : Stands(x, table.aml, FieldEnd + 1) /\ aml_offset = FieldEnd + 1 + Len(x)
  /\ pc = "sleep" =>
       Len(values) = 2 /\ ValuesStand({<<values[1], values[2]>>}, FieldEnd + 1, PackageEnd)

Passed == \A p \in 0..(i - 1) : ~PackageStands(Pairs, table.aml, p)

PortsOk == table.pm1a <= UINT16_MAX /\ table.pm1b <= UINT16_MAX
Turned(v) ==
  {<<"a", v[1] * 1024 + 8192>>} \cup (IF table.pm1b = 0 THEN {} ELSE {<<"b", v[2] * 1024 + 8192>>})

\* The pair of the first package was sent.
FirstSent ==
  \E p \in 0..aml_len, v \in Pairs :
    /\ PackageStands({v}, table.aml, p) /\ sent = Turned(v)
    /\ \A o \in 0..(p - 1) : ~PackageStands(Pairs, table.aml, o)

Outcome ==
  /\ pc # "halted" => sent = {}
  /\ pc \notin {"start", "halted"} => PortsOk
  /\ pc = "halted" =>
       \/ sent = {} /\ ~PortsOk
       \/ sent = {} /\ PortsOk /\ \A p \in 0..aml_len : ~PackageStands(Pairs, table.aml, p)
       \/ PortsOk /\ FirstSent

Meant == ReadHere /\ Passed /\ Outcome

LEMMA InitMeant == ShutdownInit => Meant
<1> SUFFICES ASSUME ShutdownInit PROVE Meant
  OBVIOUS
<1>1. pc = "start" /\ i = 0 /\ sent = {}
  BY DEF ShutdownInit
<1>. QED
  BY <1>1 DEF Meant, ReadHere, Passed, Outcome

\* What stands in the table does not change.
LEMMA SamePlace ==
  ASSUME table' = table, i' = i
  PROVE  /\ aml_len' = aml_len /\ Here' = Here /\ FieldEnd' = FieldEnd /\ PackageEnd' = PackageEnd
         /\ LengthAt(Here)' = LengthAt(Here) /\ Byte(FieldEnd)' = Byte(FieldEnd)
         /\ NameStands(i)' = NameStands(i) /\ Passed' = Passed /\ PortsOk' = PortsOk
<1>1. aml_len' = aml_len /\ Here' = Here /\ NameStands(i)' = NameStands(i) /\ PortsOk' = PortsOk
  BY DEF aml_len, Here, NameStands, PortsOk
<1>2. \A o : (IF o < aml_len' THEN table'.aml[o + 1] ELSE 0) = Byte(o)
  BY <1>1 DEF Byte
<1>3. FollowAt(Here)' = FollowAt(Here)
  BY <1>1, <1>2 DEF FollowAt, Byte
<1>4. LengthAt(Here)' = LengthAt(Here)
  BY <1>1, <1>2, <1>3 DEF LengthAt, FollowingAt, FollowAt, Byte, Shift
<1>5. FieldEnd' = FieldEnd /\ PackageEnd' = PackageEnd
  BY <1>1, <1>3, <1>4 DEF FieldEnd, PackageEnd
<1>6. Byte(FieldEnd)' = Byte(FieldEnd)
  BY <1>1, <1>2, <1>5 DEF Byte
<1>7. Passed' = Passed
  BY DEF Passed
<1>. QED
  BY <1>1, <1>4, <1>5, <1>6, <1>7

LEMMA PlaceTypes ==
  ASSUME ShutdownIInv, i + 5 <= aml_len
  PROVE  /\ table \in Tables /\ aml_len \in Nat /\ i \in Nat /\ Here \in Nat
         /\ FollowAt(Here) \in 0..3 /\ LengthAt(Here) \in Nat
         /\ FieldEnd \in Nat /\ PackageEnd \in Nat
         /\ Usable(Pairs, i) <=>
              /\ NameStands(i) /\ FieldEnd <= aml_len /\ LengthAt(Here) <= aml_len - Here
              /\ Byte(FieldEnd) >= 2 /\ ValuesStand(Pairs, FieldEnd + 1, PackageEnd)
<1>1. /\ table \in Tables /\ aml_len \in Nat /\ i \in Nat /\ Here \in Nat /\ Here = i + 5
  BY LengthType DEF ShutdownIInv, ShutdownTypeInv, Here
<1>2. FollowAt(Here) \in 0..3
  <2>1. PICK b \in 0..255 : b = Byte(Here)
    BY <1>1, ByteType
  <2>2. b \div 64 \in 0..3
    OBVIOUS
  <2>. QED
    BY <2>1, <2>2 DEF FollowAt
<1>3. LengthAt(Here) \in Nat
  <2> DEFINE g(k) == FollowingAt(Here, k)
             low == Byte(Here) % 16
  <2>1. ASSUME NEW k \in 1..3 PROVE g(k) \in Nat
    <3>1. Shift[k] \in Nat
      BY DEF Shift
    <3>2. Byte(Here + k) \in Nat
      BY <1>1, ByteType
    <3>. QED
      BY <3>1, <3>2, TimesNat DEF FollowingAt
  <2>2. PICK b \in 0..255 : b = Byte(Here)
    BY <1>1, ByteType
  <2>3. b % 16 \in Nat /\ b % 64 \in Nat
    OBVIOUS
  <2>4. low \in Nat /\ Byte(Here) % 64 \in Nat /\ g(1) \in Nat /\ g(2) \in Nat /\ g(3) \in Nat
    BY <2>1, <2>2, <2>3
  <2>5. LengthAt(Here) = IF FollowAt(Here) = 0 THEN Byte(Here) % 64 ELSE low + g(1) + g(2) + g(3)
    BY DEF LengthAt
  <2> HIDE DEF low, g
  <2>. QED
    BY <2>4, <2>5
<1>4. FieldEnd = Here + 1 + FollowAt(Here) /\ PackageEnd = Here + LengthAt(Here)
  BY DEF FieldEnd, PackageEnd
<1>5. FieldEnd \in Nat /\ PackageEnd \in Nat
  BY <1>1, <1>2, <1>3, <1>4
<1>6. Usable(Pairs, i) <=>
        /\ NameStands(i)
        /\ Here + FollowAt(Here) < aml_len /\ LengthAt(Here) <= aml_len - Here
        /\ Byte(i + 6 + FollowAt(Here)) >= 2
        /\ ValuesStand(Pairs, i + 7 + FollowAt(Here), Here + LengthAt(Here))
  BY DEF Usable, Here
<1>7. /\ i + 6 + FollowAt(Here) = FieldEnd /\ i + 7 + FollowAt(Here) = FieldEnd + 1
      /\ Here + FollowAt(Here) < aml_len <=> FieldEnd <= aml_len
  BY <1>1, <1>2, <1>4
<1>. QED
  BY <1>1, <1>2, <1>3, <1>4, <1>5, <1>6, <1>7

\* A place is given up, where no package stands.
LEMMA ContinueMeant ==
  ASSUME ShutdownIInv, Meant, Continue, i + 5 <= aml_len, pc \notin {"start", "halted"}, ~Usable(Pairs, i)
  PROVE  Meant'
<1>1. table \in Tables /\ i \in Nat
  BY PlaceTypes
<1>2. ~PackageStands(Pairs, table.aml, i)
  BY <1>1, PackageReads
<1>3. table' = table /\ i' = i + 1 /\ pc' = "search" /\ sent' = sent
  BY DEF Continue
<1>4. Passed'
  <2>1. ASSUME NEW p \in 0..(i' - 1) PROVE ~PackageStands(Pairs, table.aml, p)
    <3>1. p \in 0..(i - 1) \/ p = i
      BY <1>1, <1>3
    <3>. QED
      BY <1>2, <3>1 DEF Meant, Passed
  <2>. QED
    BY <1>3, <2>1 DEF Passed
<1>5. Outcome'
  BY <1>3 DEF Meant, Outcome, PortsOk
<1>6. ReadHere'
  BY <1>3 DEF ReadHere
<1>. QED
  BY <1>4, <1>5, <1>6 DEF Meant

LEMMA NameIff ==
  ASSUME table \in Tables, i \in Nat
  PROVE  NameStands(i) <=> IsPackage /\ i + 5 <= aml_len
<1>1. Len(NAME) = 4 /\ Len(NAME) \in Nat /\ aml_len \in Nat
  BY LengthType DEF NAME
<1>2. Stands(NAME, table.aml, i) <=> i + 4 <= aml_len /\ \A k \in 1..4 : Byte(i + k - 1) = NAME[k]
  <2> DEFINE m == Len(NAME)
  <2>1. Stands(NAME, table.aml, i) <=> i + m <= aml_len /\ \A k \in 1..m : Byte(i + k - 1) = NAME[k]
    BY <1>1, StandsBytes
  <2>2. m = 4
    BY <1>1
  <2> HIDE DEF m
  <2>. QED
    BY <2>1, <2>2
<1>3. Stands(<<PACKAGE>>, table.aml, i + 4) <=> i + 4 < aml_len /\ Byte(i + 4) = PACKAGE
  <2>1. i + 4 \in Nat
    OBVIOUS
  <2>. QED
    BY <2>1, OneByte
<1>. QED
  BY <1>1, <1>2, <1>3 DEF NameStands, IsPackage

LEMMA SearchMeant == ASSUME ShutdownIInv, Meant, PassByte \/ FindName PROVE Meant'
<1>1. table \in Tables /\ aml_len \in Nat /\ i \in Nat /\ i + 5 <= aml_len /\ pc = "search"
  BY LengthType DEF ShutdownIInv, ShutdownTypeInv, PassByte, FindName, Room
<1>2. CASE PassByte
  <2>1. ~NameStands(i)
    BY <1>1, <1>2, NameIff DEF PassByte
  <2>2. ~Usable(Pairs, i)
    BY <2>1 DEF Usable
  <2>. QED
    BY <1>1, <1>2, <2>2, ContinueMeant DEF PassByte
<1>3. CASE FindName
  <2>1. NameStands(i)
    BY <1>1, <1>3, NameIff DEF FindName
  <2>2. table' = table /\ i' = i /\ pc' = "length" /\ sent' = sent
    BY <1>3 DEF FindName
  <2>3. ReadHere'
    BY <2>1, <2>2, SamePlace DEF ReadHere
  <2>. QED
    BY <1>1, <2>2, <2>3, SamePlace DEF Meant, Outcome
<1>. QED
  BY <1>2, <1>3

LEMMA LengthMeant == ASSUME ShutdownIInv, Meant, Truncated \/ BadLength \/ ReadLength PROVE Meant'
<1>1. i + 5 <= aml_len /\ aml_offset = Here /\ pc = "length" /\ NameStands(i)
  BY DEF ShutdownIInv, Position, Here, Meant, ReadHere, Truncated, BadLength, ReadLength
<1>2. /\ aml_len \in Nat /\ Here \in Nat /\ FollowAt(Here) \in 0..3 /\ LengthAt(Here) \in Nat
      /\ FieldEnd \in Nat /\ PackageEnd \in Nat
  BY <1>1, PlaceTypes
<1>3. FollowBytes = FollowAt(Here) /\ PackageLength = LengthAt(Here)
  BY <1>1, LengthHere
<1>4. FieldEnd = Here + 1 + FollowAt(Here) /\ PackageEnd = Here + LengthAt(Here)
  BY DEF FieldEnd, PackageEnd
\* Two integers of a byte each and the count do not go in less.
<1>5. Usable(Pairs, i) =>
        /\ FieldEnd <= aml_len /\ LengthAt(Here) <= aml_len - Here
        /\ LengthAt(Here) > 1 + FollowAt(Here)
  <2>1. SUFFICES ASSUME Usable(Pairs, i)
                 PROVE  /\ FieldEnd <= aml_len /\ LengthAt(Here) <= aml_len - Here
                        /\ LengthAt(Here) > 1 + FollowAt(Here)
    OBVIOUS
  <2>2. /\ FieldEnd <= aml_len /\ LengthAt(Here) <= aml_len - Here
        /\ ValuesStand(Pairs, FieldEnd + 1, PackageEnd)
    BY <1>1, <2>1, PlaceTypes
  <2>3. PICK v \in Pairs : \E x \in Encodings(v[1]) : \E y \in Encodings(v[2]) :
          FieldEnd + 1 + Len(x) + Len(y) <= PackageEnd
    BY <2>2 DEF ValuesStand
  <2>4. v[1] \in 0..7 /\ v[2] \in 0..7
    BY DEF Pairs
  <2>5. PICK x \in Encodings(v[1]), y \in Encodings(v[2]) : FieldEnd + 1 + Len(x) + Len(y) <= PackageEnd
    BY <2>3
  <2>6. Len(x) \in 1..9 /\ Len(y) \in 1..9
    BY <2>4, EncodingLength
  <2> DEFINE n == LengthAt(Here)
             f == FollowAt(Here)
             lx == Len(x)
             ly == Len(y)
  <2>7. /\ Here \in Nat /\ f \in 0..3 /\ n \in Nat /\ lx \in 1..9 /\ ly \in 1..9
        /\ Here + 1 + f + 1 + lx + ly <= Here + n
    BY <1>2, <1>4, <2>5, <2>6
  <2> HIDE DEF n, f, lx, ly
  <2>8. n > 1 + f
    BY <2>7
  <2>. QED
    BY <2>2, <2>8 DEF n, f
<1>6. CASE Truncated
  <2>1. ~(FieldEnd <= aml_len)
    BY <1>1, <1>2, <1>3, <1>4, <1>6 DEF Truncated
  <2>. QED
    BY <1>1, <1>5, <1>6, <2>1, ContinueMeant DEF Truncated
<1>7. CASE BadLength
  <2>1. ~(LengthAt(Here) <= aml_len - Here /\ LengthAt(Here) > 1 + FollowAt(Here))
    BY <1>1, <1>2, <1>3, <1>7 DEF BadLength, LengthOk, Encoded
  <2>. QED
    BY <1>1, <1>5, <1>7, <2>1, ContinueMeant DEF BadLength
<1>8. CASE ReadLength
  <2>1. /\ table' = table /\ i' = i /\ pc' = "count" /\ sent' = sent
        /\ aml_offset' = FieldEnd /\ package_end' = PackageEnd
        /\ LengthAt(Here) <= aml_len - Here /\ FieldEnd <= aml_len
    BY <1>1, <1>2, <1>3, <1>4, <1>8 DEF ReadLength, LengthOk, Encoded
  <2>2. ReadHere'
    BY <1>1, <2>1, SamePlace DEF ReadHere
  <2>. QED
    BY <1>1, <2>1, <2>2, SamePlace DEF Meant, Outcome
<1>. QED
  BY <1>6, <1>7, <1>8

LEMMA CountMeant == ASSUME ShutdownIInv, Meant, TooFew \/ ReadCount PROVE Meant'
<1>1. /\ i + 5 <= aml_len /\ aml_offset = FieldEnd /\ pc = "count" /\ NameStands(i) /\ values = <<>>
      /\ FieldEnd <= aml_len /\ LengthAt(Here) <= aml_len - Here /\ package_end = PackageEnd
  BY DEF ShutdownIInv, Position, Meant, ReadHere, TooFew, ReadCount
<1>2. FieldEnd \in Nat /\ table \in Tables
  BY <1>1, PlaceTypes
<1>3. CASE TooFew
  <2>1. ~(Byte(FieldEnd) >= 2)
    <3>1. PICK b \in 0..255 : b = Byte(FieldEnd)
      BY <1>2, ByteType
    <3>2. b < 2
      BY <1>1, <1>3, <3>1 DEF TooFew
    <3>. QED
      BY <3>1, <3>2
  <2>2. ~Usable(Pairs, i)
    BY <1>1, <2>1, PlaceTypes
  <2>. QED
    BY <1>1, <1>3, <2>2, ContinueMeant DEF TooFew
<1>4. CASE ReadCount
  <2>1. /\ table' = table /\ i' = i /\ pc' = "integers" /\ sent' = sent /\ values' = <<>>
        /\ aml_offset' = FieldEnd + 1 /\ package_end' = PackageEnd /\ Byte(FieldEnd) >= 2
    BY <1>1, <1>4 DEF ReadCount
  <2>2. ReadHere'
    BY <1>1, <2>1, SamePlace DEF ReadHere
  <2>. QED
    BY <1>1, <2>1, <2>2, SamePlace DEF Meant, Outcome
<1>. QED
  BY <1>3, <1>4

LEMMA AppendOne ==
  ASSUME NEW S, NEW s \in Seq(S), Len(s) = 1, NEW e \in S
  PROVE  Len(Append(s, e)) = 2 /\ Append(s, e)[1] = s[1] /\ Append(s, e)[2] = e
<1> DEFINE t == Append(s, e)
           n == Len(s)
<1>1. Len(t) = n + 1 /\ t[n + 1] = e /\ \A k \in 1..n : t[k] = s[k]
  BY AppendProperties, Zenon
<1>2. n = 1
  OBVIOUS
<1> HIDE DEF t, n
<1>3. Len(t) = 2 /\ t[2] = e /\ t[1] = s[1]
  BY <1>1, <1>2
<1>. QED
  BY <1>3 DEF t

LEMMA IntegersMeant == ASSUME ShutdownIInv, Meant, BadInteger \/ ReadInteger PROVE Meant'
<1>1. /\ i + 5 <= aml_len /\ pc = "integers" /\ NameStands(i)
      /\ FieldEnd <= aml_len /\ LengthAt(Here) <= aml_len - Here /\ package_end = PackageEnd
      /\ Byte(FieldEnd) >= 2 /\ aml_offset \in 0..package_end /\ package_end \in 0..aml_len
      /\ values \in Seq(0..7) /\ Len(values) <= 1
  BY DEF ShutdownIInv, ShutdownTypeInv, Position, Meant, ReadHere, BadInteger, ReadInteger
<1>2. /\ FieldEnd \in Nat /\ table \in Tables /\ aml_len \in Nat /\ PackageEnd \in Nat /\ aml_offset \in Nat
  BY <1>1, PlaceTypes
<1> DEFINE good == IntegerInPackage /\ SmallInteger
           start == FieldEnd + 1
<1>3. good <=> aml_offset < PackageEnd /\ SmallAt(aml_offset) /\ SizeAt(aml_offset) <= PackageEnd - (aml_offset + 1)
  BY <1>1, IntegerHere
<1>4. start \in Nat
  BY <1>2
<1> HIDE DEF start
\* An integer of up to 7 that stands in the package is one for the code.
<1>5. ASSUME NEW v \in 0..7, NEW x \in Encodings(v), Stands(x, table.aml, aml_offset), aml_offset + Len(x) <= PackageEnd
      PROVE  good
  <2>1. SmallAt(aml_offset) /\ Len(x) = 1 + SizeAt(aml_offset)
    BY <1>2, <1>5, IntegerReads
  <2>2. SizeAt(aml_offset) \in Nat /\ aml_offset + (1 + SizeAt(aml_offset)) <= PackageEnd
    BY <1>5, <2>1, SizeType
  <2>. QED
    BY <1>2, <1>3, <2>1, <2>2
\* The first integer, once read, ends where the second begins.
<1>6. values = <<>> => aml_offset = start
  BY <1>1 DEF Meant, ReadHere, start
<1>7. ASSUME values # <<>>
      PROVE  /\ values[1] \in 0..7 /\ Len(values) = 1
             /\ \E x \in Encodings(values[1]) : Stands(x, table.aml, start) /\ aml_offset = start + Len(x)
  <2>1. Len(values) = 1
    <3> DEFINE m == Len(values)
    <3>1. m \in Nat /\ m # 0 /\ m <= 1
      BY <1>1, <1>7, EmptySeq, LenProperties
    <3> HIDE DEF m
    <3>2. m = 1
      BY <3>1
    <3>. QED
      BY <3>2 DEF m
  <2>2. values[1] \in 0..7
    <3>1. values \in Seq(0..7) /\ 1 \in 1..Len(values)
      BY <1>1, <2>1
    <3>. QED
      BY <3>1, ElementOfSeq, Zenon
  <2>. QED
    BY <1>1, <1>7, <2>1, <2>2 DEF Meant, ReadHere, start
<1>8. CASE BadInteger
  <2>1. ~good
    BY <1>8 DEF BadInteger
  <2>2. ASSUME Usable(Pairs, i) PROVE FALSE
    <3>1. ValuesStand(Pairs, start, PackageEnd)
      BY <1>1, <2>2, PlaceTypes DEF start
    <3>2. PICK v \in Pairs : \E x \in Encodings(v[1]) : \E y \in Encodings(v[2]) :
            /\ Stands(x, table.aml, start) /\ Stands(y, table.aml, start + Len(x))
            /\ start + Len(x) + Len(y) <= PackageEnd
      BY <3>1 DEF ValuesStand
    <3>3. v[1] \in 0..7 /\ v[2] \in 0..7
      BY DEF Pairs
    <3>4. PICK x \in Encodings(v[1]), y \in Encodings(v[2]) :
            /\ Stands(x, table.aml, start) /\ Stands(y, table.aml, start + Len(x))
            /\ start + Len(x) + Len(y) <= PackageEnd
      BY <3>2
    <3>5. Len(x) \in 1..9 /\ Len(y) \in 1..9
      BY <3>3, EncodingLength
    <3>6. CASE values = <<>>
      <4>1. aml_offset = start /\ aml_offset + Len(x) <= PackageEnd
        BY <1>2, <1>6, <3>4, <3>5, <3>6
      <4>. QED
        BY <1>5, <2>1, <3>3, <3>4, <4>1
    <3>7. CASE values # <<>>
      <4>1. PICK z \in Encodings(values[1]) : Stands(z, table.aml, start) /\ aml_offset = start + Len(z)
        BY <1>7, <3>7
      <4>2. values[1] \in 0..7
        BY <1>7, <3>7
      <4>3. Len(z) = 1 + SizeAt(start)
        BY <1>2, <1>4, <4>1, <4>2, IntegerReads
      <4>4. Len(x) = 1 + SizeAt(start)
        BY <1>2, <1>4, <3>3, <3>4, IntegerReads
      <4>5. aml_offset = start + Len(x)
        BY <4>1, <4>3, <4>4
      <4>6. Stands(y, table.aml, aml_offset) /\ aml_offset + Len(y) <= PackageEnd
        BY <3>4, <4>5
      <4>. QED
        BY <1>5, <2>1, <3>3, <4>6
    <3>. QED
      BY <3>6, <3>7
  <2>. QED
    BY <1>1, <1>8, <2>2, ContinueMeant DEF BadInteger
<1>9. CASE ReadInteger
  <2>1. good
    BY <1>9 DEF ReadInteger
  <2>2. /\ SmallAt(aml_offset) /\ aml_offset + 1 + SizeAt(aml_offset) <= PackageEnd /\ SizeAt(aml_offset) \in Nat
    BY <1>2, <1>3, <2>1, SizeType
  <2>3. aml_offset + 1 + SizeAt(aml_offset) <= aml_len
    BY <1>1, <1>2, <2>2
  <2>4. PICK y \in Encodings(ValueAt(aml_offset)) : Stands(y, table.aml, aml_offset) /\ Len(y) = 1 + SizeAt(aml_offset)
    BY <1>2, <2>2, <2>3, IntegerWrites
  <2>5. ValueAt(aml_offset) \in 0..7
    BY <1>2, <2>2, <2>3, IntegerWrites
  <2>6. /\ table' = table /\ i' = i /\ sent' = sent /\ package_end' = PackageEnd
        /\ aml_offset' = aml_offset + Len(y) /\ values' = Append(values, ValueAt(aml_offset))
        /\ pc' = IF Len(values) = 1 THEN "sleep" ELSE "integers"
    <3>1. aml_offset' = aml_offset + 1 + SizeAt(aml_offset)
      BY <1>9, IntegerHere DEF ReadInteger
    <3>2. aml_offset' = aml_offset + Len(y)
      BY <1>2, <2>2, <2>4, <3>1
    <3>. QED
      BY <1>1, <1>9, <3>2, IntegerHere DEF ReadInteger
  <2>7. CASE values = <<>>
    <3>1. pc' = "integers" /\ values'[1] = ValueAt(aml_offset) /\ values' # <<>> /\ aml_offset = start
      BY <1>6, <2>5, <2>6, <2>7
    <3>2. \E x \in Encodings(values'[1]) : Stands(x, table'.aml, FieldEnd' + 1) /\ aml_offset' = FieldEnd' + 1 + Len(x)
      BY <2>4, <2>6, <3>1, SamePlace DEF start
    <3>3. ReadHere'
      BY <1>1, <2>6, <3>1, <3>2, SamePlace DEF ReadHere
    <3>. QED
      BY <1>1, <2>6, <3>1, <3>3, SamePlace DEF Meant, Outcome
  <2>8. CASE values # <<>>
    <3>1. PICK x \in Encodings(values[1]) : Stands(x, table.aml, start) /\ aml_offset = start + Len(x)
      BY <1>7, <2>8
    <3>2. Len(values) = 1 /\ values[1] \in 0..7
      BY <1>7, <2>8
    <3>3. pc' = "sleep" /\ Len(values') = 2 /\ values'[1] = values[1] /\ values'[2] = ValueAt(aml_offset)
      <4> DEFINE new == ValueAt(aml_offset)
      <4>1. new \in 0..7 /\ values' = Append(values, new) /\ values \in Seq(0..7) /\ Len(values) = 1
        BY <1>1, <2>5, <2>6, <3>2
      <4> HIDE DEF new
      <4>2. Len(values') = 2 /\ values'[1] = values[1] /\ values'[2] = new
        BY <4>1, AppendOne
      <4>. QED
        BY <2>6, <3>2, <4>2 DEF new
    <3> DEFINE v == <<values[1], ValueAt(aml_offset)>>
    <3>4. v[1] = values[1] /\ v[2] = ValueAt(aml_offset)
      OBVIOUS
    <3>5. start + Len(x) + Len(y) <= PackageEnd
      BY <1>2, <2>2, <2>4, <3>1
    <3> HIDE DEF v
    <3>6. ValuesStand({v}, start, PackageEnd)
      BY <2>4, <3>1, <3>4, <3>5 DEF ValuesStand
    <3>7. v = <<values'[1], values'[2]>>
      BY <3>3 DEF v
    <3>8. ValuesStand({<<values[1], values[2]>>}, FieldEnd + 1, PackageEnd)'
      <4>1. /\ table' = table /\ FieldEnd' + 1 = start /\ PackageEnd' = PackageEnd
            /\ {<<values'[1], values'[2]>>} = {v}
        BY <2>6, <3>7, SamePlace DEF start
      <4>. QED
        BY <3>6, <4>1, Zenon DEF ValuesStand
    <3>9. ReadHere'
      BY <1>1, <2>6, <3>3, <3>8, SamePlace DEF ReadHere
    <3>. QED
      BY <1>1, <2>6, <3>3, <3>9, SamePlace DEF Meant, Outcome
  <2>. QED
    BY <2>7, <2>8
<1>. QED
  BY <1>8, <1>9

LEMMA PortTypes ==
  table \in Tables => table.pm1a \in Nat /\ table.pm1b \in Nat /\ UINT16_MAX \in Nat
BY ShutdownAssumption

LEMMA OthersMeant ==
  ASSUME ShutdownIInv, Meant, Start \/ InvalidPort \/ NotFound \/ Sleep \/ UNCHANGED shutdownVars PROVE Meant'
<1>1. table \in Tables /\ aml_len \in Nat /\ i \in Nat
  BY LengthType DEF ShutdownIInv, ShutdownTypeInv
<1>2. table' = table /\ i' = i
  BY DEF Start, InvalidPort, NotFound, Sleep, shutdownVars
<1>3. CASE Start \/ InvalidPort
  <2>1. pc' \in {"search", "halted"} /\ sent = {} /\ sent' = {}
    BY <1>3 DEF Start, InvalidPort, Meant, Outcome
  <2>2. (pc' = "search" => PortsOk) /\ (pc' = "halted" => ~PortsOk)
    BY <1>1, <1>3, PortTypes DEF Start, InvalidPort, PortsOk
  <2>3. Outcome'
    BY <1>2, <2>1, <2>2, SamePlace DEF Outcome
  <2>. QED
    BY <1>2, <2>1, <2>3, SamePlace DEF Meant, ReadHere
<1>4. CASE NotFound
  <2>1. PortsOk /\ sent = {} /\ sent' = {} /\ pc' = "halted" /\ ~Room
    BY <1>4 DEF NotFound, Meant, Outcome
  <2>2. ASSUME NEW p \in 0..aml_len PROVE ~PackageStands(Pairs, table.aml, p)
    <3>1. CASE p < i
      BY <1>1, <3>1 DEF Meant, Passed
    <3>2. CASE ~(p < i)
      <4>1. p \in Nat /\ p + 4 \in Nat /\ ~(p + 4 < aml_len)
        BY <1>1, <2>1, <3>2 DEF Room
      <4>2. ~Stands(<<PACKAGE>>, table.aml, p + 4)
        BY <1>1, <4>1, OneByte
      <4>. QED
        BY <4>2 DEF PackageStands
    <3>. QED
      BY <3>1, <3>2
  <2>3. Outcome'
    BY <1>2, <2>1, <2>2, SamePlace DEF Outcome
  <2>. QED
    BY <1>2, <2>1, <2>3, SamePlace DEF Meant, ReadHere
<1>5. CASE Sleep
  <2> DEFINE v == <<values[1], values[2]>>
  <2>1. /\ PortsOk /\ pc = "sleep" /\ pc' = "halted" /\ i + 5 <= aml_len
        /\ Len(values) = 2 /\ ValuesStand({v}, FieldEnd + 1, PackageEnd)
        /\ NameStands(i) /\ FieldEnd <= aml_len /\ LengthAt(Here) <= aml_len - Here
        /\ Byte(FieldEnd) >= 2
    BY <1>5 DEF Sleep, Meant, ReadHere, Outcome, ShutdownIInv, Position
  <2>2. v \in Pairs /\ v[1] = values[1] /\ v[2] = values[2]
    <3>1. values \in Seq(0..7) /\ 1 \in 1..Len(values) /\ 2 \in 1..Len(values)
      BY <2>1 DEF ShutdownIInv, ShutdownTypeInv
    <3>2. values[1] \in 0..7 /\ values[2] \in 0..7
      BY <3>1, ElementOfSeq, Zenon
    <3>. QED
      BY <3>2 DEF Pairs
  <2>3. sent' = Turned(v)
    BY <1>5, <2>2 DEF Sleep, Turned, ACPI_SLP_EN
  <2> HIDE DEF v
  <2>4. Usable({v}, i)
    <3>1. /\ Here = i + 5 /\ FieldEnd = Here + 1 + FollowAt(Here) /\ PackageEnd = Here + LengthAt(Here)
          /\ FollowAt(Here) \in 0..3 /\ Here \in Nat
      BY <2>1, PlaceTypes DEF Here, FieldEnd, PackageEnd
    <3>2. /\ i + 6 + FollowAt(Here) = FieldEnd /\ i + 7 + FollowAt(Here) = FieldEnd + 1
          /\ Here + FollowAt(Here) < aml_len
      BY <1>1, <2>1, <3>1
    <3>. QED
      BY <2>1, <3>1, <3>2 DEF Usable
  <2>5. PackageStands({v}, table.aml, i)
    BY <1>1, <2>2, <2>4, PackageWrites
  <2>6. i \in 0..aml_len
    BY <1>1, <2>1
  <2>7. /\ PortsOk /\ i \in 0..aml_len /\ v \in Pairs
        /\ PackageStands({v}, table.aml, i) /\ sent' = Turned(v)
        /\ \A o \in 0..(i - 1) : ~PackageStands(Pairs, table.aml, o)
    BY <2>1, <2>2, <2>3, <2>5, <2>6 DEF Meant, Passed
  <2>8. \A w : Turned(w)' = Turned(w)
    BY <1>2 DEF Turned
  <2>9. Outcome'
    <3>1. \E p \in 0..aml_len, w \in Pairs :
            /\ PackageStands({w}, table.aml, p) /\ sent' = Turned(w)
            /\ \A o \in 0..(p - 1) : ~PackageStands(Pairs, table.aml, o)
      BY <2>7
    <3>2. \E p \in 0..aml_len', w \in Pairs :
            /\ PackageStands({w}, table'.aml, p) /\ sent' = Turned(w)'
            /\ \A o \in 0..(p - 1) : ~PackageStands(Pairs, table'.aml, o)
      BY <1>2, <2>8, <3>1, SamePlace
    <3>. QED
      BY <1>2, <2>1, <3>2, SamePlace DEF Outcome, FirstSent, Pairs
  <2>. QED
    BY <1>2, <2>1, <2>9, SamePlace DEF Meant, ReadHere
<1>6. CASE UNCHANGED shutdownVars
  <2>1. UNCHANGED <<table, i, aml_offset, package_end, values, sent, pc>>
    BY <1>6 DEF shutdownVars
  <2>2. \A vs, o, n : ValuesStand(vs, o, n)' = ValuesStand(vs, o, n)
    BY <2>1 DEF ValuesStand
  <2>3. ReadHere'
    BY <2>1, SamePlace DEF Meant, ReadHere, ValuesStand
  <2>4. \A v : Turned(v)' = Turned(v)
    BY <2>1 DEF Turned
  <2>5. FirstSent' = FirstSent
    BY <2>1, <2>4, SamePlace DEF FirstSent, Pairs
  <2>6. Outcome'
    BY <2>1, <2>5, SamePlace DEF Meant, Outcome, Pairs
  <2>. QED
    BY <2>1, <2>3, <2>6, SamePlace DEF Meant
<1>. QED
  BY <1>3, <1>4, <1>5, <1>6

LEMMA NextMeant == ShutdownIInv /\ Meant /\ [ShutdownNext]_shutdownVars => Meant'
<1> SUFFICES ASSUME ShutdownIInv, Meant, [ShutdownNext]_shutdownVars PROVE Meant'
  OBVIOUS
<1>. QED
  BY SearchMeant, LengthMeant, CountMeant, IntegersMeant, OthersMeant DEF ShutdownNext, Halted

\* At every step, what was read of the table is what stands in it.
THEOREM AlwaysMeant == ShutdownSpec => []Meant
BY InitMeant, NextMeant, ShutdownInvariant, PTL DEF ShutdownSpec

\* What a compiler wrote into the package _S5_ is what goes to the ports, however
\* the length and the integers are encoded and whatever stands before it; without
\* such a package nothing is sent (shutdown.c, aml_find_s5, acpi_shutdown).
THEOREM SleepCorrect == ShutdownSpec => []SleepsAsWritten
<1>1. ShutdownIInv /\ Meant => SleepsAsWritten
  <2>0. ShutdownIInv => (~PortsOk <=> table.pm1a > UINT16_MAX \/ table.pm1b > UINT16_MAX)
    <3>1. ShutdownIInv => table.pm1a \in Nat /\ table.pm1b \in Nat /\ UINT16_MAX \in Nat
      BY PortTypes DEF ShutdownIInv
    <3>. QED
      BY <3>1 DEF PortsOk
  <2> SUFFICES ASSUME ShutdownIInv, Meant, pc = "halted", table.known
               PROVE  sent = IF table.written = <<>> \/ ~PortsOk THEN {} ELSE Turned(table.written)
    BY <2>0 DEF SleepsAsWritten, Turned
  <2>1. table \in Tables /\ aml_len = Len(table.aml) /\ aml_len \in Nat
    BY LengthType DEF ShutdownIInv, aml_len
  <2>2. WrittenIn(table)
    BY <2>1, AmlWriterAssumption
  <2>3. CASE ~PortsOk
    BY <2>3 DEF Meant, Outcome
  <2>4. CASE PortsOk /\ table.written = <<>>
    <3>1. \A o \in 0..aml_len : ~PackageStands(Pairs, table.aml, o)
      BY <2>1, <2>2, <2>4 DEF WrittenIn, Pairs
    <3>2. ASSUME NEW p \in 0..aml_len, NEW v \in Pairs PROVE ~PackageStands({v}, table.aml, p)
      <4>1. p \in Nat
        BY <2>1
      <4>. QED
        BY <2>1, <3>1, <4>1, OnePair
    <3>. QED
      BY <2>4, <3>2 DEF Meant, Outcome, FirstSent
  <2>5. CASE PortsOk /\ table.written # <<>>
    <3> DEFINE w == table.written
    <3>1. w \in Pairs
      BY <2>2, <2>5 DEF WrittenIn, Pairs
    <3>2. PICK o \in 0..aml_len : PackageStands({w}, table.aml, o) /\ \A p \in 0..(o - 1) : ~PackageStands(Pairs, table.aml, p)
      BY <2>1, <2>2, <2>5 DEF WrittenIn, Pairs
    <3> HIDE DEF w
    <3>3. o \in Nat /\ PackageStands(Pairs, table.aml, o)
      <4>1. o \in Nat
        BY <2>1
      <4>. QED
        BY <2>1, <3>1, <3>2, <4>1, OnePair
    <3>4. PICK p \in 0..aml_len, v \in Pairs :
            /\ PackageStands({v}, table.aml, p) /\ sent = Turned(v)
            /\ \A q \in 0..(p - 1) : ~PackageStands(Pairs, table.aml, q)
      BY <2>5, <3>2, <3>3 DEF Meant, Outcome, FirstSent
    <3>5. p \in Nat /\ PackageStands(Pairs, table.aml, p)
      <4>1. p \in Nat
        BY <2>1
      <4>. QED
        BY <2>1, <3>4, <4>1, OnePair
    <3>6. p = o
      <4>1. o \notin 0..(p - 1) /\ p \notin 0..(o - 1)
        BY <3>2, <3>3, <3>4, <3>5
      <4>. QED
        BY <3>3, <3>5, <4>1
    <3>7. v = w
      BY <2>1, <3>1, <3>2, <3>3, <3>4, <3>6, OnePair
    <3>. QED
      BY <2>5, <3>4, <3>7 DEF w
  <2>. QED
    BY <2>3, <2>4, <2>5
<1>. QED
  BY <1>1, ShutdownInvariant, AlwaysMeant, PTL

-----------------------------------------------------------------------------
(* The units of time.                                                       *)

LEMMA DivideWhole ==
  ASSUME NEW n \in Nat, NEW p \in Nat \ {0}
  PROVE  /\ n \div p \in Nat /\ n % p \in Nat /\ n % p < p
         /\ n = p * (n \div p) + (n % p)
<1>1. n \div p \in Nat
  OBVIOUS
<1>2. n % p \in Nat /\ n % p < p
  OBVIOUS
<1>3. n = p * (n \div p) + (n % p)
  OBVIOUS
<1>. QED
  BY <1>1, <1>2, <1>3

LEMMA DivideUnique ==
  ASSUME NEW n, NEW q \in Nat, NEW r \in Nat, NEW p \in Nat \ {0}, r < p, n = p * q + r
  PROVE  n \div p = q /\ n % p = r
<1>1. (p * q + r) \div p = q /\ (p * q + r) % p = r
  OBVIOUS
<1>. QED
  BY <1>1

LEMMA TimesPositive == ASSUME NEW x \in Nat \ {0}, NEW y \in Nat \ {0} PROVE x * y \in Nat \ {0}
OBVIOUS

\* What is left of n below a unit, and below a unit that is r times as long.
Longer(p, u, r) == p = u * r
RestSplits(n, p, u, r) == n % p = ((n \div u) % r) * u + (n % u)

LEMMA NextUnit ==
  ASSUME NEW n \in Nat, NEW u \in Nat \ {0}, NEW r \in Nat \ {0}, NEW p, Longer(p, u, r)
  PROVE  RestSplits(n, p, u, r)
<1> DEFINE q == n \div u
           s == n % u
           b == q \div r
           f == q % r
<1>0. p = u * r
  BY DEF Longer
<1>1. q \in Nat /\ s \in Nat /\ s < u /\ n = u * q + s
  BY DivideWhole
<1> HIDE DEF q, s
<1>2. b \in Nat /\ f \in Nat /\ f < r /\ q = r * b + f
  BY <1>1, DivideWhole
<1> HIDE DEF b, f
<1>3. p \in Nat \ {0}
  BY <1>0, TimesPositive
<1>4. f * u + s \in Nat
  BY <1>1, <1>2, TimesNat
<1>5. f * u + s < p
  <2>1. PICK d \in Nat : r = f + 1 + d
    <3>1. r - f - 1 \in Nat /\ r = f + 1 + (r - f - 1)
      BY <1>2
    <3>. QED
      BY <3>1
  <2>2. u * r = f * u + u + u * d
    BY <1>2, <2>1
  <2>3. u * d \in Nat /\ f * u \in Nat
    BY <1>2, <2>1, TimesNat
  <2>. QED
    BY <1>0, <1>1, <2>2, <2>3
<1>6. n = p * b + (f * u + s)
  <2>1. u * q = u * (r * b) + u * f
    BY <1>2
  <2>2. u * (r * b) = (u * r) * b
    BY <1>2
  <2>. QED
    BY <1>0, <1>1, <1>2, <2>1, <2>2
<1>7. n % p = f * u + s
  <2> DEFINE m == f * u + s
  <2>1. m \in Nat /\ m < p /\ n = p * b + m
    BY <1>4, <1>5, <1>6
  <2> HIDE DEF m
  <2>2. n % p = m
    BY <1>2, <1>3, <2>1, DivideUnique
  <2>. QED
    BY <2>2 DEF m
<1>. QED
  BY <1>7 DEF q, s, f, RestSplits

\* A second later
LEMMA NextRest ==
  ASSUME NEW n \in Nat, NEW p \in Nat \ {0}
  PROVE  (n + 1) % p = 0 \/ (n + 1) % p = (n % p) + 1
<1> DEFINE q == n \div p
           s == n % p
<1>1. q \in Nat /\ s \in Nat /\ s < p /\ n = p * q + s
  BY DivideWhole
<1> HIDE DEF q, s
<1>2. CASE s + 1 = p
  <2>1. n + 1 = p * (q + 1) + 0
    BY <1>1, <1>2
  <2>. QED
    BY <1>1, <2>1, DivideUnique
<1>3. CASE s + 1 < p
  <2>1. n + 1 = p * q + (s + 1)
    <3>1. p * q \in Nat
      BY <1>1, TimesNat
    <3>. QED
      BY <1>1, <3>1
  <2>2. (n + 1) % p = s + 1
    BY <1>1, <1>3, <2>1, DivideUnique
  <2>. QED
    BY <2>2 DEF s
<1>. QED
  BY <1>1, <1>2, <1>3

Radices == \A k \in 1..6 : Radix[k] \in 1..100

LEMMA RadixType == Radices
<1>1. Radix \in Seq(1..100) /\ Len(Radix) = 6
  BY CommandsAssumption
<1>. QED
  BY <1>1, ElementOfSeq DEF Radices

\* Seconds in what the first n fields count
U1 == 1
U2 == U1 * Radix[1]
U3 == U2 * Radix[2]
U4 == U3 * Radix[3]
U5 == U4 * Radix[4]
U6 == U5 * Radix[5]
U7 == U6 * Radix[6]
Units == [field \in 1..6 |-> CASE field = 1 -> U1 [] field = 2 -> U2 [] field = 3 -> U3
                               [] field = 4 -> U4 [] field = 5 -> U5 [] field = 6 -> U6]

LEMMA UnitIs == Unit = Units
<1> DEFINE Counts(u) == u = [field \in 1..6 |-> IF field = 1 THEN 1 ELSE u[field - 1] * Radix[field - 1]]
<1>1. Counts(Units)
  <2>1. Units[1] = U1 /\ Units[2] = U2 /\ Units[3] = U3 /\ Units[4] = U4 /\ Units[5] = U5 /\ Units[6] = U6
    BY DEF Units
  <2>2. ASSUME NEW field \in 1..6 PROVE Units[field] = IF field = 1 THEN 1 ELSE Units[field - 1] * Radix[field - 1]
    <3>1. CASE field = 1
      BY <2>1, <3>1 DEF U1
    <3>2. CASE field = 2
      BY <2>1, <3>2 DEF U2
    <3>3. CASE field = 3
      BY <2>1, <3>3 DEF U3
    <3>4. CASE field = 4
      BY <2>1, <3>4 DEF U4
    <3>5. CASE field = 5
      BY <2>1, <3>5 DEF U5
    <3>6. CASE field = 6
      BY <2>1, <3>6 DEF U6
    <3>. QED
      BY <3>1, <3>2, <3>3, <3>4, <3>5, <3>6
  <2>. QED
    BY <2>2 DEF Units
<1>2. Counts(Unit)
  BY <1>1 DEF Unit
<1> DEFINE Same(k) == Unit[k] = Units[k]
<1>. QED
  <2>1. Unit[1] = 1 /\ Units[1] = 1
    BY <1>1, <1>2
  <2>2. ASSUME NEW k \in 1..5, Unit[k] = Units[k] PROVE Unit[k + 1] = Units[k + 1]
    BY <1>1, <1>2, <2>2
  <2> HIDE DEF Counts
  <2>3. Unit[2] = Units[2] /\ Unit[3] = Units[3] /\ Unit[4] = Units[4] /\ Unit[5] = Units[5] /\ Unit[6] = Units[6]
    BY <2>1, <2>2
  <2>4. \A k \in 1..6 : Unit[k] = Units[k]
    <3> TAKE k \in 1..6
    <3>1. k = 1 \/ k = 2 \/ k = 3 \/ k = 4 \/ k = 5 \/ k = 6
      OBVIOUS
    <3>. QED
      BY <2>1, <2>3, <3>1
  <2>5. Unit = [k \in 1..6 |-> Unit[k]] /\ Units = [k \in 1..6 |-> Units[k]]
    BY <1>1, <1>2 DEF Counts
  <2>. QED
    BY <2>4, <2>5

\* The unit that follows the first n fields.
UnitAfter(n) == IF n = 6 THEN Century ELSE Unit[n + 1]

LEMMA UnitsAfter ==
  /\ UnitAfter(0) = 1 /\ UnitAfter(1) = Radix[1]
  /\ \A n \in 0..6 : UnitAfter(n) \in Nat \ {0}
  /\ \A n \in 0..5 : Unit[n + 1] = UnitAfter(n) /\ UnitAfter(n + 1) = UnitAfter(n) * Radix[n + 1]
<1>1. U1 \in Nat \ {0} /\ U2 \in Nat \ {0} /\ U3 \in Nat \ {0} /\ U4 \in Nat \ {0}
      /\ U5 \in Nat \ {0} /\ U6 \in Nat \ {0} /\ U7 \in Nat \ {0}
  <2>1. \A k \in 1..6 : Radix[k] \in Nat \ {0}
    BY RadixType DEF Radices
  <2>2. U1 \in Nat \ {0}
    BY DEF U1
  <2>3. U2 \in Nat \ {0}
    BY <2>1, <2>2, TimesPositive DEF U2
  <2>4. U3 \in Nat \ {0}
    BY <2>1, <2>3, TimesPositive DEF U3
  <2>5. U4 \in Nat \ {0}
    BY <2>1, <2>4, TimesPositive DEF U4
  <2>6. U5 \in Nat \ {0}
    BY <2>1, <2>5, TimesPositive DEF U5
  <2>7. U6 \in Nat \ {0}
    BY <2>1, <2>6, TimesPositive DEF U6
  <2>8. U7 \in Nat \ {0}
    BY <2>1, <2>7, TimesPositive DEF U7
  <2>. QED
    BY <2>2, <2>3, <2>4, <2>5, <2>6, <2>7, <2>8
<1>2. Unit[1] = U1 /\ Unit[2] = U2 /\ Unit[3] = U3 /\ Unit[4] = U4 /\ Unit[5] = U5 /\ Unit[6] = U6
  BY UnitIs DEF Units
<1>3. UnitAfter(0) = U1 /\ UnitAfter(1) = U2 /\ UnitAfter(2) = U3 /\ UnitAfter(3) = U4 /\ UnitAfter(4) = U5 /\ UnitAfter(5) = U6 /\ UnitAfter(6) = U7
  BY <1>2 DEF UnitAfter, Century, U7
<1>4. \A n \in 0..6 : UnitAfter(n) \in Nat \ {0}
  <2> TAKE n \in 0..6
  <2>1. n = 0 \/ n = 1 \/ n = 2 \/ n = 3 \/ n = 4 \/ n = 5 \/ n = 6
    OBVIOUS
  <2>. QED
    BY <1>1, <1>3, <2>1
<1>5. \A n \in 0..5 : Unit[n + 1] = UnitAfter(n) /\ UnitAfter(n + 1) = UnitAfter(n) * Radix[n + 1]
  <2> TAKE n \in 0..5
  <2>1. n = 0 \/ n = 1 \/ n = 2 \/ n = 3 \/ n = 4 \/ n = 5
    OBVIOUS
  <2>2. U2 = U1 * Radix[1] /\ U3 = U2 * Radix[2] /\ U4 = U3 * Radix[3] /\ U5 = U4 * Radix[4] /\ U6 = U5 * Radix[5] /\ U7 = U6 * Radix[6]
    BY DEF U2, U3, U4, U5, U6, U7
  <2>. QED
    BY <1>2, <1>3, <2>1, <2>2
<1>6. UnitAfter(0) = 1 /\ UnitAfter(1) = Radix[1]
  <2>1. Radix[1] \in Nat
    BY RadixType DEF Radices
  <2>. QED
    BY <1>3, <2>1 DEF U1, U2
<1>. QED
  BY <1>4, <1>5, <1>6

\* A time at which a longer unit begins begins a minute.
LEMMA MinuteBegins ==
  ASSUME NEW t \in Nat, NEW n \in 1..6, t % UnitAfter(n) = 0
  PROVE  t % UnitAfter(1) = 0
<1>1. ASSUME NEW k \in 1..5, t % UnitAfter(k + 1) = 0 PROVE t % UnitAfter(k) = 0
  <2> DEFINE u == UnitAfter(k)
             r == Radix[k + 1]
             p == UnitAfter(k + 1)
             f == (t \div u) % r
  <2>1. u \in Nat \ {0} /\ r \in Nat \ {0} /\ p = u * r
    BY UnitsAfter, RadixType DEF Radices
  <2>2. t % p = 0
    BY <1>1
  <2> HIDE DEF u, r, p
  <2>3. t % p = f * u + (t % u)
    <3>1. Longer(p, u, r)
      BY <2>1 DEF Longer
    <3>2. RestSplits(t, p, u, r)
      BY <2>1, <3>1, NextUnit
    <3>. QED
      BY <3>2 DEF RestSplits
  <2>4. t % u \in Nat /\ f \in Nat
    <3>1. t % u \in Nat /\ t \div u \in Nat
      BY <2>1, DivideWhole
    <3>. QED
      BY <2>1, <3>1, DivideWhole
  <2> HIDE DEF f
  <2>5. f * u \in Nat
    BY <2>1, <2>4, TimesNat
  <2>6. t % u = 0
    BY <2>2, <2>3, <2>4, <2>5
  <2>. QED
    BY <2>6 DEF u
<1> DEFINE Zero(k) == t % UnitAfter(k) = 0
<1> HIDE DEF Zero
<1>2. \A k \in 1..5 : Zero(k + 1) => Zero(k)
  BY <1>1 DEF Zero
<1>3. n = 1 \/ n = 2 \/ n = 3 \/ n = 4 \/ n = 5 \/ n = 6
  OBVIOUS
<1>4. Zero(n)
  BY DEF Zero
<1>5. Zero(2) => Zero(1)
  BY <1>2
<1>6. Zero(3) => Zero(2)
  BY <1>2
<1>7. Zero(4) => Zero(3)
  BY <1>2
<1>8. Zero(5) => Zero(4)
  BY <1>2
<1>9. Zero(6) => Zero(5)
  BY <1>2
<1>10. Zero(1)
  BY <1>3, <1>4, <1>5, <1>6, <1>7, <1>8, <1>9
<1>. QED
  BY <1>10 DEF Zero
-----------------------------------------------------------------------------
(* The date that is being read.                                             *)

\* What the fields read so far stand for
FieldRead(n) == IF n <= Len(registers) THEN registers[n] * Unit[n] ELSE 0
Below == FieldRead(1) + FieldRead(2) + FieldRead(3) + FieldRead(4) + FieldRead(5) + FieldRead(6)
\* What the clock holds beyond them
Above == rtc - (rtc % UnitAfter(Len(registers)))

\* The date that would be shown if the rest of the registers were read now is
\* never behind the time at which it was asked for, nor ahead of the clock unless a
\* minute ended.
ClockTypes ==
  rtc \in Nat /\ rtc < Century /\ asked \in Nat /\ registers \in Seq(Nat) /\ Len(registers) <= 6
NotBehind == Below + Above >= asked
NotAhead == Below + Above <= rtc
ClockInv == doing = "datetime" => ClockTypes /\ NotBehind /\ (NotAhead \/ rolled)

\* Two digits are read as they were written.
LEMMA BcdBack ==
  ASSUME NEW v \in 0..99
  PROVE  bcd_to_binary((v \div 10) * 16 + (v % 10)) = v
BY DEF bcd_to_binary

LEMMA CenturyType == Century \in Nat \ {0}
<1>1. UnitAfter(6) \in Nat \ {0}
  BY UnitsAfter
<1>. QED
  BY <1>1 DEF UnitAfter

LEMMA FieldTypes ==
  ASSUME registers \in Seq(Nat)
  PROVE  /\ \A k \in 1..6 : Unit[k] \in Nat /\ FieldRead(k) \in Nat
         /\ Below \in Nat
<1>1. ASSUME NEW k \in 1..6 PROVE Unit[k] \in Nat
  <2>1. k - 1 \in 0..5 /\ k - 1 \in 0..6 /\ (k - 1) + 1 = k
    OBVIOUS
  <2>. QED
    BY <2>1, UnitsAfter
<1>2. ASSUME NEW k \in 1..6 PROVE FieldRead(k) \in Nat
  <2>1. CASE k <= Len(registers)
    <3>1. registers[k] \in Nat
      BY <2>1, ElementOfSeq
    <3>2. registers[k] * Unit[k] \in Nat
      BY <1>1, <3>1, TimesNat
    <3>. QED
      BY <2>1, <3>2 DEF FieldRead
  <2>2. CASE ~(k <= Len(registers))
    BY <2>2 DEF FieldRead
  <2>. QED
    BY <2>1, <2>2
<1>3. /\ FieldRead(1) \in Nat /\ FieldRead(2) \in Nat /\ FieldRead(3) \in Nat
      /\ FieldRead(4) \in Nat /\ FieldRead(5) \in Nat /\ FieldRead(6) \in Nat
  BY <1>2
<1>4. Below \in Nat
  BY <1>3 DEF Below
<1>. QED
  BY <1>1, <1>2, <1>4

LEMMA BeginClock == ASSUME BeginDatetime PROVE ClockInv'
<1>1. PICK time \in 0..(Century - 1) : rtc' = time /\ asked' = time /\ registers' = <<>>
  BY DEF BeginDatetime, ReadClock
<1>2. time \in Nat /\ time < Century /\ time % 1 = 0 /\ registers' \in Seq(Nat) /\ Len(registers') = 0
  BY <1>1, CenturyType
<1>3. Below' = 0
  BY <1>2 DEF Below, FieldRead
<1>4. Above' = time
  BY <1>1, <1>2, UnitsAfter DEF Above
<1>5. ClockTypes' /\ NotBehind' /\ NotAhead'
  BY <1>1, <1>2, <1>3, <1>4 DEF ClockTypes, NotBehind, NotAhead
<1>. QED
  BY <1>5 DEF ClockInv

LEMMA SecondClock == ASSUME ClockInv, Second PROVE ClockInv'
<1>0. doing = "datetime" /\ ClockTypes /\ NotBehind /\ (NotAhead \/ rolled)
  BY DEF ClockInv, Second
<1>1. PICK n \in 0..6 : n = Len(registers)
  <2>1. registers \in Seq(Nat) /\ Len(registers) <= 6
    BY <1>0 DEF ClockTypes
  <2>2. Len(registers) \in 0..6
    <3>1. Len(registers) \in Nat
      BY <2>1, LenProperties
    <3>2. \A m \in Nat : m <= 6 => m \in 0..6
      OBVIOUS
    <3>. QED
      BY <2>1, <3>1, <3>2
  <2>. QED
    BY <2>2
<1> DEFINE p == UnitAfter(n)
<1>2. /\ registers' = registers /\ asked' = asked /\ rtc' = rtc + 1 /\ rtc + 1 < Century
      /\ rtc \in Nat /\ asked \in Nat /\ registers \in Seq(Nat)
  BY <1>0 DEF Second, ClockTypes
<1>3. p \in Nat \ {0}
  BY UnitsAfter
<1>4. Below' = Below /\ Below \in Nat
  BY <1>2, FieldTypes DEF Below, FieldRead
<1>5. Above = rtc - (rtc % p) /\ Above' = (rtc + 1) - ((rtc + 1) % p)
  BY <1>1, <1>2 DEF Above
<1> HIDE DEF p
<1>6. rtc % p \in Nat /\ (rtc + 1) % p \in Nat
  BY <1>2, <1>3, DivideWhole
<1>7. (rtc + 1) % p = 0 \/ (rtc + 1) % p = (rtc % p) + 1
  BY <1>2, <1>3, NextRest
<1> DEFINE a == rtc % p
           b == (rtc + 1) % p
<1> HIDE DEF a, b
<1>8. a \in Nat /\ b \in Nat /\ (b = 0 \/ b = a + 1) /\ Above = rtc - a /\ Above' = (rtc + 1) - b
  BY <1>5, <1>6, <1>7 DEF a, b
<1>9. ClockTypes'
  BY <1>0, <1>2 DEF ClockTypes
<1>10. NotBehind'
  <2>1. Below + Above >= asked
    BY <1>0 DEF NotBehind
  <2>. QED
    BY <1>2, <1>4, <1>8, <2>1 DEF NotBehind
<1>11. NotAhead' \/ rolled'
  <2>1. rolled \/ (rtc + 1) % Radix[1] = 0 => rolled'
    BY <1>2 DEF Second
  <2>2. ASSUME NotAhead, (rtc + 1) % Radix[1] # 0 PROVE NotAhead'
    <3>1. n \in 1..6 => b # 0
      <4>1. rtc + 1 \in Nat /\ UnitAfter(1) = Radix[1]
        BY <1>2, UnitsAfter
      <4>. QED
        BY <2>2, <4>1, MinuteBegins DEF p, b
    <3>2. n = 0 => a = 0 /\ b = 0
      BY <1>2, UnitsAfter DEF p, a, b
    <3>3. Above' <= Above + 1
      BY <1>2, <1>8, <3>1, <3>2
    <3>4. Below + Above <= rtc
      BY <2>2 DEF NotAhead
    <3>. QED
      BY <1>2, <1>4, <1>8, <3>3, <3>4 DEF NotAhead
  <2>. QED
    BY <1>0, <2>1, <2>2
<1>. QED
  BY <1>9, <1>10, <1>11 DEF ClockInv

LEMMA ReadRegisterClock == ASSUME ClockInv, read_cmos_reg PROVE ClockInv'
<1>0. doing = "datetime" /\ ClockTypes /\ NotBehind /\ (NotAhead \/ rolled)
  BY DEF ClockInv, read_cmos_reg
<1>1. PICK n \in 0..5 : n = Len(registers)
  <2>1. registers \in Seq(Nat) /\ Len(registers) < 6
    BY <1>0 DEF ClockTypes, read_cmos_reg
  <2>2. Len(registers) \in 0..5
    <3>1. Len(registers) \in Nat
      BY <2>1, LenProperties
    <3>2. \A m \in Nat : m < 6 => m \in 0..5
      OBVIOUS
    <3>. QED
      BY <2>1, <3>1, <3>2
  <2>. QED
    BY <2>2
<1> DEFINE u == Unit[n + 1]
           r == Radix[n + 1]
           p == UnitAfter(n + 1)
           q == rtc \div u
           v == q % r
           t == rtc % u
<1>2. /\ asked' = asked /\ rtc' = rtc /\ rolled' = rolled /\ doing' = doing
      /\ rtc \in Nat /\ asked \in Nat /\ registers \in Seq(Nat)
  BY <1>0 DEF read_cmos_reg, ClockTypes
<1>3. registers' = Append(registers, bcd_to_binary((v \div 10) * 16 + (v % 10)))
  <2>1. registers' = Append(registers, bcd_to_binary(Register(Order[n + 1])))
    BY <1>1 DEF read_cmos_reg
  <2>2. Order[n + 1] = n + 1
    BY DEF Order
  <2>. QED
    BY <2>1, <2>2 DEF Register
<1>4. u \in Nat \ {0} /\ r \in 1..100 /\ p = u * r /\ u = UnitAfter(n)
  <2>1. n \in 0..6 /\ n + 1 \in 1..6
    OBVIOUS
  <2>2. UnitAfter(n) \in Nat \ {0} /\ u = UnitAfter(n) /\ p = UnitAfter(n) * r
    BY <2>1, UnitsAfter
  <2>3. r \in 1..100
    BY <2>1, RadixType DEF Radices
  <2>. QED
    BY <2>2, <2>3
<1>5. q \in Nat /\ t \in Nat
  <2> HIDE DEF u
  <2>. QED
    BY <1>2, <1>4, DivideWhole
<1>6. v \in 0..99
  <2> HIDE DEF q, r
  <2>1. v \in Nat /\ v < r
    BY <1>4, <1>5, DivideWhole
  <2>. QED
    BY <1>4, <2>1
<1>7. rtc % p = v * u + t
  <2>1. Longer(p, u, r) /\ r \in Nat \ {0}
    BY <1>4 DEF Longer
  <2> HIDE DEF u, r, p
  <2>2. RestSplits(rtc, p, u, r)
    BY <1>2, <1>4, <2>1, NextUnit
  <2>. QED
    BY <2>2 DEF RestSplits
<1>8. Above = rtc - t
  BY <1>1, <1>4 DEF Above
<1>9. v * u \in Nat
  <2> HIDE DEF v, u
  <2>. QED
    BY <1>4, <1>6, TimesNat
<1> DEFINE w == v * u
<1>10. registers' = Append(registers, v)
  <2> HIDE DEF v
  <2>. QED
    BY <1>3, <1>6, BcdBack
<1> HIDE DEF v, q, t
<1>11. /\ registers' \in Seq(Nat) /\ Len(registers') = n + 1
       /\ registers'[n + 1] = v /\ \A k \in 1..n : registers'[k] = registers[k]
  BY <1>1, <1>2, <1>6, <1>10
<1>12. FieldRead(n + 1) = 0 /\ FieldRead(n + 1)' = w
  BY <1>1, <1>11 DEF FieldRead
<1> HIDE DEF w, u, r, p
<1>13. ASSUME NEW k \in 1..6, k # n + 1 PROVE FieldRead(k)' = FieldRead(k)
  <2>1. CASE k <= n
    BY <1>1, <1>11, <2>1 DEF FieldRead
  <2>2. CASE k > n + 1
    BY <1>1, <1>11, <2>2 DEF FieldRead
  <2>. QED
    BY <1>13, <2>1, <2>2
<1>14. Below' = Below + w
  <2>1. \A k \in 1..6 : FieldRead(k) \in Nat
    BY <1>2, FieldTypes
  <2>2. w \in Nat
    BY <1>9 DEF w
  <2>3. n = 0 \/ n = 1 \/ n = 2 \/ n = 3 \/ n = 4 \/ n = 5
    OBVIOUS
  <2>. QED
    BY <1>12, <1>13, <2>1, <2>2, <2>3 DEF Below
<1>15. Above' = rtc - (w + t)
  BY <1>2, <1>7, <1>11 DEF Above, w, p
<1>16. Below' + Above' = Below + Above
  <2>1. Below \in Nat /\ w \in Nat
    BY <1>2, <1>9, FieldTypes DEF w
  <2>. QED
    BY <1>2, <1>5, <1>8, <1>14, <1>15, <2>1
<1>17. ClockTypes' /\ NotBehind' /\ (NotAhead => NotAhead')
  BY <1>0, <1>2, <1>11, <1>16 DEF ClockTypes, NotBehind, NotAhead
<1>. QED
  BY <1>0, <1>2, <1>17 DEF ClockInv

\* At any other step the clock is not being read, or nothing happens.
LEMMA OtherClock ==
  ASSUME ClockInv, [CommandNext]_<<shutdownVars, commandVars>>
  PROVE  BeginDatetime \/ Second \/ read_cmos_reg \/ ClockInv'
<1>1. ASSUME doing' # "datetime" PROVE ClockInv'
  BY <1>1 DEF ClockInv
<1>2. ASSUME UNCHANGED <<shutdownVars, commandVars>> PROVE ClockInv'
  BY <1>2 DEF commandVars, clock, ClockInv, ClockTypes, NotBehind, NotAhead, Below, Above, FieldRead
<1>3. EnterLine => doing' # "datetime"
  BY DEF EnterLine
<1>4. EnterBlank \/ RefuseArguments \/ UnknownCommand => doing' # "datetime"
  BY DEF EnterBlank, RefuseArguments, UnknownCommand, Does, ComesBack
<1>5. cmd_help \/ cmd_clear \/ cmd_echo \/ cmd_ver \/ cmd_uptime \/ cmd_meminfo => doing' # "datetime"
  BY DEF cmd_help, cmd_clear, cmd_echo, cmd_ver, cmd_uptime, cmd_meminfo, Does, ComesBack
<1>6. ColorUsage \/ ColorInvisible \/ ColorInvalid \/ cmd_color => doing' # "datetime"
  BY DEF ColorUsage, ColorInvisible, ColorInvalid, cmd_color, Does, ComesBack
<1>7. cmd_reboot \/ cmd_halt \/ cmd_shutdown => doing' # "datetime"
  BY DEF cmd_reboot, cmd_halt, cmd_shutdown, Stops
<1>8. ShowDatetime => doing' # "datetime"
  BY DEF ShowDatetime
<1>9. acpi_shutdown \/ Stopped => doing' # "datetime"
  BY DEF acpi_shutdown, Stopped, commandVars
<1>. QED
  BY <1>1, <1>2, <1>3, <1>4, <1>5, <1>6, <1>7, <1>8, <1>9 DEF CommandNext, shell_execute

\* The invariant of the clock is one.
THEOREM ClockInvariant == CommandSpec => []ClockInv
<1>1. CommandInit => ClockInv
  BY DEF CommandInit, ClockInv
<1>2. ClockInv /\ [CommandNext]_<<shutdownVars, commandVars>> => ClockInv'
  BY OtherClock, BeginClock, SecondClock, ReadRegisterClock
<1>. QED
  BY <1>1, <1>2, PTL DEF CommandSpec

\* Whatever the radices of the clock and however many seconds pass between the
\* readings of its registers, the date that datetime shows is not behind the time
\* at which it was asked for, and ahead only if a minute ended (cmd.c, cmd_datetime).
THEOREM DateCorrect == CommandSpec => []DateNear
<1>1. ASSUME ClockInv, doing = "datetime", Len(registers) = 6
      PROVE  Below >= asked /\ (Below <= rtc \/ rolled)
  <2>1. ClockTypes /\ NotBehind /\ (NotAhead \/ rolled)
    BY <1>1 DEF ClockInv
  <2>2. rtc \in Nat /\ rtc < Century /\ asked \in Nat /\ registers \in Seq(Nat)
    BY <2>1 DEF ClockTypes
  <2>3. Above = rtc - (rtc % Century)
    BY <1>1 DEF Above, UnitAfter
  <2>4. Century \in Nat \ {0}
    BY CenturyType
  <2>5. rtc % Century = rtc
    <3>1. rtc = Century * 0 + rtc
      BY <2>2, <2>4
    <3>. QED
      BY <2>2, <2>4, <3>1, DivideUnique
  <2>6. Below \in Nat
    BY <2>2, FieldTypes
  <2>7. NotBehind => Below >= asked
    BY <2>2, <2>3, <2>5, <2>6 DEF NotBehind
  <2>8. NotAhead => Below <= rtc
    BY <2>2, <2>3, <2>5, <2>6 DEF NotAhead
  <2>. QED
    BY <2>1, <2>7, <2>8
<1>2. ASSUME doing = "datetime", Len(registers) = 6
      PROVE  Below = Got(1) * Unit[1] + Got(2) * Unit[2] + Got(3) * Unit[3]
                       + Got(4) * Unit[4] + Got(5) * Unit[5] + Got(6) * Unit[6]
  <2>1. ASSUME NEW k \in 1..6 PROVE Got(k) = registers[k]
    <3>1. \A n \in 1..6 : Order[n] = n
      BY DEF Order
    <3>2. k = CHOOSE n \in 1..6 : Order[n] = k
      BY <3>1
    <3>. QED
      BY <3>2 DEF Got
  <2>2. \A k \in 1..6 : FieldRead(k) = registers[k] * Unit[k]
    BY <1>2 DEF FieldRead
  <2>. QED
    BY <2>1, <2>2 DEF Below
<1>3. ClockInv => DateNear
  BY <1>1, <1>2 DEF DateNear
<1>. QED
  BY <1>3, ClockInvariant, PTL

-----------------------------------------------------------------------------
(* The shutdown of Commands.                                                *)

LEMMA ShutdownStep ==
  [CommandNext]_<<shutdownVars, commandVars>> => [ShutdownNext]_shutdownVars
<1>1. UNCHANGED <<shutdownVars, commandVars>> => UNCHANGED shutdownVars
  OBVIOUS
<1>2. EnterLine => UNCHANGED shutdownVars
  BY DEF EnterLine
<1>3. EnterBlank \/ RefuseArguments \/ UnknownCommand => UNCHANGED shutdownVars
  BY DEF EnterBlank, RefuseArguments, UnknownCommand, Does, Executes
<1>4. cmd_help \/ cmd_clear \/ cmd_echo \/ cmd_ver \/ cmd_uptime \/ cmd_meminfo => UNCHANGED shutdownVars
  BY DEF cmd_help, cmd_clear, cmd_echo, cmd_ver, cmd_uptime, cmd_meminfo, Does, Executes
<1>5. ColorUsage \/ ColorInvisible \/ ColorInvalid \/ cmd_color => UNCHANGED shutdownVars
  BY DEF ColorUsage, ColorInvisible, ColorInvalid, cmd_color, Does, Executes
<1>6. BeginDatetime \/ cmd_reboot \/ cmd_halt \/ cmd_shutdown => UNCHANGED shutdownVars
  BY DEF BeginDatetime, cmd_reboot, cmd_halt, cmd_shutdown, Stops, Executes
<1>7. Second \/ read_cmos_reg \/ ShowDatetime => UNCHANGED shutdownVars
  BY DEF Second, read_cmos_reg, ShowDatetime
<1>8. Stopped => UNCHANGED shutdownVars
  BY DEF Stopped
<1>9. acpi_shutdown => ShutdownNext
  BY DEF acpi_shutdown
<1>. QED
  BY <1>1, <1>2, <1>3, <1>4, <1>5, <1>6, <1>7, <1>8, <1>9 DEF CommandNext, shell_execute

\* Whatever lines the shell runs before it, the command shutdown is acpi_shutdown
\* as AcpiShutdown has it, and no other command touches what that works on.
THEOREM ShutsDown == CommandSpec => ShutdownSpec
BY ShutdownStep, PTL DEF CommandSpec, CommandInit, ShutdownSpec

\* So the search that the command starts reads nothing past the end of the table,
\* whatever was typed before (acpi.c, aml_find_s5).
THEOREM CommandTypeCorrect == CommandSpec => []ShutdownTypeInv
BY ShutsDown, ShutdownTypeCorrect, PTL

\* And what the firmware wrote into the package is what the command sends.
THEOREM CommandSleepCorrect == CommandSpec => []SleepsAsWritten
BY ShutsDown, SleepCorrect, PTL

-----------------------------------------------------------------------------
(* Parts of a text.                                                         *)

LEMMA TextLength == ASSUME NEW s, IsText(s) PROVE Len(s) \in Nat
BY DEF IsText

\* From the a-th character to the b-th
IsPart(s, a, b) == a \in Nat /\ b \in Nat /\ 1 <= a /\ a <= b + 1 /\ b <= Len(s)
SamePart(s, a, b, c, d) == SubSeq(SubSeq(s, a, b), c, d) = SubSeq(s, a + c - 1, a + d - 1)

LEMMA PartOf ==
  ASSUME NEW s, IsText(s), NEW a, NEW b, IsPart(s, a, b)
  PROVE  /\ Len(SubSeq(s, a, b)) = b - a + 1
         /\ b < a => SubSeq(s, a, b) = ""
         /\ \A c, d : IsPart(SubSeq(s, a, b), c, d) => SamePart(s, a, b, c, d)
<1> DEFINE part == SubSeq(s, a, b)
           l == Len(s)
           m == Len(part)
<1>1. \A x \in 1..(l + 1) : \A y \in (x - 1)..l :
        LET p == SubSeq(s, x, y)
        IN /\ Len(p) = y - x + 1 /\ (y < x => p = "")
           /\ \A c \in 1..(Len(p) + 1) : \A d \in (c - 1)..Len(p) :
                SubSeq(p, c, d) = SubSeq(s, x + c - 1, x + d - 1)
  BY DEF IsText
<1>2. l \in Nat /\ a \in Nat /\ b \in Nat /\ 1 <= a /\ a <= b + 1 /\ b <= l
  BY TextLength DEF IsPart
<1> HIDE DEF l
<1>3. a \in 1..(l + 1) /\ b \in (a - 1)..l
  BY <1>2
<1>4. /\ m = b - a + 1 /\ (b < a => part = "")
      /\ \A c \in 1..(m + 1) : \A d \in (c - 1)..m :
           SubSeq(part, c, d) = SubSeq(s, a + c - 1, a + d - 1)
  BY <1>1, <1>3
<1> HIDE DEF m, part
<1>5. m \in Nat
  <2>1. m = b - a + 1
    BY <1>4
  <2>. QED
    BY <1>2, <2>1
<1>6. ASSUME NEW c, NEW d, IsPart(part, c, d) PROVE SamePart(s, a, b, c, d)
  <2>1. c \in Nat /\ d \in Nat /\ 1 <= c /\ c <= d + 1 /\ d <= m
    BY <1>6 DEF IsPart, m
  <2>2. c \in 1..(m + 1) /\ d \in (c - 1)..m
    BY <1>5, <2>1
  <2>. QED
    BY <1>4, <2>2 DEF SamePart, part
<1>. QED
  BY <1>4, <1>6 DEF part, m

LEMMA PartIsText ==
  ASSUME NEW s, IsText(s), NEW a, NEW b, IsPart(s, a, b)
  PROVE  IsText(SubSeq(s, a, b))
<1> DEFINE part == SubSeq(s, a, b)
           n == Len(part)
           l == Len(s)
<1>1. l \in Nat /\ a \in Nat /\ b \in Nat /\ 1 <= a /\ a <= b + 1 /\ b <= l
  BY TextLength DEF IsPart
<1>2. n = b - a + 1
  BY PartOf
<1>3. \A c, d : IsPart(part, c, d) => SubSeq(part, c, d) = SubSeq(s, a + c - 1, a + d - 1)
  <2>1. \A c, d : IsPart(part, c, d) => SamePart(s, a, b, c, d)
    BY PartOf
  <2>. QED
    BY <2>1 DEF SamePart
<1> HIDE DEF part, n, l
<1>4. n \in Nat
  BY <1>1, <1>2
<1>5. ASSUME NEW c \in 1..(n + 1), NEW d \in (c - 1)..n
      PROVE  /\ Len(SubSeq(part, c, d)) = d - c + 1 /\ (d < c => SubSeq(part, c, d) = "")
             /\ \A e \in 1..(Len(SubSeq(part, c, d)) + 1) : \A f \in (e - 1)..Len(SubSeq(part, c, d)) :
                  SubSeq(SubSeq(part, c, d), e, f) = SubSeq(part, c + e - 1, c + f - 1)
  <2> DEFINE x == a + c - 1
             y == a + d - 1
             q == SubSeq(s, x, y)
             k == Len(q)
  <2>0. c \in Nat /\ d \in Nat /\ 1 <= c /\ c <= d + 1 /\ d <= n
    BY <1>4
  <2>1. SubSeq(part, c, d) = q
    <3>1. IsPart(part, c, d)
      BY <2>0 DEF IsPart, n
    <3>. QED
      BY <1>3, <3>1
  <2>2. IsPart(s, x, y) /\ y - x = d - c
    <3>1. x \in Nat /\ y \in Nat /\ 1 <= x /\ x <= y + 1 /\ y <= l
      BY <1>1, <1>2, <2>0
    <3>. QED
      BY <1>1, <2>0, <3>1 DEF IsPart, l
  <2> HIDE DEF x, y
  <2>3. k = y - x + 1 /\ (y < x => q = "") /\ \A e, f : IsPart(q, e, f) => SamePart(s, x, y, e, f)
    BY <2>2, PartOf
  <2>4. k = d - c + 1 /\ k \in Nat /\ (d < c => y < x)
    <3>1. x \in Nat /\ y \in Nat
      BY <2>2 DEF IsPart
    <3>2. k = y - x + 1 /\ y - x = d - c
      BY <2>2, <2>3
    <3> HIDE DEF q, k
    <3>. QED
      BY <2>0, <3>1, <3>2
  <2> HIDE DEF q, k
  <2>5. ASSUME NEW e \in 1..(k + 1), NEW f \in (e - 1)..k
        PROVE  SubSeq(q, e, f) = SubSeq(part, c + e - 1, c + f - 1)
    <3>0. e \in Nat /\ f \in Nat /\ 1 <= e /\ e <= f + 1 /\ f <= k
      BY <2>4
    <3>1. IsPart(q, e, f)
      BY <3>0 DEF IsPart, k
    <3>2. SubSeq(q, e, f) = SubSeq(s, x + e - 1, x + f - 1)
      BY <2>3, <3>1 DEF SamePart, q
    <3> DEFINE g == c + e - 1
               h == c + f - 1
    <3>3. g \in Nat /\ h \in Nat /\ 1 <= g /\ g <= h + 1 /\ h <= n
      <4>1. k = d - c + 1 /\ k \in Nat
        BY <2>4
      <4>2. c \in Nat /\ d \in Nat /\ n \in Nat
        BY <1>4, <2>0
      <4>3. h <= c + k - 1
        BY <3>0, <4>1, <4>2
      <4>4. c + k - 1 = d
        BY <4>1, <4>2
      <4>. QED
        BY <2>0, <3>0, <4>2, <4>3, <4>4
    <3>4. a + g - 1 = x + e - 1 /\ a + h - 1 = x + f - 1
      BY <1>1, <2>0, <3>0 DEF x, y
    <3> HIDE DEF g, h
    <3>5. IsPart(part, g, h)
      BY <3>3 DEF IsPart, n
    <3>6. SubSeq(part, g, h) = SubSeq(s, a + g - 1, a + h - 1)
      BY <1>3, <3>5
    <3>. QED
      BY <3>2, <3>4, <3>6 DEF g, h
  <2>. QED
    BY <2>1, <2>3, <2>4, <2>5 DEF k
<1>6. SubSeq(part, 1, n) = part
  <2>1. a + 1 - 1 = a /\ a + n - 1 = b
    BY <1>1, <1>2
  <2>2. IsPart(part, 1, n)
    BY <1>4 DEF IsPart, n
  <2>3. SubSeq(part, 1, n) = SubSeq(s, a + 1 - 1, a + n - 1)
    BY <1>3, <2>2
  <2>. QED
    BY <2>1, <2>3 DEF part
<1>7. IsText(part)
  <2>1. /\ n \in Nat
        /\ \A c \in 1..(n + 1) : \A d \in (c - 1)..n :
             LET p == SubSeq(part, c, d)
             IN /\ Len(p) = d - c + 1 /\ (d < c => p = "")
                /\ \A e \in 1..(Len(p) + 1) : \A f \in (e - 1)..Len(p) :
                     SubSeq(p, e, f) = SubSeq(part, c + e - 1, c + f - 1)
        /\ SubSeq(part, 1, n) = part
    BY <1>4, <1>5, <1>6
  <2>. QED
    BY <2>1 DEF IsText, n
<1>. QED
  BY <1>7 DEF part

\* What is left of a text from its n-th character on.
IsRest(s, n) == n \in Nat /\ 1 <= n /\ n <= Len(s) + 1

LEMMA Rests ==
  ASSUME NEW s, IsText(s), NEW n, IsRest(s, n)
  PROVE  /\ IsText(From(s, n)) /\ Len(From(s, n)) = Len(s) + 1 - n
         /\ n = Len(s) + 1 => From(s, n) = ""
         /\ \A k : IsRest(From(s, n), k) => From(From(s, n), k) = From(s, n + k - 1)
         /\ \A k \in Nat : k <= Len(s) + 1 - n =>
              /\ k > 0 => Char(From(s, n), k) = Char(s, n + k - 1)
              /\ SubSeq(From(s, n), 1, k) = SubSeq(s, n, n + k - 1)
<1> DEFINE l == Len(s)
           part == From(s, n)
           m == Len(part)
<1>1. l \in Nat /\ n \in Nat /\ 1 <= n /\ n <= l + 1
  BY TextLength DEF IsRest
<1>2. IsPart(s, n, l)
  BY <1>1 DEF IsPart
<1>3. IsText(part)
  BY <1>2, PartIsText DEF From
<1>4. m = l - n + 1 /\ (l < n => part = "")
  BY <1>2, PartOf DEF From
<1>5. \A c, d : IsPart(part, c, d) => SubSeq(part, c, d) = SubSeq(s, n + c - 1, n + d - 1)
  <2>1. \A c, d : IsPart(SubSeq(s, n, l), c, d) => SamePart(s, n, l, c, d)
    BY <1>2, PartOf
  <2>. QED
    BY <2>1 DEF SamePart, From
<1> HIDE DEF part, l, m
<1>6. m \in Nat /\ m = l + 1 - n /\ (n = l + 1 => l < n)
  <2>1. m = l - n + 1
    BY <1>4
  <2>. QED
    BY <1>1, <2>1
<1>7. ASSUME NEW k, IsRest(part, k) PROVE From(part, k) = From(s, n + k - 1)
  <2>1. k \in Nat /\ 1 <= k /\ k <= m + 1
    BY <1>7 DEF IsRest, m
  <2>2. IsPart(part, k, m)
    BY <1>6, <2>1 DEF IsPart, m
  <2>3. SubSeq(part, k, m) = SubSeq(s, n + k - 1, n + m - 1)
    BY <1>5, <2>2
  <2>4. n + m - 1 = l
    BY <1>1, <1>6
  <2>. QED
    BY <2>3, <2>4 DEF From, l, m
<1>8. ASSUME NEW k \in Nat, k <= m, k > 0 PROVE Char(part, k) = Char(s, n + k - 1)
  <2>1. IsPart(part, k, k)
    BY <1>6, <1>8 DEF IsPart, m
  <2>. QED
    BY <1>5, <2>1 DEF Char
<1>9. ASSUME NEW k \in Nat, k <= m PROVE SubSeq(part, 1, k) = SubSeq(s, n, n + k - 1)
  <2>1. IsPart(part, 1, k)
    BY <1>6, <1>9 DEF IsPart, m
  <2>2. SubSeq(part, 1, k) = SubSeq(s, n + 1 - 1, n + k - 1)
    BY <1>5, <2>1
  <2>3. n + 1 - 1 = n
    BY <1>1
  <2>. QED
    BY <2>2, <2>3
<1>10. m = Len(part) /\ l = Len(s)
  BY DEF m, l
<1>11. /\ IsText(part) /\ Len(part) = Len(s) + 1 - n
       /\ n = Len(s) + 1 => part = ""
       /\ \A k : IsRest(part, k) => From(part, k) = From(s, n + k - 1)
       /\ \A k \in Nat : k <= Len(s) + 1 - n =>
            /\ k > 0 => Char(part, k) = Char(s, n + k - 1)
            /\ SubSeq(part, 1, k) = SubSeq(s, n, n + k - 1)
  BY <1>3, <1>4, <1>6, <1>7, <1>8, <1>9, <1>10
<1>. QED
  BY <1>11 DEF part

-----------------------------------------------------------------------------
(* Characters of one kind.                                                  *)

\* How far the positions from 1 on belong to a set.
Reaches(n, l, S) == n \in Nat /\ n <= l /\ (\A k \in 1..n : k \in S) /\ (n < l => n + 1 \notin S)

LEMMA Least ==
  ASSUME NEW T \in SUBSET Nat, T # {}
  PROVE  \E x \in T : \A y \in T : x <= y
<1> DEFINE R == {ss \in Nat \X Nat : ss[1] < ss[2]}
<1>1. IsWellFoundedOn(R, Nat)
  BY NatLessThanWellFounded DEF OpToRel
<1>2. \A x, y \in Nat : <<y, x>> \in R <=> y < x
  OBVIOUS
<1> HIDE DEF R
<1>3. PICK x \in T : \A y \in T : ~(<<y, x>> \in R)
  BY <1>1, WFMin
<1>4. ASSUME NEW y \in T PROVE x <= y
  <2>1. ~(y < x)
    BY <1>2, <1>3
  <2>. QED
    BY <2>1
<1>. QED
  BY <1>4

LEMMA ReachExists ==
  ASSUME NEW l \in Nat, NEW S
  PROVE  \E n \in 0..l : Reaches(n, l, S)
<1> DEFINE T == {k \in Nat : k < l /\ k + 1 \notin S}
<1>1. CASE T = {}
  <2>1. ASSUME NEW k \in 1..l PROVE k \in S
    <3>1. k - 1 \in Nat /\ k - 1 < l /\ (k - 1) + 1 = k
      OBVIOUS
    <3>. QED
      BY <1>1, <3>1
  <2>2. Reaches(l, l, S)
    BY <2>1 DEF Reaches
  <2>. QED
    BY <2>2
<1>2. CASE T # {}
  <2>1. PICK n \in T : \A y \in T : n <= y
    <3>1. T \in SUBSET Nat
      OBVIOUS
    <3> HIDE DEF T
    <3>. QED
      BY <1>2, <3>1, Least
  <2>2. ASSUME NEW k \in 1..n PROVE k \in S
    <3>1. k - 1 \in Nat /\ k - 1 < l /\ (k - 1) + 1 = k /\ ~(n <= k - 1)
      OBVIOUS
    <3>. QED
      BY <2>1, <3>1
  <2>3. Reaches(n, l, S) /\ n \in 0..l
    BY <2>1, <2>2 DEF Reaches
  <2>. QED
    BY <2>3
<1>. QED
  BY <1>1, <1>2

\* The length of a text, as a number.
Length(s) == Len(s)

BlankAt(s) == {k \in 1..Length(s) : IsBlank(Char(s, k))}
VisibleAt(s) == {k \in 1..Length(s) : IsVisible(Char(s, k))}
DigitAt(s) == {k \in 1..Length(s) : IsDigit(Char(s, k))}

LEMMA BlankOrVisible == \A c : IsVisible(c) <=> ~IsBlank(c)
BY DEF IsBlank, IsVisible

LEMMA Spans ==
  ASSUME NEW s, IsText(s)
  PROVE  /\ Reaches(Span(s, IsBlank), Length(s), BlankAt(s))
         /\ Reaches(Span(s, IsVisible), Length(s), VisibleAt(s))
         /\ Reaches(Span(s, IsDigit), Length(s), DigitAt(s))
<1> DEFINE l == Length(s)
<1>1. l \in Nat
  BY TextLength DEF Length
<1>2. Reaches(Span(s, IsBlank), l, BlankAt(s))
  <2>1. PICK m \in 0..l : Reaches(m, l, BlankAt(s))
    BY <1>1, ReachExists
  <2> DEFINE Ok(n) == (\A k \in 1..n : IsBlank(Char(s, k))) /\ (n < l => ~IsBlank(Char(s, n + 1)))
  <2>2. Ok(m)
    BY <1>1, <2>1 DEF Reaches, BlankAt
  <2>3. Span(s, IsBlank) = CHOOSE n \in 0..l : Ok(n)
    BY DEF Span, Length
  <2> HIDE DEF Ok
  <2>4. Span(s, IsBlank) \in 0..l /\ Ok(Span(s, IsBlank))
    BY <2>2, <2>3
  <2>5. \A n \in 0..l : Ok(n) => Reaches(n, l, BlankAt(s))
    BY <1>1 DEF Reaches, BlankAt, Ok
  <2>. QED
    BY <2>4, <2>5
<1>3. Reaches(Span(s, IsVisible), l, VisibleAt(s))
  <2>1. PICK m \in 0..l : Reaches(m, l, VisibleAt(s))
    BY <1>1, ReachExists
  <2> DEFINE Ok(n) == (\A k \in 1..n : IsVisible(Char(s, k))) /\ (n < l => ~IsVisible(Char(s, n + 1)))
  <2>2. Ok(m)
    BY <1>1, <2>1 DEF Reaches, VisibleAt
  <2>3. Span(s, IsVisible) = CHOOSE n \in 0..l : Ok(n)
    BY DEF Span, Length
  <2> HIDE DEF Ok
  <2>4. Span(s, IsVisible) \in 0..l /\ Ok(Span(s, IsVisible))
    BY <2>2, <2>3
  <2>5. \A n \in 0..l : Ok(n) => Reaches(n, l, VisibleAt(s))
    BY <1>1 DEF Reaches, VisibleAt, Ok
  <2>. QED
    BY <2>4, <2>5
<1>4. Reaches(Span(s, IsDigit), l, DigitAt(s))
  <2>1. PICK m \in 0..l : Reaches(m, l, DigitAt(s))
    BY <1>1, ReachExists
  <2> DEFINE Ok(n) == (\A k \in 1..n : IsDigit(Char(s, k))) /\ (n < l => ~IsDigit(Char(s, n + 1)))
  <2>2. Ok(m)
    BY <1>1, <2>1 DEF Reaches, DigitAt
  <2>3. Span(s, IsDigit) = CHOOSE n \in 0..l : Ok(n)
    BY DEF Span, Length
  <2> HIDE DEF Ok
  <2>4. Span(s, IsDigit) \in 0..l /\ Ok(Span(s, IsDigit))
    BY <2>2, <2>3
  <2>5. \A n \in 0..l : Ok(n) => Reaches(n, l, DigitAt(s))
    BY <1>1 DEF Reaches, DigitAt, Ok
  <2>. QED
    BY <2>4, <2>5
<1>. QED
  BY <1>2, <1>3, <1>4

-----------------------------------------------------------------------------
(* Words.                                                                   *)

\* A word stands from its first to its last visible character.
IsWord(s, x, y) ==
  /\ x \in Nat /\ y \in Nat /\ 1 <= x /\ x <= y /\ y <= Length(s)
  /\ \A k \in Nat : x <= k /\ k <= y => k \in VisibleAt(s)
  /\ x # 1 => x - 1 \notin VisibleAt(s)
  /\ y # Length(s) => y + 1 \notin VisibleAt(s)

LEMMA WordsAre ==
  ASSUME NEW s, IsText(s)
  PROVE  Words(s) = {w \in (1..Length(s)) \X (1..Length(s)) : IsWord(s, w[1], w[2])}
<1> DEFINE l == Length(s)
<1>1. l \in Nat
  BY TextLength DEF Length
<1>2. ASSUME NEW x \in 1..l, NEW y \in 1..l
      PROVE  IsWord(s, x, y) <=> /\ x <= y
                                 /\ \A n \in x..y : IsVisible(Char(s, n))
                                 /\ x = 1 \/ IsBlank(Char(s, x - 1))
                                 /\ y = l \/ IsBlank(Char(s, y + 1))
  <2>1. (\A k \in Nat : x <= k /\ k <= y => k \in VisibleAt(s)) <=> (\A n \in x..y : IsVisible(Char(s, n)))
    BY <1>1 DEF VisibleAt
  <2>2. x # 1 => (x - 1 \notin VisibleAt(s) <=> IsBlank(Char(s, x - 1)))
    BY <1>1, BlankOrVisible DEF VisibleAt
  <2>3. y # l => (y + 1 \notin VisibleAt(s) <=> IsBlank(Char(s, y + 1)))
    BY <1>1, BlankOrVisible DEF VisibleAt
  <2>. QED
    BY <1>1, <2>1, <2>2, <2>3 DEF IsWord
<1>3. Words(s) = {w \in (1..l) \X (1..l) :
                    /\ w[1] <= w[2]
                    /\ \A n \in w[1]..w[2] : IsVisible(Char(s, n))
                    /\ w[1] = 1 \/ IsBlank(Char(s, w[1] - 1))
                    /\ w[2] = l \/ IsBlank(Char(s, w[2] + 1))}
  BY DEF Words, Length, IsVisible, IsBlank
<1>. QED
  BY <1>2, <1>3

LEMMA OneEnd ==
  ASSUME NEW s, IsText(s), NEW x, NEW y, NEW z, IsWord(s, x, y), IsWord(s, x, z)
  PROVE  y = z
<1> DEFINE V == VisibleAt(s)
           l == Length(s)
<1>1. /\ l \in Nat /\ x \in Nat /\ y \in Nat /\ z \in Nat /\ x <= y /\ x <= z /\ y <= l /\ z <= l
      /\ \A k \in Nat : x <= k /\ k <= y => k \in V
      /\ \A k \in Nat : x <= k /\ k <= z => k \in V
      /\ y # l => y + 1 \notin V
      /\ z # l => z + 1 \notin V
  BY TextLength DEF IsWord, Length
<1> HIDE DEF V, l
<1>2. ~(y < z)
  BY <1>1
<1>3. ~(z < y)
  BY <1>1
<1>. QED
  BY <1>1, <1>2, <1>3

\* From a visible character that follows none, a word stands.
LEMMA WordFrom ==
  ASSUME NEW s, IsText(s), NEW x \in Nat, 1 <= x, x <= Length(s), x \in VisibleAt(s), x # 1 => x - 1 \notin VisibleAt(s)
  PROVE  \E y \in Nat : IsWord(s, x, y)
<1> DEFINE V == VisibleAt(s)
           l == Length(s)
           S == {k \in Nat : x + k \in V}
<1>1. l \in Nat /\ l - x \in Nat
  BY TextLength DEF Length
<1>2. PICK n \in 0..(l - x) : Reaches(n, l - x, S)
  BY <1>1, ReachExists
<1>3. IsWord(s, x, x + n)
  <2>1. n \in Nat /\ n <= l - x /\ (\A k \in 1..n : k \in S) /\ (n < l - x => n + 1 \notin S)
    BY <1>2 DEF Reaches
  <2>2. ASSUME NEW k \in Nat, x <= k, k <= x + n PROVE k \in V
    <3>1. CASE k = x
      BY <3>1
    <3>2. CASE k # x
      <4>1. k - x \in 1..n /\ x + (k - x) = k
        BY <2>1, <2>2, <3>2
      <4>. QED
        BY <2>1, <4>1
    <3>. QED
      BY <3>1, <3>2
  <2>3. ASSUME x + n # l PROVE x + n + 1 \notin V
    <3>1. n < l - x /\ n + 1 \in Nat /\ x + (n + 1) = x + n + 1
      BY <1>1, <2>1, <2>3
    <3>. QED
      BY <2>1, <3>1
  <2>4. x + n \in Nat /\ x <= x + n /\ x + n <= l
    BY <1>1, <2>1
  <2>. QED
    BY <2>2, <2>3, <2>4 DEF IsWord
<1>. QED
  BY <1>3

-----------------------------------------------------------------------------
(* What shell_execute makes of a line.                                      *)

\* From the n-th character on, with lengths as numbers
LEMMA RestFacts ==
  ASSUME NEW s, IsText(s), NEW n \in Nat, 1 <= n, n <= Length(s) + 1
  PROVE  /\ IsText(From(s, n)) /\ Length(From(s, n)) = Length(s) + 1 - n
         /\ n = Length(s) + 1 => From(s, n) = ""
         /\ \A k \in Nat : 1 <= k /\ k <= Length(s) + 2 - n => From(From(s, n), k) = From(s, n + k - 1)
         /\ \A k \in Nat : 1 <= k /\ k <= Length(s) + 1 - n => Char(From(s, n), k) = Char(s, n + k - 1)
         /\ \A k \in Nat : k <= Length(s) + 1 - n => SubSeq(From(s, n), 1, k) = SubSeq(s, n, n + k - 1)
<1> DEFINE l == Length(s)
           part == From(s, n)
<1>1. IsRest(s, n)
  BY DEF IsRest, Length
<1>2. /\ IsText(part) /\ Length(part) = l + 1 - n
      /\ n = l + 1 => part = ""
      /\ \A k : IsRest(part, k) => From(part, k) = From(s, n + k - 1)
      /\ \A k \in Nat : k <= l + 1 - n =>
           /\ k > 0 => Char(part, k) = Char(s, n + k - 1)
           /\ SubSeq(part, 1, k) = SubSeq(s, n, n + k - 1)
  BY <1>1, Rests DEF Length
<1>3. l \in Nat
  BY TextLength DEF Length
<1> HIDE DEF part, l
<1>4. ASSUME NEW k \in Nat, 1 <= k, k <= l + 2 - n PROVE From(part, k) = From(s, n + k - 1)
  <2>1. k <= Length(part) + 1
    <3>1. Length(part) = l + 1 - n
      BY <1>2
    <3>. QED
      BY <1>3, <1>4, <3>1
  <2>2. IsRest(part, k)
    BY <1>4, <2>1 DEF IsRest, Length
  <2>. QED
    BY <1>2, <2>2
<1>5. ASSUME NEW k \in Nat, 1 <= k, k <= l + 1 - n PROVE Char(part, k) = Char(s, n + k - 1)
  <2>1. k > 0
    BY <1>5
  <2>. QED
    BY <1>2, <1>5, <2>1
<1>6. \A k \in Nat : k <= l + 1 - n => SubSeq(part, 1, k) = SubSeq(s, n, n + k - 1)
  BY <1>2
<1>7. IsText(part) /\ Length(part) = l + 1 - n /\ (n = l + 1 => part = "")
  BY <1>2
<1>. QED
  BY <1>4, <1>5, <1>6, <1>7 DEF part, l

LEMMA WholeText == ASSUME NEW s, IsText(s) PROVE From(s, 1) = s
BY DEF IsText, From

LEMMA NoRest == ASSUME NEW s, IsText(s) PROVE From(s, Length(s) + 1) = ""
<1>1. Length(s) \in Nat
  BY TextLength DEF Length
<1>2. Length(s) + 1 \in Nat /\ 1 <= Length(s) + 1 /\ Length(s) + 1 <= Length(s) + 1
  BY <1>1
<1>. QED
  BY <1>2, RestFacts

\* Blanks are skipped,
LEMMA Skips ==
  ASSUME NEW s, IsText(s)
  PROVE  \E n \in Nat : /\ Reaches(n, Length(s), BlankAt(s)) /\ SkipBlanks(s) = From(s, n + 1)
<1>1. Reaches(Span(s, IsBlank), Length(s), BlankAt(s))
  BY Spans
<1>2. Span(s, IsBlank) \in Nat
  BY <1>1 DEF Reaches
<1>3. SkipBlanks(s) = From(s, Span(s, IsBlank) + 1)
  BY DEF SkipBlanks
<1>. QED
  BY <1>1, <1>2, <1>3

\* and where there are none, nothing is.
LEMMA SkipsNone ==
  ASSUME NEW s, IsText(s), Length(s) > 0 => ~IsBlank(Char(s, 1))
  PROVE  SkipBlanks(s) = s
<1>1. PICK n \in Nat : Reaches(n, Length(s), BlankAt(s)) /\ SkipBlanks(s) = From(s, n + 1)
  BY Skips
<1>2. Length(s) \in Nat
  BY TextLength DEF Length
<1>3. n = 0
  <2>1. n <= Length(s) /\ \A k \in 1..n : k \in BlankAt(s)
    BY <1>1 DEF Reaches
  <2>2. n > 0 => 1 \in BlankAt(s) /\ Length(s) > 0
    BY <1>2, <2>1
  <2>. QED
    BY <2>2 DEF BlankAt
<1>4. n + 1 = 1
  BY <1>3
<1>. QED
  BY <1>1, <1>4, WholeText

\* The blanks before the first word, the word, and the blanks behind it.
Shape(s, b, w, c) ==
  /\ b \in Nat /\ w \in Nat /\ c \in Nat /\ b + w + c <= Length(s)
  /\ b < Length(s) => w > 0
  /\ \A k \in Nat : 1 <= k /\ k <= b => k \notin VisibleAt(s)
  /\ \A k \in Nat : b < k /\ k <= b + w => k \in VisibleAt(s)
  /\ b + w < Length(s) => b + w + 1 \notin VisibleAt(s)
  /\ \A k \in Nat : b + w < k /\ k <= b + w + c => k \notin VisibleAt(s)
  /\ b + w + c < Length(s) => b + w + c + 1 \in VisibleAt(s)

LEMMA ParsedAs ==
  ASSUME NEW s, IsText(s)
  PROVE  \E b, w, c : /\ Shape(s, b, w, c)
                      /\ Parsed(s).cmd = SubSeq(s, b + 1, b + w)
                      /\ Parsed(s).args = From(s, b + w + c + 1)
<1> DEFINE l == Length(s)
<1>0. l \in Nat
  BY TextLength DEF Length
<1>1. PICK b \in Nat : Reaches(b, l, BlankAt(s)) /\ SkipBlanks(s) = From(s, b + 1)
  BY Skips
<1>2. /\ b <= l /\ (\A k \in 1..b : k \in BlankAt(s)) /\ (b < l => b + 1 \notin BlankAt(s))
  BY <1>1 DEF Reaches
<1> DEFINE start == From(s, b + 1)
           m == Length(start)
<1>3. /\ IsText(start) /\ m = l - b
      /\ \A k \in Nat : 1 <= k /\ k <= l + 1 - b => From(start, k) = From(s, b + k)
      /\ \A k \in Nat : 1 <= k /\ k <= l - b => Char(start, k) = Char(s, b + k)
      /\ \A k \in Nat : k <= l - b => SubSeq(start, 1, k) = SubSeq(s, b + 1, b + k)
  <2>1. b + 1 \in Nat /\ 1 <= b + 1 /\ b + 1 <= l + 1 /\ l + 1 - (b + 1) = l - b /\ l + 2 - (b + 1) = l + 1 - b
        /\ \A k \in Nat : (b + 1) + k - 1 = b + k
    BY <1>0, <1>2
  <2>2. /\ IsText(start) /\ m = l + 1 - (b + 1)
        /\ \A k \in Nat : 1 <= k /\ k <= l + 2 - (b + 1) => From(start, k) = From(s, (b + 1) + k - 1)
        /\ \A k \in Nat : 1 <= k /\ k <= l + 1 - (b + 1) => Char(start, k) = Char(s, (b + 1) + k - 1)
        /\ \A k \in Nat : k <= l + 1 - (b + 1) => SubSeq(start, 1, k) = SubSeq(s, b + 1, (b + 1) + k - 1)
    BY <2>1, RestFacts
  <2> HIDE DEF start, m, l
  <2>. QED
    BY <2>1, <2>2
<1> HIDE DEF start, m
<1>4. m \in Nat
  BY <1>0, <1>2, <1>3
<1>5. SkipBlanks(start) = start
  <2>1. ASSUME m > 0 PROVE ~IsBlank(Char(start, 1))
    <3>1. b < l
      BY <1>0, <1>2, <1>3, <2>1
    <3>2. b + 1 \notin BlankAt(s) /\ b + 1 \in 1..l /\ Char(start, 1) = Char(s, b + 1)
      BY <1>0, <1>2, <1>3, <3>1
    <3>. QED
      BY <3>2 DEF BlankAt
  <2>. QED
    BY <1>3, <2>1, SkipsNone DEF m
<1> DEFINE w == Span(start, IsVisible)
<1>6. Reaches(w, m, VisibleAt(start))
  BY <1>3, Spans DEF m
<1>7. strtok(start) = SubSeq(start, 1, w)
  BY <1>5 DEF strtok
<1> HIDE DEF w
<1>8. w \in Nat /\ w <= m /\ (\A k \in 1..w : k \in VisibleAt(start)) /\ (w < m => w + 1 \notin VisibleAt(start))
  BY <1>6 DEF Reaches
<1>9. strtok(start) = SubSeq(s, b + 1, b + w)
  BY <1>3, <1>7, <1>8
<1>10. Len(strtok(start)) = w
  <2>1. IsPart(start, 1, w)
    BY <1>8 DEF IsPart, Length, m
  <2>2. Len(SubSeq(start, 1, w)) = w - 1 + 1
    BY <1>3, <2>1, PartOf
  <2>. QED
    BY <1>7, <1>8, <2>2
<1> DEFINE rest == From(start, w + 1)
<1>11. AfterWord(s, start, strtok(start)) = rest
  BY <1>10 DEF AfterWord
<1>12. /\ IsText(rest) /\ Length(rest) = m - w
       /\ \A k \in Nat : 1 <= k /\ k <= m + 1 - w => From(rest, k) = From(start, w + k)
       /\ \A k \in Nat : 1 <= k /\ k <= m - w => Char(rest, k) = Char(start, w + k)
  <2>1. w + 1 \in Nat /\ 1 <= w + 1 /\ w + 1 <= m + 1 /\ m + 1 - (w + 1) = m - w /\ m + 2 - (w + 1) = m + 1 - w
        /\ \A k \in Nat : (w + 1) + k - 1 = w + k
    BY <1>4, <1>8
  <2>2. /\ IsText(rest) /\ Length(rest) = m + 1 - (w + 1)
        /\ \A k \in Nat : 1 <= k /\ k <= m + 2 - (w + 1) => From(rest, k) = From(start, (w + 1) + k - 1)
        /\ \A k \in Nat : 1 <= k /\ k <= m + 1 - (w + 1) => Char(rest, k) = Char(start, (w + 1) + k - 1)
    BY <1>3, <2>1, RestFacts DEF m
  <2> HIDE DEF rest
  <2>. QED
    BY <2>1, <2>2
<1> HIDE DEF rest
<1>13. PICK c \in Nat : Reaches(c, Length(rest), BlankAt(rest)) /\ SkipBlanks(rest) = From(rest, c + 1)
  BY <1>12, Skips
<1>14. /\ c <= Length(rest) /\ (\A k \in 1..c : k \in BlankAt(rest))
       /\ (c < Length(rest) => c + 1 \notin BlankAt(rest))
  BY <1>13 DEF Reaches
<1>15. Length(rest) = m - w /\ m = l - b /\ m \in Nat /\ c <= m - w /\ w <= m /\ b <= l
  BY <1>2, <1>3, <1>4, <1>8, <1>12, <1>14
<1>16. SkipBlanks(rest) = From(s, b + w + c + 1)
  <2>1. c + 1 \in Nat /\ 1 <= c + 1 /\ c + 1 <= m + 1 - w /\ w + (c + 1) \in Nat /\ 1 <= w + (c + 1)
        /\ w + (c + 1) <= l + 1 - b /\ b + (w + (c + 1)) = b + w + c + 1
    BY <1>0, <1>8, <1>15
  <2>2. From(rest, c + 1) = From(start, w + (c + 1))
    BY <1>12, <2>1
  <2>3. From(start, w + (c + 1)) = From(s, b + (w + (c + 1)))
    BY <1>3, <2>1
  <2>. QED
    BY <1>13, <2>1, <2>2, <2>3
<1>17. Parsed(s).cmd = SubSeq(s, b + 1, b + w) /\ Parsed(s).args = From(s, b + w + c + 1)
  <2>1. SkipBlanks(s) = start
    BY <1>1 DEF start
  <2>2. Parsed(s) = [cmd |-> strtok(start), args |-> SkipBlanks(AfterWord(s, start, strtok(start)))]
    BY <2>1 DEF Parsed
  <2>3. Parsed(s) = [cmd |-> strtok(start), args |-> SkipBlanks(rest)]
    BY <1>11, <2>2, Zenon
  <2>4. Parsed(s) = [cmd |-> SubSeq(s, b + 1, b + w), args |-> From(s, b + w + c + 1)]
    BY <1>9, <1>16, <2>3, Zenon
  <2>5. \A x, y : [cmd |-> x, args |-> y].cmd = x /\ [cmd |-> x, args |-> y].args = y
    OBVIOUS
  <2>. QED
    BY <2>4, <2>5, Zenon
<1>18. Shape(s, b, w, c)
  <2>0. b + w + c <= l /\ b + w + c \in Nat
    BY <1>0, <1>8, <1>15
  <2>1. ASSUME b < l PROVE w > 0
    <3>1. b + 1 \in 1..l /\ b + 1 \notin BlankAt(s) /\ m > 0 /\ Char(start, 1) = Char(s, b + 1)
      BY <1>0, <1>2, <1>3, <1>15, <2>1
    <3>2. IsVisible(Char(start, 1))
      BY <3>1, BlankOrVisible DEF BlankAt
    <3>3. 1 \in VisibleAt(start)
      BY <1>4, <3>1, <3>2 DEF VisibleAt, m
    <3>4. w = 0 => w + 1 = 1 /\ w < m
      BY <3>1
    <3>. QED
      BY <1>8, <3>3, <3>4
  <2>2. ASSUME NEW k \in Nat, 1 <= k, k <= b PROVE k \notin VisibleAt(s)
    <3>1. k \in BlankAt(s)
      BY <1>2, <2>2
    <3>. QED
      BY <3>1, BlankOrVisible DEF BlankAt, VisibleAt
  <2>3. ASSUME NEW k \in Nat, b < k, k <= l PROVE k \in VisibleAt(s) <=> k - b \in VisibleAt(start)
    <3>1. k - b \in Nat /\ 1 <= k - b /\ k - b <= l - b /\ b + (k - b) = k /\ k \in 1..l /\ k - b \in 1..m
      BY <1>0, <1>15, <2>3
    <3>2. Char(start, k - b) = Char(s, k)
      BY <1>3, <3>1
    <3>. QED
      BY <3>1, <3>2 DEF VisibleAt, m
  <2>4. ASSUME NEW k \in Nat, b < k, k <= b + w PROVE k \in VisibleAt(s)
    <3>1. k - b \in 1..w /\ k <= l
      BY <1>0, <1>15, <1>8, <2>4
    <3>. QED
      BY <1>8, <2>3, <2>4, <3>1
  <2>5. ASSUME b + w < l PROVE b + w + 1 \notin VisibleAt(s)
    <3>1. b + w + 1 \in Nat /\ b < b + w + 1 /\ b + w + 1 <= l /\ (b + w + 1) - b = w + 1 /\ w < m
      BY <1>0, <1>8, <1>15, <2>5
    <3>. QED
      BY <1>8, <2>3, <3>1
  <2>6. ASSUME NEW k \in Nat, b + w < k, k <= l PROVE k \in VisibleAt(s) <=> k - b - w \notin BlankAt(rest)
    <3>1. k - b - w \in Nat /\ 1 <= k - b - w /\ k - b - w <= m - w /\ w + (k - b - w) = k - b
          /\ k - b - w \in 1..Length(rest) /\ k - b \in 1..m /\ b < k
      BY <1>0, <1>8, <1>15, <2>6
    <3>2. Char(rest, k - b - w) = Char(start, k - b)
      BY <1>12, <3>1
    <3>3. k - b - w \in BlankAt(rest) <=> IsBlank(Char(start, k - b))
      BY <3>1, <3>2 DEF BlankAt
    <3>4. k - b \in VisibleAt(start) <=> IsVisible(Char(start, k - b))
      BY <3>1 DEF VisibleAt, m
    <3>. QED
      BY <2>3, <2>6, <3>1, <3>3, <3>4, BlankOrVisible
  <2>7. ASSUME NEW k \in Nat, b + w < k, k <= b + w + c PROVE k \notin VisibleAt(s)
    <3>1. k - b - w \in 1..c /\ k <= l
      BY <1>0, <1>8, <2>0, <2>7
    <3>. QED
      BY <1>14, <2>6, <2>7, <3>1
  <2>8. ASSUME b + w + c < l PROVE b + w + c + 1 \in VisibleAt(s)
    <3>1. b + w + c + 1 \in Nat /\ b + w < b + w + c + 1 /\ b + w + c + 1 <= l /\ (b + w + c + 1) - b - w = c + 1
          /\ c < Length(rest)
      BY <1>0, <1>8, <1>15, <2>8
    <3>. QED
      BY <1>14, <2>6, <3>1
  <2>. QED
    BY <1>8, <2>0, <2>1, <2>2, <2>4, <2>5, <2>7, <2>8 DEF Shape
<1>. QED
  BY <1>17, <1>18

-----------------------------------------------------------------------------
(* The first two words.                                                     *)

UpTo(W, u) == {v \in W : v[1] <= u[1]}

LEMMA UpToTwo ==
  ASSUME NEW W, IsFiniteSet(W), NEW u, NEW p, p # u, p \in UpTo(W, u), u \in UpTo(W, u)
  PROVE  Cardinality(UpTo(W, u)) \in Nat /\ Cardinality(UpTo(W, u)) >= 2
<1>1. IsFiniteSet(UpTo(W, u))
  BY FS_Subset DEF UpTo
<1>2. Cardinality({p, u}) = 2 /\ {p, u} \subseteq UpTo(W, u)
  <2>1. Cardinality({p}) = 1 /\ IsFiniteSet({p})
    BY FS_Singleton
  <2>2. Cardinality({p} \cup {u}) = 1 + 1
    BY <2>1, FS_AddElement
  <2>3. {p} \cup {u} = {p, u}
    OBVIOUS
  <2>. QED
    BY <2>2, <2>3
<1>3. Cardinality({p, u}) <= Cardinality(UpTo(W, u))
  BY <1>1, <1>2, FS_Subset
<1>. QED
  BY <1>1, <1>2, <1>3, FS_CardinalityType

LEMMA UpToThree ==
  ASSUME NEW W, IsFiniteSet(W), NEW u, NEW p, NEW q, p # u, q # u, p # q, {p, q, u} \subseteq UpTo(W, u)
  PROVE  Cardinality(UpTo(W, u)) # 2
<1>1. IsFiniteSet(UpTo(W, u))
  BY FS_Subset DEF UpTo
<1>2. Cardinality({p, q, u}) = 3
  <2>1. Cardinality({p}) = 1 /\ IsFiniteSet({p})
    BY FS_Singleton
  <2>2. Cardinality({p} \cup {q}) = 1 + 1 /\ IsFiniteSet({p} \cup {q})
    BY <2>1, FS_AddElement
  <2>3. Cardinality(({p} \cup {q}) \cup {u}) = (1 + 1) + 1
    <3>1. u \notin {p} \cup {q}
      OBVIOUS
    <3>. QED
      BY <2>2, <3>1, FS_AddElement
  <2>4. ({p} \cup {q}) \cup {u} = {p, q, u}
    OBVIOUS
  <2>. QED
    BY <2>3, <2>4
<1>3. Cardinality({p, q, u}) <= Cardinality(UpTo(W, u))
  BY <1>1, FS_Subset
<1>4. Cardinality(UpTo(W, u)) \in Nat
  BY <1>1, FS_CardinalityType
<1>. QED
  BY <1>2, <1>3, <1>4

\* One word begins before all others, one after it before all the rest.
LEMMA Counts ==
  ASSUME NEW W \in SUBSET (Nat \X Nat), IsFiniteSet(W), NEW p \in W, \A v \in W : v = p \/ v[1] > p[1]
  PROVE  /\ {u \in W : Cardinality(UpTo(W, u)) = 1} = {p}
         /\ W = {p} => {u \in W : Cardinality(UpTo(W, u)) = 2} = {}
         /\ \A q \in W : q # p /\ (\A v \in W : v = p \/ v = q \/ v[1] > q[1]) =>
              {u \in W : Cardinality(UpTo(W, u)) = 2} = {q}
<1>1. \A v \in W : v[1] \in Nat
  OBVIOUS
<1>2. UpTo(W, p) = {p}
  BY <1>1 DEF UpTo
<1>3. Cardinality(UpTo(W, p)) = 1
  BY <1>2, FS_Singleton
<1>4. ASSUME NEW u \in W, u # p
      PROVE  p \in UpTo(W, u) /\ u \in UpTo(W, u)
  BY <1>1, <1>4 DEF UpTo
<1>5. ASSUME NEW u \in W, u # p PROVE Cardinality(UpTo(W, u)) # 1
  <2>1. Cardinality(UpTo(W, u)) \in Nat /\ Cardinality(UpTo(W, u)) >= 2
    BY <1>4, <1>5, UpToTwo
  <2>. QED
    BY <2>1
<1>6. ASSUME NEW q \in W, q # p, \A v \in W : v = p \/ v = q \/ v[1] > q[1]
      PROVE  {u \in W : Cardinality(UpTo(W, u)) = 2} = {q}
  <2>1. UpTo(W, q) = {p} \cup {q}
    <3>1. q[1] > p[1]
      BY <1>6
    <3>. QED
      BY <1>1, <1>6, <3>1 DEF UpTo
  <2>2. Cardinality(UpTo(W, q)) = 2
    <3>1. Cardinality({p}) = 1 /\ IsFiniteSet({p})
      BY FS_Singleton
    <3>2. q \notin {p}
      BY <1>6
    <3>3. Cardinality({p} \cup {q}) = 1 + 1
      BY <3>1, <3>2, FS_AddElement
    <3>. QED
      BY <2>1, <3>3
  <2>3. ASSUME NEW u \in W, u # p, u # q PROVE Cardinality(UpTo(W, u)) # 2
    <3>1. {p, q, u} \subseteq UpTo(W, u)
      BY <1>1, <1>4, <1>6, <2>3 DEF UpTo
    <3>. QED
      BY <1>6, <2>3, <3>1, UpToThree
  <2>. QED
    BY <1>3, <2>2, <2>3
<1>7. {u \in W : Cardinality(UpTo(W, u)) = 1} = {p}
  BY <1>3, <1>5
<1>8. W = {p} => {u \in W : Cardinality(UpTo(W, u)) = 2} = {}
  BY <1>3
<1>. QED
  BY <1>6, <1>7, <1>8

\* What a line says by its words is what is made of it.
LEMMA SaidAs ==
  ASSUME NEW s, IsText(s), NEW b, NEW w, NEW c, Shape(s, b, w, c)
  PROVE  Said(s).name = SubSeq(s, b + 1, b + w) /\ Said(s).argument = From(s, b + w + c + 1)
<1> DEFINE l == Length(s)
           V == VisibleAt(s)
           W == Words(s)
           e == b + w + c + 1
           name == SubSeq(s, b + 1, b + w)
           argument == From(s, e)
           One == {u \in W : Cardinality(UpTo(W, u)) = 1}
           Two == {u \in W : Cardinality(UpTo(W, u)) = 2}
<1>1. /\ l \in Nat /\ b \in Nat /\ w \in Nat /\ c \in Nat /\ b + w + c <= l
      /\ b < l => w > 0
      /\ \A k \in Nat : 1 <= k /\ k <= b => k \notin V
      /\ \A k \in Nat : b < k /\ k <= b + w => k \in V
      /\ b + w < l => b + w + 1 \notin V
      /\ \A k \in Nat : b + w < k /\ k <= b + w + c => k \notin V
      /\ b + w + c < l => e \in V
  BY TextLength DEF Shape, Length
<1>2. W = {v \in (1..l) \X (1..l) : IsWord(s, v[1], v[2])}
  BY WordsAre
<1>3. W \in SUBSET (Nat \X Nat) /\ IsFiniteSet(W)
  <2>1. IsFiniteSet(1..l)
    BY <1>1, FS_Interval
  <2>2. IsFiniteSet((1..l) \X (1..l))
    BY <2>1, FS_Product
  <2>3. W \subseteq (1..l) \X (1..l)
    BY <1>2
  <2>4. (1..l) \X (1..l) \subseteq Nat \X Nat
    BY <1>1
  <2>. QED
    BY <2>2, <2>3, <2>4, FS_Subset
<1>4. \A x, y : <<x, y>> \in W <=> IsWord(s, x, y)
  <2>1. ASSUME NEW x, NEW y, IsWord(s, x, y) PROVE x \in 1..l /\ y \in 1..l
    BY <1>1, <2>1 DEF IsWord
  <2>. QED
    BY <1>2, <2>1
<1>5. \A v \in W : v = <<v[1], v[2]>> /\ IsWord(s, v[1], v[2])
  BY <1>2
<1>6. Said(s) = [name |-> IF W = {} THEN ""
                          ELSE LET v == CHOOSE v \in One : TRUE IN SubSeq(s, v[1], v[2]),
                 argument |-> IF Two = {} THEN "" ELSE From(s, (CHOOSE v \in Two : TRUE)[1])]
  BY DEF Said, InOrder, UpTo
<1> HIDE DEF W, V, l, One, Two
<1>7. ASSUME b = l PROVE Said(s) = [name |-> "", argument |-> ""] /\ name = "" /\ argument = ""
  <2>1. w = 0 /\ c = 0 /\ e = l + 1
    BY <1>1, <1>7
  <2>2. W = {}
    <3>1. ASSUME NEW x, NEW y, IsWord(s, x, y) PROVE FALSE
      <4>1. x \in Nat /\ 1 <= x /\ x <= l /\ x \in V
        BY <1>1, <3>1 DEF IsWord, l, V
      <4>. QED
        BY <1>1, <1>7, <4>1
    <3>. QED
      BY <1>5, <3>1
  <2>3. Said(s) = [name |-> "", argument |-> ""]
    <3>1. Two = {}
      BY <2>2 DEF Two
    <3>. QED
      BY <1>6, <2>2, <3>1, Zenon
  <2>4. name = ""
    <3>1. IsPart(s, b + 1, b + w) /\ b + w < b + 1
      BY <1>1, <1>7, <2>1 DEF IsPart, l, Length
    <3>. QED
      BY <3>1, PartOf
  <2>5. argument = ""
    BY <2>1, NoRest DEF l
  <2>. QED
    BY <2>3, <2>4, <2>5
<1>8. ASSUME b < l PROVE Said(s) = [name |-> name, argument |-> argument]
  <2> DEFINE p == <<b + 1, b + w>>
  <2>1. IsWord(s, b + 1, b + w)
    <3>1. b + 1 # 1 => (b + 1) - 1 \notin V
      BY <1>1
    <3>2. b + w # l => b + w + 1 \notin V
      BY <1>1
    <3>3. b + 1 \in Nat /\ b + w \in Nat /\ 1 <= b + 1 /\ b + 1 <= b + w /\ b + w <= l
      BY <1>1, <1>8
    <3>4. \A k \in Nat : b + 1 <= k /\ k <= b + w => k \in V
      BY <1>1
    <3>. QED
      BY <3>1, <3>2, <3>3, <3>4 DEF IsWord, V, l
  <2>2. p \in W
    BY <1>4, <2>1
  <2>3. ASSUME NEW x, NEW y, IsWord(s, x, y)
        PROVE  x \in Nat /\ ((x = b + 1 /\ y = b + w) \/ (x >= e /\ x <= l))
    <3>1. x \in Nat /\ 1 <= x /\ x <= l /\ x \in V /\ (x # 1 => x - 1 \notin V)
      BY <1>1, <2>3 DEF IsWord, l, V
    <3>2. x > b
      BY <1>1, <3>1
    <3>3. CASE x <= b + w
      <4>1. x = b + 1
        <5>1. ASSUME x # b + 1 PROVE FALSE
          <6>1. x - 1 \in Nat /\ b < x - 1 /\ x - 1 <= b + w /\ x # 1
            BY <1>1, <3>1, <3>2, <3>3, <5>1
          <6>. QED
            BY <1>1, <3>1, <6>1
        <5>. QED
          BY <5>1
      <4>. QED
        BY <2>1, <2>3, <3>1, <4>1, OneEnd
    <3>4. CASE x > b + w
      <4>1. x > b + w + c
        BY <1>1, <3>1, <3>4
      <4>. QED
        BY <1>1, <3>1, <4>1
    <3>. QED
      BY <1>1, <3>1, <3>3, <3>4
  <2>4. \A v \in W : v = p \/ (v[1] >= e /\ v[1] <= l)
    BY <1>5, <2>3
  <2>5. \A v \in W : v = p \/ v[1] > p[1]
    <3>1. \A x \in Nat : x >= e => x > b + 1
      BY <1>1, <1>8
    <3>. QED
      BY <1>3, <2>4, <3>1
  <2>6. One = {p}
    BY <1>3, <2>2, <2>5, Counts DEF One
  <2>9. \A v : (CHOOSE u \in {v} : TRUE) = v
    OBVIOUS
  <2>10. SubSeq(s, p[1], p[2]) = name
    OBVIOUS
  <2>7. CASE b + w + c = l
    <3>1. e = l + 1
      BY <1>1, <2>7
    <3>2. W = {p}
      <4>1. \A x \in Nat : ~(x >= e /\ x <= l)
        BY <1>1, <3>1
      <4>. QED
        BY <1>3, <2>2, <2>4, <4>1
    <3>3. Two = {}
      BY <1>3, <2>2, <2>5, <3>2, Counts DEF Two
    <3>4. argument = ""
      BY <3>1, NoRest DEF l
    <3> HIDE DEF argument
    <3>5. Said(s) = [name |-> SubSeq(s, p[1], p[2]), argument |-> ""]
      BY <1>6, <2>2, <2>6, <2>9, <3>3, Zenon
    <3>. QED
      BY <2>10, <3>4, <3>5, Zenon
  <2>8. CASE b + w + c # l
    <3>1. e \in Nat /\ 1 <= e /\ e <= l /\ e \in V /\ e - 1 \notin V /\ e > b + w /\ e > b + 1
      <4>1. b + w + c < l /\ e \in V
        BY <1>1, <2>8
      <4>2. c > 0
        BY <1>1, <4>1
      <4>3. b + w + c \in Nat /\ b + w < b + w + c /\ e - 1 = b + w + c
        BY <1>1, <4>2
      <4>. QED
        BY <1>1, <1>8, <4>1, <4>3
    <3>2. PICK y \in Nat : IsWord(s, e, y)
      BY <3>1, WordFrom DEF V, l
    <3> DEFINE q == <<e, y>>
    <3>3. q \in W /\ q # p
      BY <1>4, <3>1, <3>2
    <3>4. \A v \in W : v = p \/ v = q \/ v[1] > q[1]
      <4>1. ASSUME NEW v \in W, v # p PROVE v = q \/ v[1] > e
        <5>1. v[1] \in Nat /\ v[1] >= e
          BY <1>3, <2>4, <4>1
        <5>2. v[1] = e => v[2] = y
          BY <1>5, <3>2, OneEnd
        <5>3. v[1] = e => v = q
          BY <1>5, <5>2
        <5>. QED
          BY <3>1, <5>1, <5>3
      <4>. QED
        BY <4>1
    <3>5. Two = {q}
      BY <1>3, <2>2, <2>5, <3>3, <3>4, Counts DEF Two
    <3>6. Two # {} /\ (CHOOSE v \in Two : TRUE) = q
      BY <2>9, <3>5, Zenon
    <3>7. Said(s) = [name |-> SubSeq(s, p[1], p[2]), argument |-> From(s, q[1])]
      BY <1>6, <2>2, <2>6, <2>9, <3>6, Zenon
    <3>8. From(s, q[1]) = argument
      OBVIOUS
    <3>. QED
      BY <2>10, <3>7, <3>8, Zenon
  <2>. QED
    BY <2>7, <2>8
<1>9. b = l \/ b < l
  BY <1>1
<1>10. Said(s) = [name |-> name, argument |-> argument]
  BY <1>7, <1>8, <1>9, Zenon
<1>11. \A x, y : [name |-> x, argument |-> y].name = x /\ [name |-> x, argument |-> y].argument = y
  OBVIOUS
<1>. QED
  BY <1>10, <1>11, Zenon

\* So a line does what its words say.
LEMMA ParsedIsSaid ==
  ASSUME NEW s, IsText(s)
  PROVE  /\ Parsed(s).cmd = Said(s).name /\ Parsed(s).args = Said(s).argument
         /\ \E n \in Nat : 1 <= n /\ n <= Length(s) + 1 /\ Said(s).argument = From(s, n)
         /\ Length(Said(s).argument) > 0 => ~IsBlank(Char(Said(s).argument, 1))
<1>1. PICK b, w, c : /\ Shape(s, b, w, c)
                     /\ Parsed(s).cmd = SubSeq(s, b + 1, b + w)
                     /\ Parsed(s).args = From(s, b + w + c + 1)
  BY ParsedAs
<1>2. Said(s).name = SubSeq(s, b + 1, b + w) /\ Said(s).argument = From(s, b + w + c + 1)
  BY <1>1, SaidAs
<1> DEFINE n == b + w + c + 1
           argument == From(s, n)
<1>3. n \in Nat /\ 1 <= n /\ n <= Length(s) + 1 /\ Length(s) \in Nat /\ (n <= Length(s) => n \in VisibleAt(s))
  BY <1>1, TextLength DEF Shape, Length
<1> HIDE DEF n
<1>4. ASSUME Length(argument) > 0 PROVE ~IsBlank(Char(argument, 1))
  <2>1. /\ Length(argument) = Length(s) + 1 - n
        /\ \A k \in Nat : 1 <= k /\ k <= Length(s) + 1 - n => Char(argument, k) = Char(s, n + k - 1)
    BY <1>3, RestFacts
  <2> HIDE DEF argument
  <2>2. n <= Length(s) /\ n + 1 - 1 = n /\ 1 <= Length(s) + 1 - n
    BY <1>3, <1>4, <2>1
  <2>3. Char(argument, 1) = Char(s, n) /\ n \in VisibleAt(s)
    BY <1>3, <2>1, <2>2
  <2>. QED
    BY <2>3, BlankOrVisible DEF VisibleAt
<1>. QED
  BY <1>1, <1>2, <1>3, <1>4 DEF n

-----------------------------------------------------------------------------
(* What echo prints.                                                        *)

FromOne == Nat \ {0}
Writes(fmt, given, g) == g = [n \in FromOne |-> [k \in FromOne |-> Formatted(fmt, given, g, n, k)]]

LEMMA WritesAs ==
  ASSUME NEW fmt, NEW given, NEW text,
         \E g : Writes(fmt, given, g),
         \A g : Writes(fmt, given, g) => g[1][1] = text
  PROVE  kvsnprintf(fmt, given) = text
<1>1. kvsnprintf(fmt, given) = (CHOOSE g : Writes(fmt, given, g))[1][1]
  BY DEF kvsnprintf, Writes, FromOne
<1>. QED
  BY <1>1

LEMMA WritesAt ==
  ASSUME NEW fmt, NEW given, NEW g, Writes(fmt, given, g), NEW n \in FromOne, NEW k \in FromOne
  PROVE  g[n][k] = Formatted(fmt, given, g, n, k)
<1> DEFINE r == [x \in FromOne |-> [y \in FromOne |-> Formatted(fmt, given, g, x, y)]]
<1>1. r[n][k] = Formatted(fmt, given, g, n, k)
  OBVIOUS
<1>2. g = r
  BY DEF Writes
<1> HIDE DEF r
<1>. QED
  BY <1>1, <1>2

LEMMA NoDigits ==
  ASSUME NEW s, IsText(s), Length(s) > 0 => ~IsDigit(Char(s, 1))
  PROVE  Span(s, IsDigit) = 0
<1>1. Reaches(Span(s, IsDigit), Length(s), DigitAt(s))
  BY Spans
<1> DEFINE n == Span(s, IsDigit)
<1> HIDE DEF n
<1>2. n \in Nat /\ n <= Length(s) /\ \A k \in 1..n : k \in DigitAt(s)
  BY <1>1 DEF Reaches, n
<1>3. Length(s) \in Nat
  BY TextLength DEF Length
<1>4. n > 0 => 1 \in DigitAt(s) /\ Length(s) > 0
  BY <1>2, <1>3
<1>5. n = 0
  BY <1>2, <1>4 DEF DigitAt
<1>. QED
  BY <1>5 DEF n

\* "%s\n"
EchoFormat == "%s\n"

LEMMA EchoFormatIs ==
  /\ IsText(EchoFormat) /\ Length(EchoFormat) = 3
  /\ Char(EchoFormat, 1) = "%" /\ Char(EchoFormat, 2) = "s" /\ Char(EchoFormat, 3) = "\n"
  /\ ~IsDigit("s") /\ "\n" \o "" = "\n"
BY StringsAssumption DEF EchoFormat, Length

LEMMA EchoWidth == Span(From(EchoFormat, 2), IsDigit) = 0
<1>1. 2 \in Nat /\ 1 <= 2 /\ 2 <= 3 + 1 /\ 3 + 1 - 2 = 2
  OBVIOUS
<1>2. /\ IsText(From(EchoFormat, 2))
      /\ \A k \in Nat : 1 <= k /\ k <= 2 => Char(From(EchoFormat, 2), k) = Char(EchoFormat, 2 + k - 1)
  <2>1. IsText(EchoFormat) /\ Length(EchoFormat) = 3
    BY EchoFormatIs
  <2>2. /\ IsText(From(EchoFormat, 2))
        /\ \A k \in Nat : 1 <= k /\ k <= Length(EchoFormat) + 1 - 2 => Char(From(EchoFormat, 2), k) = Char(EchoFormat, 2 + k - 1)
    BY <1>1, <2>1, RestFacts
  <2>. QED
    BY <1>1, <2>1, <2>2
<1>3. Char(From(EchoFormat, 2), 1) = "s"
  <2>1. 1 \in Nat /\ 1 <= 1 /\ 1 <= 2 /\ 2 + 1 - 1 = 2
    OBVIOUS
  <2>2. Char(From(EchoFormat, 2), 1) = Char(EchoFormat, 2 + 1 - 1)
    BY <1>2, <2>1
  <2>. QED
    BY <2>1, <2>2, EchoFormatIs
<1>. QED
  BY <1>2, <1>3, EchoFormatIs, NoDigits

EchoText(given, g, n, k, text) ==
  /\ n > 3 => text = ""
  /\ n = 3 => text = "\n" \o g[4][k]
  /\ n = 2 => text = "s" \o g[3][k]
  /\ n = 1 => text = given[k] \o g[3][k + 1]

LEMMA EchoStep ==
  ASSUME NEW given, NEW g, NEW n \in FromOne, NEW k \in FromOne
  PROVE  EchoText(given, g, n, k, Formatted(EchoFormat, given, g, n, k))
<1>1. Len(EchoFormat) = 3
  BY EchoFormatIs DEF Length
<1>2. ASSUME n > 3 PROVE Formatted(EchoFormat, given, g, n, k) = ""
  BY <1>1, <1>2 DEF Formatted
<1>3. ASSUME n = 3 PROVE Formatted(EchoFormat, given, g, n, k) = "\n" \o g[4][k]
  <2>1. ~(n > Len(EchoFormat)) /\ n = Len(EchoFormat) /\ n + 1 = 4
    BY <1>1, <1>3
  <2>. QED
    BY <1>3, <2>1, EchoFormatIs, Zenon DEF Formatted
<1>4. ASSUME n = 2 PROVE Formatted(EchoFormat, given, g, n, k) = "s" \o g[3][k]
  <2>1. ~(n > Len(EchoFormat)) /\ n + 1 = 3
    BY <1>1, <1>4
  <2>2. Char(EchoFormat, n) = "s" /\ "s" # "%"
    BY <1>4, EchoFormatIs
  <2>. QED
    BY <2>1, <2>2, Zenon DEF Formatted
<1>5. ASSUME n = 1 PROVE Formatted(EchoFormat, given, g, n, k) = given[k] \o g[3][k + 1]
  <2>1. ~(n > Len(EchoFormat)) /\ n # Len(EchoFormat) /\ n + 1 = 2 /\ 2 + 0 = 2 /\ 2 + 1 = 3
    BY <1>1, <1>5
  <2>2. Char(EchoFormat, n) = "%" /\ Char(EchoFormat, 2) = "s"
    BY <1>5, EchoFormatIs
  <2>3. "s" # "0" /\ "s" # "l" /\ "s" # "p" /\ "s" \in {"c", "s"} /\ "s" \notin DOMAIN Base
    BY DEF Base
  <2>. QED
    BY <2>1, <2>2, <2>3, EchoWidth, Zenon DEF Formatted
<1>. QED
  BY <1>2, <1>3, <1>4, <1>5, Zenon DEF EchoText

LEMMA EchoSteps ==
  ASSUME NEW given, NEW g, Writes(EchoFormat, given, g), NEW n \in FromOne, NEW k \in FromOne
  PROVE  EchoText(given, g, n, k, g[n][k])
<1>1. g[n][k] = Formatted(EchoFormat, given, g, n, k)
  BY WritesAt, Zenon
<1>2. EchoText(given, g, n, k, Formatted(EchoFormat, given, g, n, k))
  BY EchoStep, Zenon
<1>. QED
  BY <1>1, <1>2, Zenon

LEMMA EchoWrites == ASSUME NEW a PROVE kvsnprintf(EchoFormat, <<a>>) = a \o "\n"
<1> DEFINE given == <<a>>
           h(n, k) == IF n > 3 THEN "" ELSE IF n = 3 THEN "\n" ELSE IF n = 2 THEN "s" \o "\n" ELSE given[k] \o "\n"
           g == [n \in FromOne |-> [k \in FromOne |-> h(n, k)]]
<1>0. given[1] = a /\ "\n" \o "" = "\n"
  BY EchoFormatIs
<1> HIDE DEF given
<1>1. \A n, k \in FromOne : g[n][k] = h(n, k)
  OBVIOUS
<1>2. ASSUME NEW n \in FromOne, NEW k \in FromOne PROVE Formatted(EchoFormat, given, g, n, k) = h(n, k)
  <2>1. /\ 3 \in FromOne /\ 4 \in FromOne /\ k + 1 \in FromOne /\ 4 > 3 /\ ~(3 > 3) /\ ~(2 > 3) /\ ~(1 > 3)
        /\ n > 3 \/ n = 3 \/ n = 2 \/ n = 1
    BY DEF FromOne
  <2>2. g[4][k] = "" /\ g[3][k] = "\n" /\ g[3][k + 1] = "\n"
    BY <1>1, <2>1, Zenon
  <2> HIDE DEF g
  <2>3. EchoText(given, g, n, k, Formatted(EchoFormat, given, g, n, k))
    BY EchoStep, Zenon
  <2>8. /\ n > 3 => Formatted(EchoFormat, given, g, n, k) = ""
        /\ n = 3 => Formatted(EchoFormat, given, g, n, k) = "\n" \o g[4][k]
        /\ n = 2 => Formatted(EchoFormat, given, g, n, k) = "s" \o g[3][k]
        /\ n = 1 => Formatted(EchoFormat, given, g, n, k) = given[k] \o g[3][k + 1]
    BY <2>3, Zenon DEF EchoText
  <2>4. CASE n > 3
    BY <2>8, <2>4, Zenon
  <2>5. CASE n = 3
    BY <1>0, <2>1, <2>2, <2>8, <2>5, Zenon
  <2>6. CASE n = 2
    <3>1. 2 # 3
      OBVIOUS
    <3>. QED
      BY <2>1, <2>2, <2>8, <2>6, <3>1, Zenon
  <2>7. CASE n = 1
    <3>1. 1 # 3 /\ 1 # 2
      OBVIOUS
    <3>. QED
      BY <2>1, <2>2, <2>8, <2>7, <3>1, Zenon
  <2>. QED
    BY <2>1, <2>4, <2>5, <2>6, <2>7
<1>3. \E f : Writes(EchoFormat, given, f)
  <2>1. g = [n \in FromOne |-> [k \in FromOne |-> Formatted(EchoFormat, given, g, n, k)]]
    <3> HIDE DEF h
    <3>. QED
      BY <1>2
  <2> HIDE DEF g
  <2>. QED
    BY <2>1 DEF Writes
<1>4. ASSUME NEW f, Writes(EchoFormat, given, f) PROVE f[1][1] = a \o "\n"
  <2>1. 1 \in FromOne /\ 2 \in FromOne /\ 3 \in FromOne /\ 4 \in FromOne /\ 4 > 3 /\ 1 + 1 = 2
    BY DEF FromOne
  <2>2. f[1][1] = given[1] \o f[3][2]
    <3>1. EchoText(given, f, 1, 1, f[1][1])
      BY <1>4, <2>1, EchoSteps, Zenon
    <3>. QED
      BY <2>1, <3>1, Zenon DEF EchoText
  <2>3. f[3][2] = "\n" \o f[4][2]
    <3>1. EchoText(given, f, 3, 2, f[3][2])
      BY <1>4, <2>1, EchoSteps, Zenon
    <3>. QED
      BY <3>1, Zenon DEF EchoText
  <2>4. f[4][2] = ""
    <3>1. EchoText(given, f, 4, 2, f[4][2])
      BY <1>4, <2>1, EchoSteps, Zenon
    <3>. QED
      BY <2>1, <3>1, Zenon DEF EchoText
  <2>. QED
    BY <1>0, <2>2, <2>3, <2>4, Zenon
<1>5. kvsnprintf(EchoFormat, given) = a \o "\n"
  BY <1>3, <1>4, WritesAs, Zenon
<1>. QED
  BY <1>5 DEF given

LEMMA EndStep ==
  ASSUME NEW given, NEW g, NEW n \in FromOne, NEW k \in FromOne
  PROVE  /\ n > 1 => Formatted("\n", given, g, n, k) = ""
         /\ n = 1 => Formatted("\n", given, g, n, k) = "\n" \o g[2][k]
<1>1. Len("\n") = 1 /\ IsText("\n")
  BY StringsAssumption
<1>2. n > 1 => Formatted("\n", given, g, n, k) = ""
  BY <1>1 DEF Formatted
<1>3. ASSUME n = 1 PROVE Formatted("\n", given, g, n, k) = "\n" \o g[2][k]
  <2>1. ~(n > Len("\n")) /\ n = Len("\n") /\ n + 1 = 2
    BY <1>1, <1>3
  <2>2. Char("\n", n) = "\n"
    BY <1>1, <1>3, Zenon DEF Char, IsText
  <2>. QED
    BY <1>3, <2>1, <2>2, Zenon DEF Formatted
<1>. QED
  BY <1>2, <1>3

LEMMA EndWritten == ASSUME NEW given PROVE kvsnprintf("\n", given) = "\n"
<1> DEFINE h(n, k) == IF n > 1 THEN "" ELSE "\n"
           g == [n \in FromOne |-> [k \in FromOne |-> h(n, k)]]
<1>0. "\n" \o "" = "\n"
  BY StringsAssumption
<1>1. \A n, k \in FromOne : g[n][k] = h(n, k)
  OBVIOUS
<1>2. ASSUME NEW n \in FromOne, NEW k \in FromOne PROVE Formatted("\n", given, g, n, k) = h(n, k)
  <2>1. 2 \in FromOne /\ 2 > 1 /\ ~(1 > 1) /\ (n > 1 \/ n = 1)
    BY DEF FromOne
  <2>2. g[2][k] = ""
    BY <1>1, <2>1, Zenon
  <2> HIDE DEF g
  <2>3. /\ n > 1 => Formatted("\n", given, g, n, k) = ""
        /\ n = 1 => Formatted("\n", given, g, n, k) = "\n" \o g[2][k]
    BY EndStep
  <2>. QED
    BY <1>0, <2>1, <2>2, <2>3, Zenon
<1>3. \E f : Writes("\n", given, f)
  <2>1. g = [n \in FromOne |-> [k \in FromOne |-> Formatted("\n", given, g, n, k)]]
    <3> HIDE DEF h
    <3>. QED
      BY <1>2
  <2> HIDE DEF g
  <2>. QED
    BY <2>1 DEF Writes
<1>4. ASSUME NEW f, Writes("\n", given, f) PROVE f[1][1] = "\n"
  <2>1. 1 \in FromOne /\ 2 \in FromOne /\ 2 > 1
    BY DEF FromOne
  <2>2. f[1][1] = "\n" \o f[2][1]
    <3>1. f[1][1] = Formatted("\n", given, f, 1, 1)
      BY <1>4, <2>1, WritesAt, Zenon
    <3>2. 1 = 1 => Formatted("\n", given, f, 1, 1) = "\n" \o f[2][1]
      BY <2>1, EndStep, Zenon
    <3>. QED
      BY <3>1, <3>2, Zenon
  <2>3. f[2][1] = ""
    <3>1. f[2][1] = Formatted("\n", given, f, 2, 1)
      BY <1>4, <2>1, WritesAt, Zenon
    <3>2. 2 > 1 => Formatted("\n", given, f, 2, 1) = ""
      BY <2>1, EndStep, Zenon
    <3>. QED
      BY <2>1, <3>1, <3>2, Zenon
  <2>. QED
    BY <1>0, <2>2, <2>3, Zenon
<1>. QED
  BY <1>3, <1>4, WritesAs, Zenon

-----------------------------------------------------------------------------
(* The number that digits stand for.                                        *)

\* A set of naturals that has 0, and with each number below l the next, has them all
\* up to l.
LEMMA UpTheNaturals ==
  ASSUME NEW S, NEW l \in Nat, 0 \in S, \A m \in Nat : m \in S /\ m < l => m + 1 \in S
  PROVE  \A m \in 0..l : m \in S
<1> DEFINE T == {m \in Nat : m <= l /\ m \notin S}
<1>1. ASSUME T # {} PROVE FALSE
  <2>1. PICK x \in T : \A y \in T : x <= y
    <3>1. T \in SUBSET Nat
      OBVIOUS
    <3> HIDE DEF T
    <3>. QED
      BY <1>1, <3>1, Least
  <2>2. x \in Nat /\ x <= l /\ x \notin S
    BY <2>1
  <2>3. x # 0
    BY <2>2
  <2>4. x - 1 \in Nat /\ ~(x <= x - 1) /\ x - 1 < l /\ (x - 1) + 1 = x
    BY <2>2, <2>3
  <2>5. x - 1 \in S
    BY <2>1, <2>4
  <2>. QED
    BY <2>2, <2>4, <2>5
<1>. QED
  BY <1>1

SumsUp(f, d, m) == \A n \in 0..m : f[n] = IF n = 0 THEN 0 ELSE 10 * f[n - 1] + d[n]

LEMMA SumExists ==
  ASSUME NEW l \in Nat, NEW d \in [1..l -> Nat]
  PROVE  \E f \in [0..l -> Nat] : SumsUp(f, d, l)
<1> DEFINE S == {m \in Nat : m <= l => \E f \in [0..m -> Nat] : SumsUp(f, d, m)}
<1>1. 0 \in S
  <2> DEFINE f == [n \in 0..0 |-> 0]
  <2>1. f \in [0..0 -> Nat] /\ \A n \in 0..0 : n = 0 /\ f[n] = 0
    OBVIOUS
  <2> HIDE DEF f
  <2>. QED
    BY <2>1 DEF SumsUp
<1>2. ASSUME NEW m \in Nat, m \in S, m < l PROVE m + 1 \in S
  <2>1. PICK f \in [0..m -> Nat] : SumsUp(f, d, m)
    BY <1>2
  <2> DEFINE g == [n \in 0..(m + 1) |-> IF n = m + 1 THEN 10 * f[m] + d[m + 1] ELSE f[n]]
  <2>2. f[m] \in Nat /\ d[m + 1] \in Nat
    BY <1>2, <2>1
  <2>3. g \in [0..(m + 1) -> Nat]
    <3>1. \A n \in 0..(m + 1) : n # m + 1 => n \in 0..m
      BY <1>2
    <3>. QED
      BY <2>1, <2>2, <3>1
  <2>4. g[m + 1] = 10 * f[m] + d[m + 1] /\ \A n \in 0..m : g[n] = f[n]
    BY <1>2
  <2> HIDE DEF g
  <2>5. ASSUME NEW n \in 0..(m + 1) PROVE g[n] = IF n = 0 THEN 0 ELSE 10 * g[n - 1] + d[n]
    <3>1. CASE n = m + 1
      <4>1. n # 0 /\ n - 1 = m /\ m \in 0..m
        BY <1>2, <3>1
      <4>. QED
        BY <2>4, <3>1, <4>1
    <3>2. CASE n # m + 1
      <4>1. n \in 0..m /\ (n # 0 => n - 1 \in 0..m)
        BY <1>2, <3>2
      <4>2. f[n] = IF n = 0 THEN 0 ELSE 10 * f[n - 1] + d[n]
        BY <2>1, <4>1 DEF SumsUp
      <4>3. g[n] = f[n] /\ (n # 0 => g[n - 1] = f[n - 1])
        BY <2>4, <4>1
      <4>. QED
        BY <4>2, <4>3
    <3>. QED
      BY <3>1, <3>2
  <2>6. SumsUp(g, d, m + 1)
    BY <2>5 DEF SumsUp
  <2>7. \E h \in [0..(m + 1) -> Nat] : SumsUp(h, d, m + 1)
    BY <2>3, <2>6
  <2>8. m + 1 \in Nat
    OBVIOUS
  <2>. QED
    BY <2>7, <2>8, Zenon
<1> HIDE DEF S
<1>3. \A m \in 0..l : m \in S
  BY <1>1, <1>2, UpTheNaturals
<1>4. l \in S
  BY <1>3
<1>. QED
  BY <1>4 DEF S

LEMMA SumType ==
  ASSUME NEW l \in Nat, NEW d \in [1..l -> Nat], NEW f, SumsUp(f, d, l)
  PROVE  f[l] \in Nat
<1> DEFINE S == {m \in Nat : f[m] \in Nat}
<1>1. 0 \in S
  BY DEF SumsUp
<1>2. ASSUME NEW m \in Nat, m \in S, m < l PROVE m + 1 \in S
  <2>1. m + 1 \in 0..l /\ m + 1 # 0 /\ (m + 1) - 1 = m /\ d[m + 1] \in Nat
    BY <1>2
  <2>2. f[m + 1] = 10 * f[m] + d[m + 1]
    BY <2>1 DEF SumsUp
  <2>. QED
    BY <1>2, <2>1, <2>2
<1> HIDE DEF S
<1>3. \A m \in 0..l : m \in S
  BY <1>1, <1>2, UpTheNaturals
<1>. QED
  BY <1>3 DEF S

LEMMA DigitType == ASSUME NEW c, IsDigit(c) PROVE DigitValue(c) \in 0..9
<1> DEFINE ten == SubSeq(DIGITS, 1, 10)
<1>1. IsText(DIGITS) /\ Len(DIGITS) = 36
  BY StringsAssumption
<1>2. IsPart(DIGITS, 1, 10)
  BY <1>1 DEF IsPart
<1>3. Len(ten) = 10 /\ \A x, y : IsPart(ten, x, y) => SamePart(DIGITS, 1, 10, x, y)
  <2>1. Len(ten) = 10 - 1 + 1
    BY <1>1, <1>2, PartOf
  <2>2. 10 - 1 + 1 = 10
    OBVIOUS
  <2>. QED
    BY <1>1, <1>2, <2>1, <2>2, PartOf
<1> HIDE DEF ten
<1>4. PICK n \in 1..10 : Char(ten, n) = c
  BY <1>3 DEF IsDigit, Chars, ten
<1>5. IsPart(ten, n, n)
  BY <1>3 DEF IsPart
<1>6. SubSeq(ten, n, n) = SubSeq(DIGITS, 1 + n - 1, 1 + n - 1)
  BY <1>3, <1>5 DEF SamePart, ten
<1>7. n - 1 \in 0..9 /\ 1 + n - 1 = (n - 1) + 1
  OBVIOUS
<1>8. Char(DIGITS, (n - 1) + 1) = c
  BY <1>4, <1>6, <1>7 DEF Char
<1>. QED
  BY <1>7, <1>8 DEF DigitValue

LEMMA ValueType ==
  ASSUME NEW s, IsText(s), \A k \in 1..Length(s) : IsDigit(Char(s, k))
  PROVE  Value(s) \in Nat
<1> DEFINE l == Length(s)
           d == [k \in 1..l |-> DigitValue(Char(s, k))]
           Is(f) == f = [n \in 0..l |-> IF n = 0 THEN 0 ELSE 10 * f[n - 1] + DigitValue(Char(s, n))]
<1>1. l \in Nat
  BY TextLength DEF Length
<1>2. d \in [1..l -> Nat]
  <2>1. \A k \in 1..l : DigitValue(Char(s, k)) \in 0..9
    BY DigitType
  <2>2. 0..9 \subseteq Nat
    OBVIOUS
  <2>. QED
    BY <2>1, <2>2
<1>3. Value(s) = (CHOOSE f : Is(f))[l]
  BY DEF Value, Length
<1> HIDE DEF l
<1>4. \A n \in 0..l : n # 0 => d[n] = DigitValue(Char(s, n))
  OBVIOUS
<1> HIDE DEF d
<1>5. PICK f \in [0..l -> Nat] : SumsUp(f, d, l)
  BY <1>1, <1>2, SumExists
<1>6. Is(f)
  <2>1. \A n \in 0..l : f[n] = IF n = 0 THEN 0 ELSE 10 * f[n - 1] + DigitValue(Char(s, n))
    BY <1>4, <1>5 DEF SumsUp
  <2> DEFINE r == [n \in 0..l |-> IF n = 0 THEN 0 ELSE 10 * f[n - 1] + DigitValue(Char(s, n))]
  <2>2. \A n \in 0..l : r[n] = IF n = 0 THEN 0 ELSE 10 * f[n - 1] + DigitValue(Char(s, n))
    OBVIOUS
  <2>3. DOMAIN r = 0..l /\ r = [n \in 0..l |-> r[n]] /\ f = [n \in 0..l |-> f[n]]
    OBVIOUS
  <2>4. \A n \in 0..l : f[n] = r[n]
    BY <2>1, <2>2
  <2> HIDE DEF r
  <2>5. f = r
    BY <2>3, <2>4
  <2>. QED
    BY <2>5 DEF r
<1>7. ASSUME NEW g, Is(g) PROVE g[l] \in Nat
  <2> DEFINE r == [n \in 0..l |-> IF n = 0 THEN 0 ELSE 10 * g[n - 1] + DigitValue(Char(s, n))]
  <2>1. \A n \in 0..l : r[n] = IF n = 0 THEN 0 ELSE 10 * g[n - 1] + DigitValue(Char(s, n))
    OBVIOUS
  <2>2. g = r
    BY <1>7
  <2> HIDE DEF r
  <2>3. SumsUp(g, d, l)
    BY <1>4, <2>1, <2>2 DEF SumsUp
  <2>. QED
    BY <1>1, <1>2, <2>3, SumType
<1> HIDE DEF Is
<1>8. Is(CHOOSE g : Is(g))
  BY <1>6
<1>. QED
  BY <1>3, <1>7, <1>8, Zenon

-----------------------------------------------------------------------------
(* The colour an argument stands for.                                       *)

LEMMA NoText == ASSUME NEW s, IsText(s), Length(s) = 0 PROVE s = ""
<1>1. Len(s) = 0
  BY DEF Length
<1>2. IsPart(s, 1, 0)
  BY <1>1 DEF IsPart
<1>3. SubSeq(s, 1, 0) = ""
  <2>1. 0 < 1
    OBVIOUS
  <2>. QED
    BY <1>2, <2>1, PartOf
<1>4. SubSeq(s, 1, Len(s)) = s
  BY DEF IsText
<1>. QED
  BY <1>1, <1>3, <1>4

LEMMA NumberIs ==
  ASSUME NEW s, IsText(s), IsNumber(s)
  PROVE  /\ Value(s) \in Nat
         /\ atoi(s) = IF Value(s) <= INT_MAX THEN {Value(s)} ELSE (-INT_MAX - 1)..INT_MAX
<1> DEFINE l == Length(s)
<1>1. l \in Nat /\ l # 0
  <2>1. s # ""
    BY DEF IsNumber
  <2>. QED
    BY <2>1, NoText, TextLength DEF Length
<1>2. \A k \in 1..l : IsDigit(Char(s, k))
  BY DEF IsNumber, Chars, Length
<1>3. Value(s) \in Nat
  BY <1>2, ValueType
<1>4. IsDigit(Char(s, 1))
  BY <1>1, <1>2
<1>5. ~IsDigit(" ") /\ ~IsDigit("-") /\ ~IsDigit("+")
  BY StringsAssumption, Zenon
<1>6. SkipBlanks(s) = s
  <2>1. ~IsBlank(Char(s, 1))
    BY <1>4, <1>5, Zenon DEF IsBlank
  <2>. QED
    BY <2>1, SkipsNone
<1>7. Char(s, 1) \notin {"-", "+"}
  BY <1>4, <1>5, Zenon
<1>8. Span(s, IsDigit) = l
  <2>1. Reaches(Span(s, IsDigit), l, DigitAt(s))
    BY Spans
  <2> DEFINE n == Span(s, IsDigit)
  <2> HIDE DEF n
  <2>2. n \in Nat /\ n <= l /\ (n < l => n + 1 \notin DigitAt(s))
    BY <2>1 DEF Reaches, n
  <2>3. n < l => n + 1 \in DigitAt(s)
    BY <1>1, <1>2, <2>2 DEF DigitAt
  <2>4. n = l
    BY <1>1, <2>2, <2>3
  <2>. QED
    BY <2>4 DEF n
<1>9. SubSeq(s, 1, l) = s
  BY DEF IsText, Length
<1> HIDE DEF l
<1>10. atoi(s) = IF Value(s) <= INT_MAX THEN {1 * Value(s)} ELSE (-INT_MAX - 1)..INT_MAX
  BY <1>6, <1>7, <1>8, <1>9, Zenon DEF atoi
<1>11. 1 * Value(s) = Value(s)
  BY <1>3
<1>. QED
  BY <1>3, <1>10, <1>11, Zenon

LEMMA Fifteen == Cardinality(1..15) # 1 /\ ~Offered(-1)
<1>1. Cardinality(1..15) = IF 1 > 15 THEN 0 ELSE 15 - 1 + 1
  <2>1. 1 \in Int /\ 15 \in Int
    OBVIOUS
  <2>. QED
    BY <2>1, FS_Interval, Zenon
<1>2. Cardinality(1..15) # 1
  BY <1>1
<1>. QED
  BY <1>2 DEF Offered

LEMMA ZeroMissing == ~Offered(0)
BY DEF Offered

LEMMA TooLong == ASSUME NEW v \in Nat PROVE v > INT_MAX <=> ~(v <= INT_MAX)
BY TextAssumption

\* What the code may choose is a colour that was meant, and the code refuses nothing
\* that means one.
LEMMA ChosenIs ==
  ASSUME IsText(args), args # ""
  PROVE  /\ \A n \in Chosen : Offered(n) => n \in Colours(args)
         /\ (\E n \in Chosen : ~Offered(n)) => Colours(args) = {} \/ Cardinality(Colours(args)) # 1
<1>1. CASE Named # {}
  <2>1. Chosen = Named
    BY <1>1 DEF Chosen
  <2>. QED
    BY <2>1 DEF Named, Offered, Colours
<1>2. CASE Named = {} /\ IsNumber(args)
  <2>1. Chosen = atoi(args)
    BY <1>2, Zenon DEF Chosen, IsNumber
  <2>2. Value(args) \in Nat /\ atoi(args) = IF Value(args) <= INT_MAX THEN {Value(args)} ELSE (-INT_MAX - 1)..INT_MAX
    BY <1>2, NumberIs, Zenon
  <2>3. Colours(args) = {n \in 1..15 : Value(args) = n \/ Value(args) > INT_MAX}
    BY <1>2 DEF Colours, Named
  <2>4. Value(args) > INT_MAX <=> ~(Value(args) <= INT_MAX)
    BY <2>2, TooLong, Zenon
  <2>5. CASE Value(args) <= INT_MAX
    <3>1. Chosen = {Value(args)}
      BY <2>1, <2>2, <2>5, Zenon
    <3>2. ~(Value(args) > INT_MAX)
      BY <2>4, <2>5, Zenon
    <3>3. \A n : n \in Colours(args) <=> n \in 1..15 /\ n = Value(args)
      BY <2>3, <3>2, Zenon
    <3>4. \A n \in Chosen : Offered(n) => n \in Colours(args)
      BY <3>1, <3>3, Zenon DEF Offered
    <3>5. (\E n \in Chosen : ~Offered(n)) => Colours(args) = {}
      BY <3>1, <3>3, Zenon DEF Offered
    <3>. QED
      BY <3>4, <3>5, Zenon
  <2>6. CASE ~(Value(args) <= INT_MAX)
    <3>1. Value(args) > INT_MAX
      BY <2>4, <2>6, Zenon
    <3>2. Colours(args) = 1..15
      BY <2>3, <3>1, Zenon
    <3>. QED
      BY <3>2, Fifteen, Zenon DEF Offered
  <2>. QED
    BY <2>5, <2>6, Zenon
<1>3. CASE Named = {} /\ ~IsNumber(args)
  <2>1. Chosen = {-1}
    BY <1>3, Zenon DEF Chosen, IsNumber
  <2>2. Colours(args) = {}
    BY <1>3 DEF Colours, Named
  <2>. QED
    BY <2>1, <2>2, Fifteen, Zenon
<1>. QED
  BY <1>1, <1>2, <1>3

LEMMA NoColour == Colours("") = {}
<1>1. ASSUME NEW n \in 1..15 PROVE NAMES[n] # ""
  <2>1. n = 1 \/ n = 2 \/ n = 3 \/ n = 4 \/ n = 5 \/ n = 6 \/ n = 7 \/ n = 8 \/ n = 9 \/ n = 10
        \/ n = 11 \/ n = 12 \/ n = 13 \/ n = 14 \/ n = 15
    OBVIOUS
  <2>2. /\ NAMES[1] # "" /\ NAMES[2] # "" /\ NAMES[3] # "" /\ NAMES[4] # "" /\ NAMES[5] # ""
        /\ NAMES[6] # "" /\ NAMES[7] # "" /\ NAMES[8] # "" /\ NAMES[9] # "" /\ NAMES[10] # ""
        /\ NAMES[11] # "" /\ NAMES[12] # "" /\ NAMES[13] # "" /\ NAMES[14] # "" /\ NAMES[15] # ""
    BY DEF NAMES
  <2>. QED
    BY <2>1, <2>2, Zenon
<1>. QED
  BY <1>1 DEF Colours, IsNumber

-----------------------------------------------------------------------------
(* The lines that are entered, and what they do.                            *)

\* The line that is executed was one that could be entered.
LineInv ==
  /\ color \in 1..15
  /\ doing = "execute" => \E t \in Tables, c \in 1..15 : line \in Lines(t, c)

LEMMA LineInit == CommandInit => LineInv
<1>1. TERMINAL_DEFAULT_FG \in 1..15 /\ "prompt" # "execute"
  BY DEF TERMINAL_DEFAULT_FG
<1>. QED
  BY <1>1, Zenon DEF CommandInit, LineInv

LEMMA LineStep == LineInv /\ table \in Tables /\ [CommandNext]_<<shutdownVars, commandVars>> => LineInv'
<1> SUFFICES ASSUME LineInv, table \in Tables, [CommandNext]_<<shutdownVars, commandVars>>
             PROVE  LineInv'
  OBVIOUS
<1>1. CASE UNCHANGED <<shutdownVars, commandVars>>
  BY <1>1 DEF LineInv, commandVars
<1>2. ASSUME EnterLine PROVE LineInv'
  <2>1. color \in 1..15 /\ color' = color /\ line' \in Lines(table, color)
    BY <1>2 DEF EnterLine, LineInv
  <2>. QED
    BY <2>1 DEF LineInv
<1>3. ASSUME color' = color, doing' # "execute" PROVE LineInv'
  BY <1>3 DEF LineInv
<1>4. CASE EnterBlank \/ RefuseArguments \/ UnknownCommand
  BY <1>3, <1>4 DEF EnterBlank, RefuseArguments, UnknownCommand, Does, ComesBack
<1>5. CASE cmd_help \/ cmd_clear \/ cmd_echo \/ cmd_ver \/ cmd_meminfo
  BY <1>3, <1>5 DEF cmd_help, cmd_clear, cmd_echo, cmd_ver, cmd_meminfo, Does, ComesBack
<1>6. CASE cmd_uptime
  BY <1>3, <1>6 DEF cmd_uptime
<1>7. CASE ColorUsage \/ ColorInvisible \/ ColorInvalid
  BY <1>3, <1>7 DEF ColorUsage, ColorInvisible, ColorInvalid, Does, ComesBack
<1>8. CASE cmd_color
  <2>1. color' \in 1..15 /\ doing' = "prompt"
    BY <1>8 DEF cmd_color, ComesBack, Offered
  <2>. QED
    BY <2>1 DEF LineInv
<1>9. CASE BeginDatetime \/ cmd_reboot \/ cmd_halt \/ cmd_shutdown
  BY <1>3, <1>9 DEF BeginDatetime, cmd_reboot, cmd_halt, cmd_shutdown, Stops
<1>10. CASE Second \/ read_cmos_reg \/ ShowDatetime
  BY <1>3, <1>10 DEF Second, read_cmos_reg, ShowDatetime
<1>11. CASE acpi_shutdown \/ Stopped
  BY <1>11 DEF acpi_shutdown, Stopped, commandVars, LineInv
<1>. QED
  BY <1>1, <1>2, <1>4, <1>5, <1>6, <1>7, <1>8, <1>9, <1>10, <1>11 DEF CommandNext, shell_execute

\* Whatever the colour and the table, the line that is executed is one of those that
\* may be entered with them, and the colour is one that can be seen.
THEOREM LineInvariant == CommandSpec => []LineInv
<1>1. ShutdownIInv => table \in Tables
  BY DEF ShutdownIInv
<1>2. CommandSpec => []ShutdownIInv
  BY ShutsDown, ShutdownInvariant, PTL
<1>. QED
  BY <1>1, <1>2, LineInit, LineStep, PTL DEF CommandSpec

\* It is short enough for kprintf.
ShortText(s) == IsText(s) /\ \A n \in 1..(Len(s) + 1) : Len(From(s, n) \o "\n") < PRINT_BUF_SIZE

LEMMA LineFits == LineInv /\ doing = "execute" => ShortText(line)
<1>1. ASSUME NEW t \in Tables, NEW c \in 1..15, NEW s \in Lines(t, c) PROVE ShortText(s)
  <2>1. s \in UNION {Lines(u, d) : u \in Tables, d \in 1..15}
    OBVIOUS
  <2>. QED
    BY <2>1, LinesAssumption DEF ShortText
<1>. QED
  BY <1>1 DEF LineInv

\* The text from the second word on, and the line's end, are printed whole.
LEMMA EchoPrints ==
  ASSUME ShortText(line)
  PROVE  (IF args # "" THEN kprintf("%s\n", <<args>>) ELSE kprintf("\n", <<>>)) = args \o "\n"
<1>1. PICK n \in Nat : 1 <= n /\ n <= Length(line) + 1 /\ args = From(line, n)
  BY ParsedIsSaid DEF ShortText, args
<1>2. Len(args \o "\n") < PRINT_BUF_SIZE
  <2>1. n \in 1..(Len(line) + 1)
    <3>1. Len(line) \in Nat
      BY TextLength DEF ShortText
    <3>. QED
      BY <1>1, <3>1 DEF Length
  <2>. QED
    BY <1>1, <2>1 DEF ShortText
<1>3. ASSUME args # "" PROVE kprintf("%s\n", <<args>>) = args \o "\n"
  <2>1. kvsnprintf("%s\n", <<args>>) = args \o "\n"
    BY EchoWrites DEF EchoFormat
  <2>. QED
    BY <1>2, <2>1, Zenon DEF kprintf, Printed
<1>4. ASSUME args = "" PROVE kprintf("\n", <<>>) = args \o "\n"
  <2>1. args \o "\n" = "\n"
    BY <1>4, StringsAssumption, Zenon
  <2>2. kvsnprintf("\n", <<>>) = "\n"
    BY EndWritten, Zenon
  <2>. QED
    BY <1>2, <2>1, <2>2, Zenon DEF kprintf, Printed
<1>. QED
  BY <1>3, <1>4, Zenon

\* What a step makes of the line, in the words that shell_execute finds.
AsSaid ==
  /\ doing' # "prompt" => cmd \in {"datetime", "reboot", "halt", "shutdown"} /\ args = ""
  /\ cmd = "echo" => printed' = <<args \o "\n">>
  /\ IF cmd = "color" /\ Colours(args) # {}
     THEN color' \in Colours(args) \cup (IF Cardinality(Colours(args)) = 1 THEN {} ELSE {color})
     ELSE color' = color

LEMMA BackAtPrompt == Does => doing' = "prompt" /\ color' = color
BY DEF Does, ComesBack

\* A command that is neither echo nor color and comes back,
LEMMA OtherCommands == cmd # "echo" /\ cmd # "color" /\ doing' = "prompt" /\ color' = color => AsSaid
BY Zenon DEF AsSaid

\* and one that does not.
LEMMA LeavesMeant ==
  ASSUME NEW name \in {"datetime", "reboot", "halt", "shutdown"}, Runs(name), color' = color
  PROVE  AsSaid
<1>1. cmd = name /\ args = "" /\ cmd # "echo" /\ cmd # "color"
  BY Zenon DEF Runs
<1>. QED
  BY <1>1, Zenon DEF AsSaid

LEMMA ExecutesMeant == ASSUME ShortText(line), shell_execute PROVE AsSaid
<1>1. CASE EnterBlank
  <2>1. Does /\ cmd = ""
    BY <1>1, Zenon DEF EnterBlank
  <2>. QED
    BY <2>1, BackAtPrompt, OtherCommands, Zenon
<1>2. CASE RefuseArguments
  <2>1. Does /\ cmd \in Plain
    BY <1>2, Zenon DEF RefuseArguments
  <2>2. cmd # "echo" /\ cmd # "color"
    BY <2>1, Zenon DEF Plain
  <2>. QED
    BY <2>1, <2>2, BackAtPrompt, OtherCommands, Zenon
<1>3. CASE UnknownCommand
  <2>1. Does /\ cmd \notin Plain \cup WithArguments \cup {""}
    BY <1>3, Zenon DEF UnknownCommand
  <2>2. cmd # "echo" /\ cmd # "color"
    BY <2>1, Zenon DEF WithArguments
  <2>. QED
    BY <2>1, <2>2, BackAtPrompt, OtherCommands, Zenon
<1>4. CASE cmd_help \/ cmd_clear \/ cmd_ver \/ cmd_meminfo
  <2>1. Does /\ \E name \in {"help", "clear", "ver", "meminfo"} : cmd = name
    BY <1>4, Zenon DEF cmd_help, cmd_clear, cmd_ver, cmd_meminfo, Runs
  <2>2. cmd # "echo" /\ cmd # "color"
    BY <2>1, Zenon
  <2>. QED
    BY <2>1, <2>2, BackAtPrompt, OtherCommands, Zenon
<1>5. CASE cmd_echo
  <2>1. Does /\ cmd = "echo"
    BY <1>5, Zenon DEF cmd_echo
  <2>2. printed' = <<args \o "\n">>
    <3>1. printed' = <<IF args # "" THEN kprintf("%s\n", <<args>>) ELSE kprintf("\n", <<>>)>>
      BY <1>5, Zenon DEF cmd_echo, Prints
    <3>. QED
      BY <3>1, EchoPrints, Zenon
  <2>. QED
    BY <2>1, <2>2, Zenon DEF Does, ComesBack, AsSaid
<1>6. CASE cmd_uptime
  <2>1. cmd = "uptime" /\ color' = color /\ doing' = "prompt"
    <3>1. Runs("uptime") /\ doing' = "prompt" /\ color' = color
      BY <1>6 DEF cmd_uptime
    <3>. QED
      BY <3>1, Zenon DEF Runs
  <2>. QED
    BY <2>1, Zenon DEF AsSaid
<1>7. CASE ColorUsage
  <2>1. Does /\ cmd = "color" /\ args = ""
    BY <1>7, Zenon DEF ColorUsage
  <2>. QED
    BY <2>1, NoColour, Zenon DEF Does, ComesBack, AsSaid
<1>8. IsText(args)
  <2>1. PICK n \in Nat : 1 <= n /\ n <= Length(line) + 1 /\ args = From(line, n)
    BY ParsedIsSaid DEF ShortText, args
  <2>. QED
    BY <2>1, RestFacts DEF ShortText
<1>9. CASE ColorInvisible \/ ColorInvalid
  <2>1. Does /\ cmd = "color" /\ args # ""
    BY <1>9, Zenon DEF ColorInvisible, ColorInvalid
  <2>2. \E n \in Chosen : ~Offered(n)
    <3>1. ~Offered(0)
      BY ZeroMissing, Zenon
    <3>. QED
      BY <1>9, <3>1, Zenon DEF ColorInvisible, ColorInvalid
  <2>3. Colours(args) = {} \/ Cardinality(Colours(args)) # 1
    BY <1>8, <2>1, <2>2, ChosenIs, Zenon
  <2>4. color' = color /\ doing' = "prompt"
    BY <2>1, Zenon DEF Does, ComesBack
  <2>. QED
    BY <2>1, <2>3, <2>4, Zenon DEF AsSaid
<1>10. CASE cmd_color
  <2>1. cmd = "color" /\ args # "" /\ doing' = "prompt" /\ color' \in Chosen /\ Offered(color')
    BY <1>10, Zenon DEF cmd_color, ComesBack
  <2>2. color' \in Colours(args)
    BY <1>8, <2>1, ChosenIs, Zenon
  <2>. QED
    BY <2>1, <2>2, Zenon DEF AsSaid
<1>11. CASE BeginDatetime \/ cmd_reboot \/ cmd_halt \/ cmd_shutdown
  <2>1. color' = color /\ (Runs("datetime") \/ Runs("reboot") \/ Runs("halt") \/ Runs("shutdown"))
    BY <1>11, Zenon DEF BeginDatetime, cmd_reboot, cmd_halt, cmd_shutdown, Stops
  <2>. QED
    BY <2>1, LeavesMeant, Zenon
<1>. QED
  BY <1>1, <1>2, <1>3, <1>4, <1>5, <1>6, <1>7, <1>9, <1>10, <1>11 DEF shell_execute

\* The action of CommandMeant.
Says ==
  doing = "execute" =>
    LET said == Said(line)
    IN /\ doing' # "prompt" =>
            said.name \in {"datetime", "reboot", "halt", "shutdown"} /\ said.argument = ""
       /\ said.name = "echo" => printed' = <<said.argument \o "\n">>
       /\ IF said.name = "color" /\ Colours(said.argument) # {}
          THEN color' \in Colours(said.argument) \cup (IF Cardinality(Colours(said.argument)) = 1 THEN {} ELSE {color})
          ELSE color' = color

LEMMA StepSays == LineInv /\ [CommandNext]_<<shutdownVars, commandVars>> => [Says]_<<shutdownVars, commandVars>>
<1> SUFFICES ASSUME LineInv, CommandNext, doing = "execute" PROVE Says
  BY Zenon DEF Says
<1>1. ShortText(line)
  BY LineFits, Zenon
<1>2. shell_execute
  BY Zenon DEF CommandNext, EnterLine, Second, read_cmos_reg, ShowDatetime, acpi_shutdown, Stopped
<1>3. AsSaid
  BY <1>1, <1>2, ExecutesMeant, Zenon
<1>4. cmd = Said(line).name /\ args = Said(line).argument
  BY <1>1, ParsedIsSaid, Zenon DEF ShortText, cmd, args
<1>. QED
  BY <1>3, <1>4, Zenon DEF Says, AsSaid

\* Whatever lines are entered, and whatever they ask for: each does what its words
\* say (init.c, shell_execute; cmd.c).
THEOREM LinesMeant == CommandSpec => CommandMeant
<1>1. CommandSpec => [][Says]_<<shutdownVars, commandVars>>
  BY LineInvariant, StepSays, PTL DEF CommandSpec
<1>. QED
  BY <1>1, PTL DEF CommandMeant, Says

=============================================================================
