-------------------------- MODULE BootMemoryProofs --------------------------
(***************************************************************************)
(* Proofs about the memory that the boot maps, for pages, windows and      *)
(* machines of any size: what the page tables hold after each step, whose  *)
(* frames they and the pages are, and what is read through them.           *)
(*                                                                         *)
(* ScreenFits is the theorems' condition on the machine: a framebuffer     *)
(* that the kernel accepts ends below the recursive mapping.               *)
(***************************************************************************)
EXTENDS BootMemory, FiniteSetTheorems, WellFoundedInduction, TLAPS

-----------------------------------------------------------------------------
(* Addresses, pages and their places in directory and table.                *)

LEMMA Rest ==
  ASSUME NEW q \in Nat, NEW r \in Nat, NEW p \in Nat \ {0}, r < p
  PROVE  (p * q + r) \div p = q /\ (p * q + r) % p = r
OBVIOUS

LEMMA RestOf ==
  ASSUME NEW n, NEW q \in Nat, NEW r \in Nat, NEW p \in Nat \ {0}, r < p, n = p * q + r
  PROVE  n \in Nat /\ n \div p = q /\ n % p = r
<1>1. p * q \in Nat
  OBVIOUS
<1>. QED
  BY <1>1, Rest

LEMMA WholeAndRest ==
  ASSUME NEW n \in Nat, NEW p \in Nat \ {0}
  PROVE  /\ n \div p \in Nat /\ n % p \in Nat /\ n % p < p
         /\ n = p * (n \div p) + (n % p)
<1>1. n \div p \in Nat
  OBVIOUS
<1>2. n % p \in Nat /\ n % p < p
  OBVIOUS
<1>3. n = p * (n \div p) + (n % p)
  OBVIOUS
<1>. QED
  BY <1>1, <1>2, <1>3

LEMMA NType == N \in Nat \ {0} /\ N > 2 /\ N - 1 \in Nat /\ N * N \in Nat \ {0} /\ N < N * N
BY PagingAssumption

\* Dividing twice
LEMMA Twice ==
  ASSUME NEW v \in Nat
  PROVE  v \div (N * N) = (v \div N) \div N
<1> DEFINE p == v \div N
           d == p \div N
<1>1. p \in Nat /\ v % N \in Nat /\ v % N < N /\ v = N * p + (v % N)
  BY NType, WholeAndRest
<1>2. d \in Nat /\ p % N \in Nat /\ p % N < N /\ p = N * d + (p % N)
  BY <1>1, NType, WholeAndRest
<1> DEFINE s == p % N
           o == v % N
<1> HIDE DEF p, d, s, o
<1>3. v = (N * N) * d + (N * s + o)
  <2>1. v = N * p + o /\ p = N * d + s
    BY <1>1, <1>2 DEF s, o
  <2>2. d \in Nat /\ s \in Nat /\ o \in Nat /\ N \in Nat
    BY <1>1, <1>2, NType DEF s, o
  <2>3. v = N * (N * d + s) + o
    BY <2>1
  <2>. QED
    BY <2>2, <2>3
<1>4. N * s + o < N * N /\ N * s + o \in Nat
  <2>1. N * s <= N * (N - 1)
    BY <1>2, NType DEF s
  <2>. QED
    BY <2>1, <1>1, <1>2, NType DEF s, o
<1> DEFINE Q == N * N
           w == N * s + o
<1>5. Q \in Nat \ {0} /\ w \in Nat /\ w < Q /\ v = Q * d + w
  BY <1>3, <1>4, NType
<1> HIDE DEF Q, w
<1>6. v \div Q = d
  BY <1>5, <1>2, RestOf
<1>. QED
  BY <1>6 DEF d, p, Q

PageNumber == 0..(N * N - 1)

\* A page's place
LEMMA Place ==
  ASSUME NEW p \in PageNumber
  PROVE  /\ p \in Nat /\ p \div N \in Index /\ p % N \in Index /\ p = N * (p \div N) + (p % N)
<1>1. p \in Nat /\ p < N * N
  BY NType DEF PageNumber
<1>2. p \div N \in Nat /\ p % N \in Nat /\ p % N < N /\ p = N * (p \div N) + (p % N)
  BY <1>1, NType, WholeAndRest
<1>3. p \div N < N
  <2> DEFINE d == p \div N
             s == p % N
  <2>0. d \in Nat /\ s \in Nat /\ p = N * d + s
    BY <1>2
  <2> HIDE DEF d, s
  <2>1. d >= N => N * d >= N * N
    BY <2>0, NType
  <2>. QED
    BY <2>0, <2>1, <1>1, NType DEF d
<1>. QED
  BY <1>1, <1>2, <1>3, NType DEF Index

\* The page at a place
LEMMA PlaceIsPage ==
  ASSUME NEW d \in Index, NEW s \in Index
  PROVE  /\ N * d + s \in PageNumber /\ (N * d + s) \div N = d /\ (N * d + s) % N = s
<1>1. d \in Nat /\ s \in Nat /\ s < N /\ d <= N - 1
  BY NType DEF Index
<1>2. N * d <= N * (N - 1)
  BY <1>1, NType
<1>3. N * d + s \in Nat /\ N * d + s < N * N
  BY <1>1, <1>2, NType
<1>. QED
  BY <1>1, <1>3, NType, Rest DEF PageNumber

\* Addresses
LEMMA Address ==
  ASSUME NEW v \in Nat
  PROVE  /\ DirIndex(v) = (v \div N) \div N /\ TableIndex(v) = (v \div N) % N
         /\ v \div N \in Nat /\ v % N \in Index /\ v = N * (v \div N) + (v % N)
<1>1. v \div N \in Nat /\ v % N \in Nat /\ v % N < N /\ v = N * (v \div N) + (v % N)
  BY NType, WholeAndRest
<1>. QED
  BY <1>1, Twice, NType DEF DirIndex, TableIndex, Index

LEMMA PageStart ==
  ASSUME NEW p \in Nat
  PROVE  /\ p * N \in Nat /\ (p * N) \div N = p /\ (p * N) % N = 0
         /\ DirIndex(p * N) = p \div N /\ TableIndex(p * N) = p % N
<1>1. p * N \in Nat /\ p * N = N * p + 0
  BY NType
<1>2. (p * N) \div N = p /\ (p * N) % N = 0
  BY <1>1, NType, RestOf
<1>. QED
  BY <1>1, <1>2, Address

\* Two digits of an address above a directory's or a table's entries
LEMMA TwoDigits ==
  ASSUME NEW v, NEW a \in Index, NEW b \in Index, NEW c \in Index, v = N * (N * a + b) + c
  PROVE  v \in Nat /\ DirIndex(v) = a /\ TableIndex(v) = b /\ v % N = c
<1> DEFINE p == N * a + b
<1>1. a \in Nat /\ b \in Nat /\ b < N /\ c \in Nat /\ c < N
  BY NType DEF Index
<1>2. p \in Nat /\ p \div N = a /\ p % N = b
  <2>1. N * a \in Nat
    BY <1>1, NType
  <2>2. p \in Nat
    BY <1>1, <2>1
  <2>. QED
    BY <1>1, <2>2, NType, Rest, Zenon
<1>3. v = N * p + c
  OBVIOUS
<1> HIDE DEF p
<1>4. N * p + c \in Nat /\ (N * p + c) \div N = p /\ (N * p + c) % N = c
  <2>1. N * p \in Nat
    BY <1>2, NType
  <2>2. N * p + c \in Nat
    BY <1>1, <2>1
  <2>. QED
    BY <1>1, <1>2, <2>2, NType, Rest, Zenon
<1>5. v \in Nat /\ v \div N = p /\ v % N = c
  BY <1>3, <1>4, Zenon
<1>. QED
  BY <1>2, <1>5, Address

\* The recursive mapping: where the code looks for a page's entries.
LEMMA EntryOfDirectory ==
  ASSUME NEW v \in Nat, v \div N \in PageNumber
  PROVE  /\ get_pde(v) \in Nat
         /\ DirIndex(get_pde(v)) = N - 1 /\ TableIndex(get_pde(v)) = N - 1
         /\ get_pde(v) % N = DirIndex(v)
<1> DEFINE d == DirIndex(v)
           last == N - 1
<1>1. d \in Index /\ d \in Nat /\ last \in Index
  <2>1. d \in Index /\ d \in Nat
    BY Address, Place DEF Index
  <2>2. last \in Index
    BY NType DEF Index
  <2>. QED
    BY <2>1, <2>2
<1>2. get_pde(v) = N * (N * last + last) + d
  BY NType, <1>1 DEF get_pde, VirtualEnd
<1> HIDE DEF d, last
<1>3. get_pde(v) \in Nat /\ DirIndex(get_pde(v)) = last /\ TableIndex(get_pde(v)) = last /\ get_pde(v) % N = d
  BY <1>1, <1>2, TwoDigits, Zenon
<1>. QED
  BY <1>3 DEF d, last

LEMMA EntryOfTable ==
  ASSUME NEW v \in Nat, v \div N \in PageNumber
  PROVE  /\ get_pte(v) \in Nat
         /\ DirIndex(get_pte(v)) = N - 1 /\ TableIndex(get_pte(v)) = DirIndex(v)
         /\ get_pte(v) % N = TableIndex(v)
<1> DEFINE d == DirIndex(v)
           s == TableIndex(v)
<1>1. d \in Index /\ s \in Index /\ d \in Nat /\ s \in Nat /\ v \div N = N * d + s
  BY Address, Place DEF Index
<1> HIDE DEF d, s
<1>2. get_pte(v) = N * (N * (N - 1) + d) + s
  BY NType, <1>1 DEF get_pte, VirtualEnd
<1>3. N - 1 \in Index
  BY NType DEF Index
<1>4. get_pte(v) \in Nat /\ DirIndex(get_pte(v)) = N - 1 /\ TableIndex(get_pte(v)) = d /\ get_pte(v) % N = s
  BY <1>1, <1>2, <1>3, TwoDigits, Zenon
<1>. QED
  BY <1>4 DEF d, s


-----------------------------------------------------------------------------
(* The directory and its tables.                                            *)

Kernels == KERNEL_DIR..(KERNEL_DIR + LARGE - 1)
\* Directory entries under which the windows lie
Windowed == Index \ ({0, N - 1} \cup Kernels)
TablesOf(m) == {d \in Windowed : m[DIR][d].present}
TableOf(m, d) == m[m[DIR][d].frame]

\* The directory refers to itself, to the kernel's large pages, and to tables,
\* a frame for each; tables and their entries are the user's below the kernel.
MemOk(m) ==
  /\ DIR \in DOMAIN m
  /\ \A f \in DOMAIN m : m[f] \in [Index -> Entry]
  /\ m[DIR][N - 1] = Small(DIR, FALSE) /\ m[DIR][0] = Absent
  /\ \A d \in Kernels : m[DIR][d] = Large((d - KERNEL_DIR) * N)
  /\ \A d \in Windowed : ~m[DIR][d].large
  /\ \A d \in TablesOf(m) :
       /\ (m[DIR][d].user <=> d < KERNEL_DIR) /\ m[DIR][d].frame \in DOMAIN m \ {DIR}
       /\ \A s \in Index : TableOf(m, d)[s].present => (TableOf(m, d)[s].user <=> d < KERNEL_DIR)
  /\ \A d, e \in TablesOf(m) : m[DIR][d].frame = m[DIR][e].frame => d = e

LEMMA Indices ==
  /\ Kernels \subseteq Index /\ 0 \in Index /\ N - 1 \in Index
  /\ 0 \notin Kernels /\ N - 1 \notin Kernels
  /\ \A d \in Index : d \in Windowed \/ d = 0 \/ d = N - 1 \/ d \in Kernels
  /\ 0 # N - 1
<1>1. N \in Nat /\ N > 2 /\ KERNEL_DIR \in Nat /\ KERNEL_DIR > 0 /\ LARGE \in Nat /\ KERNEL_DIR + LARGE < N
  BY PagingAssumption DEF Index
<1>. QED
  BY <1>1 DEF Kernels, Index, Windowed

LEMMA Walk ==
  ASSUME NEW m, DIR \in DOMAIN m, NEW v \in Nat
  PROVE  /\ Pde(m, v) = m[DIR][DirIndex(v)]
         /\ m[DIR][DirIndex(v)].frame \in DOMAIN m => Pte(m, v) = TableOf(m, DirIndex(v))[TableIndex(v)]
BY DEF Pde, Pte, Content, TableOf

LEMMA ThroughDirectory ==
  ASSUME NEW m, DIR \in DOMAIN m, m[DIR][N - 1] = Small(DIR, FALSE),
         NEW v \in Nat, v \div N \in PageNumber
  PROVE  /\ FrameAt(m, get_pde(v)) = DIR /\ Load(m, get_pde(v)) = m[DIR][DirIndex(v)]
         /\ FrameAt(m, get_pte(v)) = m[DIR][DirIndex(v)].frame
<1>1. Pde(m, get_pde(v)) = Small(DIR, FALSE) /\ Pde(m, get_pte(v)) = Small(DIR, FALSE)
  <2>1. /\ get_pde(v) \in Nat /\ DirIndex(get_pde(v)) = N - 1
        /\ get_pte(v) \in Nat /\ DirIndex(get_pte(v)) = N - 1
    BY EntryOfDirectory, EntryOfTable
  <2>. QED
    BY <2>1 DEF Pde, Content
<1>2. Small(DIR, FALSE).frame = DIR /\ ~Small(DIR, FALSE).large
  BY DEF Small
<1>3. Pte(m, get_pde(v)) = m[DIR][N - 1] /\ Pte(m, get_pte(v)) = m[DIR][DirIndex(v)]
  BY <1>1, <1>2, EntryOfDirectory, EntryOfTable DEF Pte, Content
<1>4. FrameAt(m, get_pde(v)) = DIR /\ FrameAt(m, get_pte(v)) = m[DIR][DirIndex(v)].frame
  BY <1>1, <1>2, <1>3 DEF FrameAt
<1>5. Load(m, get_pde(v)) = m[DIR][DirIndex(v)]
  BY <1>4, EntryOfDirectory DEF Load, Content
<1>. QED
  BY <1>4, <1>5

\* What vmm_map_page makes of the memory where there is a table,
CanSet(m, v, t, g, user) ==
  /\ DIR \in DOMAIN m /\ m[DIR][N - 1] = Small(DIR, FALSE)
  /\ v \in Nat /\ v \div N \in PageNumber /\ ~m[DIR][DirIndex(v)].large
  /\ t \in DOMAIN m /\ t = m[DIR][DirIndex(v)].frame /\ m[t] \in [Index -> Entry]
  /\ g \in Nat /\ Small(g, user) \in Entry

Entered(m, m1, t, s, x) ==
  /\ DOMAIN m1 = DOMAIN m /\ m1[t] \in [Index -> Entry] /\ m1[t][s] = x
  /\ \A i \in Index : i # s => m1[t][i] = m[t][i]
  /\ \A h \in DOMAIN m : h # t => m1[h] = m[h]

LEMMA PageSet ==
  ASSUME NEW m, NEW v, NEW t, NEW g, NEW user, CanSet(m, v, t, g, user)
  PROVE  Entered(m, SetPage(m, v, g, user), t, TableIndex(v), Small(g, user))
<1> DEFINE m1 == SetPage(m, v, g, user)
           s == TableIndex(v)
           e == Small(g, user)
<1>. USE DEF CanSet
<1>1. FrameAt(m, get_pte(v)) = t /\ get_pte(v) % N = s /\ ~Load(m, get_pde(v)).large
  BY ThroughDirectory, EntryOfTable
<1>2. DOMAIN m \cup {t} = DOMAIN m /\ Content(m, t) = m[t]
  BY DEF Content
<1>3. m1 = [h \in DOMAIN m |-> IF h = t THEN [m[t] EXCEPT ![s] = e] ELSE m[h]]
  BY <1>1, <1>2 DEF SetPage, Store, Put
<1>4. s \in Index /\ e \in Entry
  BY Address, Place
<1> HIDE DEF m1, s, e
<1>5. m1[t] = [m[t] EXCEPT ![s] = e]
  BY <1>3
<1>6. m1[t] \in [Index -> Entry] /\ m1[t][s] = e /\ \A i \in Index : i # s => m1[t][i] = m[t][i]
  BY <1>4, <1>5
<1>7. DOMAIN m1 = DOMAIN m /\ \A h \in DOMAIN m : h # t => m1[h] = m[h]
  BY <1>3
<1>. QED
  BY <1>6, <1>7 DEF Entered, m1, s, e

\* and where there is none.
CanStart(m, v, f, user) ==
  /\ DIR \in DOMAIN m /\ m[DIR][N - 1] = Small(DIR, FALSE) /\ m[DIR] \in [Index -> Entry]
  /\ v \in Nat /\ v \div N \in PageNumber /\ DirIndex(v) # N - 1
  /\ f \notin DOMAIN m /\ Small(f, user) \in Entry

Blank == [i \in Index |-> Absent]

Started(m, m1, d, f, user) ==
  /\ DOMAIN m1 = DOMAIN m \cup {f} /\ m1[f] = Blank
  /\ m1[DIR] \in [Index -> Entry] /\ m1[DIR][d] = Small(f, user)
  /\ \A e \in Index \ {d} : m1[DIR][e] = m[DIR][e]
  /\ \A h \in DOMAIN m : h # DIR => m1[h] = m[h]

LEMMA TableMade ==
  ASSUME NEW m, NEW v, NEW f, NEW user, CanStart(m, v, f, user)
  PROVE  Started(m, NewTable(m, v, f, user), DirIndex(v), f, user)
<1> DEFINE d == DirIndex(v)
           e == Small(f, user)
           m1 == Store(m, get_pde(v), e)
<1>. USE DEF CanStart
<1>1. FrameAt(m, get_pde(v)) = DIR /\ get_pde(v) % N = d
  BY ThroughDirectory, EntryOfDirectory
<1>2. m1 = [h \in DOMAIN m |-> IF h = DIR THEN [m[DIR] EXCEPT ![d] = e] ELSE m[h]]
  <2>1. DOMAIN m \cup {DIR} = DOMAIN m /\ Content(m, DIR) = m[DIR]
    BY DEF Content
  <2>. QED
    BY <1>1, <2>1 DEF Store, Put
<1>3. d \in Index /\ N - 1 \in Index
  BY Address, Place, Indices
<1>4. m1[DIR] = [m[DIR] EXCEPT ![d] = e] /\ DOMAIN m1 = DOMAIN m
  BY <1>2
<1>5. m1[DIR][N - 1] = Small(DIR, FALSE) /\ m1[DIR][d] = e
  BY <1>3, <1>4
<1> HIDE DEF m1
<1>6. FrameAt(m1, get_pte(v)) = f
  <2>1. FrameAt(m1, get_pte(v)) = m1[DIR][d].frame
    BY <1>4, <1>5, ThroughDirectory
  <2>2. e.frame = f
    BY DEF Small
  <2>. QED
    BY <1>5, <2>1, <2>2
<1>7. NewTable(m, v, f, user) = Put(m1, f, Blank)
  BY <1>6 DEF NewTable, Cleared, Blank, m1
<1>8. \A h \in DOMAIN m : h # f /\ m1[h] = IF h = DIR THEN [m[DIR] EXCEPT ![d] = e] ELSE m[h]
  BY <1>2
<1>9. /\ m1[DIR] \in [Index -> Entry] /\ m1[DIR][d] = e
      /\ \A k \in Index \ {d} : m1[DIR][k] = m[DIR][k]
  BY <1>3, <1>4
<1> HIDE DEF e
<1>10. /\ DOMAIN NewTable(m, v, f, user) = DOMAIN m \cup {f}
       /\ NewTable(m, v, f, user)[f] = Blank
       /\ \A h \in DOMAIN m : NewTable(m, v, f, user)[h] = m1[h]
  BY <1>4, <1>7, <1>8 DEF Put
<1>11. \A h \in DOMAIN m : h # DIR => m1[h] = m[h]
  BY <1>8
<1>. QED
  BY <1>9, <1>10, <1>11 DEF Started, d, e

\* A page, as the processor finds it.
LEMMA PageView ==
  ASSUME NEW m, MemOk(m), NEW q \in PageNumber
  PROVE  LET e == q \div N
             s == q % N
         IN  /\ e \in Windowed => (IsMapped(m, q * N) <=> e \in TablesOf(m) /\ TableOf(m, e)[s].present)
             /\ e \in TablesOf(m) => FrameAt(m, q * N) = TableOf(m, e)[s].frame
             /\ e \in Kernels => IsMapped(m, q * N) /\ FrameAt(m, q * N) = (e - KERNEL_DIR) * N + s
             /\ e = 0 => ~IsMapped(m, q * N)
<1> DEFINE e == q \div N
           s == q % N
           v == q * N
<1>1. v \in Nat /\ DirIndex(v) = e /\ TableIndex(v) = s /\ e \in Index
  BY Place, PageStart
<1>2. Pde(m, v) = m[DIR][e] /\ (m[DIR][e].frame \in DOMAIN m => Pte(m, v) = TableOf(m, e)[s])
  BY <1>1, Walk DEF MemOk
<1> HIDE DEF v, e, s
<1>3. e \in Windowed => ~m[DIR][e].large
  BY DEF MemOk
<1>4. e \in TablesOf(m) => m[DIR][e].frame \in DOMAIN m /\ e \in Windowed /\ m[DIR][e].present
  BY DEF MemOk, TablesOf
<1>5. e \in Windowed => (IsMapped(m, v) <=> e \in TablesOf(m) /\ TableOf(m, e)[s].present)
  BY <1>2, <1>3, <1>4 DEF IsMapped, TablesOf
<1>6. e \in TablesOf(m) => FrameAt(m, v) = TableOf(m, e)[s].frame
  BY <1>2, <1>3, <1>4 DEF FrameAt
<1>7. e \in Kernels => IsMapped(m, v) /\ FrameAt(m, v) = (e - KERNEL_DIR) * N + s
  <2>1. e \in Kernels => m[DIR][e] = Large((e - KERNEL_DIR) * N)
    BY DEF MemOk
  <2>2. \A g : Large(g).present /\ Large(g).large /\ Large(g).frame = g
    BY DEF Large
  <2>. QED
    BY <1>1, <1>2, <2>1, <2>2 DEF IsMapped, FrameAt
<1>8. e = 0 => ~IsMapped(m, v)
  BY <1>2 DEF MemOk, IsMapped, Absent
<1>. QED
  BY <1>5, <1>6, <1>7, <1>8 DEF v, e, s

\* User mode reaches what is mapped below the kernel.
LEMMA Reached ==
  ASSUME NEW m, MemOk(m), NEW q \in PageNumber
  PROVE  UserReaches(m, q * N) <=> IsMapped(m, q * N) /\ q \div N < KERNEL_DIR
<1> DEFINE e == q \div N
           s == q % N
           v == q * N
<1>1. v \in Nat /\ DirIndex(v) = e /\ TableIndex(v) = s /\ e \in Index /\ s \in Index
  BY Place, PageStart
<1>2. Pde(m, v) = m[DIR][e] /\ (m[DIR][e].frame \in DOMAIN m => Pte(m, v) = TableOf(m, e)[s])
  BY <1>1, Walk DEF MemOk
<1> HIDE DEF v, e, s
<1>3. CASE e \in Windowed
  <2>1. ~m[DIR][e].large
    BY <1>3 DEF MemOk
  <2>2. CASE e \in TablesOf(m)
    <3>1. /\ (m[DIR][e].user <=> e < KERNEL_DIR) /\ m[DIR][e].frame \in DOMAIN m
          /\ TableOf(m, e)[s].present => (TableOf(m, e)[s].user <=> e < KERNEL_DIR)
      BY <2>2, <1>1 DEF MemOk
    <3>. QED
      BY <1>2, <2>1, <2>2, <3>1 DEF UserReaches, IsMapped, TablesOf, v, e
  <2>3. CASE e \notin TablesOf(m)
    BY <1>2, <1>3, <2>3 DEF UserReaches, IsMapped, TablesOf, v
  <2>. QED
    BY <2>2, <2>3
<1>4. CASE e \in Kernels
  <2>1. ~m[DIR][e].user
    <3>1. m[DIR][e] = Large((e - KERNEL_DIR) * N)
      BY <1>4 DEF MemOk
    <3>2. \A g : ~Large(g).user
      BY DEF Large
    <3>. QED
      BY <3>1, <3>2
  <2>2. ~(e < KERNEL_DIR)
    BY <1>4, PagingAssumption DEF Kernels, Index
  <2>. QED
    BY <1>2, <2>1, <2>2 DEF UserReaches, v, e
<1>5. CASE e = N - 1
  <2>1. ~m[DIR][e].user
    BY <1>5 DEF MemOk, Small
  <2>2. ~(e < KERNEL_DIR)
    BY <1>5, PagingAssumption DEF Index
  <2>. QED
    BY <1>2, <2>1, <2>2 DEF UserReaches, v, e
<1>6. CASE e = 0
  BY <1>2, <1>6 DEF MemOk, IsMapped, Absent, UserReaches, v
<1>. QED
  BY <1>1, <1>3, <1>4, <1>5, <1>6, Indices

\* What a change of the memory leaves of a page
Same(m, m1, q) ==
  /\ IsMapped(m1, q * N) <=> IsMapped(m, q * N)
  /\ IsMapped(m, q * N) => FrameAt(m1, q * N) = FrameAt(m, q * N)

\* A new table maps nothing yet.
LEMMA TableAdded ==
  ASSUME NEW m, MemOk(m), NEW d \in Windowed \ TablesOf(m),
         NEW f \in Nat, f \notin DOMAIN m,
         NEW user, Small(f, user) \in Entry, Small(f, user).user <=> d < KERNEL_DIR,
         NEW m1, Started(m, m1, d, f, user)
  PROVE  /\ MemOk(m1) /\ TablesOf(m1) = TablesOf(m) \cup {d} /\ m1[DIR][d].frame = f
         /\ \A e \in TablesOf(m) : m1[DIR][e] = m[DIR][e]
         /\ \A q \in PageNumber : q \div N # N - 1 => Same(m, m1, q)
<1>. USE DEF Started
<1>1. d \in Index /\ d # N - 1 /\ d # 0 /\ d \notin Kernels
  BY DEF Windowed
<1>2. DIR \in DOMAIN m /\ f # DIR
  BY DEF MemOk
<1>6. /\ Small(f, user).frame = f /\ ~Small(f, user).large
      /\ Small(f, user).present
      /\ Blank \in [Index -> Entry] /\ \A i \in Index : ~Blank[i].present
  BY DEF Small, Blank, Absent, Entry
<1>5. TablesOf(m1) = TablesOf(m) \cup {d}
  <2>1. \A e \in Windowed : e \in Index
    BY DEF Windowed
  <2>2. d \in TablesOf(m1)
    BY <1>6 DEF TablesOf
  <2>3. \A e \in Windowed : e # d => (e \in TablesOf(m1) <=> e \in TablesOf(m))
    BY <2>1 DEF TablesOf
  <2>4. TablesOf(m1) \subseteq Windowed /\ TablesOf(m) \subseteq Windowed
    BY DEF TablesOf
  <2>. QED
    BY <2>2, <2>3, <2>4
<1>7. ASSUME NEW e \in TablesOf(m)
      PROVE  /\ e \in Index /\ e # d /\ m1[DIR][e] = m[DIR][e] /\ m[DIR][e].frame \in DOMAIN m \ {DIR}
             /\ m[DIR][e].frame # f /\ TableOf(m1, e) = TableOf(m, e)
  <2>1. e \in Index /\ e # d /\ m1[DIR][e] = m[DIR][e] /\ m[DIR][e].frame \in DOMAIN m \ {DIR}
    BY <1>7 DEF MemOk, TablesOf, Windowed
  <2>. QED
    BY <2>1 DEF TableOf
<1>3. TableOf(m1, d) = Blank /\ m1[DIR][d].frame = f
  BY <1>6 DEF TableOf
<1>8. MemOk(m1)
  <2>1. DIR \in DOMAIN m1 /\ \A h \in DOMAIN m1 : m1[h] \in [Index -> Entry]
    <3>1. m1[f] \in [Index -> Entry]
      BY <1>6
    <3>2. m1[DIR] \in [Index -> Entry]
      BY <1>6
    <3>3. \A h \in DOMAIN m : h # DIR => m1[h] \in [Index -> Entry]
      BY DEF MemOk
    <3>. QED
      BY <1>2, <3>1, <3>2, <3>3
  <2>2. /\ m1[DIR][N - 1] = Small(DIR, FALSE) /\ m1[DIR][0] = Absent
        /\ \A e \in Kernels : m1[DIR][e] = Large((e - KERNEL_DIR) * N)
    <3>1. /\ m1[DIR][N - 1] = m[DIR][N - 1] /\ m1[DIR][0] = m[DIR][0]
          /\ \A e \in Kernels : m1[DIR][e] = m[DIR][e]
      BY <1>1, Indices
    <3>. QED
      BY <3>1 DEF MemOk
  <2>3. \A e \in Windowed : ~m1[DIR][e].large
    BY <1>6 DEF MemOk, Windowed
  <2>4. ASSUME NEW e \in TablesOf(m1)
        PROVE  /\ (m1[DIR][e].user <=> e < KERNEL_DIR) /\ m1[DIR][e].frame \in DOMAIN m1 \ {DIR}
               /\ \A s \in Index : TableOf(m1, e)[s].present => (TableOf(m1, e)[s].user <=> e < KERNEL_DIR)
    <3>1. CASE e = d
      <4>1. (m1[DIR][e].user <=> e < KERNEL_DIR) /\ m1[DIR][e].frame \in DOMAIN m1 \ {DIR}
        BY <1>2, <1>3, <1>6, <3>1
      <4>2. \A s \in Index : ~TableOf(m1, e)[s].present
        BY <1>3, <1>6, <3>1
      <4>. QED
        BY <4>1, <4>2
    <3>2. CASE e # d
      <4>1. e \in TablesOf(m)
        BY <1>5, <3>2, <2>4
      <4>2. /\ (m[DIR][e].user <=> e < KERNEL_DIR) /\ m[DIR][e].frame \in DOMAIN m \ {DIR}
            /\ \A s \in Index : TableOf(m, e)[s].present => (TableOf(m, e)[s].user <=> e < KERNEL_DIR)
        BY <4>1 DEF MemOk
      <4>3. m1[DIR][e] = m[DIR][e] /\ TableOf(m1, e) = TableOf(m, e) /\ m[DIR][e].frame \in DOMAIN m1
        BY <1>7, <4>1
      <4>. QED
        BY <4>2, <4>3
    <3>. QED
      BY <3>1, <3>2
  <2>5. ASSUME NEW e1 \in TablesOf(m1), NEW e2 \in TablesOf(m1), m1[DIR][e1].frame = m1[DIR][e2].frame
        PROVE  e1 = e2
    <3>1. m1[DIR][d].frame = f /\ \A e \in TablesOf(m) : m1[DIR][e].frame = m[DIR][e].frame /\ m[DIR][e].frame # f
      BY <1>3, <1>7
    <3>2. \A x, y \in TablesOf(m) : m[DIR][x].frame = m[DIR][y].frame => x = y
      BY DEF MemOk
    <3>. QED
      BY <1>5, <2>5, <3>1, <3>2
  <2>. QED
    BY <2>1, <2>2, <2>3, <2>4, <2>5 DEF MemOk
<1>9. ASSUME NEW q \in PageNumber, q \div N # N - 1 PROVE Same(m, m1, q)
  <2> DEFINE e == q \div N
             s == q % N
  <2>1. e \in Index /\ s \in Index
    BY Place
  <2> HIDE DEF e, s
  <2>2. CASE e \in TablesOf(m)
    <3>1. e \in TablesOf(m1) /\ e \in Windowed /\ TableOf(m1, e) = TableOf(m, e)
      BY <1>5, <1>7, <2>2 DEF TablesOf
    <3>. QED
      BY <1>8, <2>2, <3>1, PageView DEF Same, e, s
  <2>3. CASE e = d
    <3>1. ~TableOf(m1, d)[s].present
      BY <1>3, <1>6, <2>1
    <3>2. ~IsMapped(m1, q * N)
      BY <3>1, <1>8, <2>3, PageView DEF e, s
    <3>3. ~IsMapped(m, q * N)
      BY <2>3, PageView DEF e, s
    <3>. QED
      BY <3>2, <3>3 DEF Same
  <2>4. CASE e \in Windowed /\ e # d /\ e \notin TablesOf(m)
    BY <1>5, <1>8, <2>4, PageView DEF Same, e, s
  <2>5. CASE e \in Kernels \/ e = 0
    BY <1>8, <2>5, PageView DEF Same, e, s
  <2>. QED
    BY <1>9, <2>1, <2>2, <2>3, <2>4, <2>5, Indices DEF e
<1>. QED
  BY <1>3, <1>5, <1>7, <1>8, <1>9

\* An entry that gives a page the rights that its place asks for
Rights(user, d) ==
  \A h \in Nat : Small(h, user) \in Entry /\ (Small(h, user).user <=> d < KERNEL_DIR)

\* A page entered in its table
LEMMA PageAdded ==
  ASSUME NEW m, MemOk(m), NEW d \in TablesOf(m), NEW s \in Index, NEW t, t = m[DIR][d].frame,
         NEW x \in Entry, x.present, x.user <=> d < KERNEL_DIR,
         NEW m1, Entered(m, m1, t, s, x)
  PROVE  /\ MemOk(m1) /\ m1[DIR] = m[DIR] /\ TablesOf(m1) = TablesOf(m)
         /\ \A q \in PageNumber : q \div N = d /\ q % N = s => IsMapped(m1, q * N) /\ FrameAt(m1, q * N) = x.frame
         /\ \A q \in PageNumber : ~(q \div N = d /\ q % N = s) /\ q \div N # N - 1 => Same(m, m1, q)
<1>. USE DEF Entered
<1>2. d \in Windowed /\ d \in Index /\ m[DIR][d].present /\ t \in DOMAIN m /\ t # DIR
      /\ DIR \in DOMAIN m
  BY DEF MemOk, TablesOf, Windowed
<1>7. m1[DIR] = m[DIR] /\ TablesOf(m1) = TablesOf(m)
  BY <1>2 DEF TablesOf
<1>8. TableOf(m1, d) = m1[t] /\ TableOf(m, d) = m[t]
  BY <1>7 DEF TableOf
<1>9. ASSUME NEW e \in TablesOf(m), e # d PROVE TableOf(m1, e) = TableOf(m, e)
  <2>1. d \in TablesOf(m) /\ m[DIR][e].frame # t /\ m[DIR][e].frame \in DOMAIN m
    BY <1>9, <1>2 DEF MemOk, TablesOf
  <2>. QED
    BY <1>7, <2>1 DEF TableOf
<1>10. MemOk(m1)
  <2>1. \A h \in DOMAIN m1 : m1[h] \in [Index -> Entry]
    BY DEF MemOk
  <2>2. ASSUME NEW e \in TablesOf(m), NEW i \in Index, TableOf(m1, e)[i].present
        PROVE  TableOf(m1, e)[i].user <=> e < KERNEL_DIR
    <3>1. CASE e = d /\ i = s
      BY <1>2, <1>8, <3>1
    <3>2. CASE ~(e = d /\ i = s)
      <4>1. TableOf(m1, e)[i] = TableOf(m, e)[i]
        BY <1>8, <1>9, <3>2
      <4>. QED
        BY <2>2, <4>1 DEF MemOk
    <3>. QED
      BY <3>1, <3>2
  <2>3. \A e \in TablesOf(m1) :
          /\ (m1[DIR][e].user <=> e < KERNEL_DIR) /\ m1[DIR][e].frame \in DOMAIN m1 \ {DIR}
    BY <1>7 DEF MemOk
  <2>4. \A e \in TablesOf(m1) : \A i \in Index : TableOf(m1, e)[i].present => (TableOf(m1, e)[i].user <=> e < KERNEL_DIR)
    BY <1>7, <2>2
  <2>5. /\ DIR \in DOMAIN m1 /\ m1[DIR][N - 1] = Small(DIR, FALSE) /\ m1[DIR][0] = Absent
        /\ \A e \in Kernels : m1[DIR][e] = Large((e - KERNEL_DIR) * N)
    BY <1>7 DEF MemOk
  <2>6. /\ \A e \in Windowed : ~m1[DIR][e].large
        /\ \A a, b \in TablesOf(m1) : m1[DIR][a].frame = m1[DIR][b].frame => a = b
    BY <1>7 DEF MemOk
  <2>. QED
    BY <2>1, <2>3, <2>4, <2>5, <2>6 DEF MemOk
<1>11. ASSUME NEW q \in PageNumber, q \div N = d, q % N = s
       PROVE  IsMapped(m1, q * N) /\ FrameAt(m1, q * N) = x.frame
  <2>1. d \in TablesOf(m1) /\ TableOf(m1, d)[s].present /\ TableOf(m1, d)[s].frame = x.frame
    BY <1>7, <1>8
  <2>. QED
    BY <1>2, <1>10, <1>11, <2>1, PageView
<1>12. ASSUME NEW q \in PageNumber, ~(q \div N = d /\ q % N = s), q \div N # N - 1 PROVE Same(m, m1, q)
  <2> DEFINE e == q \div N
             i == q % N
  <2>1. e \in Index /\ i \in Index /\ ~(e = d /\ i = s)
    BY <1>12, Place
  <2> HIDE DEF e, i
  <2>2. CASE e \in TablesOf(m)
    <3>2. TableOf(m1, e)[i] = TableOf(m, e)[i]
      BY <1>8, <1>9, <2>1, <2>2
    <3>3. e \in Windowed /\ e \in TablesOf(m1)
      BY <1>7, <2>2 DEF TablesOf
    <3>. QED
      BY <1>10, <2>2, <3>2, <3>3, PageView DEF Same, e, i
  <2>3. CASE e \in Windowed /\ e \notin TablesOf(m)
    BY <1>7, <1>10, <2>3, PageView DEF Same, e, i
  <2>4. CASE e \in Kernels \/ e = 0
    BY <1>10, <2>4, PageView DEF Same, e, i
  <2>. QED
    BY <1>12, <2>1, <2>2, <2>3, <2>4, Indices DEF e
<1>. QED
  BY <1>7, <1>10, <1>11, <1>12

\* vmm_map_page: the page is mapped and no other, with a table where there was none.
WithPage(m, v, f, g, user) ==
  SetPage(IF NeedsTable(m, v) THEN NewTable(m, v, f, user) ELSE m, v, g, user)

LEMMA PageEntered ==
  ASSUME NEW m, MemOk(m), NEW p \in PageNumber, p \div N \in TablesOf(m), NEW v \in Nat, v = p * N,
         NEW g \in Nat, NEW user, Rights(user, p \div N),
         NEW m1, m1 = SetPage(m, v, g, user)
  PROVE  /\ MemOk(m1) /\ DOMAIN m1 = DOMAIN m /\ m1[DIR] = m[DIR] /\ TablesOf(m1) = TablesOf(m)
         /\ IsMapped(m1, p * N) /\ FrameAt(m1, p * N) = g
         /\ \A q \in PageNumber : q # p /\ q \div N # N - 1 => Same(m, m1, q)
<1> DEFINE d == p \div N
           s == p % N
           t == m[DIR][d].frame
           x == Small(g, user)
<1>1. v \in Nat /\ v \div N = p /\ DirIndex(v) = d /\ TableIndex(v) = s /\ d \in Index /\ s \in Index
  BY Place, PageStart
<1>2. d \in Windowed /\ m[DIR][d].present /\ t \in DOMAIN m /\ t # DIR /\ m[t] \in [Index -> Entry]
      /\ DIR \in DOMAIN m /\ ~m[DIR][d].large /\ m[DIR][N - 1] = Small(DIR, FALSE)
  BY DEF MemOk, TablesOf
<1>3. m1 = SetPage(m, v, g, user) /\ v \div N \in PageNumber /\ ~m[DIR][DirIndex(v)].large
      /\ t = m[DIR][DirIndex(v)].frame /\ d \in TablesOf(m)
  BY <1>1, <1>2
<1>4. x \in Entry /\ x.present /\ (x.user <=> d < KERNEL_DIR) /\ x.frame = g
  <2>1. x.present /\ x.frame = g
    BY DEF Small
  <2>. QED
    BY <2>1 DEF Rights
<1> HIDE DEF d, s, t
<1>5. Entered(m, m1, t, s, x)
  <2>1. CanSet(m, v, t, g, user)
    BY <1>1, <1>2, <1>3, <1>4 DEF CanSet, x
  <2>. QED
    BY <1>1, <1>3, <2>1, PageSet DEF x
<1>6. t = m[DIR][d].frame
  BY DEF t
<1> HIDE DEF x
<1>7. /\ MemOk(m1) /\ m1[DIR] = m[DIR] /\ TablesOf(m1) = TablesOf(m)
      /\ \A q \in PageNumber : q \div N = d /\ q % N = s => IsMapped(m1, q * N) /\ FrameAt(m1, q * N) = x.frame
      /\ \A q \in PageNumber : ~(q \div N = d /\ q % N = s) /\ q \div N # N - 1 => Same(m, m1, q)
  BY <1>1, <1>3, <1>4, <1>5, <1>6, PageAdded
<1>8. \A q \in PageNumber : q \div N = d /\ q % N = s <=> q = p
  BY Place DEF d, s
<1>. QED
  BY <1>4, <1>5, <1>7, <1>8 DEF Entered

Brings(m, m1, p, f, g) ==
  /\ MemOk(m1) /\ IsMapped(m1, p * N) /\ FrameAt(m1, p * N) = g
  /\ \A q \in PageNumber : q # p /\ q \div N # N - 1 => Same(m, m1, q)
  /\ TablesOf(m1) = TablesOf(m) \cup {p \div N}
  /\ \A e \in TablesOf(m) : m1[DIR][e] = m[DIR][e]
  /\ p \div N \notin TablesOf(m) => DOMAIN m1 = DOMAIN m \cup {f} /\ m1[DIR][p \div N].frame = f
  /\ p \div N \in TablesOf(m) => DOMAIN m1 = DOMAIN m

LEMMA PageMapped ==
  ASSUME NEW m, MemOk(m), NEW p \in PageNumber, p \div N \in Windowed, NEW v \in Nat, v = p * N,
         NEW f \in Nat, f \notin DOMAIN m, NEW g \in Nat, NEW user, Rights(user, p \div N),
         NEW m1, m1 = WithPage(m, v, f, g, user)
  PROVE  Brings(m, m1, p, f, g) /\ (NeedsTable(m, v) <=> p \div N \notin TablesOf(m))
<1>. USE DEF Brings
<1> DEFINE d == p \div N
           m0 == NewTable(m, v, f, user)
<1>1. v \in Nat /\ v \div N = p /\ DirIndex(v) = d /\ d # N - 1 /\ d \in Windowed
  BY Place, PageStart DEF Windowed
<1>2. DIR \in DOMAIN m /\ m[DIR][N - 1] = Small(DIR, FALSE) /\ m[DIR] \in [Index -> Entry]
  BY DEF MemOk
<1> HIDE DEF m0, d
<1>3. NeedsTable(m, v) <=> d \notin TablesOf(m)
  <2>1. Load(m, get_pde(v)) = m[DIR][d]
    BY <1>1, <1>2, ThroughDirectory
  <2>. QED
    BY <1>1, <2>1 DEF NeedsTable, TablesOf
<1>4. CASE d \in TablesOf(m)
  <2>1. m1 = SetPage(m, v, g, user)
    BY <1>3, <1>4 DEF WithPage
  <2>2. /\ MemOk(m1) /\ DOMAIN m1 = DOMAIN m /\ m1[DIR] = m[DIR] /\ TablesOf(m1) = TablesOf(m)
        /\ IsMapped(m1, p * N) /\ FrameAt(m1, p * N) = g
        /\ \A q \in PageNumber : q # p /\ q \div N # N - 1 => Same(m, m1, q)
    BY <1>4, <2>1, PageEntered DEF d
  <2>. QED
    BY <1>3, <1>4, <2>2 DEF d
<1>5. CASE d \notin TablesOf(m)
  <2>1. m1 = SetPage(m0, v, g, user)
    BY <1>3, <1>5 DEF WithPage, m0
  <2>2. Started(m, m0, d, f, user)
    <3>1. CanStart(m, v, f, user)
      BY <1>1, <1>2 DEF CanStart, Rights
    <3>. QED
      BY <1>1, <3>1, TableMade DEF m0
  <2>3. /\ MemOk(m0) /\ TablesOf(m0) = TablesOf(m) \cup {d} /\ m0[DIR][d].frame = f
        /\ \A e \in TablesOf(m) : m0[DIR][e] = m[DIR][e]
        /\ \A q \in PageNumber : q \div N # N - 1 => Same(m, m0, q)
    <3>1. d \in Windowed \ TablesOf(m) /\ Small(f, user) \in Entry /\ (Small(f, user).user <=> d < KERNEL_DIR)
      BY <1>1, <1>5 DEF d, Rights
    <3>. QED
      BY <2>2, <3>1, TableAdded
  <2>4. /\ MemOk(m1) /\ DOMAIN m1 = DOMAIN m0 /\ m1[DIR] = m0[DIR] /\ TablesOf(m1) = TablesOf(m0)
        /\ IsMapped(m1, p * N) /\ FrameAt(m1, p * N) = g
        /\ \A q \in PageNumber : q # p /\ q \div N # N - 1 => Same(m0, m1, q)
    BY <2>1, <2>3, PageEntered DEF d
  <2>5. \A q \in PageNumber : q # p /\ q \div N # N - 1 => Same(m, m1, q)
    BY <2>3, <2>4 DEF Same
  <2>6. DOMAIN m0 = DOMAIN m \cup {f}
    BY <2>2 DEF Started
  <2>. QED
    BY <1>3, <1>5, <2>3, <2>4, <2>5, <2>6 DEF d
<1>. QED
  BY <1>4, <1>5

-----------------------------------------------------------------------------
(* The windows, in pages.                                                   *)

KernelPage == KERNEL_DIR * N
KernelEnd == (KERNEL_DIR + LARGE) * N
Top == (N - 1) * N
UserPage == USER_PROGRAM_BASE \div N
StackPage == USER_STACK_PAGE \div N
AcpiPage == ACPI_MAPPING_BASE \div N
AcpiEnd == ACPI_MAPPING_LIMIT \div N
HeapPage == KERNEL_HEAP_VIRTUAL_START \div N
ScreenPage == virtual_base \div N
ScreenPages == Pages(MapSize)
ProgramPages == Pages(machine.init)

\* Comparing what was multiplied
LEMMA Scale ==
  ASSUME NEW a \in Nat, NEW b \in Nat
  PROVE  /\ a * N \in Nat /\ (a <= b <=> a * N <= b * N) /\ (a < b <=> a * N < b * N)
<1>1. N \in Nat \ {0}
  BY NType
<1>2. a * N \in Nat /\ b * N \in Nat
  BY <1>1
<1>3. a <= b => a * N <= b * N
  <2>1. a <= b => b - a \in Nat /\ b * N = a * N + (b - a) * N
    BY <1>1
  <2>2. a <= b => (b - a) * N \in Nat
    BY <1>1, <2>1
  <2>. QED
    BY <1>2, <2>1, <2>2
<1>4. b < a => b * N < a * N
  <2>1. b < a => a - b - 1 \in Nat /\ a * N = b * N + N + (a - b - 1) * N
    BY <1>1
  <2>2. b < a => (a - b - 1) * N \in Nat
    BY <1>1, <2>1
  <2>. QED
    BY <1>1, <1>2, <2>1, <2>2
<1>5. a = b => a * N = b * N
  OBVIOUS
<1>6. a < b => a * N < b * N
  <2>1. a < b => b - a - 1 \in Nat /\ b * N = a * N + N + (b - a - 1) * N
    BY <1>1
  <2>2. a < b => (b - a - 1) * N \in Nat
    BY <1>1, <2>1
  <2>. QED
    BY <1>1, <1>2, <2>1, <2>2
<1>. QED
  BY <1>2, <1>3, <1>4, <1>5, <1>6

\* A page's directory, by the page alone
LEMMA InDirectory ==
  ASSUME NEW q \in Nat, NEW k \in Nat
  PROVE  q \div N < k <=> q < k * N
<1> DEFINE d == q \div N
           s == q % N
<1>1. d \in Nat /\ s \in Nat /\ s < N /\ q = d * N + s
  BY NType, WholeAndRest
<1>2. /\ d + 1 \in Nat /\ (d + 1) * N = d * N + N /\ (d + 1 <= k <=> (d + 1) * N <= k * N)
      /\ (k <= d <=> k * N <= d * N) /\ d * N \in Nat /\ k * N \in Nat
  <2>1. d + 1 \in Nat /\ (d + 1) * N = d * N + N
    BY <1>1, NType
  <2>. QED
    BY <1>1, <2>1, Scale
<1> DEFINE a == d * N
           c == k * N
           b == (d + 1) * N
<1>. HIDE DEF a, b, c, d, s
<1>3. a \in Nat /\ c \in Nat /\ b = a + N /\ (d + 1 <= k <=> b <= c) /\ (k <= d <=> c <= a) /\ q = a + s
  BY <1>1, <1>2, Zenon DEF a, b, c
<1>4. d < k <=> q < c
  BY <1>1, <1>3, NType
<1>. QED
  BY <1>4 DEF d, c

LEMMA Bounds ==
  /\ KernelPage \in Nat /\ KernelEnd \in Nat /\ Top \in Nat /\ N <= KernelPage /\ KernelPage < KernelEnd
  /\ KernelEnd <= Top /\ Top < N * N /\ N <= Top
<1>1. KERNEL_DIR \in Nat /\ KERNEL_DIR >= 1 /\ LARGE \in Nat /\ LARGE >= 1 /\ KERNEL_DIR + LARGE <= N - 1
      /\ N - 1 \in Nat
  BY PagingAssumption DEF Index
<1>2. KernelPage \in Nat /\ KernelEnd \in Nat /\ Top \in Nat
  BY <1>1, Scale, NType DEF KernelPage, KernelEnd, Top
<1>3. 1 * N <= KernelPage /\ KernelPage < KernelEnd /\ KernelEnd <= Top /\ Top < N * N
  BY <1>1, Scale, NType DEF KernelPage, KernelEnd, Top
<1>4. 1 * N = N
  BY NType
<1>. QED
  BY <1>2, <1>3, <1>4, NType

LEMMA Regions ==
  ASSUME NEW q \in PageNumber
  PROVE  /\ q \in Nat /\ q < N * N
         /\ q \div N \in Windowed <=> (N <= q /\ q < KernelPage) \/ (KernelEnd <= q /\ q < Top)
         /\ q \div N < KERNEL_DIR <=> q < KernelPage
         /\ q \div N = 0 <=> q < N
         /\ q \div N = N - 1 <=> q >= Top
         /\ q \div N \in Kernels <=> KernelPage <= q /\ q < KernelEnd
<1> DEFINE d == q \div N
<1>1. q \in Nat /\ q < N * N /\ d \in Index
  <2>1. q \in Nat /\ q < N * N
    BY NType DEF PageNumber
  <2>2. d \in Index
    BY Place
  <2>. QED
    BY <2>1, <2>2
<1>2. KERNEL_DIR \in Nat /\ KERNEL_DIR >= 1 /\ LARGE \in Nat /\ LARGE >= 1 /\ KERNEL_DIR + LARGE <= N - 1
      /\ N - 1 \in Nat
  BY PagingAssumption DEF Index
<1>3. /\ d < 1 <=> q < 1 * N
      /\ d < KERNEL_DIR <=> q < KernelPage
      /\ d < KERNEL_DIR + LARGE <=> q < KernelEnd
      /\ d < N - 1 <=> q < Top
  BY <1>1, <1>2, InDirectory DEF KernelPage, KernelEnd, Top
<1>4. 1 * N = N
  BY NType
<1>5. d \in Nat /\ d <= N - 1
  BY <1>1, NType DEF Index
<1>6. d \in Windowed <=> d # 0 /\ d # N - 1 /\ ~(KERNEL_DIR <= d /\ d < KERNEL_DIR + LARGE)
  BY <1>1, <1>2, <1>5 DEF Windowed, Kernels
<1>7. d \in Kernels <=> KERNEL_DIR <= d /\ d < KERNEL_DIR + LARGE
  BY <1>2, <1>5 DEF Kernels
<1>. HIDE DEF d
<1>8. /\ d \in Windowed <=> (N <= q /\ q < KernelPage) \/ (KernelEnd <= q /\ q < Top)
      /\ d = 0 <=> q < N
      /\ d = N - 1 <=> q >= Top
      /\ d \in Kernels <=> KernelPage <= q /\ q < KernelEnd
  <2>1. d = 0 <=> q < N
    BY <1>3, <1>4, <1>5
  <2>2. d = N - 1 <=> q >= Top
    BY <1>1, <1>2, <1>3, <1>5, Bounds
  <2>3. d \in Kernels <=> KernelPage <= q /\ q < KernelEnd
    BY <1>1, <1>2, <1>3, <1>5, <1>7, Bounds
  <2>4. d \in Windowed <=> ~(d = 0) /\ ~(d = N - 1) /\ ~(d \in Kernels)
    BY <1>6, <1>7
  <2>5. N \in Nat /\ KernelPage \in Nat /\ KernelEnd \in Nat /\ Top \in Nat
        /\ N <= KernelPage /\ KernelPage < KernelEnd /\ KernelEnd <= Top
    BY Bounds, NType
  <2>6. ~(q < N) /\ ~(q >= Top) /\ ~(KernelPage <= q /\ q < KernelEnd)
          <=> (N <= q /\ q < KernelPage) \/ (KernelEnd <= q /\ q < Top)
    BY <1>1, <2>5
  <2>7. d \in Windowed <=> (N <= q /\ q < KernelPage) \/ (KernelEnd <= q /\ q < Top)
    BY <2>1, <2>2, <2>3, <2>4, <2>6, Zenon
  <2>. QED
    BY <2>1, <2>2, <2>3, <2>7
<1>. QED
  BY <1>1, <1>3, <1>8, Bounds, NType DEF d

LEMMA DivideBack ==
  ASSUME NEW a \in Nat, a % N = 0
  PROVE  a \div N \in Nat /\ a = (a \div N) * N
<1>1. a \div N \in Nat /\ a = N * (a \div N) + (a % N)
  BY NType, WholeAndRest
<1>. QED
  BY <1>1, NType

LEMMA PagesOf ==
  ASSUME NEW w \in Nat
  PROVE  /\ Pages(w) \in Nat /\ w <= Pages(w) * N /\ Pages(w) * N < w + N
         /\ w = 0 <=> Pages(w) = 0
<1> DEFINE n == w + N - 1
           k == n \div N
           r == n % N
<1>1. n \in Nat /\ n = w + N - 1
  BY NType
<1>2. k \in Nat /\ r \in Nat /\ r < N /\ n = N * k + r
  BY <1>1, NType, WholeAndRest
<1>3. k \in Nat /\ k * N = N * k /\ k * N \in Nat
  BY <1>2, NType
<1>4. Pages(w) = k
  BY DEF Pages
<1>. HIDE DEF n, k, r
<1>5. w <= k * N /\ k * N < w + N
  BY <1>1, <1>2, <1>3, NType
<1>6. k = 0 <=> k * N = 0
  <2>1. 0 * N = 0 /\ (k <= 0 <=> k * N <= 0 * N)
    BY <1>3, Scale, NType
  <2>. QED
    BY <1>3, <2>1
<1>7. w = 0 <=> k = 0
  <2>1. k * N = 0 => w = 0
    BY <1>5
  <2>2. w = 0 => k * N < N
    BY <1>5, NType
  <2>3. k * N < N => k = 0
    <3>1. 1 * N = N /\ (k < 1 <=> k * N < 1 * N)
      BY <1>3, Scale, NType
    <3>. QED
      BY <1>3, <3>1
  <2>. QED
    BY <1>6, <2>1, <2>2, <2>3
<1>. QED
  BY <1>3, <1>4, <1>5, <1>7

\* A number of pages is the least that holds the words.
LEMMA PagesHold ==
  ASSUME NEW w \in Nat, NEW k \in Nat
  PROVE  (Pages(w) <= k <=> w <= k * N) /\ (w = k * N => Pages(w) = k)
<1> DEFINE n == Pages(w)
           a == n * N
           b == k * N
           c == (k + 1) * N
<1>1. n \in Nat /\ w <= a /\ a < w + N
  BY PagesOf
<1>2. a \in Nat /\ b \in Nat /\ c = b + N /\ (n <= k <=> a <= b) /\ (n < k + 1 <=> a < c) /\ (k <= n <=> b <= a)
  <2>1. k + 1 \in Nat /\ (k + 1) * N = k * N + N
    BY NType
  <2>. QED
    BY <1>1, <2>1, Scale
<1>. HIDE DEF n, a, b, c
<1>. QED
  BY <1>1, <1>2, NType DEF n, b

\* The pages of a window
LEMMA PagesAtStart ==
  ASSUME NEW p \in Nat, NEW w \in Nat
  PROVE  PagesAt(p * N, w) = p..(p + Pages(w) - 1)
<1>1. Pages(w) \in Nat /\ p * N \in Nat
  BY PagesOf, Scale
<1>2. ASSUME NEW v \in (p * N)..(p * N + w - 1)
      PROVE  v \div N \in p..(p + Pages(w) - 1)
  <2> DEFINE d == v \div N
             n == Pages(w)
             a == d * N
             b == (p + n) * N
             c == p * N
             e == n * N
             r == v % N
             c1 == (d + 1) * N
  <2>1. v \in Nat /\ c <= v /\ v < c + w
    BY <1>1
  <2>2. d \in Nat /\ r \in Nat /\ r < N /\ v = a + r
    BY <2>1, NType, WholeAndRest
  <2>3. p + n \in Nat /\ b = c + e /\ d + 1 \in Nat /\ c1 = a + N
    BY <1>1, <2>2, NType
  <2>4. (d < p + n <=> a < b) /\ (p < d + 1 <=> c < c1) /\ w <= e /\ a \in Nat /\ b \in Nat /\ c \in Nat /\ e \in Nat /\ c1 \in Nat
    BY <1>1, <2>2, <2>3, Scale, PagesOf
  <2>5. n \in Nat
    BY <1>1
  <2>. HIDE DEF d, n, a, b, c, e, r, c1
  <2>6. a < b /\ c < c1
    BY <2>1, <2>2, <2>3, <2>4, NType
  <2>7. d < p + n /\ p < d + 1
    BY <2>4, <2>6
  <2>8. d \in p..(p + n - 1)
    BY <2>2, <2>5, <2>7
  <2>. QED
    BY <2>8 DEF d, n
<1>3. ASSUME NEW q \in p..(p + Pages(w) - 1)
      PROVE  \E v \in (p * N)..(p * N + w - 1) : q = v \div N
  <2> DEFINE n == Pages(w)
             a == q * N
             c == p * N
             i == q - p
             e == i * N
  <2>1. q \in Nat /\ p <= q /\ q < p + n /\ i \in Nat /\ i < n
    BY <1>1
  <2>2. a = c + e /\ a \in Nat /\ e \in Nat /\ a \div N = q
    <3>1. a = c + e
      BY <2>1, NType
    <3>2. a \in Nat /\ e \in Nat
      BY <2>1, Scale
    <3>3. a \div N = q
      BY <2>1, PageStart
    <3>. QED
      BY <3>1, <3>2, <3>3
  <2>3. e < w
    <3>1. ~(n <= i) /\ (n <= i <=> w <= e)
      BY <1>1, <2>1, PagesHold
    <3>. QED
      BY <2>2, <3>1
  <2>4. c \in Nat
    BY <1>1
  <2>. HIDE DEF a, c, e
  <2>5. a \in c..(c + w - 1)
    BY <2>2, <2>3, <2>4
  <2>. QED
    BY <2>2, <2>5 DEF c
<1>. QED
  BY <1>2, <1>3 DEF PagesAt

\* Where the windows are
LEMMA Layout ==
  /\ UserPage \in Nat /\ StackPage \in Nat /\ AcpiPage \in Nat /\ AcpiEnd \in Nat
  /\ HeapPage \in Nat /\ ScreenPage \in Nat
  /\ USER_PROGRAM_BASE = UserPage * N /\ USER_STACK_PAGE = StackPage * N
  /\ ACPI_MAPPING_BASE = AcpiPage * N /\ ACPI_MAPPING_LIMIT = AcpiEnd * N
  /\ KERNEL_HEAP_VIRTUAL_START = HeapPage * N /\ virtual_base = ScreenPage * N
  /\ N <= UserPage /\ UserPage <= StackPage /\ StackPage + 1 = KernelPage
  /\ KernelEnd <= AcpiPage /\ AcpiPage <= AcpiEnd /\ AcpiEnd <= HeapPage
  /\ HeapPage + HEAP_PAGES <= ScreenPage /\ ScreenPage <= Top
<1>1. /\ UserPage \in Nat /\ USER_PROGRAM_BASE = UserPage * N
      /\ AcpiPage \in Nat /\ ACPI_MAPPING_BASE = AcpiPage * N
      /\ AcpiEnd \in Nat /\ ACPI_MAPPING_LIMIT = AcpiEnd * N
      /\ HeapPage \in Nat /\ KERNEL_HEAP_VIRTUAL_START = HeapPage * N
      /\ ScreenPage \in Nat /\ virtual_base = ScreenPage * N
  BY LayoutAssumption, DivideBack DEF UserPage, AcpiPage, AcpiEnd, HeapPage, ScreenPage
<1>2. StackPage \in Nat /\ USER_STACK_PAGE = StackPage * N /\ StackPage + 1 = KernelPage
  <2> DEFINE k == KernelPage - 1
  <2>1. k \in Nat
    BY Bounds, NType
  <2>2. USER_STACK_PAGE = k * N
    <3>1. USER_STACK_PAGE = KernelPage * N - N
      BY DEF USER_STACK_PAGE, KernelPage
    <3>2. KernelPage \in Nat
      BY Bounds
    <3>. QED
      BY <3>1, <3>2, NType
  <2>3. USER_STACK_PAGE \div N = k
    BY <2>1, <2>2, PageStart
  <2>. QED
    BY <2>1, <2>2, <2>3, Bounds DEF StackPage
<1>3. /\ N <= UserPage <=> N * N <= USER_PROGRAM_BASE
      /\ UserPage <= StackPage <=> USER_PROGRAM_BASE <= USER_STACK_PAGE
      /\ KernelEnd <= AcpiPage <=> (KERNEL_DIR + LARGE) * N * N <= ACPI_MAPPING_BASE
      /\ AcpiPage <= AcpiEnd <=> ACPI_MAPPING_BASE <= ACPI_MAPPING_LIMIT
      /\ AcpiEnd <= HeapPage <=> ACPI_MAPPING_LIMIT <= KERNEL_HEAP_VIRTUAL_START
      /\ ScreenPage <= Top <=> virtual_base <= (N - 1) * N * N
  <2>1. \A a, b \in Nat : a <= b <=> a * N <= b * N
    BY Scale
  <2>2. N \in Nat /\ KernelEnd \in Nat /\ Top \in Nat
    BY NType, Bounds
  <2>3. (KERNEL_DIR + LARGE) * N * N = KernelEnd * N /\ (N - 1) * N * N = Top * N
    BY DEF KernelEnd, Top
  <2>. QED
    BY <1>1, <1>2, <2>1, <2>2, <2>3
<1>4. HeapPage + HEAP_PAGES <= ScreenPage
  <2>1. HEAP_PAGES \in Nat /\ HeapPage + HEAP_PAGES \in Nat
    BY <1>1, BootAssumption
  <2>2. (HeapPage + HEAP_PAGES) * N = KERNEL_HEAP_VIRTUAL_START + HEAP_PAGES * N
    BY <1>1, <2>1, NType
  <2>3. HeapPage + HEAP_PAGES <= ScreenPage <=> (HeapPage + HEAP_PAGES) * N <= ScreenPage * N
    BY <1>1, <2>1, Scale
  <2>. QED
    BY <1>1, <2>2, <2>3, LayoutAssumption
<1>. QED
  BY <1>1, <1>2, <1>3, <1>4, LayoutAssumption

\* and what they are.
LEMMA WindowPages ==
  /\ HeapWindow = HeapPage..(HeapPage + HEAP_PAGES - 1)
  /\ AcpiWindow = AcpiPage..(AcpiEnd - 1)
  /\ ScreenWindow = ScreenPage..(ScreenPage + Pages(virtual_size) - 1)
  /\ UserWindow = UserPage..StackPage
<1>1. HeapWindow = HeapPage..(HeapPage + HEAP_PAGES - 1)
  <2>1. HEAP_PAGES \in Nat /\ HEAP_PAGES * N \in Nat
    BY BootAssumption, Scale
  <2>2. Pages(HEAP_PAGES * N) = HEAP_PAGES
    BY <2>1, PagesHold
  <2>. QED
    BY <2>1, <2>2, Layout, PagesAtStart DEF HeapWindow
<1>2. AcpiWindow = AcpiPage..(AcpiEnd - 1)
  <2> DEFINE k == AcpiEnd - AcpiPage
             w == ACPI_MAPPING_LIMIT - ACPI_MAPPING_BASE
  <2>1. k \in Nat
    BY Layout
  <2>2. w = k * N
    <3>1. AcpiEnd \in Nat /\ AcpiPage \in Nat /\ w = AcpiEnd * N - AcpiPage * N
      BY Layout
    <3>. QED
      BY <3>1, NType
  <2>3. w \in Nat
    BY <2>1, <2>2, Scale
  <2>4. Pages(w) = k
    BY <2>1, <2>2, <2>3, PagesHold
  <2>5. AcpiWindow = AcpiPage..(AcpiPage + k - 1)
    <3>1. AcpiWindow = PagesAt(AcpiPage * N, w)
      BY Layout DEF AcpiWindow
    <3>. HIDE DEF w
    <3>. QED
      BY <2>3, <2>4, <3>1, Layout, PagesAtStart
  <2>. QED
    BY <2>5, Layout
<1>3. ScreenWindow = ScreenPage..(ScreenPage + Pages(virtual_size) - 1)
  BY LayoutAssumption, Layout, PagesAtStart DEF ScreenWindow
<1>4. UserWindow = UserPage..StackPage
  <2> DEFINE k == StackPage + 1 - UserPage
             w == USER_STACK_PAGE + N - USER_PROGRAM_BASE
  <2>1. k \in Nat
    BY Layout
  <2>2. w = k * N
    <3>1. StackPage \in Nat /\ UserPage \in Nat /\ w = StackPage * N + N - UserPage * N
      BY Layout
    <3>. QED
      BY <3>1, NType
  <2>3. w \in Nat
    BY <2>1, <2>2, Scale
  <2>4. Pages(w) = k
    BY <2>1, <2>2, <2>3, PagesHold
  <2>5. UserWindow = UserPage..(UserPage + k - 1)
    <3>1. UserWindow = PagesAt(UserPage * N, w)
      BY Layout DEF UserWindow
    <3>. HIDE DEF w
    <3>. QED
      BY <2>3, <2>4, <3>1, Layout, PagesAtStart
  <2>. QED
    BY <2>5, Layout
<1>. QED
  BY <1>1, <1>2, <1>3, <1>4

-----------------------------------------------------------------------------
(* Where the boot is.                                                       *)

Cur == job.virt \div N
AcpiNext == acpi_mapping_next \div N

\* A framebuffer that the kernel accepts ends below the directory's mapping.
ScreenFits == FramebufferOk => virtual_base + MapSize <= (N - 1) * N * N

TypeOk ==
  /\ machine \in Machines /\ machine.used \subseteq allocated
  /\ acpi_mapping_next \in Nat /\ acpi_mapping_next = AcpiNext * N
  /\ AcpiPage <= AcpiNext /\ AcpiNext <= AcpiEnd
  /\ job \in [left : Nat, virt : Nat, phys : Nat, at : Nat, kind : {"none", "heap", "acpi", "screen", "user"}]
  /\ job.virt = Cur * N
  /\ root \in {None} \cup (Nat \X Nat) /\ fadt \in {None} \cup (Nat \X Nat) /\ dsdt \in {None} \cup (Nat \X Nat)
  /\ entry \in Nat \X Nat /\ screen \in BOOLEAN

AcpiSteps ==
  {"root_header", "root_table", "entry", "entry_header", "fadt", "dsdt_header", "dsdt", "screen", "init", "shell"}

\* A mapping lies in its window, and its window is the one of the step.
JobOk ==
  /\ pc \in {"vmm", "heap", "entry", "screen", "init", "shell"} => job.left = 0
  /\ job.kind = "none" => pc \in {"vmm", "heap"} /\ AcpiNext = AcpiPage /\ ~screen
  /\ job.kind = "heap" =>
       pc = "root" /\ HeapPage <= Cur /\ Cur + job.left = HeapPage + HEAP_PAGES /\ AcpiNext = AcpiPage /\ ~screen
  /\ job.kind = "acpi" =>
       pc \in AcpiSteps /\ AcpiPage <= Cur /\ Cur + job.left <= AcpiEnd
         /\ (job.left = 0 => AcpiNext = Cur) /\ ~screen
  /\ job.kind = "screen" =>
       pc \in {"screen_mapped", "init", "shell"} /\ ScreenPage <= Cur /\ Cur + job.left = ScreenPage + ScreenPages
         /\ FramebufferOk /\ (screen <=> pc # "screen_mapped") /\ (screen => job.left = 0)
  /\ job.kind = "user" =>
       /\ pc \in {"stack", "user_mode"} /\ machine.init > 0 /\ InitFits /\ (screen => FramebufferOk)
       /\ pc = "stack" => UserPage <= Cur /\ Cur + job.left = UserPage + ProgramPages
       /\ pc = "user_mode" => StackPage <= Cur /\ Cur + job.left = StackPage + 1

\* The pages of the windows that are mapped by now
HeapDone(q) ==
  /\ job.kind # "none" /\ HeapPage <= q
  /\ q < IF job.kind = "heap" THEN Cur ELSE HeapPage + HEAP_PAGES
AcpiDone(q) == AcpiPage <= q /\ q < IF job.kind = "acpi" THEN Cur ELSE AcpiNext
ScreenDone(q) ==
  /\ screen \/ job.kind = "screen"
  /\ ScreenPage <= q /\ q < IF job.kind = "screen" THEN Cur ELSE ScreenPage + ScreenPages
UserDone(q) ==
  /\ job.kind = "user"
  /\ \/ UserPage <= q /\ q < IF pc = "stack" THEN Cur ELSE UserPage + ProgramPages
     \/ pc = "user_mode" /\ StackPage <= q /\ q < Cur
Done(q) == HeapDone(q) \/ AcpiDone(q) \/ ScreenDone(q) \/ UserDone(q)

MemInv ==
  IF pc = "vmm" THEN mem = [f \in {DIR} |-> initial_page_dir]
  ELSE /\ MemOk(mem) /\ DOMAIN mem \subseteq allocated
       /\ \A q \in PageNumber : q \div N \in Windowed => (IsMapped(mem, q * N) <=> Done(q))

WindowsInv == ScreenFits /\ TypeOk /\ JobOk /\ MemInv


-----------------------------------------------------------------------------

LEMMA LeastNumber ==
  ASSUME NEW S \in SUBSET Nat, S # {}
  PROVE  Min(S) \in S /\ \A y \in S : Min(S) <= y
<1>1. PICK x \in S : \A y \in S : ~(<<y, x>> \in OpToRel(<, Nat))
  BY NatLessThanWellFounded, WFMin
<1>2. ASSUME NEW y \in S PROVE x <= y
  <2>1. x \in Nat /\ y \in Nat
    OBVIOUS
  <2>2. y < x => <<y, x>> \in OpToRel(<, Nat)
    BY <2>1 DEF OpToRel
  <2>3. ~(y < x)
    BY <1>1, <2>2
  <2>. QED
    BY <2>1, <2>3
<1>. QED
  BY <1>2 DEF Min

\* Free frames
LEMMA FreeFrames ==
  ASSUME machine \in Machines, NEW taken
  PROVE  /\ Free(taken) \subseteq 1..(machine.total - 1) /\ Free(taken) \subseteq Nat
         /\ IsFiniteSet(Free(taken)) /\ Cardinality(Free(taken)) \in Nat
         /\ Cardinality(Free(taken)) > 0 => Lowest(taken) \in Free(taken)
<1>1. machine.total \in Nat
  BY BootAssumption
<1>2. Free(taken) \subseteq 1..(machine.total - 1) /\ Free(taken) \subseteq Nat
  BY <1>1 DEF Free
<1>3. IsFiniteSet(1..(machine.total - 1))
  BY <1>1, FS_Interval
<1>4. IsFiniteSet(Free(taken)) /\ Cardinality(Free(taken)) \in Nat
  BY <1>2, <1>3, FS_Subset, FS_CardinalityType
<1>5. Cardinality(Free(taken)) > 0 => Free(taken) # {}
  BY FS_EmptySet
<1>6. Cardinality(Free(taken)) > 0 => Lowest(taken) \in Free(taken)
  BY <1>2, <1>5, LeastNumber DEF Lowest
<1>. QED
  BY <1>2, <1>4, <1>6

\* What a machine's description is made of
LEMMA MachineTypes ==
  ASSUME machine \in Machines
  PROVE  /\ machine.framebuffer[1] \in Nat /\ machine.framebuffer[2] \in Nat /\ MapSize \in Nat
         /\ machine.init \in Nat /\ machine.root \in Nat
         /\ ScreenPages \in Nat /\ ProgramPages \in Nat
         /\ \A p \in DOMAIN machine.rom : machine.rom[p] \in Nat
<1>1. /\ machine.framebuffer[1] \in Nat /\ machine.framebuffer[2] \in Nat
      /\ machine.init \in Nat /\ machine.root \in Nat
      /\ \A p \in DOMAIN machine.rom : machine.rom[p] \in Nat
  BY BootAssumption
<1>2. machine.framebuffer[1] % N \in Nat
  BY <1>1, NType
<1>3. MapSize \in Nat
  BY <1>1, <1>2 DEF MapSize
<1>. QED
  BY <1>1, <1>3, PagesOf DEF ScreenPages, ProgramPages

\* The program ends below the stack, and the screen below the directory's mapping.
LEMMA Fits ==
  ASSUME machine \in Machines
  PROVE  /\ InitFits => UserPage + ProgramPages <= StackPage
         /\ ScreenFits /\ FramebufferOk => ScreenPage + ScreenPages <= Top
         /\ FramebufferOk => ScreenPages <= Pages(virtual_size) /\ ScreenPages > 0
         /\ machine.init > 0 => ProgramPages > 0
<1>1. InitFits => UserPage + ProgramPages <= StackPage
  <2> DEFINE k == StackPage - UserPage
  <2>1. k \in Nat /\ StackPage \in Nat /\ UserPage \in Nat
    BY Layout
  <2>2. k * N = USER_STACK_PAGE - USER_PROGRAM_BASE
    <3>1. USER_STACK_PAGE = StackPage * N /\ USER_PROGRAM_BASE = UserPage * N
      BY Layout
    <3>. QED
      BY <2>1, <3>1, NType
  <2>3. InitFits => machine.init <= k * N
    BY <2>2 DEF InitFits
  <2>4. machine.init \in Nat
    BY MachineTypes
  <2>5. InitFits => ProgramPages <= k
    BY <2>1, <2>3, <2>4, PagesHold DEF ProgramPages
  <2>. QED
    BY <2>1, <2>5, MachineTypes
<1>2. ScreenFits /\ FramebufferOk => ScreenPage + ScreenPages <= Top
  <2> DEFINE k == Top - ScreenPage
  <2>1. k \in Nat /\ Top \in Nat /\ ScreenPage \in Nat
    BY Layout, Bounds
  <2>2. k * N = (N - 1) * N * N - virtual_base
    <3>1. virtual_base = ScreenPage * N /\ (N - 1) * N * N = Top * N
      BY Layout DEF Top
    <3>. QED
      BY <2>1, <3>1, NType
  <2>3. ScreenFits /\ FramebufferOk => MapSize <= (N - 1) * N * N - virtual_base
    <3>1. virtual_base \in Nat /\ Top * N \in Nat /\ (N - 1) * N * N = Top * N
      BY LayoutAssumption, Bounds, Scale DEF Top
    <3> DEFINE c == (N - 1) * N * N
    <3>2. ScreenFits /\ FramebufferOk => virtual_base + MapSize <= c
      BY DEF ScreenFits
    <3>. HIDE DEF c
    <3>3. virtual_base \in Nat /\ c \in Nat
      BY <3>1 DEF c
    <3>4. ScreenFits /\ FramebufferOk => MapSize <= c - virtual_base
      BY <3>2, <3>3, MachineTypes
    <3>. QED
      BY <3>4 DEF c
  <2>4. ScreenFits /\ FramebufferOk => ScreenPages <= k
    BY <2>1, <2>2, <2>3, MachineTypes, PagesHold DEF ScreenPages
  <2>. QED
    BY <2>1, <2>4, MachineTypes
<1>3. FramebufferOk => ScreenPages <= Pages(virtual_size) /\ ScreenPages > 0
  <2>1. virtual_size \in Nat /\ Pages(virtual_size) \in Nat /\ virtual_size <= Pages(virtual_size) * N
        /\ Pages(virtual_size) * N \in Nat
    BY LayoutAssumption, PagesOf, Scale
  <2>2. FramebufferOk => MapSize <= Pages(virtual_size) * N /\ MapSize # 0
    <3>1. FramebufferOk => MapSize <= virtual_size
      BY DEF FramebufferOk
    <3>2. FramebufferOk => MapSize # 0
      <4>1. machine.framebuffer[1] % N \in Nat
        BY MachineTypes, NType
      <4>. QED
        BY <4>1, MachineTypes DEF FramebufferOk, MapSize
    <3>. QED
      BY <2>1, <3>1, <3>2, MachineTypes
  <2>. QED
    BY <2>1, <2>2, MachineTypes, PagesHold, PagesOf DEF ScreenPages
<1>4. machine.init > 0 => ProgramPages > 0
  BY MachineTypes, PagesOf DEF ProgramPages
<1>. QED
  BY <1>1, <1>2, <1>3, <1>4

-----------------------------------------------------------------------------
(* The invariant of the windows.                                            *)

Bootstrapped == [f \in {DIR} |-> initial_page_dir]

LEMMA DirectoryMade ==
  ASSUME NEW m, m = Recursive(Bootstrapped)
  PROVE  MemOk(m) /\ DOMAIN m = {DIR} /\ TablesOf(m) = {}
<1> DEFINE t == m[DIR]
           b == initial_page_dir
<1>1. DOMAIN m = {DIR} /\ t = [b EXCEPT ![0] = Absent, ![N - 1] = Small(DIR, FALSE)]
  <2>1. Bootstrapped[DIR] = b /\ DOMAIN Bootstrapped \cup {DIR} = {DIR}
    BY DEF Bootstrapped
  <2>. QED
    BY <2>1 DEF Recursive, Put
<1>2. b \in [Index -> Entry]
  <2>1. \A i \in Kernels : (i - KERNEL_DIR) * N \in Nat
    <3>1. \A i \in Kernels : i - KERNEL_DIR \in Nat
      BY PagingAssumption DEF Kernels, Index
    <3>. QED
      BY <3>1, Scale
  <2>2. \A f \in Nat : Large(f) \in Entry
    BY DEF Large, Entry
  <2>3. Absent \in Entry /\ 0 \in Nat
    BY DEF Absent, Entry
  <2>4. \A i \in Index : KERNEL_DIR <= i /\ i < KERNEL_DIR + LARGE => i \in Kernels
    BY PagingAssumption DEF Kernels, Index
  <2>5. ASSUME NEW i \in Index
        PROVE  (IF i = 0 THEN Large(0)
                ELSE IF KERNEL_DIR <= i /\ i < KERNEL_DIR + LARGE THEN Large((i - KERNEL_DIR) * N)
                ELSE Absent) \in Entry
    BY <2>1, <2>2, <2>3, <2>4
  <2>. QED
    BY <2>5 DEF initial_page_dir
<1>3. /\ \A d \in Kernels : b[d] = Large((d - KERNEL_DIR) * N)
      /\ \A d \in Windowed : b[d] = Absent
  <2>1. \A d \in Kernels : d \in Index /\ d # 0 /\ KERNEL_DIR <= d /\ d < KERNEL_DIR + LARGE
    BY Indices, PagingAssumption DEF Kernels, Index
  <2>2. \A d \in Windowed : d \in Index /\ d # 0 /\ ~(KERNEL_DIR <= d /\ d < KERNEL_DIR + LARGE)
    BY PagingAssumption DEF Windowed, Kernels, Index
  <2>3. \A d \in Kernels : b[d] = Large((d - KERNEL_DIR) * N)
    BY <2>1 DEF initial_page_dir
  <2>4. \A d \in Windowed : b[d] = Absent
    BY <2>2 DEF initial_page_dir
  <2>. QED
    BY <2>3, <2>4
<1>4. Small(DIR, FALSE) \in Entry /\ Absent \in Entry /\ ~Absent.present /\ ~Absent.large
  BY PagingAssumption DEF Small, Absent, Entry
<1>. HIDE DEF b
<1>5. t \in [Index -> Entry] /\ t[N - 1] = Small(DIR, FALSE) /\ t[0] = Absent
      /\ \A d \in Index : d # 0 /\ d # N - 1 => t[d] = b[d]
  BY <1>1, <1>2, <1>4, Indices
<1>. HIDE DEF t
<1>6. /\ \A d \in Kernels : t[d] = Large((d - KERNEL_DIR) * N)
      /\ \A d \in Windowed : t[d] = Absent
  <2>1. \A d \in Kernels \cup Windowed : d \in Index /\ d # 0 /\ d # N - 1
    BY Indices DEF Windowed
  <2>. QED
    BY <1>3, <1>5, <2>1
<1>7. TablesOf(m) = {}
  BY <1>4, <1>6 DEF TablesOf, t
<1>8. MemOk(m)
  <2>1. DIR \in DOMAIN m /\ \A f \in DOMAIN m : m[f] \in [Index -> Entry]
    BY <1>1, <1>5 DEF t
  <2>2. /\ m[DIR][N - 1] = Small(DIR, FALSE) /\ m[DIR][0] = Absent
        /\ \A d \in Kernels : m[DIR][d] = Large((d - KERNEL_DIR) * N)
        /\ \A d \in Windowed : ~m[DIR][d].large
    BY <1>4, <1>5, <1>6 DEF t
  <2>. QED
    BY <1>7, <2>1, <2>2 DEF MemOk
<1>. QED
  BY <1>1, <1>7, <1>8

LEMMA WindowsInit ==
  ASSUME Init, ScreenFits
  PROVE  WindowsInv
<1>. USE DEF Init
<1>1. TypeOk
  <2>1. 0 = (0 \div N) * N /\ job = NoJob /\ job.virt = 0
    <3>1. 0 * N = 0 /\ 0 \in Nat
      BY NType
    <3>2. (0 * N) \div N = 0
      BY PageStart
    <3>. QED
      BY <3>1, <3>2 DEF NoJob
  <2>2. job \in [left : Nat, virt : Nat, phys : Nat, at : Nat, kind : {"none", "heap", "acpi", "screen", "user"}]
        /\ job.virt = Cur * N
    BY <2>1 DEF NoJob, Cur
  <2>3. AcpiNext = AcpiPage /\ acpi_mapping_next \in Nat /\ acpi_mapping_next = AcpiNext * N
    BY Layout, LayoutAssumption DEF AcpiNext, AcpiPage
  <2>4. root = None /\ fadt = None /\ dsdt = None /\ entry \in Nat \X Nat /\ screen \in BOOLEAN
        /\ machine \in Machines /\ machine.used \subseteq allocated
    OBVIOUS
  <2>5. AcpiPage <= AcpiNext /\ AcpiNext <= AcpiEnd
    BY <2>3, Layout
  <2>. QED
    BY <2>2, <2>3, <2>4, <2>5 DEF TypeOk
<1>2. JobOk
  <2>1. job.left = 0 /\ job.kind = "none"
    BY DEF NoJob
  <2>2. AcpiNext = AcpiPage
    BY DEF AcpiNext, AcpiPage
  <2>. QED
    BY <2>1, <2>2 DEF JobOk
<1>3. MemInv
  BY DEF MemInv
<1>. QED
  BY <1>1, <1>2, <1>3 DEF WindowsInv

\* Nothing of a window is mapped before the heap.
LEMMA NothingDone ==
  ASSUME TypeOk, JobOk, job.kind = "none", NEW q \in Nat
  PROVE  ~Done(q)
<1>1. AcpiNext = AcpiPage /\ ~screen /\ AcpiPage \in Nat
  BY Layout DEF JobOk
<1>. QED
  BY <1>1 DEF Done, HeapDone, AcpiDone, ScreenDone, UserDone

LEMMA WindowsVmm ==
  ASSUME WindowsInv, VmmInit
  PROVE  WindowsInv'
<1>. USE DEF VmmInit, Running
<1>1. mem' = Recursive(Bootstrapped)
  BY DEF WindowsInv, MemInv, Bootstrapped
<1>2. ScreenFits'
  BY DEF WindowsInv, ScreenFits, FramebufferOk, MapSize
<1>3. TypeOk'
  BY DEF WindowsInv, TypeOk, Cur, AcpiNext, tables
<1>4. job.kind = "none" /\ job'.kind = "none"
  BY DEF WindowsInv, JobOk, TypeOk, AcpiSteps
<1>5. JobOk'
  BY <1>4 DEF WindowsInv, JobOk, AcpiNext
<1>6. MemInv'
  <2>1. MemOk(mem') /\ DOMAIN mem' = {DIR} /\ TablesOf(mem') = {}
    BY <1>1, DirectoryMade
  <2>2. DIR \in allocated'
    BY BootAssumption DEF WindowsInv, TypeOk
  <2>3. ASSUME NEW q \in PageNumber, q \div N \in Windowed
        PROVE  (IsMapped(mem', q * N) <=> Done(q)')
    <3>1. ~IsMapped(mem', q * N)
      BY <2>1, <2>3, PageView
    <3>2. ~Done(q)'
      <4>1. q \in Nat
        BY Regions
      <4>2. ~Done(q)
        BY <1>4, <4>1, NothingDone DEF WindowsInv
      <4>. QED
        BY <1>4, <4>2 DEF Done, HeapDone, AcpiDone, ScreenDone, UserDone, Cur, AcpiNext, ScreenPages, MapSize, ProgramPages
    <3>. QED
      BY <3>1, <3>2
  <2>. QED
    BY <2>1, <2>2, <2>3 DEF MemInv
<1>. QED
  BY <1>2, <1>3, <1>5, <1>6 DEF WindowsInv

LEMMA WordType ==
  ASSUME machine \in Machines, NEW v
  PROVE  Word(v) \in Nat
<1> DEFINE p == FrameAt(mem, v) * N + (v % N)
<1>1. Word(v) = IF IsMapped(mem, v) /\ p \in DOMAIN machine.rom THEN machine.rom[p] ELSE 0
  BY DEF Word
<1>. HIDE DEF p
<1>. QED
  BY <1>1, MachineTypes

LEMMA JobStarted ==
  ASSUME NEW kind, NEW virt \in Nat, NEW phys \in Nat, NEW words \in Nat, NEW next,
         Map(kind, virt, phys, words, next)
  PROVE  /\ job' \in [left : Nat, virt : Nat, phys : Nat, at : Nat, kind : {kind}]
         /\ job'.left = Pages(words) /\ job'.virt = virt /\ Cur' = virt \div N
         /\ job'.phys = phys \div N /\ job'.at = virt + (phys % N) /\ job'.kind = kind /\ pc' = next
<1>1. Pages(words) \in Nat /\ phys \div N \in Nat /\ phys % N \in Nat
  BY PagesOf, WholeAndRest, NType
<1>2. virt + (phys % N) \in Nat
  BY <1>1
<1>. QED
  BY <1>1, <1>2 DEF Map, Cur

\* acpi_map_range begins where the window of mappings is free, and stays in it.
LEMMA RangeStarted ==
  ASSUME TypeOk, NEW phys \in Nat, NEW length \in Nat, NEW next, MapRange(phys, length, next)
  PROVE  /\ job' \in [left : Nat, virt : Nat, phys : Nat, at : Nat, kind : {"acpi"}]
         /\ job'.left = Pages((phys % N) + length) /\ job'.virt = acpi_mapping_next /\ Cur' = AcpiNext
         /\ job'.phys = phys \div N /\ job'.at = AcpiNext * N + (phys % N) /\ pc' = next
         /\ job'.left > 0 /\ AcpiNext + job'.left <= AcpiEnd /\ AcpiNext \in Nat /\ length > 0
<1> DEFINE w == (phys % N) + length
           n == Pages(w)
<1>1. phys % N \in Nat /\ w \in Nat /\ length > 0 /\ w > 0
  BY NType DEF MapRange, Mappable
<1>2. acpi_mapping_next \in Nat /\ acpi_mapping_next = AcpiNext * N
  BY DEF TypeOk
<1>3. /\ job' \in [left : Nat, virt : Nat, phys : Nat, at : Nat, kind : {"acpi"}]
      /\ job'.left = Pages(w) /\ job'.virt = acpi_mapping_next /\ Cur' = AcpiNext
      /\ job'.phys = phys \div N /\ job'.at = acpi_mapping_next + (phys % N) /\ pc' = next
  <2>1. Map("acpi", acpi_mapping_next, phys, w, next)
    BY DEF MapRange
  <2>. HIDE DEF w
  <2>. QED
    BY <1>1, <1>2, <2>1, JobStarted DEF AcpiNext
<1>4. n \in Nat /\ n > 0
  BY <1>1, PagesOf
<1>5. AcpiNext \in Nat
  BY <1>2, NType, WholeAndRest DEF AcpiNext
<1>6. AcpiNext + n <= AcpiEnd
  <2>1. acpi_mapping_next + n * N <= ACPI_MAPPING_LIMIT
    BY DEF MapRange, Mappable
  <2>2. (AcpiNext + n) * N = AcpiNext * N + n * N
    BY <1>4, <1>5, NType
  <2>3. AcpiNext + n \in Nat /\ AcpiEnd \in Nat /\ ACPI_MAPPING_LIMIT = AcpiEnd * N
    BY <1>4, <1>5, Layout
  <2>4. AcpiNext + n <= AcpiEnd <=> (AcpiNext + n) * N <= AcpiEnd * N
    BY <2>3, Scale
  <2>. QED
    BY <1>2, <2>1, <2>2, <2>3, <2>4
<1>. QED
  BY <1>1, <1>2, <1>3, <1>4, <1>5, <1>6

\* What a step of acpi_init, find_fadt and parse_dsdt does besides reading
Ranged ==
  {"root_header", "root_table", "entry_header", "fadt", "dsdt_header", "dsdt"}
Pair == {None} \cup (Nat \X Nat)

LEMMA FindTablesSteps ==
  ASSUME TypeOk, FindTables
  PROVE  /\ UNCHANGED <<machine, memory, screen>> /\ job.left = 0 /\ pc \in {"root", "entry"} \cup Ranged
         /\ root' \in Pair /\ fadt' \in Pair /\ dsdt' \in Pair /\ entry' \in Nat \X Nat
         /\ \/ UNCHANGED <<job, pc>>
            \/ job' = job /\ pc # "root" /\ pc' \in {"entry", "screen"}
            \/ pc' \in Ranged /\ \E phys, length \in Nat : MapRange(phys, length, pc')
<1>. DEFINE Kept1 == root' \in Pair /\ fadt' \in Pair /\ dsdt' \in Pair /\ entry' \in Nat \X Nat
            Asks == pc' \in Ranged /\ \E phys, length \in Nat : MapRange(phys, length, pc')
            Same1 == UNCHANGED <<machine, memory, screen>>
<1>1. machine \in Machines /\ root \in Pair /\ fadt \in Pair /\ dsdt \in Pair /\ entry \in Nat \X Nat /\ job.at \in Nat
  BY DEF TypeOk, Pair
<1>2. \A v : Word(v) \in Nat
  BY <1>1, WordType
<1>3. Signature \in Nat /\ Length \in Nat /\ HEADER \in Nat /\ machine.root \in Nat
  BY <1>1, <1>2, MachineTypes, LayoutAssumption DEF Signature, Length
<1>4. ASSUME NEW why, Panic(why)
      PROVE  Same1 /\ Kept1 /\ UNCHANGED <<job, pc>>
  BY <1>1, <1>4 DEF Panic, tables
<1>5. ASSUME NEW phys \in Nat, NEW length \in Nat, NEW next \in Ranged, MapOrPanic(phys, length, next)
      PROVE  Same1 /\ Kept1 /\ (Asks \/ UNCHANGED <<job, pc>>)
  <2>1. CASE Mappable(phys, length)
    <3>1. MapRange(phys, length, next) /\ Acpi /\ UNCHANGED <<tables, entry>>
      BY <1>5, <2>1 DEF MapOrPanic
    <3>2. pc' = next
      BY <3>1 DEF MapRange, Map
    <3>3. Asks
      BY <3>1, <3>2
    <3>. QED
      BY <1>1, <3>1, <3>3 DEF Acpi, tables
  <2>2. CASE ~Mappable(phys, length)
    BY <1>4, <1>5, <2>2 DEF MapOrPanic
  <2>. QED
    BY <2>1, <2>2
<1>6. ASSUME SkipEntry
      PROVE  Same1 /\ Kept1 /\ job' = job /\ pc' = "entry"
  BY <1>1, <1>6 DEF SkipEntry, NextEntry, Acpi, tables
<1>7. CASE RootHeader
  BY <1>3, <1>4, <1>5, <1>7 DEF RootHeader, Running, Ranged
<1>8. CASE RootTable
  BY <1>3, <1>4, <1>5, <1>8 DEF RootTable, Running, Ranged
<1>9. CASE FindFadt
  BY <1>1, <1>3, <1>4, <1>9 DEF FindFadt, Running, Ranged, Acpi, Pair
<1>10. CASE EntryHeader
  <2> DEFINE phys == Word(root[1] + HEADER + entry[1] * PointerSize)
  <2>1. phys \in Nat
    BY <1>2
  <2>. HIDE DEF phys
  <2>2. CASE phys < FRAMES * N /\ Mappable(phys, HEADER)
    <3>1. /\ MapRange(phys, HEADER, "entry_header") /\ entry' = <<entry[1], phys>>
          /\ Acpi /\ UNCHANGED tables
      BY <1>10, <2>2 DEF EntryHeader, phys
    <3>2. pc' = "entry_header"
      BY <3>1 DEF MapRange, Map
    <3>3. Asks
      BY <1>3, <2>1, <3>1, <3>2 DEF Ranged
    <3>. QED
      BY <1>1, <1>10, <2>1, <3>1, <3>3 DEF Acpi, tables, EntryHeader, Running
  <2>3. CASE ~(phys < FRAMES * N /\ Mappable(phys, HEADER))
    <3>1. SkipEntry
      BY <1>10, <2>3 DEF EntryHeader, phys
    <3>. QED
      BY <1>6, <1>10, <3>1 DEF EntryHeader, Running
  <2>. QED
    BY <2>2, <2>3
<1>11. CASE EntryTable
  <2>1. CASE IsFadt /\ Mappable(entry[2], Length)
    <3>1. MapRange(entry[2], Length, "fadt") /\ Acpi /\ UNCHANGED <<tables, entry>>
      BY <1>11, <2>1 DEF EntryTable
    <3>2. pc' = "fadt"
      BY <3>1 DEF MapRange, Map
    <3>3. Asks
      BY <1>1, <1>3, <3>1, <3>2 DEF Ranged
    <3>. QED
      BY <1>1, <1>11, <3>1, <3>3 DEF Acpi, tables, EntryTable, Running, Ranged
  <2>2. CASE ~(IsFadt /\ Mappable(entry[2], Length))
    BY <1>6, <1>11, <2>2 DEF EntryTable, Running, Ranged
  <2>. QED
    BY <2>1, <2>2
<1>12. CASE NoFadt
  BY <1>4, <1>12 DEF NoFadt, Running
<1>13. CASE DsdtHeader
  <2> DEFINE phys == Word(job.at + HEADER)
  <2>1. phys \in Nat
    BY <1>2
  <2>. HIDE DEF phys
  <2>2. CASE Length < FADT \/ ~Mappable(phys, HEADER)
    BY <1>4, <1>13, <2>2 DEF DsdtHeader, phys, Running, Ranged
  <2>3. CASE ~(Length < FADT \/ ~Mappable(phys, HEADER))
    <3>1. MapRange(phys, HEADER, "dsdt_header") /\ fadt' = <<job.at, entry[2]>>
          /\ Acpi /\ UNCHANGED <<root, dsdt, entry>>
      BY <1>13, <2>3 DEF DsdtHeader, phys
    <3>2. pc' = "dsdt_header"
      BY <3>1 DEF MapRange, Map
    <3>3. Asks
      BY <1>3, <2>1, <3>1, <3>2 DEF Ranged
    <3>. QED
      BY <1>1, <1>13, <3>1, <3>3 DEF Acpi, DsdtHeader, Running, Pair, Ranged
  <2>. QED
    BY <2>2, <2>3
<1>14. CASE DsdtTable
  BY <1>2, <1>3, <1>4, <1>5, <1>14 DEF DsdtTable, Running, Ranged
<1>15. CASE DsdtFound
  <2>1. Word(fadt[1] + HEADER) \in Nat
    BY <1>2
  <2>. QED
    BY <1>1, <1>4, <1>15, <2>1 DEF DsdtFound, Running, Ranged, Acpi, Pair
<1>. QED
  BY <1>7, <1>8, <1>9, <1>10, <1>11, <1>12, <1>13, <1>14, <1>15 DEF FindTables

LEMMA MachineKept ==
  ASSUME machine' = machine
  PROVE  /\ ScreenPages' = ScreenPages /\ ProgramPages' = ProgramPages
         /\ ScreenFits' <=> ScreenFits
         /\ FramebufferOk' <=> FramebufferOk
         /\ InitFits' <=> InitFits
BY DEF ScreenPages, ProgramPages, MapSize, ScreenFits, FramebufferOk, InitFits

LEMMA MemKept ==
  ASSUME WindowsInv, pc # "vmm", pc' # "vmm", mem' = mem, allocated \subseteq allocated',
         \A q \in PageNumber : (Done(q)' <=> Done(q))
  PROVE  MemInv'
BY DEF WindowsInv, MemInv

\* Numbers, for the arithmetic of windows
LEMMA Numbers ==
  ASSUME TypeOk
  PROVE  /\ Cur \in Nat /\ AcpiNext \in Nat /\ job.left \in Nat /\ ScreenPages \in Nat /\ ProgramPages \in Nat
         /\ UserPage \in Nat /\ StackPage \in Nat /\ AcpiPage \in Nat /\ AcpiEnd \in Nat /\ HeapPage \in Nat
         /\ ScreenPage \in Nat /\ HEAP_PAGES \in Nat /\ HEAP_PAGES > 0
<1>1. Cur \in Nat /\ AcpiNext \in Nat
  BY NType, WholeAndRest DEF TypeOk, Cur, AcpiNext
<1>2. job.left \in Nat
  BY DEF TypeOk
<1>. QED
  BY <1>1, <1>2, MachineTypes, Layout, BootAssumption DEF TypeOk

LEMMA WindowsFind ==
  ASSUME WindowsInv, FindTables
  PROVE  WindowsInv'
<1>1. TypeOk /\ JobOk
  BY DEF WindowsInv
<1>2. /\ UNCHANGED <<machine, mem, allocated, acpi_mapping_next, screen>> /\ job.left = 0
      /\ pc \in {"root", "entry"} \cup Ranged
      /\ root' \in Pair /\ fadt' \in Pair /\ dsdt' \in Pair /\ entry' \in Nat \X Nat
      /\ \/ UNCHANGED <<job, pc>>
         \/ job' = job /\ pc # "root" /\ pc' \in {"entry", "screen"}
         \/ pc' \in Ranged /\ \E phys, length \in Nat : MapRange(phys, length, pc')
  BY <1>1, FindTablesSteps DEF memory
<1>3. AcpiNext' = AcpiNext
  BY <1>2 DEF AcpiNext
<1>4. ScreenFits'
  BY <1>2, MachineKept DEF WindowsInv
<1>5. /\ job.kind = "heap" => pc = "root" /\ Cur = HeapPage + HEAP_PAGES
      /\ job.kind = "acpi" => Cur = AcpiNext /\ pc # "root"
      /\ job.kind \in {"heap", "acpi"} /\ ~screen
  BY <1>1, <1>2, Numbers DEF JobOk, TypeOk, Ranged, AcpiSteps
<1>6. CASE UNCHANGED <<job, pc>> \/ (job' = job /\ pc # "root" /\ pc' \in {"entry", "screen"})
  <2>1. TypeOk'
    BY <1>1, <1>2, <1>6 DEF TypeOk, Cur, AcpiNext, Pair
  <2>2. Cur' = Cur
    BY <1>6 DEF Cur
  <2>3. JobOk'
    <3>1. CASE job.kind = "heap"
      <4>1. pc = "root" /\ pc' = pc
        BY <1>5, <1>6, <3>1
      <4>. QED
        BY <1>1, <1>2, <1>3, <1>6, <2>2, <3>1, <4>1 DEF JobOk
    <3>2. CASE job.kind = "acpi"
      <4>1. pc' \in AcpiSteps
        BY <1>1, <1>2, <3>2 DEF JobOk, AcpiSteps, Ranged
      <4>. QED
        BY <1>1, <1>2, <1>3, <1>6, <2>2, <3>2, <4>1 DEF JobOk
    <3>. QED
      BY <1>5, <3>1, <3>2
  <2>4. \A q \in PageNumber : (Done(q)' <=> Done(q))
    BY <1>2, <1>3, <1>5, <1>6, <2>2 DEF Done, HeapDone, AcpiDone, ScreenDone, UserDone
  <2>5. MemInv'
    BY <1>2, <1>6, <2>4, MemKept DEF Ranged
  <2>. QED
    BY <1>4, <2>1, <2>3, <2>5 DEF WindowsInv
<1>7. CASE pc' \in Ranged /\ \E phys, length \in Nat : MapRange(phys, length, pc')
  <2>1. PICK phys \in Nat, length \in Nat : MapRange(phys, length, pc')
    BY <1>7
  <2>2. /\ job' \in [left : Nat, virt : Nat, phys : Nat, at : Nat, kind : {"acpi"}]
        /\ job'.virt = acpi_mapping_next /\ Cur' = AcpiNext /\ job'.left > 0 /\ AcpiNext + job'.left <= AcpiEnd
        /\ AcpiNext \in Nat
    BY <1>1, <2>1, RangeStarted
  <2>3. TypeOk'
    <3>1. job'.virt = Cur' * N
      BY <1>1, <2>2 DEF TypeOk
    <3>. QED
      BY <1>1, <1>2, <1>3, <2>2, <3>1 DEF TypeOk, Pair
  <2>4. JobOk'
    <3>1. AcpiPage <= AcpiNext
      BY <1>1 DEF TypeOk
    <3>2. job'.kind = "acpi" /\ pc' \in AcpiSteps /\ pc' \notin {"vmm", "heap", "entry", "screen", "init", "shell"}
      BY <1>7, <2>2 DEF Ranged, AcpiSteps
    <3>. QED
      BY <1>2, <1>5, <2>2, <3>1, <3>2 DEF JobOk
  <2>5. \A q \in PageNumber : (Done(q)' <=> Done(q))
    <3>1. job'.kind = "acpi"
      BY <2>2
    <3>2. \A q : AcpiDone(q)' <=> AcpiDone(q)
      BY <1>3, <1>5, <2>2, <3>1 DEF AcpiDone
    <3>3. \A q : HeapDone(q)' <=> HeapDone(q)
      BY <1>5, <3>1 DEF HeapDone
    <3>4. \A q : (ScreenDone(q)' <=> ScreenDone(q)) /\ (UserDone(q)' <=> UserDone(q))
      BY <1>2, <1>5, <3>1 DEF ScreenDone, UserDone
    <3>. QED
      BY <3>2, <3>3, <3>4 DEF Done
  <2>6. MemInv'
    BY <1>2, <1>7, <2>5, MemKept DEF Ranged
  <2>. QED
    BY <1>4, <2>3, <2>4, <2>6 DEF WindowsInv
<1>. QED
  BY <1>2, <1>6, <1>7

LEMMA WindowsHeap ==
  ASSUME WindowsInv, MapHeap
  PROVE  WindowsInv'
<1>1. TypeOk /\ JobOk /\ pc = "heap" /\ job.left = 0 /\ Runs # {}
  BY DEF WindowsInv, MapHeap, Running
<1>2. /\ UNCHANGED <<machine, mem, acpi_mapping_next, screen, root, fadt, dsdt, entry>>
      /\ allocated \subseteq allocated'
      /\ Map("heap", KERNEL_HEAP_VIRTUAL_START, Min(Runs) * N, HEAP_PAGES * N, "root")
  BY DEF MapHeap, tables
<1>3. Min(Runs) \in Nat
  <2>1. Runs \subseteq Nat
    BY <1>1, FreeFrames DEF Runs, TypeOk
  <2>. QED
    BY <1>1, <2>1, LeastNumber
<1>4. /\ job' \in [left : Nat, virt : Nat, phys : Nat, at : Nat, kind : {"heap"}]
      /\ job'.left = HEAP_PAGES /\ job'.virt = KERNEL_HEAP_VIRTUAL_START /\ Cur' = HeapPage /\ pc' = "root"
  <2> DEFINE words == HEAP_PAGES * N
             phys == Min(Runs) * N
             virt == KERNEL_HEAP_VIRTUAL_START
  <2>1. words \in Nat /\ phys \in Nat /\ Pages(words) = HEAP_PAGES /\ virt \in Nat
    BY <1>3, BootAssumption, LayoutAssumption, Scale, PagesHold
  <2>. HIDE DEF words, phys, virt
  <2>2. Map("heap", virt, phys, words, "root")
    BY <1>2 DEF words, phys, virt
  <2>. QED
    BY <2>1, <2>2, JobStarted DEF virt, HeapPage
<1>5. AcpiNext' = AcpiNext /\ job.kind = "none" /\ AcpiNext = AcpiPage /\ ~screen
  BY <1>1, <1>2 DEF AcpiNext, JobOk, TypeOk, AcpiSteps
<1>6. TypeOk'
  <2>1. job'.virt = Cur' * N
    BY <1>4, Layout
  <2>. QED
    BY <1>1, <1>2, <1>4, <1>5, <2>1 DEF TypeOk
<1>7. JobOk'
  BY <1>2, <1>4, <1>5, Numbers, <1>1 DEF JobOk
<1>8. \A q \in PageNumber : (Done(q)' <=> Done(q))
  <2>1. ASSUME NEW q \in PageNumber PROVE ~Done(q)'
    <3>1. q \in Nat
      BY Regions
    <3>2. ~HeapDone(q)' /\ ~AcpiDone(q)'
      BY <1>1, <1>4, <1>5, <3>1, Numbers DEF HeapDone, AcpiDone
    <3>3. ~ScreenDone(q)' /\ ~UserDone(q)'
      BY <1>2, <1>4, <1>5 DEF ScreenDone, UserDone
    <3>. QED
      BY <3>2, <3>3 DEF Done
  <2>2. ASSUME NEW q \in PageNumber PROVE ~Done(q)
    BY <1>1, <1>5, Regions, NothingDone
  <2>. QED
    BY <2>1, <2>2
<1>9. MemInv'
  BY <1>1, <1>2, <1>4, <1>8, MemKept
<1>. QED
  BY <1>2, <1>6, <1>7, <1>9, MachineKept DEF WindowsInv

\* The kind of the mapping, by the step
LEMMA Kinds ==
  ASSUME TypeOk, JobOk
  PROVE  /\ pc \in {"vmm", "heap"} => job.kind = "none"
         /\ pc = "screen" => job.kind = "acpi"
         /\ pc = "screen_mapped" => job.kind = "screen"
         /\ pc \in {"init", "shell"} => job.kind \in {"acpi", "screen"} /\ job.left = 0
         /\ pc \in {"stack", "user_mode"} => job.kind = "user"
BY DEF TypeOk, JobOk, AcpiSteps

LEMMA WindowsScreen ==
  ASSUME WindowsInv, MapFramebuffer
  PROVE  WindowsInv'
<1>1. TypeOk /\ JobOk /\ pc = "screen" /\ job.left = 0 /\ FramebufferOk
  BY DEF WindowsInv, MapFramebuffer, Running
<1>2. /\ UNCHANGED <<machine, mem, allocated, acpi_mapping_next, screen, root, fadt, dsdt, entry>>
      /\ Map("screen", virtual_base, machine.framebuffer[1], MapSize, "screen_mapped")
  BY DEF MapFramebuffer, memory, tables
<1>3. /\ job' \in [left : Nat, virt : Nat, phys : Nat, at : Nat, kind : {"screen"}]
      /\ job'.left = ScreenPages /\ job'.virt = virtual_base /\ Cur' = ScreenPage /\ pc' = "screen_mapped"
  <2>1. MapSize \in Nat /\ machine.framebuffer[1] \in Nat /\ virtual_base \in Nat
    BY <1>1, MachineTypes, LayoutAssumption DEF TypeOk
  <2>. QED
    BY <1>2, <2>1, JobStarted DEF ScreenPage, ScreenPages
<1>4. AcpiNext' = AcpiNext /\ job.kind = "acpi" /\ AcpiNext = Cur /\ ~screen
  BY <1>1, <1>2, Kinds DEF AcpiNext, JobOk
<1>5. TypeOk'
  <2>1. job'.virt = Cur' * N
    BY <1>3, Layout
  <2>. QED
    BY <1>1, <1>2, <1>3, <1>4, <2>1 DEF TypeOk
<1>6. JobOk'
  BY <1>1, <1>2, <1>3, <1>4, Numbers, MachineKept DEF JobOk
<1>7. \A q \in PageNumber : (Done(q)' <=> Done(q))
  <2>1. ASSUME NEW q \in PageNumber
        PROVE  /\ HeapDone(q)' <=> HeapDone(q)
               /\ AcpiDone(q)' <=> AcpiDone(q)
               /\ ScreenDone(q)' <=> ScreenDone(q)
               /\ UserDone(q)' <=> UserDone(q)
    <3>1. q \in Nat
      BY Regions
    <3>2. (HeapDone(q)' <=> HeapDone(q)) /\ (AcpiDone(q)' <=> AcpiDone(q)) /\ (UserDone(q)' <=> UserDone(q))
      BY <1>3, <1>4 DEF HeapDone, AcpiDone, UserDone
    <3>3. ~ScreenDone(q)' /\ ~ScreenDone(q)
      BY <1>1, <1>3, <1>4, <3>1, Numbers DEF ScreenDone
    <3>. QED
      BY <3>2, <3>3
  <2>. QED
    BY <2>1 DEF Done
<1>8. MemInv'
  BY <1>1, <1>2, <1>3, <1>7, MemKept
<1>. QED
  BY <1>2, <1>5, <1>6, <1>8, MachineKept DEF WindowsInv

LEMMA WindowsReady ==
  ASSUME WindowsInv, FramebufferReady \/ NoFramebuffer \/ NoProgram
  PROVE  WindowsInv'
<1>1. TypeOk /\ JobOk /\ pc \in {"screen", "screen_mapped", "init"} /\ job.left = 0
  BY DEF WindowsInv, FramebufferReady, NoFramebuffer, NoProgram, Running
<1>2. /\ UNCHANGED <<machine, mem, allocated, acpi_mapping_next, job, root, fadt, dsdt, entry>>
      /\ pc' \in {"init", "shell"}
      /\ \/ pc = "screen_mapped" /\ screen' = TRUE
         \/ pc # "screen_mapped" /\ screen' = screen
  BY DEF FramebufferReady, NoFramebuffer, NoProgram, memory, tables, Running
<1>3. AcpiNext' = AcpiNext /\ Cur' = Cur
  BY <1>2 DEF AcpiNext, Cur
<1>4. job.kind \in {"acpi", "screen"} /\ (pc = "screen_mapped" <=> job.kind = "screen" /\ ~screen)
      /\ (screen => job.kind = "screen")
  BY <1>1, Kinds DEF JobOk
<1>5. TypeOk'
  BY <1>1, <1>2, <1>3 DEF TypeOk
<1>6. JobOk'
  <2>1. CASE job.kind = "acpi"
    BY <1>1, <1>2, <1>3, <1>4, <2>1 DEF JobOk, AcpiSteps
  <2>2. CASE job.kind = "screen"
    BY <1>1, <1>2, <1>3, <1>4, <2>2, MachineKept DEF JobOk
  <2>. QED
    BY <1>4, <2>1, <2>2
<1>7. \A q \in PageNumber : (Done(q)' <=> Done(q))
  <2>1. ASSUME NEW q \in PageNumber
        PROVE  /\ HeapDone(q)' <=> HeapDone(q)
               /\ AcpiDone(q)' <=> AcpiDone(q)
               /\ ScreenDone(q)' <=> ScreenDone(q)
               /\ UserDone(q)' <=> UserDone(q)
    <3>1. (HeapDone(q)' <=> HeapDone(q)) /\ (AcpiDone(q)' <=> AcpiDone(q)) /\ ~UserDone(q)' /\ ~UserDone(q)
      BY <1>2, <1>3, <1>4 DEF HeapDone, AcpiDone, UserDone
    <3>2. ScreenDone(q)' <=> ScreenDone(q)
      BY <1>2, <1>3, <1>4, MachineKept DEF ScreenDone
    <3>. QED
      BY <3>1, <3>2
  <2>. QED
    BY <2>1 DEF Done
<1>8. MemInv'
  BY <1>1, <1>2, <1>7, MemKept
<1>. QED
  BY <1>2, <1>5, <1>6, <1>8, MachineKept DEF WindowsInv

LEMMA WindowsProgram ==
  ASSUME WindowsInv, MapProgram
  PROVE  WindowsInv'
<1>1. TypeOk /\ JobOk /\ pc = "init" /\ job.left = 0 /\ InitFits /\ machine.init > 0
  BY DEF WindowsInv, MapProgram, Running
<1>2. /\ UNCHANGED <<machine, mem, allocated, acpi_mapping_next, screen, root, fadt, dsdt, entry>>
      /\ Map("user", USER_PROGRAM_BASE, 0, machine.init, "stack")
  BY DEF MapProgram, memory, tables
<1>3. /\ job' \in [left : Nat, virt : Nat, phys : Nat, at : Nat, kind : {"user"}]
      /\ job'.left = ProgramPages /\ job'.virt = USER_PROGRAM_BASE /\ Cur' = UserPage /\ pc' = "stack"
  <2>1. machine.init \in Nat /\ 0 \in Nat /\ USER_PROGRAM_BASE \in Nat
    BY <1>1, MachineTypes, LayoutAssumption DEF TypeOk
  <2>. QED
    BY <1>2, <2>1, JobStarted DEF UserPage, ProgramPages
<1>4. AcpiNext' = AcpiNext /\ job.kind \in {"acpi", "screen"}
  BY <1>1, <1>2, Kinds DEF AcpiNext, JobOk
<1>5. /\ job.kind = "acpi" => AcpiNext = Cur /\ ~screen
      /\ job.kind = "screen" => Cur = ScreenPage + ScreenPages /\ screen /\ FramebufferOk
  BY <1>1, Numbers DEF JobOk
<1>6. TypeOk'
  <2>1. job'.virt = Cur' * N
    BY <1>3, Layout
  <2>. QED
    BY <1>1, <1>2, <1>3, <1>4, <2>1 DEF TypeOk
<1>7. JobOk'
  BY <1>1, <1>2, <1>3, <1>4, <1>5, Numbers, MachineKept DEF JobOk
<1>8. \A q \in PageNumber : (Done(q)' <=> Done(q))
  <2>1. ASSUME NEW q \in PageNumber
        PROVE  /\ HeapDone(q)' <=> HeapDone(q)
               /\ AcpiDone(q)' <=> AcpiDone(q)
               /\ ScreenDone(q)' <=> ScreenDone(q)
               /\ UserDone(q)' <=> UserDone(q)
    <3>1. q \in Nat
      BY Regions
    <3>2. HeapDone(q)' <=> HeapDone(q)
      BY <1>3, <1>4 DEF HeapDone
    <3>3. AcpiDone(q)' <=> AcpiDone(q)
      BY <1>3, <1>4, <1>5 DEF AcpiDone
    <3>4. ScreenDone(q)' <=> ScreenDone(q)
      BY <1>2, <1>3, <1>4, <1>5, MachineKept DEF ScreenDone
    <3>5. ~UserDone(q)' /\ ~UserDone(q)
      BY <1>1, <1>3, <1>4, <3>1, Numbers DEF UserDone
    <3>. QED
      BY <3>2, <3>3, <3>4, <3>5
  <2>. QED
    BY <2>1 DEF Done
<1>9. MemInv'
  BY <1>1, <1>2, <1>3, <1>8, MemKept
<1>. QED
  BY <1>2, <1>6, <1>7, <1>9, MachineKept DEF WindowsInv

LEMMA WindowsStack ==
  ASSUME WindowsInv, MapStack
  PROVE  WindowsInv'
<1>1. TypeOk /\ JobOk /\ pc = "stack" /\ job.left = 0
  BY DEF WindowsInv, MapStack, Running
<1>2. /\ UNCHANGED <<machine, mem, allocated, acpi_mapping_next, screen, root, fadt, dsdt, entry>>
      /\ Map("user", USER_STACK_PAGE, 0, N, "user_mode")
  BY DEF MapStack, memory, tables
<1>3. /\ job' \in [left : Nat, virt : Nat, phys : Nat, at : Nat, kind : {"user"}]
      /\ job'.left = 1 /\ job'.virt = USER_STACK_PAGE /\ Cur' = StackPage /\ pc' = "user_mode"
  <2>1. N \in Nat /\ 0 \in Nat /\ USER_STACK_PAGE \in Nat /\ Pages(N) = 1
    <3>1. USER_STACK_PAGE \in Nat
      BY Layout, Scale
    <3>2. N = 1 * N /\ N \in Nat
      BY NType
    <3>3. Pages(N) = 1
      BY <3>2, PagesHold
    <3>. QED
      BY <3>1, <3>2, <3>3
  <2>. QED
    BY <1>2, <2>1, JobStarted DEF StackPage
<1>4. /\ AcpiNext' = AcpiNext /\ job.kind = "user" /\ Cur = UserPage + ProgramPages
      /\ machine.init > 0 /\ InitFits /\ (screen => FramebufferOk)
  BY <1>1, <1>2, Kinds, Numbers DEF AcpiNext, JobOk
<1>5. TypeOk'
  <2>1. job'.virt = Cur' * N
    BY <1>3, Layout
  <2>. QED
    BY <1>1, <1>2, <1>3, <1>4, <2>1 DEF TypeOk
<1>6. JobOk'
  BY <1>1, <1>2, <1>3, <1>4, Numbers, MachineKept DEF JobOk
<1>7. \A q \in PageNumber : (Done(q)' <=> Done(q))
  <2>1. ASSUME NEW q \in PageNumber
        PROVE  /\ HeapDone(q)' <=> HeapDone(q)
               /\ AcpiDone(q)' <=> AcpiDone(q)
               /\ ScreenDone(q)' <=> ScreenDone(q)
               /\ UserDone(q)' <=> UserDone(q)
    <3>1. q \in Nat
      BY Regions
    <3>2. (HeapDone(q)' <=> HeapDone(q)) /\ (AcpiDone(q)' <=> AcpiDone(q))
      BY <1>3, <1>4 DEF HeapDone, AcpiDone
    <3>3. ScreenDone(q)' <=> ScreenDone(q)
      BY <1>2, <1>3, <1>4, MachineKept DEF ScreenDone
    <3>4. UserDone(q)' <=> UserDone(q)
      BY <1>1, <1>2, <1>3, <1>4, <3>1, Numbers, MachineKept DEF UserDone
    <3>. QED
      BY <3>2, <3>3, <3>4
  <2>. QED
    BY <2>1 DEF Done
<1>8. MemInv'
  BY <1>1, <1>2, <1>3, <1>7, MemKept
<1>. QED
  BY <1>2, <1>5, <1>6, <1>8, MachineKept DEF WindowsInv

\* The page to map next lies in a window, and was not mapped.
LEMMA NextPage ==
  ASSUME WindowsInv, job.left > 0
  PROVE  /\ Cur \in PageNumber /\ Cur \div N \in Windowed /\ ~Done(Cur)
         /\ IsUser <=> Cur < KernelPage
         /\ pc # "vmm" /\ job.kind \in {"heap", "acpi", "screen", "user"}
<1>1. TypeOk /\ JobOk /\ ScreenFits
  BY DEF WindowsInv
<1>2. /\ Cur \in Nat /\ AcpiNext \in Nat /\ job.left \in Nat /\ ScreenPages \in Nat /\ ProgramPages \in Nat
      /\ UserPage \in Nat /\ StackPage \in Nat /\ AcpiPage \in Nat /\ AcpiEnd \in Nat /\ HeapPage \in Nat
      /\ ScreenPage \in Nat /\ HEAP_PAGES \in Nat
  BY <1>1, Numbers
<1>3. /\ N \in Nat /\ KernelPage \in Nat /\ KernelEnd \in Nat /\ Top \in Nat /\ N <= KernelPage /\ KernelPage < KernelEnd
      /\ KernelEnd <= Top
  BY Bounds, NType
<1>4. /\ N <= UserPage /\ UserPage <= StackPage /\ StackPage + 1 = KernelPage
      /\ KernelEnd <= AcpiPage /\ AcpiPage <= AcpiEnd /\ AcpiEnd <= HeapPage
      /\ HeapPage + HEAP_PAGES <= ScreenPage /\ ScreenPage <= Top
  BY Layout
<1>5. AcpiPage <= AcpiNext /\ AcpiNext <= AcpiEnd
  BY <1>1 DEF TypeOk
<1>6. /\ InitFits => UserPage + ProgramPages <= StackPage
      /\ FramebufferOk => ScreenPage + ScreenPages <= Top
  BY <1>1, Fits DEF TypeOk
<1>7. pc \notin {"vmm", "heap", "entry", "screen", "init", "shell"}
  BY <1>1 DEF JobOk
<1>8. job.kind \in {"heap", "acpi", "screen", "user"}
  BY <1>1, <1>7 DEF JobOk, TypeOk
<1>9. /\ (N <= Cur /\ Cur < KernelPage) \/ (KernelEnd <= Cur /\ Cur < Top)
      /\ IsUser <=> Cur < KernelPage
      /\ ~Done(Cur)
  <2>1. CASE job.kind = "heap"
    <3>1. HeapPage <= Cur /\ Cur + job.left = HeapPage + HEAP_PAGES /\ ~screen
      BY <1>1, <2>1 DEF JobOk
    <3>2. KernelEnd <= Cur /\ Cur < Top /\ ~(Cur < KernelPage) /\ ~(Cur < AcpiNext) /\ ~(Cur < Cur)
      BY <1>2, <1>3, <1>4, <1>5, <3>1
    <3>. QED
      BY <2>1, <3>1, <3>2 DEF IsUser, Done, HeapDone, AcpiDone, ScreenDone, UserDone
  <2>2. CASE job.kind = "acpi"
    <3>1. AcpiPage <= Cur /\ Cur + job.left <= AcpiEnd /\ ~screen
      BY <1>1, <2>2 DEF JobOk
    <3>2. KernelEnd <= Cur /\ Cur < Top /\ ~(Cur < KernelPage) /\ ~(HeapPage <= Cur) /\ ~(Cur < Cur)
      BY <1>2, <1>3, <1>4, <3>1
    <3>. QED
      BY <2>2, <3>1, <3>2 DEF IsUser, Done, HeapDone, AcpiDone, ScreenDone, UserDone
  <2>3. CASE job.kind = "screen"
    <3>1. ScreenPage <= Cur /\ Cur + job.left = ScreenPage + ScreenPages /\ FramebufferOk
      BY <1>1, <2>3 DEF JobOk
    <3>2. /\ KernelEnd <= Cur /\ Cur < Top /\ ~(Cur < KernelPage) /\ ~(Cur < HeapPage + HEAP_PAGES)
          /\ ~(Cur < AcpiNext) /\ ~(Cur < Cur)
      BY <1>2, <1>3, <1>4, <1>5, <1>6, <3>1
    <3>. QED
      BY <2>3, <3>1, <3>2 DEF IsUser, Done, HeapDone, AcpiDone, ScreenDone, UserDone
  <2>4. CASE job.kind = "user"
    <3>1. /\ pc \in {"stack", "user_mode"} /\ InitFits
          /\ pc = "stack" => UserPage <= Cur /\ Cur + job.left = UserPage + ProgramPages
          /\ pc = "user_mode" => StackPage <= Cur /\ Cur + job.left = StackPage + 1
      BY <1>1, <2>4 DEF JobOk
    <3>2. /\ N <= Cur /\ Cur < KernelPage /\ ~(HeapPage <= Cur) /\ ~(AcpiPage <= Cur) /\ ~(ScreenPage <= Cur)
          /\ ~(Cur < Cur)
      BY <1>2, <1>3, <1>4, <1>5, <1>6, <3>1
    <3>3. pc = "user_mode" => ~(Cur < UserPage + ProgramPages)
      BY <1>2, <1>6, <3>1
    <3>. QED
      BY <2>4, <3>1, <3>2, <3>3 DEF IsUser, Done, HeapDone, AcpiDone, ScreenDone, UserDone
  <2>. QED
    BY <1>8, <2>1, <2>2, <2>3, <2>4
<1>10. Cur \in PageNumber
  <2>1. Cur < Top \/ Cur < KernelPage
    BY <1>9
  <2>2. Top < N * N /\ N * N \in Nat
    BY Bounds, NType
  <2>. QED
    BY <1>2, <1>3, <2>1, <2>2 DEF PageNumber
<1>. QED
  BY <1>7, <1>8, <1>9, <1>10, Regions

\* The frames that vmm_map_page takes are free ones.
LEMMA FramesTaken ==
  ASSUME TypeOk, MapPage
  PROVE  /\ Data \in Nat /\ (IsUser => Data \in Free(Kept))
         /\ allocated \subseteq Kept /\ Kept \subseteq WithData /\ (IsUser => Data \in WithData)
         /\ NeedsTable(mem, job.virt) => Lowest(WithData) \in Free(WithData)
<1>1. machine \in Machines /\ job.phys \in Nat
  BY DEF TypeOk
<1> DEFINE n == Cardinality(Free(Kept))
<1>2. n >= ForTable + (IF IsUser THEN 1 ELSE 0) /\ n \in Nat
  BY <1>1, FreeFrames DEF MapPage, Enough
<1>3. ForTable \in {0, 1} /\ (NeedsTable(mem, job.virt) => ForTable = 1)
  BY DEF ForTable
<1>. HIDE DEF n
<1>4. IsUser => n > 0
  BY <1>2, <1>3
<1>5. IsUser => Data \in Free(Kept)
  BY <1>1, <1>4, FreeFrames DEF Data, n
<1>6. Data \in Nat
  BY <1>1, <1>5, FreeFrames DEF Data
<1>7. ASSUME NeedsTable(mem, job.virt)
      PROVE  Cardinality(Free(WithData)) > 0
  <2>1. CASE IsUser
    <3>1. Free(WithData) = Free(Kept) \ {Data}
      BY <2>1 DEF Free, WithData
    <3>2. Free(Kept) \cap {Data} = {Data} /\ IsFiniteSet(Free(Kept))
      BY <1>1, <1>5, <2>1, FreeFrames
    <3>3. Cardinality(Free(WithData)) = n - 1
      <4>1. Cardinality({Data}) = 1
        BY FS_Singleton
      <4>2. Cardinality(Free(Kept) \ {Data}) = Cardinality(Free(Kept)) - Cardinality(Free(Kept) \cap {Data})
        BY <3>2, FS_Difference
      <4>. QED
        BY <3>1, <3>2, <4>1, <4>2 DEF n
    <3>. QED
      BY <1>2, <1>3, <1>7, <2>1, <3>3
  <2>2. CASE ~IsUser
    <3>1. WithData = Kept
      BY <2>2 DEF WithData
    <3>. QED
      BY <1>2, <1>3, <1>7, <2>2, <3>1 DEF n
  <2>. QED
    BY <2>1, <2>2
<1>8. NeedsTable(mem, job.virt) => Lowest(WithData) \in Free(WithData)
  BY <1>1, <1>7, FreeFrames
<1>. QED
  BY <1>5, <1>6, <1>8 DEF Kept, WithData

Others(m, m1, p) == \A q \in PageNumber : q # p /\ q \div N # N - 1 => Same(m, m1, q)

\* A table of m1 is one of m, or has a frame that was free.
Extends(m, m1) ==
  \A d \in TablesOf(m1) :
    \/ d \in TablesOf(m) /\ m1[DIR][d].frame = m[DIR][d].frame
    \/ m1[DIR][d].frame \in Free(WithData) \cap allocated'

\* What a step of the loop around vmm_map_page does
LEMMA MapPageEffect ==
  ASSUME WindowsInv, MapPage
  PROVE  /\ MemOk(mem) /\ MemOk(mem') /\ DOMAIN mem' \subseteq allocated' /\ WithData \subseteq allocated'
         /\ IsMapped(mem', Cur * N) /\ FrameAt(mem', Cur * N) = Data
         /\ Others(mem, mem', Cur) /\ Extends(mem, mem')
<1> DEFINE d == Cur \div N
           f == Lowest(WithData)
<1>1. TypeOk /\ job.left > 0 /\ MemInv
  BY DEF WindowsInv, MapPage
<1>2. /\ Cur \in PageNumber /\ d \in Windowed /\ (IsUser <=> Cur < KernelPage)
      /\ MemOk(mem) /\ DOMAIN mem \subseteq allocated
  BY <1>1, NextPage DEF MemInv
<1>3. job.virt \in Nat /\ job.virt = Cur * N
  BY <1>1 DEF TypeOk
<1>4. /\ Data \in Nat /\ allocated \subseteq WithData
      /\ NeedsTable(mem, job.virt) => f \in Free(WithData)
  BY <1>1, FramesTaken
<1>5. Rights(IsUser, d)
  <2>1. IsUser <=> d < KERNEL_DIR
    BY <1>2, Regions
  <2>2. IsUser \in BOOLEAN
    BY DEF IsUser
  <2>3. \A h \in Nat : Small(h, IsUser) \in Entry /\ (Small(h, IsUser).user <=> IsUser)
    BY <2>2 DEF Small, Entry
  <2>. QED
    BY <2>1, <2>3 DEF Rights
<1>. HIDE DEF d, f
<1>6. CASE NeedsTable(mem, job.virt)
  <2>1. f \in Nat /\ f \notin WithData /\ f \notin DOMAIN mem
    BY <1>1, <1>2, <1>4, <1>6, FreeFrames DEF Free, TypeOk
  <2>2. allocated' = WithData \cup {f} /\ mem' = WithPage(mem, job.virt, f, Data, IsUser)
    BY <1>6 DEF MapPage, Taken, WithPage, f
  <2>3. /\ NeedsTable(mem, job.virt) <=> d \notin TablesOf(mem)
        /\ MemOk(mem') /\ IsMapped(mem', Cur * N) /\ FrameAt(mem', Cur * N) = Data
        /\ \A q \in PageNumber : q # Cur /\ q \div N # N - 1 => Same(mem, mem', q)
        /\ TablesOf(mem') = TablesOf(mem) \cup {d}
        /\ \A e \in TablesOf(mem) : mem'[DIR][e] = mem[DIR][e]
        /\ d \notin TablesOf(mem) => DOMAIN mem' = DOMAIN mem \cup {f} /\ mem'[DIR][d].frame = f
    <3>1. Brings(mem, mem', Cur, f, Data) /\ (NeedsTable(mem, job.virt) <=> Cur \div N \notin TablesOf(mem))
      BY <1>2, <1>3, <1>4, <1>5, <2>1, <2>2, PageMapped DEF d
    <3>. QED
      BY <3>1 DEF Brings, d
  <2>4. Extends(mem, mem')
    BY <1>4, <1>6, <2>2, <2>3 DEF Extends
  <2>5. DOMAIN mem' \subseteq allocated'
    BY <1>2, <1>4, <1>6, <2>2, <2>3
  <2>. QED
    BY <1>2, <2>2, <2>3, <2>4, <2>5 DEF Others
<1>7. CASE ~NeedsTable(mem, job.virt)
  <2>1. allocated' = WithData /\ mem' = SetPage(mem, job.virt, Data, IsUser)
    BY <1>7 DEF MapPage
  <2>2. d \in TablesOf(mem)
    <3>1. DIR \in DOMAIN mem /\ mem[DIR][N - 1] = Small(DIR, FALSE)
      BY <1>2 DEF MemOk
    <3>2. job.virt \div N \in PageNumber /\ DirIndex(job.virt) = d
      BY <1>2, <1>3, Place, PageStart DEF d
    <3>3. Load(mem, get_pde(job.virt)) = mem[DIR][d]
      BY <1>3, <3>1, <3>2, ThroughDirectory
    <3>. QED
      BY <1>2, <1>7, <3>3 DEF NeedsTable, TablesOf
  <2>3. /\ MemOk(mem') /\ DOMAIN mem' = DOMAIN mem /\ mem'[DIR] = mem[DIR] /\ TablesOf(mem') = TablesOf(mem)
        /\ IsMapped(mem', Cur * N) /\ FrameAt(mem', Cur * N) = Data
        /\ \A q \in PageNumber : q # Cur /\ q \div N # N - 1 => Same(mem, mem', q)
    BY <1>2, <1>3, <1>4, <1>5, <2>1, <2>2, PageEntered DEF d
  <2>4. Extends(mem, mem')
    BY <2>3 DEF Extends
  <2>. QED
    BY <1>2, <1>4, <2>1, <2>3, <2>4 DEF Others
<1>. QED
  BY <1>6, <1>7

LEMMA WindowsMap ==
  ASSUME WindowsInv, MapPage
  PROVE  WindowsInv'
<1>1. TypeOk /\ JobOk /\ job.left > 0 /\ MemInv
  BY DEF WindowsInv, MapPage
<1>2. /\ UNCHANGED <<machine, screen, root, fadt, dsdt, entry, pc>>
      /\ job' = [job EXCEPT !.left = @ - 1, !.virt = @ + N, !.phys = @ + 1]
      /\ acpi_mapping_next' = IF job.kind = "acpi" /\ job.left = 1 THEN job.virt + N ELSE acpi_mapping_next
  BY DEF MapPage, tables
<1>3. /\ Cur \in PageNumber /\ Cur \div N \in Windowed /\ ~Done(Cur)
      /\ pc # "vmm" /\ job.kind \in {"heap", "acpi", "screen", "user"}
  BY <1>1, NextPage
<1>4. Cur \in Nat /\ AcpiNext \in Nat /\ job.left \in Nat
  BY <1>1, Numbers
<1>5. /\ job' \in [left : Nat, virt : Nat, phys : Nat, at : Nat, kind : {"none", "heap", "acpi", "screen", "user"}]
      /\ job'.left = job.left - 1 /\ job'.kind = job.kind /\ job'.virt = job.virt + N
  <2>1. job \in [left : Nat, virt : Nat, phys : Nat, at : Nat, kind : {"none", "heap", "acpi", "screen", "user"}]
    BY <1>1 DEF TypeOk
  <2>2. job.left - 1 \in Nat /\ job.virt + N \in Nat /\ job.phys + 1 \in Nat
    BY <1>1, <1>4, <2>1, NType
  <2>. QED
    BY <1>2, <2>1, <2>2
<1>6. Cur' = Cur + 1 /\ job'.virt = (Cur + 1) * N
  <2>1. job'.virt = (Cur + 1) * N
    <3>1. job.virt = Cur * N
      BY <1>1 DEF TypeOk
    <3>2. (Cur + 1) * N = Cur * N + N
      BY <1>4, NType
    <3>. QED
      BY <1>5, <3>1, <3>2
  <2>2. ((Cur + 1) * N) \div N = Cur + 1
    BY <1>4, PageStart
  <2>. QED
    BY <2>1, <2>2 DEF Cur
<1>7. AcpiNext' = (IF job.kind = "acpi" /\ job.left = 1 THEN Cur + 1 ELSE AcpiNext)
      /\ acpi_mapping_next' = AcpiNext' * N /\ acpi_mapping_next' \in Nat
  <2>1. CASE job.kind = "acpi" /\ job.left = 1
    <3>1. acpi_mapping_next' = (Cur + 1) * N /\ Cur + 1 \in Nat
      BY <1>2, <1>4, <1>5, <1>6, <2>1
    <3>. QED
      BY <2>1, <3>1, PageStart DEF AcpiNext
  <2>2. CASE ~(job.kind = "acpi" /\ job.left = 1)
    BY <1>1, <1>2, <2>2 DEF AcpiNext, TypeOk
  <2>. QED
    BY <2>1, <2>2
<1>8. machine.used \subseteq allocated' /\ allocated \subseteq allocated'
  <2>1. allocated \subseteq WithData /\ WithData \subseteq allocated'
    BY <1>1, FramesTaken, MapPageEffect
  <2>. QED
    BY <1>1, <2>1 DEF TypeOk
<1>9. AcpiPage <= AcpiNext' /\ AcpiNext' <= AcpiEnd
  <2>1. AcpiPage <= AcpiNext /\ AcpiNext <= AcpiEnd
    BY <1>1 DEF TypeOk
  <2>2. job.kind = "acpi" /\ job.left = 1 => AcpiPage <= Cur + 1 /\ Cur + 1 <= AcpiEnd
    BY <1>1, <1>4, Layout DEF JobOk
  <2>. QED
    BY <1>7, <2>1, <2>2
<1>10. TypeOk'
  BY <1>1, <1>2, <1>5, <1>6, <1>7, <1>8, <1>9 DEF TypeOk
<1>11. JobOk'
  <2>1. Cur' + job'.left = Cur + job.left /\ job'.left \in Nat
    BY <1>4, <1>5, <1>6
  <2>2. /\ ScreenPages' = ScreenPages /\ ProgramPages' = ProgramPages
        /\ FramebufferOk' <=> FramebufferOk
        /\ InitFits' <=> InitFits
    BY <1>2, MachineKept
  <2>3. pc \notin {"vmm", "heap", "entry", "screen", "init", "shell"}
    BY <1>1 DEF JobOk
  <2>4. CASE job.kind = "heap"
    BY <1>1, <1>2, <1>4, <1>5, <1>6, <1>7, <2>1, <2>3, <2>4, Numbers DEF JobOk
  <2>5. CASE job.kind = "acpi"
    <3>1. job'.left = 0 => AcpiNext' = Cur'
      BY <1>1, <1>4, <1>5, <1>6, <1>7, <2>5
    <3>2. AcpiPage <= Cur' /\ Cur' + job'.left <= AcpiEnd
      BY <1>1, <1>4, <1>6, <2>1, <2>5, Numbers DEF JobOk
    <3>. QED
      BY <1>1, <1>2, <1>5, <2>3, <2>5, <3>1, <3>2 DEF JobOk
  <2>6. CASE job.kind = "screen"
    <3>1. ~screen
      BY <1>1, <2>6 DEF JobOk
    <3>2. ScreenPage <= Cur'
      BY <1>1, <1>4, <1>6, <2>6, Numbers DEF JobOk
    <3>. QED
      BY <1>1, <1>2, <1>5, <2>1, <2>2, <2>3, <2>6, <3>1, <3>2 DEF JobOk
  <2>7. CASE job.kind = "user"
    <3>1. /\ pc = "stack" => UserPage <= Cur'
          /\ pc = "user_mode" => StackPage <= Cur'
      BY <1>1, <1>4, <1>6, <2>7, Numbers DEF JobOk
    <3>. QED
      BY <1>1, <1>2, <1>5, <2>1, <2>2, <2>3, <2>7, <3>1 DEF JobOk
  <2>. QED
    BY <1>3, <2>4, <2>5, <2>6, <2>7
<1>12. ASSUME NEW q \in PageNumber
       PROVE  Done(q)' <=> Done(q) \/ q = Cur
  <2>1. q \in Nat
    BY Regions
  <2>2. ScreenPages' = ScreenPages /\ ProgramPages' = ProgramPages
    BY <1>2, MachineKept
  <2>3. q < Cur' <=> q < Cur \/ q = Cur
    BY <1>4, <1>6, <2>1
  <2>4. CASE job.kind = "heap"
    <3>1. HeapPage <= Cur /\ ~screen
      BY <1>1, <2>4 DEF JobOk
    <3>2. HeapDone(q)' <=> HeapDone(q) \/ q = Cur
      BY <1>5, <2>3, <2>4, <3>1 DEF HeapDone
    <3>3. (AcpiDone(q)' <=> AcpiDone(q)) /\ (ScreenDone(q)' <=> ScreenDone(q)) /\ (UserDone(q)' <=> UserDone(q))
      BY <1>2, <1>5, <1>7, <2>4, <3>1 DEF AcpiDone, ScreenDone, UserDone
    <3>. QED
      BY <3>2, <3>3 DEF Done
  <2>5. CASE job.kind = "acpi"
    <3>1. AcpiPage <= Cur /\ ~screen
      BY <1>1, <2>5 DEF JobOk
    <3>2. AcpiDone(q)' <=> AcpiDone(q) \/ q = Cur
      BY <1>5, <2>3, <2>5, <3>1 DEF AcpiDone
    <3>3. (HeapDone(q)' <=> HeapDone(q)) /\ (ScreenDone(q)' <=> ScreenDone(q)) /\ (UserDone(q)' <=> UserDone(q))
      BY <1>2, <1>5, <2>5, <3>1 DEF HeapDone, ScreenDone, UserDone
    <3>. QED
      BY <3>2, <3>3 DEF Done
  <2>6. CASE job.kind = "screen"
    <3>1. ScreenPage <= Cur
      BY <1>1, <2>6 DEF JobOk
    <3>2. ScreenDone(q)' <=> ScreenDone(q) \/ q = Cur
      BY <1>2, <1>5, <2>3, <2>6, <3>1 DEF ScreenDone
    <3>3. (HeapDone(q)' <=> HeapDone(q)) /\ (AcpiDone(q)' <=> AcpiDone(q)) /\ (UserDone(q)' <=> UserDone(q))
      BY <1>2, <1>5, <1>7, <2>6 DEF HeapDone, AcpiDone, UserDone
    <3>. QED
      BY <3>2, <3>3 DEF Done
  <2>7. CASE job.kind = "user"
    <3>1. /\ pc \in {"stack", "user_mode"}
          /\ pc = "stack" => UserPage <= Cur
          /\ pc = "user_mode" => StackPage <= Cur
      BY <1>1, <2>7 DEF JobOk
    <3>2. UserDone(q)' <=> UserDone(q) \/ q = Cur
      BY <1>2, <1>5, <2>2, <2>3, <2>7, <3>1 DEF UserDone
    <3>3. (HeapDone(q)' <=> HeapDone(q)) /\ (AcpiDone(q)' <=> AcpiDone(q)) /\ (ScreenDone(q)' <=> ScreenDone(q))
      BY <1>2, <1>5, <1>7, <2>2, <2>7 DEF HeapDone, AcpiDone, ScreenDone
    <3>. QED
      BY <3>2, <3>3 DEF Done
  <2>. QED
    BY <1>3, <2>4, <2>5, <2>6, <2>7
<1>13. MemInv'
  <2>1. MemOk(mem') /\ DOMAIN mem' \subseteq allocated' /\ IsMapped(mem', Cur * N) /\ Others(mem, mem', Cur)
    BY MapPageEffect
  <2>2. ASSUME NEW q \in PageNumber, q \div N \in Windowed
        PROVE  IsMapped(mem', q * N) <=> Done(q)'
    <3>1. IsMapped(mem, q * N) <=> Done(q)
      BY <1>1, <1>3, <2>2 DEF MemInv
    <3>2. q # Cur => (IsMapped(mem', q * N) <=> IsMapped(mem, q * N))
      BY <2>1, <2>2 DEF Others, Same, Windowed
    <3>. QED
      BY <1>12, <2>1, <3>1, <3>2
  <2>. QED
    BY <1>2, <1>3, <2>1, <2>2 DEF MemInv
<1>. QED
  BY <1>2, <1>10, <1>11, <1>13, MachineKept DEF WindowsInv

LEMMA WindowsSteady ==
  ASSUME WindowsInv, UNCHANGED <<machine, memory, job, pc, tables, entry, screen>>
  PROVE  WindowsInv'
BY DEF WindowsInv, ScreenFits, FramebufferOk, MapSize, TypeOk, JobOk, MemInv, Done, HeapDone, AcpiDone,
  ScreenDone, UserDone, Cur, AcpiNext, ScreenPages, ProgramPages, InitFits, memory, tables

LEMMA WindowsNext ==
  ASSUME WindowsInv, [Next]_vars
  PROVE  WindowsInv'
<1>1. CASE VmmInit
  BY <1>1, WindowsVmm
<1>2. CASE MapHeap
  BY <1>2, WindowsHeap
<1>3. CASE MapPage
  BY <1>3, WindowsMap
<1>4. CASE FindTables
  BY <1>4, WindowsFind
<1>5. CASE MapFramebuffer
  BY <1>5, WindowsScreen
<1>6. CASE FramebufferReady \/ NoFramebuffer \/ NoProgram
  BY <1>6, WindowsReady
<1>7. CASE MapProgram
  BY <1>7, WindowsProgram
<1>8. CASE MapStack
  BY <1>8, WindowsStack
<1>9. CASE HeapFails \/ MapPageExhausted \/ ProgramRefused \/ Booted \/ UNCHANGED vars
  <2>1. UNCHANGED <<machine, memory, job, pc, tables, entry, screen>>
    BY <1>9 DEF HeapFails, MapPageExhausted, ProgramRefused, Booted, Panic, vars
  <2>. QED
    BY <2>1, WindowsSteady
<1>. QED
  BY <1>1, <1>2, <1>3, <1>4, <1>5, <1>6, <1>7, <1>8, <1>9 DEF Next

\* With a framebuffer that fits its window, the windows hold what was mapped
\* into them and nothing else is mapped.
THEOREM WindowsHold == Spec /\ ScreenFits => []WindowsInv
<1>1. Init /\ ScreenFits => WindowsInv
  BY WindowsInit
<1>2. WindowsInv /\ [Next]_vars => WindowsInv'
  BY WindowsNext
<1>. QED
  BY <1>1, <1>2, PTL DEF Spec

\* Below the kernel nothing is mapped but what the init program was given.
LEMMA ReachedPages ==
  ASSUME WindowsInv, pc # "vmm", NEW q \in PageNumber
  PROVE  UserReaches(mem, q * N) <=> UserDone(q)
<1>1. TypeOk /\ JobOk /\ ScreenFits /\ MemOk(mem)
  BY DEF WindowsInv, MemInv
<1>2. UserReaches(mem, q * N) <=> IsMapped(mem, q * N) /\ q < KernelPage
  BY <1>1, Reached, Regions
<1>3. q < N => ~IsMapped(mem, q * N)
  BY <1>1, Regions, PageView
<1>4. N <= q /\ q < KernelPage => (IsMapped(mem, q * N) <=> Done(q))
  <2>1. N <= q /\ q < KernelPage => q \div N \in Windowed
    BY Regions
  <2>. QED
    BY <2>1 DEF WindowsInv, MemInv
<1>5. /\ q \in Nat /\ N \in Nat /\ KernelPage \in Nat /\ KernelEnd \in Nat /\ KernelPage < KernelEnd
      /\ N <= UserPage /\ UserPage <= StackPage /\ StackPage + 1 = KernelPage
      /\ KernelEnd <= AcpiPage /\ AcpiPage <= AcpiEnd /\ AcpiEnd <= HeapPage
      /\ HeapPage + HEAP_PAGES <= ScreenPage
  BY Bounds, NType, Layout, Regions
<1>6. /\ Cur \in Nat /\ AcpiNext \in Nat /\ job.left \in Nat /\ ScreenPages \in Nat /\ ProgramPages \in Nat
      /\ UserPage \in Nat /\ StackPage \in Nat /\ AcpiPage \in Nat /\ AcpiEnd \in Nat /\ HeapPage \in Nat
      /\ ScreenPage \in Nat /\ HEAP_PAGES \in Nat
  BY <1>1, Numbers
<1>7. q < KernelPage => ~HeapDone(q) /\ ~AcpiDone(q) /\ ~ScreenDone(q)
  BY <1>5, <1>6 DEF HeapDone, AcpiDone, ScreenDone
<1>8. UserDone(q) => N <= q /\ q < KernelPage
  <2>1. job.kind = "user" => /\ pc \in {"stack", "user_mode"} /\ InitFits
                             /\ pc = "stack" => UserPage <= Cur /\ Cur + job.left = UserPage + ProgramPages
                             /\ pc = "user_mode" => StackPage <= Cur /\ Cur + job.left = StackPage + 1
    BY <1>1 DEF JobOk
  <2>2. InitFits => UserPage + ProgramPages <= StackPage
    BY <1>1, Fits DEF TypeOk
  <2>. QED
    BY <1>5, <1>6, <2>1, <2>2 DEF UserDone
<1>. QED
  BY <1>2, <1>3, <1>4, <1>5, <1>7, <1>8 DEF Done

LEMMA ProgramStack ==
  ASSUME machine \in Machines
  PROVE  Program = UserPage..(UserPage + ProgramPages - 1) /\ Stack = {StackPage}
BY MachineTypes, Layout, PagesAtStart DEF Program, ProgramPages, Stack, StackPage, Page

LEMMA Confined ==
  ASSUME WindowsInv
  PROVE  UserConfined
<1> DEFINE reached == {p \in 0..(N * N - 1) : UserReaches(mem, p * N)}
<1>1. TypeOk /\ JobOk /\ machine \in Machines
  BY DEF WindowsInv, TypeOk
<1>2. CASE pc = "vmm"
  <2>1. ASSUME NEW q \in PageNumber PROVE ~UserReaches(mem, q * N)
    <3>1. DirIndex(q * N) \in Index
      BY Place, PageStart
    <3>2. mem = Bootstrapped
      BY <1>2 DEF WindowsInv, MemInv, Bootstrapped
    <3>3. Pde(mem, q * N) = initial_page_dir[DirIndex(q * N)]
      BY <3>2 DEF Pde, Content, Bootstrapped
    <3>4. ~Pde(mem, q * N).user
      BY <3>1, <3>3 DEF initial_page_dir, Large, Absent
    <3>. QED
      BY <3>4 DEF UserReaches
  <2>2. reached = {}
    BY <2>1 DEF PageNumber
  <2>. QED
    BY <1>2, <2>2 DEF UserConfined, Running
<1>3. CASE pc # "vmm"
  <2>1. \A q \in PageNumber : UserReaches(mem, q * N) <=> UserDone(q)
    BY <1>3, ReachedPages
  <2>2. reached = {q \in PageNumber : UserDone(q)}
    BY <2>1 DEF PageNumber
  <2>3. /\ Cur \in Nat /\ job.left \in Nat /\ UserPage \in Nat /\ StackPage \in Nat /\ ProgramPages \in Nat
    BY <1>1, Numbers
  <2>4. job.kind = "user" => /\ pc \in {"stack", "user_mode"} /\ machine.init > 0 /\ InitFits
                             /\ pc = "stack" => UserPage <= Cur /\ Cur + job.left = UserPage + ProgramPages
                             /\ pc = "user_mode" => StackPage <= Cur /\ Cur + job.left = StackPage + 1
    BY <1>1 DEF JobOk
  <2>5. ASSUME NEW q \in PageNumber, UserDone(q)
        PROVE  machine.init # 0 /\ q \in Program \cup Stack
    <3>1. q \in Nat /\ machine.init \in Nat
      BY <1>1, Regions, MachineTypes
    <3>2. machine.init # 0
      BY <2>4, <2>5, <3>1 DEF UserDone
    <3>3. q \in UserPage..(UserPage + ProgramPages - 1) \/ q = StackPage
      BY <2>3, <2>4, <2>5, <3>1 DEF UserDone
    <3>. QED
      BY <1>1, <3>2, <3>3, ProgramStack
  <2>6. ASSUME Running("user_mode"), NEW q \in Program \cup Stack
        PROVE  q \in PageNumber /\ UserDone(q)
    <3>1. pc = "user_mode" /\ job.left = 0
      BY <2>6 DEF Running
    <3>2. job.kind = "user" /\ InitFits /\ StackPage <= Cur /\ Cur = StackPage + 1
      BY <1>1, <2>3, <2>4, <3>1, Kinds
    <3>3. UserPage + ProgramPages <= StackPage
      BY <1>1, <3>2, Fits
    <3>4. q \in Nat /\ UserPage <= q /\ (q < UserPage + ProgramPages \/ q = StackPage)
      BY <1>1, <2>3, <2>6, <3>3, ProgramStack, Layout
    <3>5. q \in PageNumber
      <4>1. q <= StackPage
        BY <2>3, <3>3, <3>4
      <4>3. StackPage + 1 = KernelPage /\ KernelPage < N * N
        <5>1. KernelPage < KernelEnd /\ KernelEnd <= Top /\ Top < N * N
              /\ KernelPage \in Nat /\ KernelEnd \in Nat /\ Top \in Nat /\ N * N \in Nat
          BY Bounds, NType
        <5> DEFINE Q == N * N
        <5>. HIDE DEF Q
        <5>2. KernelPage < Q
          BY <5>1 DEF Q
        <5>. QED
          BY <5>2, Layout DEF Q
      <4>2. N * N \in Nat /\ KernelPage \in Nat
        BY NType, Bounds
      <4>. QED
        BY <2>3, <3>4, <4>1, <4>2, <4>3 DEF PageNumber
    <3>6. UserDone(q)
      BY <2>3, <3>1, <3>2, <3>4 DEF UserDone
    <3>. QED
      BY <3>5, <3>6
  <2>7. reached \subseteq (IF machine.init = 0 THEN {} ELSE Program \cup Stack)
    BY <2>2, <2>5
  <2>8. Running("user_mode") => reached = Program \cup Stack
    BY <2>2, <2>5, <2>6
  <2>. QED
    BY <2>7, <2>8 DEF UserConfined
<1>. QED
  BY <1>2, <1>3

\* Ring 3 reaches its program and its stack, all of them when it starts, and
\* nothing else (enter.c, the user bits of vmm_map_page).
THEOREM UserIsConfined == Spec /\ ScreenFits => []UserConfined
BY WindowsHold, Confined, PTL

-----------------------------------------------------------------------------
(* The address space.                                                       *)

LEMMA SelfMapPages == SelfMap = {q \in PageNumber : q >= Top}
<1>1. ASSUME NEW q \in PageNumber PROVE DirIndex(q * N) = N - 1 <=> q >= Top
  BY Place, PageStart, Regions
<1>. QED
  BY <1>1 DEF SelfMap, PageNumber

\* A page as the picture shows it
Picture(m, q) == [frame |-> FrameAt(m, q * N), user |-> UserReaches(m, q * N)]

MappedIn(m) == {q \in PageNumber : q < Top /\ IsMapped(m, q * N)}

LEMMA PictureOf ==
  /\ Mapped = MappedIn(mem) /\ Mapped' = MappedIn(mem')
  /\ Pictured = [q \in MappedIn(mem) |-> Picture(mem, q)]
  /\ Pictured' = [q \in MappedIn(mem') |-> Picture(mem', q)]
<1>1. \A q \in PageNumber : q \in Nat
  BY Regions
<1>2. Mapped = MappedIn(mem) /\ Mapped' = MappedIn(mem')
  BY <1>1, SelfMapPages, Bounds DEF Mapped, PageNumber, MappedIn
<1>. QED
  BY <1>2 DEF Pictured, Picture, FrameOf

LowPages == 0..(N - 1)
KernelPages == KernelPage..(KernelEnd - 1)

LEMMA BootstrapPages ==
  PagesAt(0, N * N) = LowPages /\ PagesAt(KERNEL_DIR * N * N, LARGE * N * N) = KernelPages
<1>1. PagesAt(0, N * N) = LowPages
  <2>1. N \in Nat /\ N * N \in Nat /\ 0 * N = 0
    BY NType
  <2>2. Pages(N * N) = N
    BY <2>1, PagesHold
  <2>3. PagesAt(0 * N, N * N) = 0..(0 + Pages(N * N) - 1)
    BY <2>1, PagesAtStart
  <2>. QED
    BY <2>1, <2>2, <2>3 DEF LowPages
<1>2. PagesAt(KERNEL_DIR * N * N, LARGE * N * N) = KernelPages
  <2> DEFINE k == LARGE * N
             w == k * N
  <2>1. LARGE \in Nat /\ KERNEL_DIR \in Nat
    BY PagingAssumption DEF Index
  <2>2. k \in Nat
    BY <2>1, Scale
  <2>3. KernelEnd = KernelPage + k
    BY <2>1, NType DEF KernelEnd, KernelPage
  <2>. HIDE DEF k
  <2>4. w \in Nat /\ Pages(w) = k
    BY <2>2, Scale, PagesHold
  <2>. HIDE DEF w
  <2>5. PagesAt(KernelPage * N, w) = KernelPage..(KernelPage + k - 1)
    BY <2>4, PagesAtStart, Bounds
  <2>6. KERNEL_DIR * N * N = KernelPage * N /\ LARGE * N * N = w
    BY Zenon DEF KernelPage, k, w
  <2>7. KernelPages = KernelPage..(KernelPage + k - 1)
    <3>1. KernelEnd - 1 = KernelPage + k - 1
      BY <2>2, <2>3, Bounds
    <3>. QED
      BY <3>1, Zenon DEF KernelPages
  <2>8. PagesAt(KERNEL_DIR * N * N, LARGE * N * N) = PagesAt(KernelPage * N, w)
    BY <2>6
  <2>. QED
    BY <2>5, <2>7, <2>8
<1>. QED
  BY <1>1, <1>2

\* What is mapped when the kernel starts
LEMMA BootstrapView ==
  ASSUME NEW q \in PageNumber
  PROVE  /\ IsMapped(Bootstrapped, q * N) <=> q \in LowPages \cup KernelPages
         /\ q \in LowPages => FrameAt(Bootstrapped, q * N) = q
         /\ q \in KernelPages => FrameAt(Bootstrapped, q * N) = q - KERNEL_DIR * N
         /\ ~UserReaches(Bootstrapped, q * N)
<1> DEFINE d == q \div N
           s == q % N
           v == q * N
           e == initial_page_dir[d]
<1>1. d \in Index /\ s \in Index /\ q = N * d + s /\ DirIndex(v) = d /\ TableIndex(v) = s /\ q \in Nat /\ s \in Nat
      /\ d \in Nat
  BY Place, PageStart DEF Index
<1>2. Pde(Bootstrapped, v) = e
  BY <1>1 DEF Pde, Content, Bootstrapped
<1>3. /\ d = 0 <=> q < N
      /\ d \in Kernels <=> KernelPage <= q /\ q < KernelEnd
  BY Regions
<1>4. /\ q \in LowPages <=> d = 0
      /\ q \in KernelPages <=> d \in Kernels
  BY <1>1, <1>3, NType, Bounds DEF LowPages, KernelPages
<1>5. d \in Kernels <=> KERNEL_DIR <= d /\ d < KERNEL_DIR + LARGE
  BY <1>1, PagingAssumption DEF Kernels, Index
<1>. HIDE DEF d, s, v
<1>6. e = IF d = 0 THEN Large(0) ELSE IF d \in Kernels THEN Large((d - KERNEL_DIR) * N) ELSE Absent
  BY <1>1, <1>5 DEF initial_page_dir
<1>. HIDE DEF e
<1>7. \A f : Large(f).present /\ Large(f).large /\ Large(f).frame = f /\ ~Large(f).user
  BY DEF Large
<1>8. ~Absent.present
  BY DEF Absent
<1>9. 0 \notin Kernels
  BY Indices
<1>10. IsMapped(Bootstrapped, v) <=> d = 0 \/ d \in Kernels
  BY <1>2, <1>6, <1>7, <1>8 DEF IsMapped
<1>11. d = 0 => FrameAt(Bootstrapped, v) = q
  <2>1. d = 0 => N * d = 0
    BY NType
  <2>2. d = 0 => FrameAt(Bootstrapped, v) = 0 + s
    BY <1>1, <1>2, <1>6, <1>7 DEF FrameAt
  <2>. QED
    BY <1>1, <2>1, <2>2
<1>12. d \in Kernels => FrameAt(Bootstrapped, v) = q - KERNEL_DIR * N
  <2>1. d \in Kernels => FrameAt(Bootstrapped, v) = (d - KERNEL_DIR) * N + s
    BY <1>1, <1>2, <1>6, <1>7, <1>9 DEF FrameAt
  <2>2. KERNEL_DIR \in Nat
    BY PagingAssumption DEF Index
  <2>3. (d - KERNEL_DIR) * N = N * d - KERNEL_DIR * N
    BY <1>1, <2>2, NType
  <2>4. N * d \in Nat /\ KERNEL_DIR * N \in Nat
    BY <1>1, <2>2, NType
  <2>5. d \in Kernels => FrameAt(Bootstrapped, v) = (N * d - KERNEL_DIR * N) + s
    BY <2>1, <2>3
  <2> DEFINE a == N * d
             b == KERNEL_DIR * N
  <2>. HIDE DEF a, b
  <2>6. a \in Nat /\ b \in Nat /\ q = a + s /\ (d \in Kernels => FrameAt(Bootstrapped, v) = (a - b) + s)
    BY <1>1, <2>4, <2>5 DEF a, b
  <2>7. d \in Kernels => FrameAt(Bootstrapped, v) = q - b
    BY <1>1, <2>6
  <2>. QED
    BY <2>7 DEF b
<1>13. ~UserReaches(Bootstrapped, v)
  <2>1. UserReaches(Bootstrapped, v) => e.user /\ (d = 0 \/ d \in Kernels)
    BY <1>2, <1>10 DEF UserReaches
  <2>. QED
    BY <1>6, <1>7, <2>1
<1>. QED
  BY <1>4, <1>10, <1>11, <1>12, <1>13 DEF v

LEMMA LowAndKernel ==
  /\ LowPages \cup KernelPages \subseteq PageNumber
  /\ \A q \in LowPages \cup KernelPages : q \in Nat /\ q < Top
  /\ LowPages \cap KernelPages = {}
<1>1. /\ N \in Nat /\ N <= Top /\ KernelPage \in Nat /\ KernelEnd \in Nat /\ KernelEnd <= Top /\ Top \in Nat
      /\ Top < N * N /\ N <= KernelPage
  BY Bounds, NType
<1>2. N * N \in Nat
  BY NType
<1> DEFINE Q == N * N
<1>3. Q \in Nat /\ Top < Q
  BY <1>1, <1>2
<1>. HIDE DEF Q
<1>4. \A q \in LowPages \cup KernelPages : q \in Nat /\ q < Top /\ q \in 0..(Q - 1)
  BY <1>1, <1>3 DEF LowPages, KernelPages
<1>5. LowPages \cap KernelPages = {}
  BY <1>1 DEF LowPages, KernelPages
<1>. QED
  BY <1>4, <1>5 DEF PageNumber, Q

LEMMA SpaceInit ==
  ASSUME Init
  PROVE  Space!Init
<1>1. mem = Bootstrapped
  BY DEF Init, Bootstrapped
<1>2. LowPages \cup KernelPages \subseteq PageNumber /\ \A q \in LowPages \cup KernelPages : q \in Nat /\ q < Top
  BY LowAndKernel
<1>3. Mapped = LowPages \cup KernelPages
  BY <1>1, <1>2, PictureOf, BootstrapView DEF MappedIn
<1>4. ASSUME NEW q \in LowPages \cup KernelPages
      PROVE  Picture(mem, q) = [frame |-> IF q < N THEN q ELSE q - KERNEL_DIR * N, user |-> FALSE]
  <2>1. q \in PageNumber /\ UserReaches(mem, q * N) = FALSE
    BY <1>1, <1>2, BootstrapView DEF UserReaches
  <2>2. CASE q \in LowPages
    <3>1. FrameAt(mem, q * N) = q /\ q < N
      BY <1>1, <2>1, <2>2, BootstrapView, NType DEF LowPages
    <3>. QED
      BY <2>1, <3>1 DEF Picture
  <2>3. CASE q \in KernelPages
    <3>1. FrameAt(mem, q * N) = q - KERNEL_DIR * N
      BY <1>1, <2>1, <2>3, BootstrapView
    <3>2. ~(q < N)
      BY <2>3, Bounds, NType DEF KernelPages
    <3>. QED
      BY <2>1, <3>1, <3>2 DEF Picture
  <2>. QED
    BY <2>2, <2>3
<1>5. Pictured = [q \in LowPages \cup KernelPages |-> [frame |-> IF q < N THEN q ELSE q - KERNEL_DIR * N, user |-> FALSE]]
  <2>1. Pictured = [q \in LowPages \cup KernelPages |-> Picture(mem, q)]
    BY <1>3, PictureOf
  <2>. QED
    BY <1>4, <2>1
<1>. QED
  BY <1>5, BootstrapPages DEF Space!Init


\* A large page of the kernel, by its number
LEMMA LargeFrame ==
  ASSUME NEW q \in PageNumber, q \div N \in Kernels
  PROVE  (q \div N - KERNEL_DIR) * N + (q % N) = q - KERNEL_DIR * N
<1> DEFINE d == q \div N
           s == q % N
           a == N * d
           b == KERNEL_DIR * N
<1>1. d \in Nat /\ s \in Nat /\ q = a + s /\ KERNEL_DIR \in Nat
  BY Place, PagingAssumption DEF Index
<1>2. (d - KERNEL_DIR) * N = a - b /\ a \in Nat /\ b \in Nat
  BY <1>1, NType
<1>. HIDE DEF a, b, d, s
<1>3. (a - b) + s = q - b
  BY <1>1, <1>2
<1>. QED
  BY <1>2, <1>3 DEF b, d, s

\* vmm_init takes the identity mapping away and nothing else.
LEMMA SpaceDrop ==
  ASSUME WindowsInv, VmmInit
  PROVE  Space!DropLow
<1> DEFINE m == Recursive(Bootstrapped)
<1>1. mem = Bootstrapped /\ mem' = m
  BY DEF WindowsInv, MemInv, Bootstrapped, VmmInit, Running
<1>2. MemOk(m) /\ TablesOf(m) = {}
  BY DirectoryMade
<1>. HIDE DEF m
<1>3. ASSUME NEW q \in PageNumber, q < Top
      PROVE  /\ IsMapped(m, q * N) <=> q \in KernelPages
             /\ q \in KernelPages => FrameAt(m, q * N) = q - KERNEL_DIR * N
             /\ ~UserReaches(m, q * N)
  <2> DEFINE e == q \div N
  <2>1. e \in Index /\ e # N - 1 /\ q \in Nat /\ (e \in Kernels <=> KernelPage <= q /\ q < KernelEnd)
    BY <1>3, Place, Regions, Bounds
  <2>2. e \in Kernels <=> q \in KernelPages
    BY <2>1, Bounds DEF KernelPages
  <2>. HIDE DEF e
  <2>3. e \in Windowed \/ e = 0 \/ e \in Kernels
    BY <2>1, Indices
  <2>4. e \in Windowed \/ e = 0 => ~IsMapped(m, q * N)
    BY <1>2, PageView DEF e
  <2>5. e \in Kernels => IsMapped(m, q * N) /\ FrameAt(m, q * N) = q - KERNEL_DIR * N
    BY <1>2, PageView, LargeFrame DEF e
  <2>6. e \in Kernels => e \notin Windowed /\ e # 0
    BY Indices DEF Windowed
  <2>7. ~UserReaches(m, q * N)
    <3>1. e \in Kernels => ~(e < KERNEL_DIR)
      BY PagingAssumption DEF Kernels, Index
    <3>2. UserReaches(m, q * N) => IsMapped(m, q * N) /\ e < KERNEL_DIR
      BY <1>2, Reached DEF e
    <3>. QED
      BY <2>3, <2>4, <3>1, <3>2
  <2>. QED
    BY <2>2, <2>3, <2>4, <2>5, <2>6, <2>7
<1>4. LowPages \cup KernelPages \subseteq PageNumber /\ (\A q \in LowPages \cup KernelPages : q < Top)
      /\ LowPages \cap KernelPages = {}
  BY LowAndKernel
<1>5. MappedIn(mem) = LowPages \cup KernelPages
  BY <1>1, <1>4, BootstrapView DEF MappedIn
<1>6. MappedIn(mem') = KernelPages
  BY <1>1, <1>3, <1>4 DEF MappedIn
<1>7. ASSUME NEW q \in KernelPages
      PROVE  Picture(mem', q) = Picture(mem, q)
  <2>1. q \in PageNumber /\ q < Top
    BY <1>4
  <2>2. FrameAt(mem', q * N) = FrameAt(mem, q * N) /\ UserReaches(mem', q * N) = FALSE /\ UserReaches(mem, q * N) = FALSE
    BY <1>1, <1>3, <2>1, BootstrapView DEF UserReaches
  <2>. QED
    BY <2>2 DEF Picture
<1>8. /\ DOMAIN Pictured = LowPages \cup KernelPages
      /\ \A q \in KernelPages : Pictured[q] = Picture(mem, q)
      /\ Pictured' = [q \in KernelPages |-> Picture(mem', q)]
  BY <1>5, <1>6, PictureOf
<1>9. (LowPages \cup KernelPages) \ LowPages = KernelPages
  BY <1>4
<1>10. Pictured' = [q \in DOMAIN Pictured \ LowPages |-> Pictured[q]]
  BY <1>7, <1>8, <1>9
<1>. QED
  BY <1>8, <1>10, BootstrapPages DEF Space!DropLow

\* A page mapped lies in a window of its kind.
LEMMA CurWindow ==
  ASSUME WindowsInv, job.left > 0
  PROVE  <<Cur, IsUser>> \in ((HeapWindow \cup AcpiWindow \cup ScreenWindow) \X {FALSE}) \cup (UserWindow \X {TRUE})
<1>1. TypeOk /\ JobOk /\ ScreenFits
  BY DEF WindowsInv
<1>2. /\ Cur \in Nat /\ job.left \in Nat /\ ScreenPages \in Nat /\ ProgramPages \in Nat
      /\ UserPage \in Nat /\ StackPage \in Nat /\ AcpiPage \in Nat /\ AcpiEnd \in Nat /\ HeapPage \in Nat
      /\ ScreenPage \in Nat /\ HEAP_PAGES \in Nat
  BY <1>1, Numbers
<1>3. job.kind \in {"heap", "acpi", "screen", "user"} /\ pc \notin {"init", "shell"}
  BY <1>1, NextPage DEF JobOk
<1>4. job.kind = "heap" => Cur \in HeapWindow
  <2>1. job.kind = "heap" => HeapPage <= Cur /\ Cur <= HeapPage + HEAP_PAGES - 1
    BY <1>1, <1>2 DEF JobOk
  <2>. QED
    BY <1>2, <2>1, WindowPages
<1>5. job.kind = "acpi" => Cur \in AcpiWindow
  <2>1. job.kind = "acpi" => AcpiPage <= Cur /\ Cur <= AcpiEnd - 1
    BY <1>1, <1>2 DEF JobOk
  <2>. QED
    BY <1>2, <2>1, WindowPages
<1>6. job.kind = "screen" => Cur \in ScreenWindow
  <2>1. job.kind = "screen" => ScreenPages <= Pages(virtual_size)
    BY <1>1, Fits DEF JobOk, TypeOk
  <2>2. Pages(virtual_size) \in Nat
    BY PagesOf, LayoutAssumption
  <2>3. job.kind = "screen" => ScreenPage <= Cur /\ Cur <= ScreenPage + Pages(virtual_size) - 1
    BY <1>1, <1>2, <2>1, <2>2 DEF JobOk
  <2>. QED
    BY <1>2, <2>2, <2>3, WindowPages
<1>7. job.kind = "user" => Cur \in UserWindow
  <2>1. job.kind = "user" => UserPage + ProgramPages <= StackPage
    BY <1>1, Fits DEF JobOk, TypeOk
  <2>2. job.kind = "user" => UserPage <= Cur /\ Cur <= StackPage
    BY <1>1, <1>2, <2>1, Layout DEF JobOk
  <2>. QED
    BY <1>2, <2>2, WindowPages
<1>8. IsUser = (job.kind = "user")
  BY DEF IsUser
<1>9. CASE IsUser
  BY <1>7, <1>8, <1>9, Zenon
<1>10. CASE ~IsUser
  <2>1. Cur \in HeapWindow \cup AcpiWindow \cup ScreenWindow /\ IsUser = FALSE
    BY <1>3, <1>4, <1>5, <1>6, <1>8, <1>10
  <2>. QED
    BY <2>1, Zenon
<1>. QED
  BY <1>9, <1>10

\* vmm_map_page brings one page, and changes no other.
LEMMA SpaceMap ==
  ASSUME WindowsInv, MapPage
  PROVE  Space!Map
<1> DEFINE w == <<Cur, IsUser>>
<1>1. job.left > 0 /\ pc # "vmm"
  BY NextPage DEF MapPage
<1>2. /\ Cur \in PageNumber /\ Cur \div N \in Windowed /\ ~Done(Cur) /\ (IsUser <=> Cur < KernelPage)
  BY <1>1, NextPage
<1>3. /\ MemOk(mem) /\ MemOk(mem')
      /\ IsMapped(mem', Cur * N) /\ FrameAt(mem', Cur * N) = Data /\ Others(mem, mem', Cur)
  BY MapPageEffect
<1>4. ~IsMapped(mem, Cur * N)
  BY <1>1, <1>2 DEF WindowsInv, MemInv
<1>5. Cur < Top /\ Cur \in Nat
  BY <1>2, Regions, Bounds
<1>6. ASSUME NEW q \in PageNumber, q < Top, q # Cur
      PROVE  /\ IsMapped(mem', q * N) <=> IsMapped(mem, q * N)
             /\ IsMapped(mem, q * N) => Picture(mem', q) = Picture(mem, q)
  <2>1. q \div N # N - 1
    BY <1>6, Regions, Bounds
  <2>2. Same(mem, mem', q)
    BY <1>3, <1>6, <2>1 DEF Others
  <2>3. UserReaches(mem', q * N) <=> UserReaches(mem, q * N)
    BY <1>3, <2>2, Reached DEF Same
  <2>4. UserReaches(mem', q * N) = UserReaches(mem, q * N)
    BY <2>3 DEF UserReaches, IsMapped
  <2>. QED
    BY <2>2, <2>4 DEF Same, Picture
<1>7. MappedIn(mem') = MappedIn(mem) \cup {Cur} /\ Cur \notin MappedIn(mem)
  BY <1>2, <1>3, <1>4, <1>5, <1>6 DEF MappedIn
<1>8. \A q \in MappedIn(mem) : Picture(mem', q) = Picture(mem, q)
  BY <1>6, <1>7 DEF MappedIn
<1>9. Picture(mem', Cur).frame \in Nat /\ (Picture(mem', Cur).user <=> IsUser)
  <2>1. Data \in Nat
    BY FramesTaken DEF WindowsInv
  <2>2. UserReaches(mem', Cur * N) <=> IsUser
    BY <1>2, <1>3, Reached, Regions
  <2>. QED
    BY <1>3, <2>1, <2>2 DEF Picture
<1>10. Picture(mem', Cur).user = IsUser
  BY <1>9 DEF Picture, UserReaches, IsMapped, IsUser
<1>11. /\ DOMAIN Pictured = MappedIn(mem) /\ DOMAIN Pictured' = MappedIn(mem')
       /\ \A q \in MappedIn(mem) : Pictured[q] = Picture(mem, q)
       /\ \A q \in MappedIn(mem') : Pictured'[q] = Picture(mem', q)
  BY PictureOf
<1>12. w \in ((HeapWindow \cup AcpiWindow \cup ScreenWindow) \X {FALSE}) \cup (UserWindow \X {TRUE})
  BY <1>1, CurWindow
<1>13. w[1] = Cur /\ w[2] = IsUser
  OBVIOUS
<1>14. /\ w[1] \notin DOMAIN Pictured /\ DOMAIN Pictured' = DOMAIN Pictured \cup {w[1]}
       /\ \A q \in DOMAIN Pictured : Pictured'[q] = Pictured[q]
       /\ Pictured'[w[1]].frame \in Nat /\ Pictured'[w[1]].user = w[2]
  BY <1>7, <1>8, <1>9, <1>10, <1>11, <1>13
<1>. HIDE DEF w
<1>. QED
  BY <1>12, <1>14 DEF Space!Map

LEMMA SpaceNext ==
  ASSUME WindowsInv, [Next]_vars
  PROVE  [Space!Next]_Pictured
<1>1. CASE VmmInit
  BY <1>1, SpaceDrop DEF Space!Next
<1>2. CASE MapPage
  BY <1>2, SpaceMap DEF Space!Next
<1>3. ASSUME mem' = mem PROVE Pictured' = Pictured
  BY <1>3, PictureOf
<1>4. CASE MapHeap
  BY <1>3, <1>4 DEF MapHeap
<1>5. CASE FindTables
  BY <1>3, <1>5, FindTablesSteps DEF WindowsInv, memory
<1>6. CASE MapFramebuffer \/ FramebufferReady \/ NoFramebuffer \/ NoProgram \/ MapProgram \/ MapStack
  BY <1>3, <1>6 DEF MapFramebuffer, FramebufferReady, NoFramebuffer, NoProgram, MapProgram, MapStack, memory
<1>7. CASE HeapFails \/ MapPageExhausted \/ ProgramRefused \/ Booted \/ UNCHANGED vars
  BY <1>3, <1>7 DEF HeapFails, MapPageExhausted, ProgramRefused, Booted, Panic, vars, memory
<1>. QED
  BY <1>1, <1>2, <1>4, <1>5, <1>6, <1>7 DEF Next

\* In every boot vmm.c keeps its promise to those who map through it: one page
\* where nothing was mapped, and none moved, remapped or uncovered.
THEOREM MapsOnePage == Spec /\ ScreenFits => ImplementsAddressSpace
<1>1. Init => Space!Init
  BY SpaceInit
<1>2. WindowsInv /\ [Next]_vars => [Space!Next]_Pictured
  BY SpaceNext
<1>. QED
  BY <1>1, <1>2, WindowsHold, PTL DEF Spec, ImplementsAddressSpace, Space!Spec

-----------------------------------------------------------------------------
(* Frames.                                                                  *)

TakenFrames == (allocated \ machine.used) \cap (1..(machine.total - 1))
OwnWindow == HeapWindow \cup UserWindow
HeapRun == {job.phys - (Cur - HeapPage) + i : i \in 0..(HEAP_PAGES - 1)}

\* Frames of tables, of the heap and of the program were taken, each once; the
\* rest of the heap's run is kept for it.
TablesTaken == \A d \in TablesOf(mem) : mem[DIR][d].frame \in TakenFrames
PagesTaken ==
  \A q \in OwnPages : FrameOf(q) \in TakenFrames /\ \A d \in TablesOf(mem) : mem[DIR][d].frame # FrameOf(q)
PagesApart == \A q, r \in OwnPages : FrameOf(q) = FrameOf(r) => q = r
RunTaken ==
  job.kind = "heap" =>
    /\ Cur - HeapPage <= job.phys
    /\ HeapRun \subseteq TakenFrames /\ \A d \in TablesOf(mem) : mem[DIR][d].frame \notin HeapRun
    /\ \A q \in OwnPages : FrameOf(q) = job.phys - (Cur - q)
FramesInv == pc # "vmm" => TablesTaken /\ PagesTaken /\ PagesApart /\ RunTaken

LEMMA OwnWindowed ==
  ASSUME NEW q \in OwnWindow
  PROVE  /\ q \in PageNumber /\ q \in Nat /\ q < Top /\ q \div N \in Windowed
         /\ (q < KernelPage /\ q \in UserWindow) \/ (HeapPage <= q /\ q \in HeapWindow)
<1>1. /\ N \in Nat /\ KernelPage \in Nat /\ KernelEnd \in Nat /\ Top \in Nat /\ N <= KernelPage
      /\ KernelPage < KernelEnd /\ KernelEnd <= Top /\ Top < N * N
  BY Bounds, NType
<1>2. /\ UserPage \in Nat /\ StackPage \in Nat /\ AcpiPage \in Nat /\ AcpiEnd \in Nat
      /\ HeapPage \in Nat /\ ScreenPage \in Nat /\ HEAP_PAGES \in Nat
      /\ N <= UserPage /\ UserPage <= StackPage /\ StackPage + 1 = KernelPage
      /\ KernelEnd <= AcpiPage /\ AcpiPage <= AcpiEnd /\ AcpiEnd <= HeapPage
      /\ HeapPage + HEAP_PAGES <= ScreenPage /\ ScreenPage <= Top
  BY Layout, BootAssumption
<1>3. q \in UserWindow => q \in Nat /\ N <= q /\ q < KernelPage /\ q < Top
  BY <1>1, <1>2, WindowPages
<1>4. q \in HeapWindow => q \in Nat /\ HeapPage <= q /\ KernelEnd <= q /\ q < Top
  BY <1>1, <1>2, WindowPages
<1>5. q \in Nat /\ q < Top
  BY <1>3, <1>4 DEF OwnWindow
<1>6. q \in PageNumber
  <2> DEFINE Q == N * N
  <2>1. Q \in Nat /\ Top < Q
    BY <1>1, NType
  <2>. HIDE DEF Q
  <2>2. q \in 0..(Q - 1)
    BY <1>1, <1>5, <2>1
  <2>. QED
    BY <2>2 DEF PageNumber, Q
<1>. QED
  BY <1>3, <1>4, <1>5, <1>6, Regions DEF OwnWindow

LEMMA OwnPagesAre ==
  /\ \A q : q \in OwnPages <=> q \in OwnWindow /\ IsMapped(mem, q * N)
  /\ \A q : q \in OwnPages' <=> q \in OwnWindow /\ IsMapped(mem', q * N)
  /\ OwnPages \subseteq OwnWindow
<1>1. \A q \in OwnWindow : q \in PageNumber /\ q < Top
  BY OwnWindowed
<1>2. OwnPages = MappedIn(mem) \cap OwnWindow /\ OwnPages' = MappedIn(mem') \cap OwnWindow
  BY PictureOf DEF OwnPages, OwnWindow
<1>. QED
  BY <1>1, <1>2 DEF MappedIn

LEMMA FramesVmm ==
  ASSUME WindowsInv, VmmInit
  PROVE  FramesInv'
<1>1. mem' = Recursive(Bootstrapped) /\ job' = job
  BY DEF WindowsInv, MemInv, Bootstrapped, VmmInit, Running
<1>2. MemOk(mem') /\ TablesOf(mem') = {}
  BY <1>1, DirectoryMade
<1>3. OwnPages' = {}
  <2>1. ASSUME NEW q \in OwnPages' PROVE FALSE
    <3>1. q \in OwnWindow /\ IsMapped(mem', q * N)
      BY <2>1, OwnPagesAre
    <3>. QED
      BY <1>2, <3>1, OwnWindowed, PageView
  <2>. QED
    BY <2>1
<1>4. job'.kind = "none"
  BY <1>1, Kinds DEF WindowsInv, VmmInit, Running
<1>. QED
  BY <1>2, <1>3, <1>4 DEF FramesInv, TablesTaken, PagesTaken, PagesApart, RunTaken

LEMMA FramesKept ==
  ASSUME FramesInv, pc # "vmm", mem' = mem, machine' = machine, allocated \subseteq allocated',
         job'.kind = "heap" => job' = job
  PROVE  FramesInv'
<1>1. TakenFrames \subseteq TakenFrames' /\ OwnPages' = OwnPages /\ \A q : FrameOf(q)' = FrameOf(q)
  <2>1. OwnPages' = OwnPages
    BY OwnPagesAre
  <2>. QED
    BY <2>1 DEF TakenFrames, FrameOf
<1>2. TablesTaken' /\ PagesTaken' /\ PagesApart'
  BY <1>1 DEF FramesInv, TablesTaken, PagesTaken, PagesApart, FrameOf
<1>3. RunTaken'
  <2>1. SUFFICES ASSUME job' = job, job.kind = "heap" PROVE RunTaken'
    BY DEF RunTaken
  <2>2. HeapRun' = HeapRun /\ Cur' = Cur
    BY <2>1 DEF HeapRun, Cur
  <2>. QED
    BY <1>1, <2>1, <2>2 DEF FramesInv, RunTaken, FrameOf
<1>. QED
  BY <1>2, <1>3 DEF FramesInv

\* mem_init takes the heap's run whole.
LEMMA FramesHeap ==
  ASSUME WindowsInv, FramesInv, MapHeap
  PROVE  FramesInv'
<1>1. TypeOk /\ JobOk /\ pc = "heap" /\ job.left = 0 /\ Runs # {}
  BY DEF WindowsInv, MapHeap, Running
<1> DEFINE r == Min(Runs)
<1>2. /\ mem' = mem /\ machine' = machine /\ allocated' = allocated \cup (r..(r + HEAP_PAGES - 1))
      /\ Map("heap", KERNEL_HEAP_VIRTUAL_START, r * N, HEAP_PAGES * N, "root")
  BY DEF MapHeap
<1>3. r \in Nat /\ r..(r + HEAP_PAGES - 1) \subseteq Free(allocated)
  <2>1. Runs \subseteq Nat
    BY <1>1, FreeFrames DEF Runs, TypeOk
  <2>2. r \in Runs
    BY <1>1, <2>1, LeastNumber
  <2>. QED
    BY <2>1, <2>2 DEF Runs
<1>. HIDE DEF r
<1>4. job'.kind = "heap" /\ Cur' = HeapPage /\ job'.phys = r /\ pc' = "root"
  <2> DEFINE words == HEAP_PAGES * N
             phys == r * N
             virt == KERNEL_HEAP_VIRTUAL_START
  <2>1. words \in Nat /\ phys \in Nat /\ virt \in Nat /\ phys \div N = r
    BY <1>3, BootAssumption, LayoutAssumption, Scale, PageStart
  <2>. HIDE DEF words, phys, virt
  <2>2. Map("heap", virt, phys, words, "root")
    BY <1>2 DEF words, phys, virt
  <2>. QED
    BY <2>1, <2>2, JobStarted DEF virt, HeapPage
<1>5. HEAP_PAGES \in Nat /\ HEAP_PAGES > 0 /\ HeapPage \in Nat
  BY BootAssumption, Layout
<1>6. HeapRun' = r..(r + HEAP_PAGES - 1)
  <2>1. HeapRun' = {r - (HeapPage - HeapPage) + i : i \in 0..(HEAP_PAGES - 1)}
    BY <1>4 DEF HeapRun
  <2>2. \A i \in 0..(HEAP_PAGES - 1) : r - (HeapPage - HeapPage) + i = r + i
    BY <1>3, <1>5
  <2>3. \A x \in r..(r + HEAP_PAGES - 1) : x - r \in 0..(HEAP_PAGES - 1) /\ x = r + (x - r)
    BY <1>3, <1>5
  <2>4. \A i \in 0..(HEAP_PAGES - 1) : r + i \in r..(r + HEAP_PAGES - 1)
    BY <1>3, <1>5
  <2>. QED
    BY <2>1, <2>2, <2>3, <2>4
<1>7. machine \in Machines /\ machine.used \subseteq allocated
  BY <1>1 DEF TypeOk
<1>8. TakenFrames \subseteq TakenFrames' /\ HeapRun' \subseteq TakenFrames' /\ HeapRun' \cap TakenFrames = {}
  <2>1. HeapRun' \subseteq Free(allocated) /\ allocated' = allocated \cup HeapRun'
    BY <1>2, <1>3, <1>6
  <2>. QED
    BY <1>2, <1>7, <2>1 DEF TakenFrames, Free
<1>9. OwnPages = {}
  <2>1. ASSUME NEW q \in OwnPages PROVE FALSE
    <3>1. q \in OwnWindow /\ IsMapped(mem, q * N)
      BY <2>1, OwnPagesAre
    <3>2. Done(q)
      BY <1>1, <3>1, OwnWindowed DEF WindowsInv, MemInv
    <3>. QED
      BY <1>1, <3>1, <3>2, OwnWindowed, NothingDone, Kinds
  <2>. QED
    BY <2>1
<1>10. OwnPages' = {}
  BY <1>2, <1>9, OwnPagesAre
<1>11. TablesTaken
  BY <1>1 DEF FramesInv
<1>12. TablesTaken' /\ PagesTaken' /\ PagesApart'
  BY <1>2, <1>8, <1>10, <1>11 DEF TablesTaken, PagesTaken, PagesApart
<1>13. RunTaken'
  <2>1. Cur' - HeapPage <= job'.phys
    BY <1>3, <1>4, <1>5
  <2>2. \A d \in TablesOf(mem') : mem'[DIR][d].frame \notin HeapRun'
    BY <1>2, <1>8, <1>11 DEF TablesTaken
  <2>. QED
    BY <1>8, <1>10, <2>1, <2>2 DEF RunTaken
<1>. QED
  BY <1>12, <1>13 DEF FramesInv

LEMMA JobStep ==
  ASSUME TypeOk, MapPage
  PROVE  /\ UNCHANGED <<machine, screen, root, fadt, dsdt, entry, pc>>
         /\ job.left \in Nat /\ job.left > 0 /\ job'.left = job.left - 1 /\ job'.kind = job.kind
         /\ job.phys \in Nat /\ job'.phys = job.phys + 1 /\ job'.at = job.at
         /\ Cur \in Nat /\ Cur' = Cur + 1
<1>1. /\ UNCHANGED <<machine, screen, root, fadt, dsdt, entry, pc>>
      /\ job' = [job EXCEPT !.left = @ - 1, !.virt = @ + N, !.phys = @ + 1]
  BY DEF MapPage, tables
<1>2. job \in [left : Nat, virt : Nat, phys : Nat, at : Nat, kind : {"none", "heap", "acpi", "screen", "user"}]
      /\ job.left > 0
  BY DEF TypeOk, MapPage
<1>3. /\ job'.left = job.left - 1 /\ job'.kind = job.kind /\ job'.virt = job.virt + N
      /\ job'.phys = job.phys + 1 /\ job'.at = job.at
  BY <1>1, <1>2
<1>4. Cur \in Nat /\ job.virt = Cur * N
  BY Numbers DEF TypeOk
<1>5. job'.virt = (Cur + 1) * N
  BY <1>3, <1>4, NType
<1>6. ((Cur + 1) * N) \div N = Cur + 1
  BY <1>4, PageStart
<1>7. Cur' = Cur + 1
  BY <1>5, <1>6 DEF Cur
<1>. QED
  BY <1>1, <1>2, <1>3, <1>4, <1>7

\* While the heap is mapped its pages are the only ones.
LEMMA HeapFirst ==
  ASSUME WindowsInv, pc # "vmm", job.kind = "heap", NEW q \in OwnPages
  PROVE  q \in Nat /\ HeapPage <= q /\ q < Cur
<1>1. TypeOk /\ JobOk /\ q \in OwnWindow /\ IsMapped(mem, q * N)
  BY OwnPagesAre DEF WindowsInv
<1>2. q \in Nat /\ Done(q)
  BY <1>1, OwnWindowed DEF WindowsInv, MemInv
<1>3. AcpiNext = AcpiPage /\ ~screen /\ AcpiPage \in Nat
  BY <1>1, Layout DEF JobOk
<1>. QED
  BY <1>2, <1>3 DEF Done, HeapDone, AcpiDone, ScreenDone, UserDone

\* The frame under a page of the heap or of the program was nobody's.
LEMMA OwnFrameFresh ==
  ASSUME WindowsInv, FramesInv, MapPage, Cur \in OwnWindow
  PROVE  /\ Data \in TakenFrames' /\ Data \in WithData
         /\ \A d \in TablesOf(mem) : mem[DIR][d].frame # Data
         /\ \A q \in OwnPages : FrameOf(q) # Data
         /\ job.kind = "heap" => Data = job.phys
<1>1. TypeOk /\ JobOk /\ job.left > 0 /\ machine \in Machines /\ pc # "vmm"
      /\ job.kind \in {"heap", "acpi", "screen", "user"}
  BY NextPage DEF WindowsInv, TypeOk, MapPage
<1>2. TablesTaken /\ PagesTaken /\ RunTaken
  BY <1>1 DEF FramesInv
<1>3. /\ allocated \subseteq Kept /\ Kept \subseteq WithData /\ WithData \subseteq allocated'
      /\ machine' = machine /\ machine.used \subseteq allocated
  BY <1>1, FramesTaken, MapPageEffect, JobStep DEF TypeOk
<1>4. TakenFrames \subseteq TakenFrames' /\ TakenFrames \subseteq allocated
  BY <1>3 DEF TakenFrames
<1>5. job.kind \in {"heap", "user"}
  <2>1. /\ Cur \in Nat /\ UserPage \in Nat /\ StackPage \in Nat /\ AcpiPage \in Nat /\ AcpiEnd \in Nat
        /\ HeapPage \in Nat /\ ScreenPage \in Nat /\ HEAP_PAGES \in Nat /\ KernelPage \in Nat
        /\ KernelEnd \in Nat /\ job.left \in Nat
    BY <1>1, Numbers, Bounds
  <2>2. Cur < KernelPage \/ (HeapPage <= Cur /\ Cur < HeapPage + HEAP_PAGES)
    BY <2>1, OwnWindowed, WindowPages
  <2>3. job.kind = "acpi" => AcpiPage <= Cur /\ Cur < AcpiEnd
    BY <1>1, <2>1 DEF JobOk
  <2>4. job.kind = "screen" => ScreenPage <= Cur
    BY <1>1 DEF JobOk
  <2>5. KernelPage < KernelEnd /\ KernelEnd <= AcpiPage /\ AcpiEnd <= HeapPage /\ AcpiPage <= AcpiEnd
        /\ HeapPage + HEAP_PAGES <= ScreenPage
    BY Bounds, Layout
  <2>. QED
    BY <1>1, <2>1, <2>2, <2>3, <2>4, <2>5
<1>6. CASE job.kind = "user"
  <2>1. IsUser
    BY <1>6 DEF IsUser
  <2>2. Data \in Free(Kept) /\ Data \in WithData
    BY <1>1, <2>1, FramesTaken
  <2>3. Data \in 1..(machine.total - 1) /\ Data \notin allocated /\ Data \in allocated'
    BY <1>3, <2>2 DEF Free
  <2>4. Data \in TakenFrames'
    BY <1>3, <2>3 DEF TakenFrames
  <2>. QED
    BY <1>2, <1>4, <1>6, <2>2, <2>3, <2>4 DEF TablesTaken, PagesTaken
<1>7. CASE job.kind = "heap"
  <2>1. Data = job.phys /\ job.phys \in Nat
    BY <1>1, <1>7 DEF Data, IsUser, TypeOk
  <2>2. /\ HeapPage <= Cur /\ Cur + job.left = HeapPage + HEAP_PAGES /\ Cur \in Nat /\ HeapPage \in Nat
        /\ job.left \in Nat /\ HEAP_PAGES \in Nat
    BY <1>1, <1>7, Numbers DEF JobOk
  <2>3. Data \in HeapRun
    <3>1. Cur - HeapPage \in 0..(HEAP_PAGES - 1)
      BY <1>1, <2>2
    <3>2. job.phys = job.phys - (Cur - HeapPage) + (Cur - HeapPage)
      BY <2>1, <2>2
    <3>. QED
      BY <2>1, <3>1, <3>2 DEF HeapRun
  <2>4. Data \in TakenFrames /\ \A d \in TablesOf(mem) : mem[DIR][d].frame # Data
    BY <1>2, <1>7, <2>3 DEF RunTaken
  <2>5. ASSUME NEW q \in OwnPages PROVE FrameOf(q) # Data
    <3>1. FrameOf(q) = job.phys - (Cur - q)
      BY <1>2, <1>7 DEF RunTaken
    <3>2. q \in Nat /\ q < Cur
      BY <1>1, <1>7, HeapFirst
    <3>. QED
      BY <2>1, <2>2, <3>1, <3>2
  <2>. QED
    BY <1>3, <1>4, <2>1, <2>4, <2>5
<1>. QED
  BY <1>5, <1>6, <1>7

LEMMA FramesMap ==
  ASSUME WindowsInv, FramesInv, MapPage
  PROVE  FramesInv'
<1>1. TypeOk /\ JobOk /\ job.left > 0 /\ pc # "vmm" /\ MemInv
  BY NextPage DEF WindowsInv, MapPage
<1>0. PICK c \in Nat : c = Cur
  BY <1>1, Numbers
<1>2. TablesTaken /\ PagesTaken /\ PagesApart /\ RunTaken
  BY <1>1 DEF FramesInv
<1>3. /\ IsMapped(mem', c * N) /\ FrameAt(mem', c * N) = Data
      /\ Others(mem, mem', c) /\ Extends(mem, mem') /\ WithData \subseteq allocated'
  BY <1>0, MapPageEffect
<1>4. /\ allocated \subseteq WithData /\ machine' = machine /\ machine.used \subseteq allocated
  BY <1>1, FramesTaken, JobStep DEF TypeOk
<1>5. TakenFrames \subseteq TakenFrames' /\ TakenFrames \subseteq WithData
  BY <1>3, <1>4 DEF TakenFrames
<1>6. ASSUME NEW d \in TablesOf(mem')
      PROVE  \/ d \in TablesOf(mem) /\ mem'[DIR][d].frame = mem[DIR][d].frame
             \/ mem'[DIR][d].frame \in TakenFrames' /\ mem'[DIR][d].frame \notin WithData
  <2>1. CASE mem'[DIR][d].frame \in Free(WithData) \cap allocated'
    BY <1>4, <2>1 DEF Free, TakenFrames
  <2>. QED
    BY <1>3, <2>1 DEF Extends
<1>7. ASSUME NEW q \in OwnPages', q # c
      PROVE  q \in OwnPages /\ FrameOf(q)' = FrameOf(q)
  <2>1. q \in OwnWindow /\ IsMapped(mem', q * N)
    BY <1>7, OwnPagesAre
  <2>2. q \in PageNumber /\ q \div N # N - 1
    BY <2>1, OwnWindowed DEF Windowed
  <2>3. Same(mem, mem', q)
    BY <1>3, <1>7, <2>2 DEF Others
  <2>. QED
    BY <2>1, <2>3, OwnPagesAre DEF Same, FrameOf
<1>8. c \in OwnPages' =>
         /\ FrameOf(c)' = Data /\ Data \in TakenFrames' /\ Data \in WithData
         /\ \A d \in TablesOf(mem) : mem[DIR][d].frame # Data
         /\ \A q \in OwnPages : FrameOf(q) # Data
         /\ job.kind = "heap" => Data = job.phys
  <2>1. c \in OwnPages' => Cur \in OwnWindow
    BY <1>0, OwnPagesAre
  <2>2. FrameOf(c)' = Data
    BY <1>3 DEF FrameOf
  <2>. QED
    BY <2>1, <2>2, OwnFrameFresh
<1>9. TablesTaken'
  BY <1>2, <1>5, <1>6 DEF TablesTaken
<1>10. ASSUME NEW q \in OwnPages'
       PROVE  /\ FrameOf(q)' \in TakenFrames' /\ FrameOf(q)' \in WithData
              /\ \A d \in TablesOf(mem) : mem[DIR][d].frame # FrameOf(q)'
  BY <1>2, <1>5, <1>7, <1>8 DEF PagesTaken
<1>11. PagesTaken'
  BY <1>6, <1>10 DEF PagesTaken
<1>12. PagesApart'
  BY <1>2, <1>7, <1>8 DEF PagesApart
<1>13. RunTaken'
  <2>1. SUFFICES ASSUME job.kind = "heap" PROVE RunTaken'
    BY <1>1, JobStep DEF RunTaken
  <2>2. /\ Cur \in Nat /\ Cur' = Cur + 1 /\ job.phys \in Nat /\ job'.phys = job.phys + 1
        /\ HeapPage \in Nat /\ HEAP_PAGES \in Nat /\ Cur - HeapPage <= job.phys
    BY <1>1, <1>2, <2>1, JobStep, Numbers DEF RunTaken
  <2>3. HeapRun' = HeapRun
    <3>1. job'.phys - (Cur' - HeapPage) = job.phys - (Cur - HeapPage)
      BY <2>2
    <3>. QED
      BY <3>1 DEF HeapRun
  <2>4. Cur' - HeapPage <= job'.phys
    BY <2>2
  <2>5. HeapRun \subseteq TakenFrames /\ \A d \in TablesOf(mem) : mem[DIR][d].frame \notin HeapRun
    BY <1>2, <2>1 DEF RunTaken
  <2>6. \A d \in TablesOf(mem') : mem'[DIR][d].frame \notin HeapRun
    BY <1>5, <1>6, <2>5
  <2>7. ASSUME NEW q \in OwnPages' PROVE FrameOf(q)' = job'.phys - (Cur' - q)
    <3>1. CASE q = c
      <4>1. Data = job.phys /\ FrameOf(q)' = Data
        BY <1>8, <2>1, <2>7, <3>1
      <4>. QED
        BY <1>0, <2>2, <3>1, <4>1
    <3>2. CASE q # c
      <4>1. q \in OwnPages /\ FrameOf(q)' = FrameOf(q)
        BY <1>7, <2>7, <3>2
      <4>2. FrameOf(q) = job.phys - (Cur - q) /\ q \in Nat
        BY <1>1, <1>2, <2>1, <4>1, HeapFirst DEF RunTaken
      <4>. QED
        BY <2>2, <4>1, <4>2
    <3>. QED
      BY <3>1, <3>2
  <2>. QED
    BY <1>5, <2>3, <2>4, <2>5, <2>6, <2>7 DEF RunTaken
<1>. QED
  BY <1>9, <1>11, <1>12, <1>13 DEF FramesInv

LEMMA FramesNext ==
  ASSUME WindowsInv, FramesInv, [Next]_vars
  PROVE  FramesInv'
<1>1. CASE VmmInit
  BY <1>1, FramesVmm
<1>2. CASE MapHeap
  BY <1>2, FramesHeap
<1>3. CASE MapPage
  BY <1>3, FramesMap
<1>4. CASE FindTables
  <2>1. /\ UNCHANGED <<machine, memory>> /\ pc # "vmm"
        /\ job' = job \/ \E phys, length \in Nat : MapRange(phys, length, pc')
    BY <1>4, FindTablesSteps DEF WindowsInv, Ranged
  <2>2. job'.kind = "heap" => job' = job
    BY <2>1 DEF MapRange, Map
  <2>. QED
    BY <2>1, <2>2, FramesKept DEF memory
<1>5. CASE MapFramebuffer \/ FramebufferReady \/ NoFramebuffer \/ NoProgram \/ MapProgram \/ MapStack
  <2>1. UNCHANGED <<machine, memory>> /\ pc # "vmm"
    BY <1>5 DEF MapFramebuffer, FramebufferReady, NoFramebuffer, NoProgram, MapProgram, MapStack, Running
  <2>2. job'.kind = "heap" => job' = job
    BY <1>5 DEF MapFramebuffer, FramebufferReady, NoFramebuffer, NoProgram, MapProgram, MapStack, Map
  <2>. QED
    BY <2>1, <2>2, FramesKept DEF memory
<1>6. CASE HeapFails \/ MapPageExhausted \/ ProgramRefused \/ Booted \/ UNCHANGED vars
  <2>1. UNCHANGED <<machine, memory, job, pc>>
    BY <1>6 DEF HeapFails, MapPageExhausted, ProgramRefused, Booted, Panic, vars
  <2>2. CASE pc = "vmm"
    BY <2>1, <2>2 DEF FramesInv
  <2>3. CASE pc # "vmm"
    BY <2>1, <2>3, FramesKept DEF memory
  <2>. QED
    BY <2>2, <2>3
<1>. QED
  BY <1>1, <1>2, <1>3, <1>4, <1>5, <1>6 DEF Next

LEMMA FramesHold == Spec /\ ScreenFits => [](WindowsInv /\ FramesInv)
<1>1. Init /\ ScreenFits => WindowsInv /\ FramesInv
  BY WindowsInit DEF Init, FramesInv
<1>2. WindowsInv /\ FramesInv /\ [Next]_vars => WindowsInv' /\ FramesInv'
  BY WindowsNext, FramesNext
<1>. QED
  BY <1>1, <1>2, PTL DEF Spec

-----------------------------------------------------------------------------
(* The frames, counted.                                                     *)

\* As many things as names, if no two have one name
LEMMA AsMany ==
  ASSUME NEW S, IsFiniteSet(S), NEW f, f = [x \in S |-> f[x]],
         \A x, y \in S : f[x] = f[y] => x = y,
         NEW T, T = {f[x] : x \in S}
  PROVE  IsFiniteSet(T) /\ Cardinality(T) = Cardinality(S)
<1>1. f \in Bijection(S, T)
  BY DEF Bijection, Injection, Surjection, IsInjective
<1>2. ExistsBijection(S, T)
  BY <1>1 DEF ExistsBijection
<1>. QED
  BY <1>2, FS_Bijection

LEMMA TablesAre ==
  ASSUME MemOk(mem)
  PROVE  TableDirs = TablesOf(mem)
<1>1. ASSUME NEW d \in Index \ {N - 1}
      PROVE  mem[DIR][d].present /\ ~mem[DIR][d].large <=> d \in TablesOf(mem)
  <2>1. d \in Windowed \/ d = 0 \/ d \in Kernels
    BY <1>1, Indices
  <2>2. CASE d \in Windowed
    BY <2>2 DEF MemOk, TablesOf
  <2>3. CASE d = 0
    BY <2>3 DEF MemOk, TablesOf, Absent, Windowed
  <2>4. CASE d \in Kernels
    <3>1. mem[DIR][d] = Large((d - KERNEL_DIR) * N)
      BY <2>4 DEF MemOk
    <3>2. \A g : Large(g).large
      BY DEF Large
    <3>. QED
      BY <2>4, <3>1, <3>2 DEF TablesOf, Windowed
  <2>. QED
    BY <2>1, <2>2, <2>3, <2>4
<1>2. TablesOf(mem) \subseteq Index \ {N - 1}
  BY DEF TablesOf, Windowed
<1>. QED
  BY <1>1, <1>2 DEF TableDirs

\* Tables, heap and program have frames of their own, which Pmm gave away.
FramesOwned ==
  pc # "vmm" =>
    /\ Cardinality(TableFrames \cup OwnFrames) = Cardinality(TableDirs) + Cardinality(OwnPages)
    /\ TableFrames \cup OwnFrames \subseteq (allocated \ machine.used) \cap (1..(machine.total - 1))

LEMMA Owned ==
  ASSUME WindowsInv, FramesInv
  PROVE  FramesOwned
<1>. SUFFICES ASSUME pc # "vmm" PROVE FramesOwned
  BY DEF FramesOwned
<1>1. MemOk(mem) /\ TablesTaken /\ PagesTaken /\ PagesApart
  BY DEF WindowsInv, MemInv, FramesInv
<1>2. TableDirs = TablesOf(mem)
  BY <1>1, TablesAre
<1>3. IsFiniteSet(TableDirs) /\ IsFiniteSet(OwnPages)
  <2>1. IsFiniteSet(0..(N - 1)) /\ IsFiniteSet(0..(N * N - 1))
    <3>1. N - 1 \in Int /\ N * N - 1 \in Int
      BY NType
    <3>. QED
      BY <3>1, FS_Interval
  <2>2. TableDirs \subseteq 0..(N - 1) /\ OwnPages \subseteq 0..(N * N - 1)
    BY DEF TableDirs, Index, OwnPages, Mapped
  <2>. QED
    BY <2>1, <2>2, FS_Subset
<1>4. IsFiniteSet(TableFrames) /\ Cardinality(TableFrames) = Cardinality(TableDirs)
  <2> DEFINE f == [d \in TableDirs |-> mem[DIR][d].frame]
  <2>1. \A x, y \in TableDirs : f[x] = f[y] => x = y
    BY <1>1, <1>2 DEF MemOk
  <2>2. TableFrames = {f[d] : d \in TableDirs} /\ f = [d \in TableDirs |-> f[d]]
    BY DEF TableFrames
  <2>. HIDE DEF f
  <2>. QED
    BY <1>3, <2>1, <2>2, AsMany
<1>5. IsFiniteSet(OwnFrames) /\ Cardinality(OwnFrames) = Cardinality(OwnPages)
  <2> DEFINE f == [q \in OwnPages |-> FrameOf(q)]
  <2>1. \A x, y \in OwnPages : f[x] = f[y] => x = y
    BY <1>1 DEF PagesApart
  <2>2. OwnFrames = {f[q] : q \in OwnPages} /\ f = [q \in OwnPages |-> f[q]]
    BY DEF OwnFrames
  <2>. HIDE DEF f
  <2>. QED
    BY <1>3, <2>1, <2>2, AsMany
<1>6. TableFrames \cap OwnFrames = {}
  BY <1>1, <1>2 DEF TableFrames, OwnFrames, PagesTaken
<1>7. Cardinality(TableFrames \cup OwnFrames) = Cardinality(TableDirs) + Cardinality(OwnPages)
  <2>1. Cardinality(TableDirs) \in Nat /\ Cardinality(OwnPages) \in Nat
    BY <1>3, FS_CardinalityType
  <2>2. Cardinality(TableFrames \cup OwnFrames)
          = Cardinality(TableFrames) + Cardinality(OwnFrames) - Cardinality(TableFrames \cap OwnFrames)
    BY <1>4, <1>5, FS_Union
  <2>3. Cardinality(TableFrames \cap OwnFrames) = 0
    BY <1>6, FS_EmptySet
  <2>. QED
    BY <1>4, <1>5, <2>1, <2>2, <2>3
<1>8. TableFrames \cup OwnFrames \subseteq TakenFrames
  BY <1>1, <1>2 DEF TableFrames, OwnFrames, TablesTaken, PagesTaken
<1>. QED
  BY <1>7, <1>8 DEF FramesOwned, TakenFrames

-----------------------------------------------------------------------------
(* What is read through a mapping.                                          *)

First == job.at \div N

\* The mapping in progress is one of the words from p on.
Fills(p, words) ==
  /\ p \in Nat /\ words \in Nat \ {0}
  /\ job.at = First * N + (p % N) /\ First <= Cur
  /\ job.phys = (p \div N) + (Cur - First) /\ Cur + job.left = First + Pages((p % N) + words)
  /\ \A q \in First..(Cur - 1) : IsMapped(mem, q * N) /\ FrameOf(q) = (p \div N) + (q - First)

\* Words read, below the directory's mapping
Holds(virt, phys, words) ==
  /\ virt \in Nat /\ phys \in Nat /\ words \in Nat /\ virt + words <= Top * N
  /\ Reads(virt, phys, words)

\* The processor looks at pages.
LEMMA ByPage ==
  ASSUME NEW m, NEW v \in Nat
  PROVE  /\ IsMapped(m, v) <=> IsMapped(m, (v \div N) * N)
         /\ FrameAt(m, v) = FrameAt(m, (v \div N) * N)
<1> DEFINE q == v \div N
           u == q * N
<1>1. q \in Nat /\ DirIndex(v) = q \div N /\ TableIndex(v) = q % N
  BY Address
<1>2. DirIndex(u) = q \div N /\ TableIndex(u) = q % N
  BY <1>1, PageStart
<1>3. DirIndex(u) = DirIndex(v) /\ TableIndex(u) = TableIndex(v)
  BY <1>1, <1>2
<1>. HIDE DEF u, q
<1>4. Pde(m, u) = Pde(m, v) /\ Pte(m, u) = Pte(m, v)
  BY <1>3 DEF Pde, Pte
<1>. QED
  BY <1>3, <1>4 DEF IsMapped, FrameAt, u, q

\* A word, by the offset in its mapping
LEMMA Offset ==
  ASSUME NEW f \in Nat, NEW o \in Nat
  PROVE  /\ f * N + o \in Nat /\ (f * N + o) \div N = f + (o \div N) /\ (f * N + o) % N = o % N
         /\ (f + (o \div N)) * N + (o % N) = f * N + o
<1> DEFINE d == o \div N
           r == o % N
           a == f * N
           b == d * N
<1>1. d \in Nat /\ r \in Nat /\ r < N /\ o = N * d + r
  BY NType, WholeAndRest
<1>2. a \in Nat /\ b \in Nat /\ o = b + r /\ (f + d) * N = a + b /\ N * (f + d) = a + b /\ f + d \in Nat
  BY <1>1, NType
<1>. HIDE DEF a, b, d, r
<1>3. a + o \in Nat /\ a + o = N * (f + d) + r
  BY <1>1, <1>2
<1>4. (a + o) \div N = f + d /\ (a + o) % N = r
  BY <1>1, <1>2, <1>3, NType, RestOf
<1>5. (f + d) * N + r = a + o
  BY <1>1, <1>2, <1>3
<1>. QED
  BY <1>3, <1>4, <1>5 DEF a, d, r

\* Once it is done, the words are read through the mapping.
LEMMA Filled ==
  ASSUME TypeOk, NEW p, NEW words, Fills(p, words), job.left = 0, Cur <= Top
  PROVE  Holds(job.at, p, words)
<1> DEFINE f == p \div N
           s == p % N
           n == Pages(s + words)
<1>1. p \in Nat /\ words \in Nat /\ words > 0
  BY DEF Fills
<1>2. f \in Nat /\ s \in Nat /\ p = f * N + s
  BY <1>1, NType, WholeAndRest
<1>3. First \in Nat /\ job.at \in Nat /\ Cur \in Nat /\ job.left \in Nat
  <2>1. job.at \in Nat
    BY DEF TypeOk
  <2>. QED
    BY <2>1, NType, WholeAndRest, Numbers DEF First
<1>4. s + words \in Nat /\ n \in Nat /\ s + words <= n * N
  BY <1>1, <1>2, PagesOf
<1>5. job.at = First * N + s /\ Cur = First + n
      /\ \A q \in First..(Cur - 1) : IsMapped(mem, q * N) /\ FrameAt(mem, q * N) = f + (q - First)
  <2>1. /\ job.at = First * N + s /\ Cur + job.left = First + n
        /\ \A q \in First..(Cur - 1) : IsMapped(mem, q * N) /\ FrameAt(mem, q * N) = f + (q - First)
    BY DEF Fills, FrameOf
  <2>. HIDE DEF n
  <2>. QED
    BY <1>3, <1>4, <2>1
<1>6. job.at + words <= Top * N
  <2> DEFINE a == First * N
             b == n * N
  <2>1. Cur * N = a + b /\ a \in Nat /\ b \in Nat
    BY <1>3, <1>4, <1>5, NType
  <2>2. Cur * N <= Top * N /\ Top * N \in Nat
    BY <1>3, Bounds, Scale
  <2> DEFINE c == Top * N
  <2>3. a + b <= c /\ c \in Nat /\ job.at = a + s /\ s + words <= b
    BY <1>4, <1>5, <2>1, <2>2
  <2>. HIDE DEF a, b, c, s
  <2>. QED
    BY <1>1, <1>2, <2>1, <2>3 DEF c
<1>7. ASSUME NEW k \in 0..(words - 1)
      PROVE  /\ IsMapped(mem, job.at + k)
             /\ FrameAt(mem, job.at + k) * N + ((job.at + k) % N) = p + k
  <2> DEFINE o == s + k
             d == o \div N
             v == job.at + k
  <2>1. k \in Nat /\ k < words
    BY <1>1
  <2>2. o \in Nat /\ o < s + words
    BY <1>1, <1>2, <2>1
  <2>3. d \in Nat /\ o % N \in Nat
    BY <2>2, NType, WholeAndRest
  <2>4. v = First * N + o
    <3> DEFINE a == First * N
    <3>1. a \in Nat /\ job.at = a + s
      BY <1>3, <1>5, NType
    <3>. HIDE DEF a, s
    <3>. QED
      BY <1>2, <2>1, <3>1 DEF a
  <2>5. v \in Nat /\ v \div N = First + d /\ v % N = o % N
    <3>1. /\ First * N + o \in Nat /\ (First * N + o) \div N = First + (o \div N)
          /\ (First * N + o) % N = o % N
      BY <1>3, <2>2, Offset
    <3>. HIDE DEF v, o
    <3>. QED
      BY <2>4, <3>1 DEF d
  <2>6. d < n
    <3>1. o < n * N
      <4> DEFINE b == n * N
      <4>1. b \in Nat /\ s + words <= b
        BY <1>4, Scale
      <4>. HIDE DEF b, o
      <4>. QED
        BY <1>4, <2>2, <4>1 DEF b
    <3>. QED
      BY <1>4, <2>2, <3>1, InDirectory
  <2>7. First + d \in First..(Cur - 1)
    <3>. HIDE DEF d, n
    <3>. QED
      BY <1>3, <1>4, <1>5, <2>3, <2>6
  <2>8. IsMapped(mem, v) /\ FrameAt(mem, v) = f + d
    <3>1. IsMapped(mem, (First + d) * N) /\ FrameAt(mem, (First + d) * N) = f + ((First + d) - First)
      BY <1>5, <2>7
    <3>2. f + ((First + d) - First) = f + d
      <4>. HIDE DEF f, d
      <4>. QED
        BY <1>2, <1>3, <2>3
    <3>. QED
      BY <2>5, <3>1, <3>2, ByPage
  <2>9. (f + d) * N + (o % N) = f * N + o
    BY <1>2, <2>2, Offset
  <2>10. f * N + o = p + k
    <3> DEFINE a == f * N
    <3>1. a \in Nat /\ p = a + s
      BY <1>2, NType
    <3>. HIDE DEF a, s
    <3>. QED
      BY <1>2, <2>1, <3>1 DEF a
  <2>. QED
    BY <2>5, <2>8, <2>9, <2>10
<1>. QED
  BY <1>1, <1>3, <1>6, <1>7 DEF Holds, Reads

LEMMA WordRead ==
  ASSUME NEW virt, NEW phys, NEW words, Holds(virt, phys, words), NEW k \in Nat, k < words
  PROVE  Word(virt + k) = Rom(phys + k)
<1>1. k \in 0..(words - 1)
  BY DEF Holds
<1>. QED
  BY <1>1 DEF Holds, Reads, Word, Rom


\* What is read stays where it is.
LEMMA HoldsKept ==
  ASSUME NEW virt, NEW phys, NEW words, Holds(virt, phys, words), mem' = mem
  PROVE  Holds(virt, phys, words)'
BY DEF Holds, Reads

LEMMA HoldsMap ==
  ASSUME WindowsInv, MapPage, NEW virt \in Nat, NEW phys \in Nat, NEW words \in Nat, Holds(virt, phys, words)
  PROVE  Holds(virt, phys, words)'
<1>0. PICK c \in Nat : c = Cur
  BY Numbers DEF WindowsInv
<1>1. job.left > 0 /\ pc # "vmm"
  BY NextPage DEF MapPage
<1>2. c \in PageNumber /\ ~IsMapped(mem, c * N)
  BY <1>0, <1>1, NextPage DEF WindowsInv, MemInv
<1>3. Others(mem, mem', c)
  BY <1>0, MapPageEffect
<1>4. ASSUME NEW k \in 0..(words - 1)
      PROVE  /\ IsMapped(mem', virt + k) <=> IsMapped(mem, virt + k)
             /\ FrameAt(mem', virt + k) = FrameAt(mem, virt + k)
  <2> DEFINE v == virt + k
             q == v \div N
             T == Top * N
  <2>1. v \in Nat /\ v < T
    <3>1. T \in Nat /\ virt + words <= T
      BY Bounds, Scale DEF Holds
    <3>. HIDE DEF T
    <3>. QED
      BY <3>1
  <2>. HIDE DEF v
  <2>2. q \in Nat /\ q < Top
    BY <2>1, Bounds, InDirectory, NType, WholeAndRest
  <2>3. IsMapped(mem, v)
    BY DEF Holds, Reads, v
  <2>. HIDE DEF q, T
  <2>4. q \in PageNumber
    <3> DEFINE Q == N * N
    <3>1. Q \in Nat /\ Top < Q /\ Top \in Nat
      BY Bounds, NType
    <3>. HIDE DEF Q
    <3>2. q \in 0..(Q - 1)
      BY <2>2, <3>1
    <3>. QED
      BY <3>2 DEF PageNumber, Q
  <2>5. q \div N # N - 1
    BY <2>2, <2>4, Regions, Bounds
  <2>6. IsMapped(mem, q * N)
    BY <2>1, <2>3, ByPage DEF q
  <2>7. q # c
    BY <1>2, <2>6
  <2>8. Same(mem, mem', q)
    BY <1>3, <2>4, <2>5, <2>7 DEF Others
  <2>9. IsMapped(mem', v) /\ FrameAt(mem', v) = FrameAt(mem, v)
    BY <2>1, <2>6, <2>8, ByPage DEF Same, q
  <2>. QED
    BY <2>3, <2>9 DEF v
<1>. QED
  BY <1>4 DEF Holds, Reads

\* A mapping in progress goes on.
LEMMA FillsMap ==
  ASSUME WindowsInv, MapPage, ~IsUser, NEW p, NEW words, Fills(p, words)
  PROVE  Fills(p, words)'
<1>0. PICK c \in Nat : c = Cur
  BY Numbers DEF WindowsInv
<1>1. TypeOk /\ job.left > 0 /\ pc # "vmm"
  BY NextPage DEF MapPage, WindowsInv
<1>2. /\ job.left \in Nat /\ job'.left = job.left - 1 /\ job.phys \in Nat /\ job'.phys = job.phys + 1
      /\ job'.at = job.at /\ Cur' = c + 1
  BY <1>0, <1>1, JobStep
<1>3. First' = First /\ First \in Nat
  <2>1. job.at \in Nat
    BY <1>1 DEF TypeOk
  <2>. QED
    BY <1>2, <2>1, NType, WholeAndRest DEF First
<1>4. PICK a \in Nat, n \in Nat, f \in Nat :
        a = First /\ n = Pages((p % N) + words) /\ f = p \div N
  <2>1. p \in Nat /\ words \in Nat
    BY DEF Fills
  <2>2. p % N \in Nat /\ p \div N \in Nat
    BY <2>1, NType, WholeAndRest
  <2>3. (p % N) + words \in Nat
    BY <2>1, <2>2
  <2>4. Pages((p % N) + words) \in Nat
    BY <2>3, PagesOf
  <2>. QED
    BY <1>3, <2>2, <2>4
<1>5. /\ a <= c /\ job.phys = f + (c - a) /\ c + job.left = a + n
      /\ \A q \in a..(c - 1) : IsMapped(mem, q * N) /\ FrameOf(q) = f + (q - a)
  BY <1>0, <1>4 DEF Fills
<1>6. a <= c + 1 /\ job'.phys = f + (c + 1 - a) /\ c + 1 + job'.left = a + n
  BY <1>1, <1>2, <1>5
<1>7. c \in PageNumber /\ c < Top
  <2>1. c \in PageNumber /\ c \div N \in Windowed
    BY <1>0, <1>1, NextPage
  <2>. QED
    BY <2>1, Regions, Bounds
<1>8. IsMapped(mem', c * N) /\ FrameAt(mem', c * N) = f + (c - a) /\ Others(mem, mem', c)
  <2>1. Data = job.phys
    BY DEF Data
  <2>. QED
    BY <1>0, <1>5, <2>1, MapPageEffect
<1>9. ASSUME NEW q \in a..c
      PROVE  IsMapped(mem', q * N) /\ FrameOf(q)' = f + (q - a)
  <2>1. CASE q = c
    BY <1>8, <2>1 DEF FrameOf
  <2>2. CASE q # c
    <3>1. q \in a..(c - 1) /\ q \in PageNumber /\ q \in Nat /\ q < Top
      <4>1. q \in Nat /\ q < c /\ a <= q
        BY <1>9, <2>2
      <4>2. q \in PageNumber
        <5> DEFINE Q == N * N
        <5>1. Q \in Nat /\ c < Q
          BY <1>7, Regions, NType
        <5>. HIDE DEF Q
        <5>2. q \in 0..(Q - 1)
          BY <4>1, <5>1
        <5>. QED
          BY <5>2 DEF PageNumber, Q
      <4>. QED
        BY <1>7, <4>1, <4>2, Bounds
    <3>2. q \div N # N - 1
      BY <3>1, Regions, Bounds
    <3>3. Same(mem, mem', q)
      BY <1>8, <2>2, <3>1, <3>2 DEF Others
    <3>. QED
      BY <1>5, <3>1, <3>3 DEF Same, FrameOf
  <2>. QED
    BY <2>1, <2>2
<1>10. Cur' - 1 = c
  BY <1>2
<1>11. p \in Nat /\ words \in Nat \ {0} /\ job.at = First * N + (p % N)
  BY DEF Fills
<1>. QED
  BY <1>2, <1>3, <1>4, <1>6, <1>9, <1>10, <1>11 DEF Fills

LEMMA FillsKept ==
  ASSUME NEW p, NEW words, Fills(p, words), mem' = mem, job' = job
  PROVE  Fills(p, words)'
BY DEF Fills, First, Cur, FrameOf

\* acpi_map_range and framebuffer_init start one.
LEMMA FillsStart ==
  ASSUME NEW kind, NEW b \in Nat, NEW p \in Nat, NEW words \in Nat \ {0}, NEW next,
         Map(kind, b * N, p, (p % N) + words, next)
  PROVE  Fills(p, words)' /\ First' = b /\ job'.kind = kind
<1> DEFINE w == (p % N) + words
           v == b * N
           s == p % N
<1>1. s \in Nat /\ s < N /\ w \in Nat /\ v \in Nat /\ v \div N = b /\ p \div N \in Nat /\ Pages(w) \in Nat
  <2>1. s \in Nat /\ s < N /\ p \div N \in Nat
    BY NType, WholeAndRest
  <2>2. w \in Nat
    BY <2>1
  <2>3. v \in Nat /\ v \div N = b
    BY PageStart
  <2>. QED
    BY <2>1, <2>2, <2>3, PagesOf
<1>. HIDE DEF w, v
<1>2. /\ job'.left = Pages(w) /\ job'.virt = v /\ Cur' = b /\ job'.phys = p \div N
      /\ job'.at = v + s /\ job'.kind = kind
  <2>1. Map(kind, v, p, w, next)
    BY DEF v, w
  <2>. QED
    BY <1>1, <2>1, JobStarted
<1>3. First' = b
  <2>1. job'.at = b * N + s
    BY <1>2 DEF v
  <2>2. s \div N = 0
    BY <1>1, NType
  <2>. HIDE DEF s
  <2>3. (b * N + s) \div N = b + (s \div N)
    BY <1>1, Offset
  <2>. QED
    BY <2>1, <2>2, <2>3 DEF First
<1>4. job'.at = First' * N + (p % N) /\ First' <= Cur'
  BY <1>2, <1>3 DEF v
<1>5. job'.phys = (p \div N) + (Cur' - First') /\ Cur' + job'.left = First' + Pages((p % N) + words)
  BY <1>1, <1>2, <1>3 DEF w
<1>6. First'..(Cur' - 1) = {}
  BY <1>2, <1>3
<1>. QED
  BY <1>2, <1>3, <1>4, <1>5, <1>6 DEF Fills

-----------------------------------------------------------------------------
(* The tables.                                                              *)

Fetched(t) == Holds(t[1], t[2], Rom(t[2] + 1))
RootRead == root # None => root[2] = machine.root /\ Rom(machine.root + 1) >= HEADER /\ Fetched(root)
FadtRead ==
  fadt # None =>
    fadt[2] \in Pointers /\ Rom(fadt[2]) = FACP /\ Rom(fadt[2] + 1) >= FADT /\ Fetched(fadt)
DsdtRead ==
  dsdt # None =>
    fadt # None /\ dsdt[2] = Rom(fadt[2] + HEADER) /\ Rom(dsdt[2]) = DSDT /\ Fetched(dsdt)
ScreenRead ==
  screen => Holds(virtual_base + (machine.framebuffer[1] % N), machine.framebuffer[1], machine.framebuffer[2])

\* What the step at pc waits for
Reading == Ranged \cup {"screen_mapped"}
Wanted(p, words) ==
  \/ pc = "root_header" /\ p = machine.root /\ words = HEADER
  \/ pc = "root_table" /\ p = machine.root /\ words = Rom(p + 1) /\ words >= HEADER
  \/ pc = "entry_header" /\ p = entry[2] /\ p \in Pointers /\ words = HEADER
  \/ pc = "fadt" /\ p = entry[2] /\ p \in Pointers /\ Rom(p) = FACP /\ words = Rom(p + 1) /\ words >= HEADER
  \/ pc = "dsdt_header" /\ p = Rom(fadt[2] + HEADER) /\ words = HEADER
  \/ pc = "dsdt" /\ p = Rom(fadt[2] + HEADER) /\ words = Rom(p + 1) /\ words >= HEADER
  \/ pc = "screen_mapped" /\ p = machine.framebuffer[1] /\ words = machine.framebuffer[2] /\ First = ScreenPage
Mapping == pc \in Reading => \E p, words \in Nat : Wanted(p, words) /\ Fills(p, words)

Order ==
  /\ pc = "vmm" => root = None /\ fadt = None /\ dsdt = None /\ ~screen
  /\ pc \in {"entry", "entry_header", "fadt", "dsdt_header", "dsdt"} => root # None
  /\ pc \in {"dsdt_header", "dsdt"} => fadt # None
  /\ pc \in Ranged \cup {"vmm", "heap", "root", "entry"} => dsdt = None

TablesInv == RootRead /\ FadtRead /\ DsdtRead /\ ScreenRead /\ Mapping /\ Order

LEMMA RomType ==
  ASSUME machine \in Machines, NEW p
  PROVE  Rom(p) \in Nat
BY MachineTypes DEF Rom

LEMMA RomKept ==
  ASSUME machine' = machine
  PROVE  /\ Pointers' = Pointers
         /\ \A p : Rom(p)' = Rom(p)
BY DEF Pointers, PointerIds, Pointed, PointerSize, Rom

\* A mapping that is waited for lies in the window of mappings or the screen's.
LEMMA ReadingBelow ==
  ASSUME WindowsInv, pc \in Reading
  PROVE  TypeOk /\ Cur <= Top /\ job.kind \in {"acpi", "screen"} /\ pc # "vmm"
<1>1. TypeOk /\ JobOk /\ ScreenFits
  BY DEF WindowsInv
<1>2. job.kind \in {"acpi", "screen"}
  BY <1>1 DEF JobOk, TypeOk, Reading, Ranged
<1>3. /\ Cur \in Nat /\ job.left \in Nat /\ AcpiEnd \in Nat /\ HeapPage \in Nat /\ HEAP_PAGES \in Nat
      /\ ScreenPage \in Nat /\ ScreenPages \in Nat /\ Top \in Nat
      /\ AcpiEnd <= HeapPage /\ HeapPage + HEAP_PAGES <= ScreenPage /\ ScreenPage <= Top
  BY <1>1, Numbers, Bounds, Layout
<1>4. job.kind = "acpi" => Cur + job.left <= AcpiEnd
  BY <1>1 DEF JobOk
<1>5. job.kind = "screen" => Cur + job.left = ScreenPage + ScreenPages /\ ScreenPage + ScreenPages <= Top
  BY <1>1, Fits DEF JobOk, TypeOk
<1>. QED
  BY <1>1, <1>2, <1>3, <1>4, <1>5 DEF Reading, Ranged

\* What is there once it is done
LEMMA Waited ==
  ASSUME WindowsInv, Mapping, pc \in Reading, job.left = 0
  PROVE  \E p, words \in Nat :
           /\ Wanted(p, words) /\ Holds(job.at, p, words)
           /\ pc # "screen_mapped" => words >= HEADER /\ Signature = Rom(p) /\ Length = Rom(p + 1)
<1>1. PICK p \in Nat, words \in Nat : Wanted(p, words) /\ Fills(p, words)
  BY DEF Mapping
<1>2. TypeOk /\ Cur <= Top
  BY ReadingBelow
<1>3. Holds(job.at, p, words)
  BY <1>1, <1>2, Filled
<1>4. HEADER \in Nat /\ HEADER > 1
  BY LayoutAssumption
<1>5. pc # "screen_mapped" => words >= HEADER
  BY <1>1, <1>4 DEF Wanted
<1>6. words > 1 => Signature = Rom(p) /\ Length = Rom(p + 1)
  <2>1. \A k \in Nat : k < words => Word(job.at + k) = Rom(p + k)
    BY <1>3, WordRead
  <2>2. job.at + 0 = job.at /\ p + 0 = p
    BY <1>2 DEF TypeOk
  <2>3. words > 1 => Word(job.at + 0) = Rom(p + 0) /\ Word(job.at + 1) = Rom(p + 1)
    BY <2>1
  <2>. QED
    BY <2>2, <2>3 DEF Signature, Length
<1>. QED
  BY <1>1, <1>3, <1>4, <1>5, <1>6

\* acpi_map_range
LEMMA Asks ==
  ASSUME TypeOk, NEW p \in Nat, NEW words \in Nat, NEW next, MapRange(p, words, next)
  PROVE  Fills(p, words)' /\ pc' = next
<1>1. words \in Nat \ {0} /\ Map("acpi", acpi_mapping_next, p, (p % N) + words, next)
  BY DEF MapRange, Mappable
<1>2. acpi_mapping_next = AcpiNext * N /\ AcpiNext \in Nat
  BY Numbers DEF TypeOk
<1>3. Map("acpi", AcpiNext * N, p, (p % N) + words, next)
  BY <1>1, <1>2
<1>. QED
  BY <1>1, <1>2, <1>3, FillsStart DEF Map

\* Steps that only read keep what was found.
LEMMA FoundKept ==
  ASSUME RootRead, FadtRead, DsdtRead, ScreenRead, mem' = mem, machine' = machine
  PROVE  /\ root' = root => RootRead'
         /\ fadt' = fadt => FadtRead'
         /\ fadt' = fadt /\ dsdt' = dsdt => DsdtRead'
         /\ screen' = screen => ScreenRead'
         /\ \A t, p, words : Holds(t, p, words) => Holds(t, p, words)'
<1>1. \A t, p, words : Holds(t, p, words) => Holds(t, p, words)'
  BY HoldsKept
<1>2. \A t : Fetched(t) => Fetched(t)'
  BY <1>1, RomKept DEF Fetched
<1>3. root' = root => RootRead'
  BY <1>2, RomKept DEF RootRead, Fetched
<1>4. fadt' = fadt => FadtRead'
  BY <1>2, RomKept DEF FadtRead, Fetched
<1>5. fadt' = fadt /\ dsdt' = dsdt => DsdtRead'
  BY <1>2, RomKept DEF DsdtRead, Fetched
<1>6. screen' = screen => ScreenRead'
  BY <1>1 DEF ScreenRead
<1>. QED
  BY <1>1, <1>3, <1>4, <1>5, <1>6

LEMMA TablesSteady ==
  ASSUME TablesInv, UNCHANGED <<machine, mem, job, pc, root, fadt, dsdt, entry, screen>>
  PROVE  TablesInv'
<1>1. RootRead' /\ FadtRead' /\ DsdtRead' /\ ScreenRead'
  BY FoundKept DEF TablesInv
<1>2. \A p, words : (Wanted(p, words)' <=> Wanted(p, words)) /\ (Fills(p, words) => Fills(p, words)')
  BY RomKept, FillsKept DEF Wanted, First
<1>. QED
  BY <1>1, <1>2 DEF TablesInv, Mapping, Order, Ranged

\* A step that asks for a mapping, or panics
LEMMA AskedOrNot ==
  ASSUME WindowsInv, TablesInv, NEW p \in Nat, NEW words \in Nat, NEW next \in Ranged,
         MapOrPanic(p, words, next)
  PROVE  \/ TablesInv'
         \/ /\ Fills(p, words)' /\ pc' = next /\ UNCHANGED <<machine, mem, root, fadt, dsdt, entry, screen>>
            /\ RootRead' /\ FadtRead' /\ DsdtRead' /\ ScreenRead'
<1>1. TypeOk
  BY DEF WindowsInv
<1>2. CASE Mappable(p, words)
  <2>1. MapRange(p, words, next) /\ UNCHANGED <<machine, mem, root, fadt, dsdt, entry, screen>>
    BY <1>2 DEF MapOrPanic, Acpi, tables, memory
  <2>2. RootRead' /\ FadtRead' /\ DsdtRead' /\ ScreenRead'
    BY <2>1, FoundKept DEF TablesInv
  <2>. QED
    BY <1>1, <2>1, <2>2, Asks
<1>3. CASE ~Mappable(p, words)
  <2>1. UNCHANGED <<machine, mem, job, pc, root, fadt, dsdt, entry, screen>>
    BY <1>3 DEF MapOrPanic, Panic, memory, tables
  <2>. QED
    BY <2>1, TablesSteady
<1>. QED
  BY <1>2, <1>3

LEMMA TablesPanic ==
  ASSUME TablesInv, NEW why, Panic(why)
  PROVE  TablesInv'
BY TablesSteady DEF Panic, memory, tables

LEMMA TablesRootHeader ==
  ASSUME WindowsInv, TablesInv, RootHeader
  PROVE  TablesInv'
<1>1. machine \in Machines /\ machine.root \in Nat /\ HEADER \in Nat /\ "root_header" \in Ranged
  BY MachineTypes, LayoutAssumption DEF WindowsInv, TypeOk, Ranged
<1>2. Panic("acpi") \/ MapOrPanic(machine.root, HEADER, "root_header")
  BY DEF RootHeader
<1>3. ASSUME Fills(machine.root, HEADER)', pc' = "root_header", UNCHANGED <<machine, mem, root, fadt, dsdt, entry, screen>>,
             RootRead', FadtRead', DsdtRead', ScreenRead'
      PROVE  TablesInv'
  <2>1. Wanted(machine.root, HEADER)'
    BY <1>3 DEF Wanted
  <2>2. Mapping'
    BY <1>1, <1>3, <2>1 DEF Mapping
  <2>3. pc = "root"
    BY DEF RootHeader, Running
  <2>. QED
    BY <1>3, <2>2, <2>3 DEF TablesInv, Order, Ranged
<1>. QED
  BY <1>1, <1>2, <1>3, AskedOrNot, TablesPanic

LEMMA TablesRootTable ==
  ASSUME WindowsInv, TablesInv, RootTable
  PROVE  TablesInv'
<1>0. pc = "root_header" /\ job.left = 0 /\ "root_table" \in Ranged
  BY DEF RootTable, Running, Ranged
<1>1. machine \in Machines /\ machine.root \in Nat /\ HEADER \in Nat
  BY MachineTypes, LayoutAssumption DEF WindowsInv, TypeOk
<1>2. Length = Rom(machine.root + 1) /\ Length \in Nat
  BY <1>0, <1>1, Waited, RomType DEF TablesInv, Wanted, Reading, Ranged
<1>3. PICK p \in Nat, n \in Nat : p = machine.root /\ n = Length
  BY <1>1, <1>2
<1>4. Panic("acpi") \/ (n >= HEADER /\ MapOrPanic(p, n, "root_table"))
  BY <1>1, <1>2, <1>3 DEF RootTable
<1>5. ASSUME Fills(p, n)', pc' = "root_table", n >= HEADER, UNCHANGED <<machine, mem, root, fadt, dsdt, entry, screen>>,
             RootRead', FadtRead', DsdtRead', ScreenRead'
      PROVE  TablesInv'
  <2>1. n = Rom(p + 1)' /\ p = machine'.root
    BY <1>2, <1>3, <1>5, RomKept
  <2>2. Wanted(p, n)'
    BY <1>5, <2>1 DEF Wanted
  <2>3. Mapping'
    BY <1>3, <1>5, <2>2 DEF Mapping
  <2>. QED
    BY <1>0, <1>5, <2>3 DEF TablesInv, Order, Ranged
<1>. QED
  BY <1>0, <1>4, <1>5, AskedOrNot, TablesPanic

LEMMA TablesFindFadt ==
  ASSUME WindowsInv, TablesInv, FindFadt
  PROVE  TablesInv'
<1>0. pc = "root_table" /\ job.left = 0
  BY DEF FindFadt, Running
<1>1. /\ Holds(job.at, machine.root, Rom(machine.root + 1)) /\ Rom(machine.root + 1) >= HEADER
  BY <1>0, Waited DEF TablesInv, Wanted, Reading, Ranged
<1>2. CASE Panic("acpi")
  BY <1>2, TablesPanic
<1>3. CASE ~Panic("acpi")
  <2>1. /\ root' = <<job.at, machine.root>> /\ pc' = "entry"
        /\ UNCHANGED <<machine, mem, screen, fadt, dsdt>>
    BY <1>3 DEF FindFadt, Acpi, memory
  <2>2. FadtRead' /\ DsdtRead' /\ ScreenRead' /\ Holds(job.at, machine.root, Rom(machine.root + 1))
    BY <1>1, <2>1, FoundKept DEF TablesInv
  <2>3. \A t, p, words : Holds(t, p, words) => Holds(t, p, words)'
    BY <2>1, HoldsKept
  <2>4. PICK a, p, n : a = job.at /\ p = machine.root /\ n = Rom(machine.root + 1)
    OBVIOUS
  <2>5. Holds(a, p, n)'
    BY <1>1, <2>3, <2>4
  <2>6. RootRead'
    BY <1>1, <2>1, <2>4, <2>5, RomKept DEF RootRead, Fetched
  <2>7. root' # None
    BY <2>1 DEF None
  <2>8. pc' \notin Reading
    BY <2>1 DEF Reading, Ranged
  <2>. QED
    BY <1>0, <2>1, <2>2, <2>6, <2>7, <2>8 DEF TablesInv, Mapping, Order, Ranged
<1>. QED
  BY <1>2, <1>3

\* A pointer of the root table, read through its mapping
LEMMA PointerRead ==
  ASSUME WindowsInv, TablesInv, root # None, entry[1] < Entries
  PROVE  /\ entry[1] \in PointerIds /\ Pointed(entry[1]) \in Pointers
         /\ Word(root[1] + HEADER + entry[1] * PointerSize) = Pointed(entry[1])
<1> DEFINE len == Rom(machine.root + 1)
           n == (len - HEADER) \div PointerSize
           i == entry[1]
           k == HEADER + i * PointerSize
<1>1. machine \in Machines /\ machine.root \in Nat /\ HEADER \in Nat /\ HEADER > 1 /\ i \in Nat /\ root \in Nat \X Nat
  BY MachineTypes, LayoutAssumption DEF WindowsInv, TypeOk, None
<1>2. root[2] = machine.root /\ len >= HEADER /\ Holds(root[1], machine.root, len) /\ len \in Nat
  BY <1>1, RomType DEF TablesInv, RootRead, Fetched
<1>3. \A j \in Nat : j < len => Word(root[1] + j) = Rom(machine.root + j)
  BY <1>2, WordRead
<1>4. Word(root[1] + 1) = len
  BY <1>1, <1>2, <1>3
<1>5. i < n
  BY <1>4 DEF Entries
<1>6. n \in Nat /\ n * PointerSize <= len - HEADER /\ (PointerSize = 1 \/ PointerSize = 2)
  <2>1. len - HEADER \in Nat
    BY <1>1, <1>2
  <2>2. PointerSize = 1 \/ PointerSize = 2
    BY DEF PointerSize
  <2>. HIDE DEF len
  <2>. QED
    BY <2>1, <2>2
<1>. HIDE DEF n, len, i
<1>7. k \in Nat /\ k < len
  <2>1. CASE PointerSize = 1
    BY <1>1, <1>2, <1>5, <1>6, <2>1
  <2>2. CASE PointerSize = 2
    BY <1>1, <1>2, <1>5, <1>6, <2>2
  <2>. QED
    BY <1>6, <2>1, <2>2
<1>8. /\ root[1] + HEADER + i * PointerSize = root[1] + k
      /\ machine.root + HEADER + i * PointerSize = machine.root + k
  BY <1>1, <1>6
<1>9. Word(root[1] + k) = Rom(machine.root + k)
  BY <1>3, <1>7
<1>10. i \in PointerIds
  BY <1>1, <1>5, <1>6 DEF PointerIds, n, len
<1>11. Word(root[1] + HEADER + i * PointerSize) = Pointed(i)
  BY <1>8, <1>9 DEF Pointed
<1>. QED
  BY <1>10, <1>11 DEF Pointers, i

\* A step of find_fadt's loop that looks at the next pointer
LEMMA TablesSkip ==
  ASSUME TablesInv, SkipEntry, pc \in {"entry", "entry_header"}
  PROVE  TablesInv'
<1>1. pc' = "entry" /\ UNCHANGED <<machine, mem, root, fadt, dsdt, screen>>
  BY DEF SkipEntry, Acpi, tables, memory
<1>2. RootRead' /\ FadtRead' /\ DsdtRead' /\ ScreenRead'
  BY <1>1, FoundKept DEF TablesInv
<1>3. pc' \notin Reading
  BY <1>1 DEF Reading, Ranged
<1>. QED
  BY <1>1, <1>2, <1>3 DEF TablesInv, Mapping, Order, Ranged

LEMMA TablesEntryHeader ==
  ASSUME WindowsInv, TablesInv, EntryHeader
  PROVE  TablesInv'
<1>0. pc = "entry" /\ entry[1] < Entries /\ root # None /\ TypeOk /\ entry \in Nat \X Nat
  BY DEF EntryHeader, Running, TablesInv, Order, WindowsInv, TypeOk
<1>1. Word(root[1] + HEADER + entry[1] * PointerSize) \in Pointers
  BY <1>0, PointerRead
<1>2. PICK p, i : p \in Nat /\ p = Word(root[1] + HEADER + entry[1] * PointerSize) /\ i = entry[1]
  BY <1>0, WordType DEF TypeOk
<1>3. CASE SkipEntry
  BY <1>0, <1>3, TablesSkip
<1>4. CASE ~SkipEntry
  <2>1. /\ MapRange(p, HEADER, "entry_header") /\ entry' = <<i, p>>
        /\ UNCHANGED <<machine, mem, screen, root, fadt, dsdt>>
    BY <1>2, <1>4 DEF EntryHeader, Acpi, tables, memory
  <2>2. Fills(p, HEADER)' /\ pc' = "entry_header"
    BY <1>0, <1>2, <2>1, Asks, LayoutAssumption
  <2>3. RootRead' /\ FadtRead' /\ DsdtRead' /\ ScreenRead'
    BY <2>1, FoundKept DEF TablesInv
  <2>4. p \in Pointers'
    BY <1>1, <1>2, <2>1, RomKept
  <2>5. Wanted(p, HEADER)'
    BY <2>1, <2>2, <2>4 DEF Wanted
  <2>6. Mapping'
    BY <1>2, <2>2, <2>5, LayoutAssumption DEF Mapping
  <2>. QED
    BY <1>0, <1>2, <2>1, <2>2, <2>3, <2>6 DEF TablesInv, Order, Ranged
<1>. QED
  BY <1>3, <1>4

LEMMA TablesEntryTable ==
  ASSUME WindowsInv, TablesInv, EntryTable
  PROVE  TablesInv'
<1>0. pc = "entry_header" /\ job.left = 0 /\ root # None /\ TypeOk /\ entry \in Nat \X Nat /\ machine \in Machines
  BY DEF EntryTable, Running, TablesInv, Order, WindowsInv, TypeOk
<1>1. Signature = Rom(entry[2]) /\ Length = Rom(entry[2] + 1) /\ entry[2] \in Pointers /\ Length \in Nat
  BY <1>0, Waited, RomType DEF TablesInv, Wanted, Reading, Ranged
<1>2. PICK p \in Nat, n \in Nat : p = entry[2] /\ n = Length
  BY <1>0, <1>1
<1>3. CASE SkipEntry
  BY <1>0, <1>3, TablesSkip
<1>4. CASE ~SkipEntry
  <2>1. /\ MapRange(p, n, "fadt") /\ n >= HEADER /\ Signature = FACP
        /\ UNCHANGED <<machine, mem, screen, root, fadt, dsdt, entry>>
    BY <1>2, <1>4 DEF EntryTable, IsFadt, Acpi, tables, memory
  <2>2. Fills(p, n)' /\ pc' = "fadt"
    BY <1>0, <2>1, Asks
  <2>3. RootRead' /\ FadtRead' /\ DsdtRead' /\ ScreenRead'
    BY <2>1, FoundKept DEF TablesInv
  <2>4. p \in Pointers' /\ Rom(p)' = FACP /\ n = Rom(p + 1)' /\ p = entry'[2]
    BY <1>1, <1>2, <2>1, RomKept
  <2>5. Wanted(p, n)'
    BY <2>1, <2>2, <2>4 DEF Wanted
  <2>6. Mapping'
    BY <1>2, <2>2, <2>5 DEF Mapping
  <2>. QED
    BY <1>0, <2>1, <2>2, <2>3, <2>6 DEF TablesInv, Order, Ranged
<1>. QED
  BY <1>3, <1>4

LEMMA TablesDsdtHeader ==
  ASSUME WindowsInv, TablesInv, DsdtHeader
  PROVE  TablesInv'
<1>0. pc = "fadt" /\ job.left = 0 /\ root # None /\ TypeOk /\ entry \in Nat \X Nat /\ machine \in Machines
  BY DEF DsdtHeader, Running, TablesInv, Order, WindowsInv, TypeOk
<1>1. /\ Length = Rom(entry[2] + 1) /\ entry[2] \in Pointers /\ Rom(entry[2]) = FACP /\ Length \in Nat
      /\ Holds(job.at, entry[2], Rom(entry[2] + 1))
  BY <1>0, Waited, RomType DEF TablesInv, Wanted, Reading, Ranged
<1>2. CASE Panic("acpi")
  BY <1>2, TablesPanic
<1>3. CASE ~Panic("acpi")
  <2>1. PICK a \in Nat, f \in Nat, n \in Nat, p \in Nat :
          a = job.at /\ f = entry[2] /\ n = Length /\ p = Word(job.at + HEADER)
    <3>1. job.at \in Nat /\ entry[2] \in Nat
      BY <1>0 DEF TypeOk
    <3>2. Word(job.at + HEADER) \in Nat
      BY <1>0, WordType
    <3>. QED
      BY <1>1, <3>1, <3>2
  <2>2. /\ MapRange(p, HEADER, "dsdt_header") /\ n >= FADT /\ fadt' = <<a, f>>
        /\ UNCHANGED <<machine, mem, screen, root, dsdt, entry>>
    BY <1>1, <1>3, <2>1, LayoutAssumption DEF DsdtHeader, Acpi, memory
  <2>3. Fills(p, HEADER)' /\ pc' = "dsdt_header"
    BY <1>0, <2>2, Asks, LayoutAssumption
  <2>4. p = Rom(f + HEADER)
    <3>1. HEADER \in Nat /\ FADT \in Nat /\ HEADER < FADT
      BY LayoutAssumption
    <3>2. HEADER < n
      BY <2>1, <2>2, <3>1
    <3>. QED
      BY <1>1, <2>1, <3>1, <3>2, WordRead
  <2>5. RootRead' /\ ScreenRead'
    BY <2>2, FoundKept DEF TablesInv
  <2>6. Holds(a, f, n)'
    <3>1. \A t, q, words : Holds(t, q, words) => Holds(t, q, words)'
      BY <2>2, HoldsKept
    <3>. QED
      BY <1>1, <2>1, <3>1
  <2>7. fadt' # None /\ fadt'[2] = f /\ fadt'[1] = a
    BY <2>2 DEF None
  <2>8. f \in Pointers' /\ Rom(f)' = FACP /\ n = Rom(f + 1)' /\ p = Rom(f + HEADER)'
    BY <1>1, <2>1, <2>2, <2>4, RomKept
  <2>9. FadtRead'
    BY <2>2, <2>6, <2>7, <2>8 DEF FadtRead, Fetched
  <2>10. dsdt' = None /\ root' # None
    BY <1>0, <2>2 DEF TablesInv, Order, Ranged
  <2>11. DsdtRead'
    BY <2>10 DEF DsdtRead
  <2>12. Wanted(p, HEADER)'
    BY <2>3, <2>7, <2>8 DEF Wanted
  <2>13. Mapping'
    BY <2>3, <2>12, LayoutAssumption DEF Mapping
  <2>14. Order'
    BY <2>3, <2>7, <2>10 DEF Order, Ranged
  <2>. QED
    BY <2>5, <2>9, <2>11, <2>13, <2>14 DEF TablesInv
<1>. QED
  BY <1>2, <1>3

\* The pointer that the FADT holds, read through its mapping
LEMMA DsdtPointer ==
  ASSUME TablesInv, fadt # None
  PROVE  Word(fadt[1] + HEADER) = Rom(fadt[2] + HEADER)
<1>1. HEADER \in Nat /\ FADT \in Nat /\ HEADER < FADT
  BY LayoutAssumption
<1>2. Holds(fadt[1], fadt[2], Rom(fadt[2] + 1)) /\ Rom(fadt[2] + 1) >= FADT
  BY DEF TablesInv, FadtRead, Fetched
<1>3. HEADER < Rom(fadt[2] + 1)
  BY <1>1, <1>2 DEF Holds
<1>. QED
  BY <1>1, <1>2, <1>3, WordRead

LEMMA TablesDsdtTable ==
  ASSUME WindowsInv, TablesInv, DsdtTable
  PROVE  TablesInv'
<1>0. pc = "dsdt_header" /\ job.left = 0 /\ root # None /\ fadt # None /\ dsdt = None /\ machine \in Machines /\ "dsdt" \in Ranged
  BY DEF DsdtTable, Running, TablesInv, Order, WindowsInv, TypeOk, Ranged
<1>1. PICK p \in Nat : p = Rom(fadt[2] + HEADER)
  BY <1>0, RomType
<1>2. Length = Rom(p + 1) /\ Length \in Nat
  BY <1>0, <1>1, Waited, RomType DEF TablesInv, Wanted, Reading, Ranged
<1>3. PICK n \in Nat : n = Length
  BY <1>2
<1>4. Panic("acpi") \/ (n >= HEADER /\ MapOrPanic(p, n, "dsdt"))
  BY <1>0, <1>1, <1>3, DsdtPointer, LayoutAssumption DEF DsdtTable
<1>5. ASSUME Fills(p, n)', pc' = "dsdt", n >= HEADER, UNCHANGED <<machine, mem, root, fadt, dsdt, entry, screen>>,
             RootRead', FadtRead', DsdtRead', ScreenRead'
      PROVE  TablesInv'
  <2>1. n = Rom(p + 1)' /\ p = Rom(fadt[2] + HEADER)'
    BY <1>1, <1>2, <1>3, <1>5, RomKept
  <2>2. Wanted(p, n)'
    BY <1>5, <2>1 DEF Wanted
  <2>3. Mapping'
    BY <1>5, <2>2 DEF Mapping
  <2>. QED
    BY <1>0, <1>5, <2>3 DEF TablesInv, Order, Ranged
<1>. QED
  BY <1>0, <1>4, <1>5, AskedOrNot, TablesPanic

LEMMA TablesDsdtFound ==
  ASSUME WindowsInv, TablesInv, DsdtFound
  PROVE  TablesInv'
<1>0. pc = "dsdt" /\ job.left = 0 /\ fadt # None /\ root # None /\ machine \in Machines /\ TypeOk
  BY DEF DsdtFound, Running, TablesInv, Order, WindowsInv, TypeOk
<1>1. PICK p \in Nat : p = Rom(fadt[2] + HEADER)
  BY <1>0, RomType
<1>2. Holds(job.at, p, Rom(p + 1)) /\ Signature = Rom(p)
  BY <1>0, <1>1, Waited DEF TablesInv, Wanted, Reading, Ranged
<1>3. CASE Panic("acpi")
  BY <1>3, TablesPanic
<1>4. CASE ~Panic("acpi")
  <2>1. PICK a, n : a = job.at /\ n = Rom(p + 1)
    OBVIOUS
  <2>2. /\ Signature = DSDT /\ dsdt' = <<a, p>> /\ pc' = "screen"
        /\ UNCHANGED <<machine, mem, screen, root, fadt>>
    BY <1>0, <1>1, <1>4, <2>1, DsdtPointer DEF DsdtFound, Acpi, memory
  <2>3. RootRead' /\ FadtRead' /\ ScreenRead'
    BY <2>2, FoundKept DEF TablesInv
  <2>4. Holds(a, p, n)'
    <3>1. \A t, q, words : Holds(t, q, words) => Holds(t, q, words)'
      BY <2>2, HoldsKept
    <3>. QED
      BY <1>2, <2>1, <3>1
  <2>5. p = Rom(fadt[2] + HEADER)' /\ Rom(p)' = DSDT /\ n = Rom(p + 1)' /\ fadt' # None
    BY <1>0, <1>1, <1>2, <2>1, <2>2, RomKept
  <2>6. DsdtRead'
    BY <2>2, <2>4, <2>5 DEF DsdtRead, Fetched
  <2>7. pc' \notin Reading
    BY <2>2 DEF Reading, Ranged
  <2>. QED
    BY <2>2, <2>3, <2>6, <2>7 DEF TablesInv, Mapping, Order, Ranged
<1>. QED
  BY <1>3, <1>4

-----------------------------------------------------------------------------
(* The other steps.                                                         *)

LEMMA TablesMapFramebuffer ==
  ASSUME WindowsInv, TablesInv, MapFramebuffer
  PROVE  TablesInv'
<1>1. pc' = "screen_mapped" /\ UNCHANGED <<machine, mem, root, fadt, dsdt, entry, screen>>
  BY DEF MapFramebuffer, Map, memory, tables
<1>2. RootRead' /\ FadtRead' /\ DsdtRead' /\ ScreenRead'
  BY <1>1, FoundKept DEF TablesInv
<1>3. PICK p \in Nat, n \in Nat \ {0} : p = machine.framebuffer[1] /\ n = machine.framebuffer[2]
  BY MachineTypes DEF WindowsInv, TypeOk, MapFramebuffer, FramebufferOk
<1>4. ScreenPage \in Nat /\ virtual_base = ScreenPage * N
  BY Layout
<1>5. MapSize = (p % N) + n
  <2>1. p % N \in Nat
    BY <1>3, NType
  <2>. QED
    BY <1>3, <2>1 DEF MapSize
<1>6. Map("screen", ScreenPage * N, p, (p % N) + n, "screen_mapped")
  BY <1>3, <1>4, <1>5 DEF MapFramebuffer
<1>7. Fills(p, n)' /\ First' = ScreenPage
  BY <1>3, <1>4, <1>6, FillsStart
<1>8. Wanted(p, n)'
  BY <1>1, <1>3, <1>7 DEF Wanted
<1>9. Mapping'
  BY <1>3, <1>7, <1>8 DEF Mapping
<1>. QED
  BY <1>1, <1>2, <1>9 DEF TablesInv, Order, Ranged

LEMMA TablesFramebufferReady ==
  ASSUME WindowsInv, TablesInv, FramebufferReady
  PROVE  TablesInv'
<1>1. /\ pc = "screen_mapped" /\ job.left = 0 /\ pc' = "init" /\ UNCHANGED <<machine, mem, root, fadt, dsdt>>
  BY DEF FramebufferReady, Running, memory, tables
<1>2. RootRead' /\ FadtRead' /\ DsdtRead'
  BY <1>1, FoundKept DEF TablesInv
<1>3. PICK p, n \in Nat : Wanted(p, n) /\ Fills(p, n)
  BY <1>1 DEF TablesInv, Mapping, Reading
<1>4. p = machine.framebuffer[1] /\ n = machine.framebuffer[2] /\ First = ScreenPage
  BY <1>1, <1>3 DEF Wanted
<1>5. TypeOk /\ Cur <= Top
  BY <1>1, ReadingBelow DEF Reading
<1>6. Holds(job.at, p, n)
  BY <1>1, <1>3, <1>5, Filled
<1>7. job.at = virtual_base + (p % N)
  BY <1>3, <1>4, Layout DEF Fills
<1>8. Holds(virtual_base + (p % N), p, n)
  BY <1>6, <1>7
<1>9. ScreenRead'
  <2>1. \A t, q, words : Holds(t, q, words) => Holds(t, q, words)'
    BY <1>1, HoldsKept
  <2>2. PICK v : v = virtual_base + (p % N)
    OBVIOUS
  <2>3. Holds(v, p, n)'
    BY <1>8, <2>1, <2>2
  <2>. QED
    BY <1>1, <1>4, <2>2, <2>3 DEF ScreenRead
<1>10. pc' \notin Reading
  BY <1>1 DEF Reading, Ranged
<1>. QED
  BY <1>1, <1>2, <1>9, <1>10 DEF TablesInv, Mapping, Order, Ranged

\* Steps that read nothing
LEMMA TablesElse ==
  ASSUME TablesInv, UNCHANGED <<machine, mem, root, fadt, dsdt, screen>>,
         pc' \in {"root", "init", "stack", "user_mode", "shell"}, pc' = "root" => dsdt = None
  PROVE  TablesInv'
<1>1. RootRead' /\ FadtRead' /\ DsdtRead' /\ ScreenRead'
  BY FoundKept DEF TablesInv
<1>2. pc' \notin Reading
  BY DEF Reading, Ranged
<1>. QED
  BY <1>1, <1>2 DEF TablesInv, Mapping, Order, Ranged

LEMMA TablesVmm ==
  ASSUME TablesInv, VmmInit
  PROVE  TablesInv'
<1>1. pc = "vmm" /\ pc' = "heap" /\ UNCHANGED <<machine, root, fadt, dsdt, screen>>
  BY DEF VmmInit, Running, tables
<1>2. root = None /\ fadt = None /\ dsdt = None /\ ~screen
  BY <1>1 DEF TablesInv, Order
<1>3. pc' \notin Reading
  BY <1>1 DEF Reading, Ranged
<1>. QED
  BY <1>1, <1>2, <1>3 DEF TablesInv, RootRead, FadtRead, DsdtRead, ScreenRead, Mapping, Order, Ranged

\* Another page is mapped: what is read stays, and so does what is waited for.
LEMMA TablesMap ==
  ASSUME WindowsInv, TablesInv, MapPage
  PROVE  TablesInv'
<1>1. UNCHANGED <<machine, pc, root, fadt, dsdt, entry, screen>>
  BY DEF MapPage, tables
<1>2. machine \in Machines /\ TypeOk
  BY DEF WindowsInv, TypeOk
<1>3. ASSUME NEW t \in Nat \X Nat, Fetched(t)
      PROVE  Fetched(t)'
  <2>1. PICK n \in Nat : n = Rom(t[2] + 1)
    BY <1>2, RomType
  <2>2. Holds(t[1], t[2], n)'
    BY <1>3, <2>1, HoldsMap DEF Fetched
  <2>3. n = Rom(t[2] + 1)'
    BY <1>1, <2>1, RomKept
  <2>. QED
    BY <2>2, <2>3 DEF Fetched
<1>4. RootRead'
  <2>1. root # None => root \in Nat \X Nat
    BY <1>2 DEF TypeOk
  <2>. QED
    BY <1>1, <1>3, <2>1, RomKept DEF TablesInv, RootRead, Fetched
<1>5. FadtRead'
  <2>1. fadt # None => fadt \in Nat \X Nat
    BY <1>2 DEF TypeOk
  <2>. QED
    BY <1>1, <1>3, <2>1, RomKept DEF TablesInv, FadtRead, Fetched
<1>6. DsdtRead'
  <2>1. dsdt # None => dsdt \in Nat \X Nat
    BY <1>2 DEF TypeOk
  <2>. QED
    BY <1>1, <1>3, <2>1, RomKept DEF TablesInv, DsdtRead, Fetched
<1>7. ScreenRead'
  <2>1. PICK v, p \in Nat, n \in Nat :
          v = virtual_base + (machine.framebuffer[1] % N)
            /\ p = machine.framebuffer[1] /\ n = machine.framebuffer[2]
    <3>1. machine.framebuffer[1] \in Nat /\ virtual_base \in Nat
      BY <1>2, MachineTypes, LayoutAssumption
    <3>3. machine.framebuffer[1] % N \in Nat
      BY <3>1, NType, WholeAndRest
    <3>2. virtual_base + (machine.framebuffer[1] % N) \in Nat
      BY <3>1, <3>3
    <3>. QED
      BY <1>2, <3>2, MachineTypes
  <2>2. screen => Holds(v, p, n)'
    <3>1. screen => Holds(v, p, n) /\ v \in Nat
      BY <2>1 DEF TablesInv, ScreenRead, Holds
    <3>. QED
      BY <3>1, HoldsMap
  <2>. QED
    BY <1>1, <2>1, <2>2 DEF ScreenRead
<1>8. Mapping'
  <2>1. CASE pc \in Reading
    <3>1. PICK p \in Nat, n \in Nat : Wanted(p, n) /\ Fills(p, n)
      BY <2>1 DEF TablesInv, Mapping
    <3>2. ~IsUser
      BY <2>1, ReadingBelow DEF IsUser
    <3>3. Fills(p, n)'
      BY <3>1, <3>2, FillsMap
    <3>4. First' = First
      <4>1. job'.at = job.at
        BY <1>2 DEF MapPage, TypeOk
      <4>. QED
        BY <4>1 DEF First
    <3>5. Wanted(p, n)'
      BY <1>1, <3>1, <3>4, RomKept DEF Wanted
    <3>. QED
      BY <3>3, <3>5 DEF Mapping
  <2>2. CASE pc \notin Reading
    BY <1>1, <2>2 DEF Mapping
  <2>. QED
    BY <2>1, <2>2
<1>9. Order'
  BY <1>1 DEF TablesInv, Order
<1>. QED
  BY <1>4, <1>5, <1>6, <1>7, <1>8, <1>9 DEF TablesInv

LEMMA TablesNext ==
  ASSUME WindowsInv, TablesInv, [Next]_vars
  PROVE  TablesInv'
<1>1. CASE VmmInit
  BY <1>1, TablesVmm
<1>2. CASE MapHeap
  <2>1. pc = "heap" /\ pc' = "root" /\ UNCHANGED <<machine, mem, root, fadt, dsdt, screen>>
    BY <1>2 DEF MapHeap, Running, Map, tables
  <2>2. dsdt = None
    BY <2>1 DEF TablesInv, Order
  <2>. QED
    BY <2>1, <2>2, TablesElse
<1>3. CASE MapPage
  BY <1>3, TablesMap
<1>4. CASE HeapFails \/ MapPageExhausted \/ NoFadt \/ ProgramRefused
  <2>1. Panic("no_heap") \/ Panic("exhausted") \/ Panic("acpi") \/ Panic("init_refused")
    BY <1>4 DEF HeapFails, MapPageExhausted, NoFadt, ProgramRefused
  <2>. QED
    BY <2>1, TablesPanic
<1>5. CASE RootHeader \/ RootTable \/ FindFadt \/ EntryHeader \/ EntryTable
  BY <1>5, TablesRootHeader, TablesRootTable, TablesFindFadt, TablesEntryHeader, TablesEntryTable
<1>6. CASE DsdtHeader \/ DsdtTable \/ DsdtFound
  BY <1>6, TablesDsdtHeader, TablesDsdtTable, TablesDsdtFound
<1>7. CASE MapFramebuffer \/ FramebufferReady
  BY <1>7, TablesMapFramebuffer, TablesFramebufferReady
<1>8. CASE NoFramebuffer \/ MapProgram \/ MapStack \/ NoProgram
  <2>1. pc' \in {"init", "stack", "user_mode", "shell"} /\ UNCHANGED <<machine, mem, root, fadt, dsdt, screen>>
    BY <1>8 DEF NoFramebuffer, MapProgram, MapStack, NoProgram, Map, tables, memory
  <2>. QED
    BY <2>1, TablesElse
<1>9. CASE Booted \/ UNCHANGED vars
  BY <1>9, TablesSteady DEF Booted, vars, memory, tables
<1>. QED
  BY <1>1, <1>2, <1>3, <1>4, <1>5, <1>6, <1>7, <1>8, <1>9 DEF Next, FindTables

LEMMA TablesInit ==
  ASSUME Init
  PROVE  TablesInv
<1>1. root = None /\ fadt = None /\ dsdt = None /\ ~screen /\ pc = "vmm"
  BY DEF Init
<1>2. pc \notin Reading
  BY <1>1 DEF Reading, Ranged
<1>. QED
  BY <1>1, <1>2 DEF TablesInv, RootRead, FadtRead, DsdtRead, ScreenRead, Mapping, Order, Ranged

LEMMA TablesHold == Spec /\ ScreenFits => [](WindowsInv /\ TablesInv)
<1>1. Init => TablesInv
  BY TablesInit
<1>2. WindowsInv /\ TablesInv /\ [Next]_vars => TablesInv'
  BY TablesNext
<1>. QED
  BY <1>1, <1>2, WindowsHold, PTL DEF Spec

LEMMA AllRead ==
  ASSUME TablesInv
  PROVE  RangesMapped
<1>1. \A t : Fetched(t) => ReadsTable(t)
  BY DEF Fetched, Holds, ReadsTable
<1>. QED
  BY <1>1 DEF TablesInv, RootRead, FadtRead, DsdtRead, ScreenRead, Holds, RangesMapped

\* What acpi_map_range and framebuffer_init return can be read, whole, from then
\* on: the tables are the firmware's own, by its own pointers, and the screen's
\* window shows the framebuffer (acpi.c, fadt.c, dsdt.c and framebuffer.c).
THEOREM TablesStayRead == Spec /\ ScreenFits => []RangesMapped
<1>1. WindowsInv /\ TablesInv => RangesMapped
  BY AllRead
<1>. QED
  BY <1>1, TablesHold, PTL

-----------------------------------------------------------------------------
(* The firmware's frames.                                                   *)

Facps == {p \in Pointers : Rom(p) = FACP}
FirmwareTables == {machine.root} \cup Pointers \cup {Rom(p + HEADER) : p \in Facps}
TablePages == UNION {PagesAt(t, Rom(t + 1)) : t \in FirmwareTables}
ScreenMemory == PagesAt(machine.framebuffer[1], machine.framebuffer[2])
FirmwareFrames == TablePages \cup ScreenMemory

\* The memory map does not give a conforming firmware's tables, or the
\* framebuffer, as free RAM.
FirmwareReserved == Conforming => FirmwareFrames \cap (0..(machine.total - 1)) \subseteq machine.used

\* Of what is mapped there
FirmwareMapped ==
  pc # "vmm" /\ Conforming =>
    \A q \in PageNumber : q >= AcpiPage /\ q \notin HeapWindow /\ q < Top /\ IsMapped(mem, q * N)
      => FrameOf(q) \in FirmwareFrames

LEMMA FirmwareKept ==
  ASSUME machine' = machine
  PROVE  FirmwareFrames' = FirmwareFrames /\ (Conforming' <=> Conforming) /\ (FirmwareReserved' <=> FirmwareReserved)
<1>1. Pointers' = Pointers /\ \A p : Rom(p)' = Rom(p)
  BY RomKept
<1>2. Facps' = Facps
  BY <1>1 DEF Facps
<1>3. FirmwareTables' = FirmwareTables
  BY <1>1, <1>2 DEF FirmwareTables
<1>4. FirmwareFrames' = FirmwareFrames
  BY <1>1, <1>3 DEF FirmwareFrames, TablePages, ScreenMemory, PagesAt
<1>5. Conforming' <=> Conforming
  BY <1>1 DEF Conforming, Table, PointerSize
<1>. QED
  BY <1>4, <1>5 DEF FirmwareReserved

\* The pages that hold a range of words
LEMMA PageOfRange ==
  ASSUME NEW p \in Nat, NEW words \in Nat \ {0}, NEW d \in Nat, d < Pages((p % N) + words)
  PROVE  (p \div N) + d \in PagesAt(p, words)
<1> DEFINE f == p \div N
           s == p % N
           g == f + d
           a == f * N
           b == d * N
           w == s + words
<1>1. f \in Nat /\ s \in Nat /\ s < N /\ p = a + s /\ a \in Nat /\ b \in Nat /\ g \in Nat /\ g * N = a + b
  BY NType, WholeAndRest
<1>2. w \in Nat /\ b < w
  <2>1. w \in Nat
    BY <1>1
  <2>2. ~(Pages(w) <= d)
    <3>. HIDE DEF w
    <3>. QED
      BY <2>1, PagesOf DEF w
  <2>3. ~(w <= d * N)
    BY <2>1, <2>2, PagesHold
  <2>. HIDE DEF w
  <2>. QED
    BY <1>1, <2>1, <2>3
<1>3. CASE d = 0
  <2>1. p \in p..(p + words - 1) /\ f + d = p \div N
    BY <1>1, <1>3
  <2>. QED
    BY <2>1 DEF PagesAt
<1>4. CASE d > 0
  <2>1. N <= b
    BY <1>4, NType
  <2>2. g * N \in p..(p + words - 1)
    <3>. HIDE DEF a, b, s, f, g
    <3>. QED
      BY <1>1, <1>2, <2>1, NType DEF w
  <2>3. (g * N) \div N = g
    BY <1>1, PageStart
  <2>. QED
    BY <2>2, <2>3 DEF PagesAt
<1>. QED
  BY <1>3, <1>4

\* What acpi.c and framebuffer.c map lies in the firmware's frames.
LEMMA MapsFirmware ==
  ASSUME WindowsInv, TablesInv, MapPage, Conforming, job.kind \in {"acpi", "screen"}
  PROVE  Data \in FirmwareFrames
<1>1. TypeOk /\ JobOk /\ job.left > 0
  BY DEF WindowsInv, MapPage
<1>2. pc \in Reading
  BY <1>1 DEF JobOk, AcpiSteps, Reading, Ranged
<1>3. PICK p \in Nat, words \in Nat : Wanted(p, words) /\ Fills(p, words)
  BY <1>2 DEF TablesInv, Mapping
<1>4. PICK d \in Nat : d < Pages((p % N) + words) /\ Data = (p \div N) + d
  <2>1. Data = job.phys
    BY DEF Data, IsUser
  <2>2. First \in Nat /\ Cur \in Nat /\ job.left \in Nat
    <3>1. job.at \in Nat
      BY <1>1 DEF TypeOk
    <3>. QED
      BY <1>1, <3>1, Numbers, NType, WholeAndRest DEF First
  <2>3. (p % N) + words \in Nat
    BY <1>3, NType
  <2>4. Pages((p % N) + words) \in Nat
    BY <2>3, PagesOf
  <2>5. PICK n \in Nat : n = Pages((p % N) + words)
    BY <2>4
  <2>6. First <= Cur /\ job.phys = (p \div N) + (Cur - First) /\ Cur + job.left = First + n
    BY <1>3, <2>5 DEF Fills
  <2>7. Cur - First \in Nat /\ Cur - First < n
    BY <1>1, <2>2, <2>6
  <2>. QED
    BY <2>1, <2>5, <2>6, <2>7
<1>5. Data \in PagesAt(p, words)
  <2>1. words \in Nat \ {0}
    BY <1>3 DEF Fills
  <2>. QED
    BY <1>3, <1>4, <2>1, PageOfRange
<1>6. CASE pc = "screen_mapped"
  <2>1. p = machine.framebuffer[1] /\ words = machine.framebuffer[2]
    BY <1>3, <1>6 DEF Wanted
  <2>2. Data \in ScreenMemory
    BY <1>5, <2>1 DEF ScreenMemory
  <2>. QED
    BY <2>2 DEF FirmwareFrames
<1>7. CASE pc # "screen_mapped"
  <2>1. p \in FirmwareTables
    <3>1. CASE pc \in {"root_header", "root_table", "entry_header", "fadt"}
      BY <1>3, <3>1 DEF Wanted, FirmwareTables
    <3>2. CASE pc \in {"dsdt_header", "dsdt"}
      <4>1. fadt # None /\ p = Rom(fadt[2] + HEADER)
        BY <1>3, <3>2 DEF TablesInv, Order, Wanted
      <4>2. fadt[2] \in Facps
        BY <4>1 DEF TablesInv, FadtRead, Facps
      <4>. QED
        BY <4>1, <4>2 DEF FirmwareTables
    <3>. QED
      BY <1>2, <1>7, <3>1, <3>2 DEF Reading, Ranged
  <2>2. Rom(p + 1) >= HEADER
    BY <2>1 DEF FirmwareTables, Facps, Conforming, Table
  <2>3. words = HEADER \/ words = Rom(p + 1)
    BY <1>3, <1>7 DEF Wanted
  <2>4. HEADER \in Nat /\ Rom(p + 1) \in Nat
    BY <1>1, LayoutAssumption, RomType DEF TypeOk
  <2>5. p..(p + words - 1) \subseteq p..(p + Rom(p + 1) - 1)
    BY <1>3, <2>2, <2>3, <2>4
  <2>6. Data \in PagesAt(p, Rom(p + 1))
    BY <1>5, <2>5 DEF PagesAt
  <2>. QED
    BY <2>1, <2>6 DEF FirmwareFrames, TablePages
<1>. QED
  BY <1>6, <1>7

LEMMA FirmwareMap ==
  ASSUME WindowsInv, TablesInv, FirmwareMapped, MapPage
  PROVE  FirmwareMapped'
<1>0. PICK c \in Nat : c = Cur
  BY Numbers DEF WindowsInv
<1>1. machine' = machine /\ pc' = pc /\ job.left > 0
  BY DEF MapPage
<1>2. FirmwareFrames' = FirmwareFrames /\ (Conforming' <=> Conforming)
  BY <1>1, FirmwareKept
<1>3. TypeOk /\ JobOk /\ pc # "vmm" /\ (IsUser <=> c < KernelPage) /\ job.kind \in {"heap", "acpi", "screen", "user"}
  BY <1>0, <1>1, NextPage DEF WindowsInv
<1>4. IsMapped(mem', c * N) /\ FrameAt(mem', c * N) = Data /\ Others(mem, mem', c)
  BY <1>0, MapPageEffect
<1>5. SUFFICES ASSUME Conforming, NEW q \in PageNumber, q >= AcpiPage, q \notin HeapWindow, q < Top,
                      IsMapped(mem', q * N)
               PROVE  FrameAt(mem', q * N) \in FirmwareFrames
  BY <1>2 DEF FirmwareMapped, FrameOf
<1>6. CASE q = c
  <2>1. job.kind # "user"
    <3>1. KernelPage <= AcpiPage /\ KernelPage \in Nat /\ AcpiPage \in Nat
      BY Bounds, Layout
    <3>. QED
      BY <1>3, <1>5, <1>6, <3>1 DEF IsUser
  <2>2. job.kind # "heap"
    <3>1. job.kind = "heap" => <<c, IsUser>> \in ((HeapWindow \cup AcpiWindow \cup ScreenWindow) \X {FALSE}) \cup (UserWindow \X {TRUE})
      BY <1>0, <1>1, CurWindow
    <3>2. job.kind = "heap" => HeapPage <= c /\ c < HeapPage + HEAP_PAGES
      <4>1. job.left \in Nat /\ HeapPage \in Nat /\ HEAP_PAGES \in Nat
        BY <1>3, Numbers
      <4>. QED
        BY <1>0, <1>1, <1>3, <4>1 DEF JobOk
    <3>3. HeapWindow = HeapPage..(HeapPage + HEAP_PAGES - 1) /\ HeapPage \in Nat /\ HEAP_PAGES \in Nat
      BY WindowPages, Layout, BootAssumption
    <3>. QED
      BY <1>5, <1>6, <3>2, <3>3
  <2>. QED
    BY <1>3, <1>4, <1>5, <1>6, <2>1, <2>2, MapsFirmware
<1>7. CASE q # c
  <2>1. q \in Nat /\ q \div N # N - 1
    BY <1>5, Regions, Bounds
  <2>2. Same(mem, mem', q)
    BY <1>4, <1>7, <2>1 DEF Others
  <2>. QED
    BY <1>3, <1>5, <2>2 DEF Same, FirmwareMapped, FrameOf
<1>. QED
  BY <1>6, <1>7

LEMMA FirmwareNext ==
  ASSUME WindowsInv, TablesInv, FirmwareMapped, [Next]_vars
  PROVE  FirmwareMapped'
<1>1. CASE VmmInit
  <2>1. \A q \in PageNumber : q \div N \in Windowed => (IsMapped(mem', q * N) <=> Done(q)')
    <3>1. WindowsInv' /\ pc' = "heap"
      BY <1>1, WindowsVmm DEF VmmInit
    <3>. QED
      BY <3>1 DEF WindowsInv, MemInv
  <2>2. ASSUME NEW q \in Nat
        PROVE  ~Done(q)'
    <3>1. TypeOk /\ JobOk /\ job.kind = "none"
      BY <1>1 DEF WindowsInv, JobOk, TypeOk, VmmInit, Running, AcpiSteps
    <3>2. ~Done(q)
      BY <3>1, NothingDone
    <3>3. UNCHANGED <<job, acpi_mapping_next, screen, machine>>
      BY <1>1 DEF VmmInit
    <3>. QED
      BY <3>1, <3>2, <3>3 DEF Done, HeapDone, AcpiDone, ScreenDone, UserDone, Cur, AcpiNext, ScreenPages, MapSize, ProgramPages
  <2>3. \A q \in PageNumber : q >= AcpiPage /\ q < Top => q \in Nat /\ q \div N \in Windowed
    BY Regions, Bounds, Layout
  <2>. QED
    BY <2>1, <2>2, <2>3 DEF FirmwareMapped
<1>2. CASE MapPage
  BY <1>2, FirmwareMap
<1>3. CASE UNCHANGED <<machine, mem>> /\ (pc = "vmm" => pc' = "vmm")
  BY <1>3, FirmwareKept DEF FirmwareMapped, FrameOf
<1>4. ~VmmInit /\ ~MapPage => UNCHANGED <<machine, mem>> /\ (pc = "vmm" => pc' = "vmm")
  <2>1. CASE FindTables
    BY <2>1, FindTablesSteps DEF WindowsInv, Ranged, memory
  <2>2. CASE MapHeap \/ MapFramebuffer \/ FramebufferReady \/ NoFramebuffer \/ NoProgram \/ MapProgram \/ MapStack
    BY <2>2 DEF MapHeap, MapFramebuffer, FramebufferReady, NoFramebuffer, NoProgram, MapProgram, MapStack, Running, memory
  <2>3. CASE HeapFails \/ MapPageExhausted \/ ProgramRefused \/ Booted \/ UNCHANGED vars
    BY <2>3 DEF HeapFails, MapPageExhausted, ProgramRefused, Booted, Panic, vars, memory
  <2>. QED
    BY <2>1, <2>2, <2>3 DEF Next
<1>. QED
  BY <1>1, <1>2, <1>3, <1>4

LEMMA SameMachine ==
  ASSUME WindowsInv, [Next]_vars
  PROVE  machine' = machine
<1>1. FindTables => machine' = machine
  BY FindTablesSteps DEF WindowsInv
<1>. QED
  BY <1>1 DEF Next, VmmInit, MapHeap, HeapFails, MapPage, MapPageExhausted, MapFramebuffer, FramebufferReady,
    NoFramebuffer, MapProgram, ProgramRefused, MapStack, NoProgram, Booted, Panic, vars

LEMMA Apart ==
  ASSUME WindowsInv, FramesInv, FirmwareMapped, FirmwareReserved
  PROVE  FramesApart
<1>. SUFFICES ASSUME pc # "vmm" PROVE FramesApart
  BY DEF FramesApart
<1>1. FramesOwned
  BY Owned
<1>2. ASSUME Conforming, NEW f \in TableFrames \cup OwnFrames, NEW q \in Mapped \cap (AcpiWindow \cup ScreenWindow), f = FrameOf(q)
      PROVE  FALSE
  <2>1. q \in PageNumber /\ q < Top /\ IsMapped(mem, q * N)
    BY <1>2, PictureOf DEF MappedIn
  <2>2. q >= AcpiPage /\ q \notin HeapWindow
    <3>1. /\ AcpiPage \in Nat /\ AcpiEnd \in Nat /\ HeapPage \in Nat /\ ScreenPage \in Nat /\ HEAP_PAGES \in Nat
          /\ AcpiPage <= AcpiEnd /\ AcpiEnd <= HeapPage /\ HeapPage + HEAP_PAGES <= ScreenPage
          /\ Pages(virtual_size) \in Nat
      BY Layout, BootAssumption, LayoutAssumption, PagesOf
    <3>2. q \in AcpiWindow => q >= AcpiPage /\ q < AcpiEnd /\ q \in Int
      BY <3>1, WindowPages
    <3>3. q \in ScreenWindow => q >= ScreenPage /\ q \in Int
      BY <3>1, WindowPages
    <3>4. q \in HeapWindow => q >= HeapPage /\ q < HeapPage + HEAP_PAGES
      BY <3>1, WindowPages
    <3>. QED
      BY <1>2, <3>1, <3>2, <3>3, <3>4
  <2>3. f \in FirmwareFrames
    BY <1>2, <2>1, <2>2 DEF FirmwareMapped
  <2>4. f \notin machine.used /\ f \in 1..(machine.total - 1)
    BY <1>1, <1>2 DEF FramesOwned
  <2>5. f \in 0..(machine.total - 1)
    BY <2>4
  <2>. QED
    BY <1>2, <2>3, <2>4, <2>5 DEF FirmwareReserved
<1>. QED
  BY <1>1, <1>2 DEF FramesApart, FramesOwned

LEMMA FirmwareHold ==
  Spec /\ ScreenFits /\ FirmwareReserved => [](WindowsInv /\ TablesInv /\ FirmwareMapped /\ FirmwareReserved)
<1>1. Init => FirmwareMapped
  BY DEF Init, FirmwareMapped
<1>2. WindowsInv /\ TablesInv /\ FirmwareMapped /\ FirmwareReserved /\ [Next]_vars => FirmwareMapped' /\ FirmwareReserved'
  <2>1. ASSUME WindowsInv, [Next]_vars PROVE machine' = machine
    BY <2>1, SameMachine
  <2>. QED
    BY <2>1, FirmwareNext, FirmwareKept
<1>. QED
  BY <1>1, <1>2, TablesHold, PTL DEF Spec

\* Every page table, page of the heap and page of the program has a frame of its
\* own, and no table or screen lies in it (pmm_alloc_frame and its callers).
THEOREM FramesStayApart == Spec /\ ScreenFits /\ FirmwareReserved => []FramesApart
<1>1. WindowsInv /\ FramesInv /\ FirmwareMapped /\ FirmwareReserved => FramesApart
  BY Apart
<1>. QED
  BY <1>1, FramesHold, FirmwareHold, PTL

LEMMA DirectoryUntouched ==
  ASSUME WindowsInv
  PROVE  DirectoryKept
<1>. SUFFICES ASSUME pc # "vmm", NEW i \in {N - 1} \cup Kernels
              PROVE  mem[DIR][i] = Recursive(Bootstrapped)[DIR][i]
  BY DEF DirectoryKept, Kernels, Bootstrapped
<1>1. MemOk(mem) /\ MemOk(Recursive(Bootstrapped))
  BY DirectoryMade DEF WindowsInv, MemInv
<1>. QED
  BY <1>1 DEF MemOk

\* With a framebuffer that fits its window, no mapping touches the bootstrap's
\* or the directory's own (MEMORY.md:10-18, and the finding about the window).
THEOREM DirectoryStays == Spec /\ ScreenFits => []DirectoryKept
<1>1. WindowsInv => DirectoryKept
  BY DirectoryUntouched
<1>. QED
  BY <1>1, WindowsHold, PTL

-----------------------------------------------------------------------------
(* The room for the firmware's tables.                                      *)

\* A property of numbers that is kept from each to the next
LEMMA UpTo ==
  ASSUME NEW P, NEW n \in Nat, 0 \in P, \A i \in 0..(n - 1) : i \in P => i + 1 \in P
  PROVE  n \in P
<1> DEFINE T == {i \in 0..n : i \notin P}
<1>. SUFFICES ASSUME T # {} PROVE FALSE
  OBVIOUS
<1>1. T \in SUBSET Nat
  OBVIOUS
<1>2. PICK x : x = Min(T)
  OBVIOUS
<1>3. x \in T /\ \A y \in T : x <= y
  <2>. HIDE DEF T
  <2>. QED
    BY <1>1, <1>2, LeastNumber
<1>4. x \in 0..n /\ x \notin P /\ x # 0
  BY <1>3
<1>5. x - 1 \in 0..(n - 1) /\ x - 1 \notin T /\ x = (x - 1) + 1
  BY <1>3, <1>4
<1>. QED
  BY <1>4, <1>5

Both(p) == HeaderPages(p) + WholePages(p)
FadtAt == Pointed(FadtId)
DsdtAt == Rom(FadtAt + HEADER)

\* Pages for the headers of the tables that the first n pointers lead to
Sums(f, n) == f = [i \in 0..n |-> IF i = 0 THEN 0 ELSE f[i - 1] + HeaderPages(Pointed(i - 1))]
Headers == CHOOSE f : Sums(f, FadtId + 1)

LEMMA SumsExist ==
  ASSUME NEW n \in Nat
  PROVE  \E f : Sums(f, n)
<1> DEFINE P == {k \in 0..n : \E f : Sums(f, k)}
<1>1. 0 \in P
  <2> DEFINE f == [i \in 0..0 |-> 0]
  <2>1. f = [i \in 0..0 |-> IF i = 0 THEN 0 ELSE f[i - 1] + HeaderPages(Pointed(i - 1))]
    OBVIOUS
  <2>2. Sums(f, 0)
    BY <2>1 DEF Sums
  <2>. QED
    BY <2>2
<1>2. ASSUME NEW k \in 0..(n - 1), k \in P PROVE k + 1 \in P
  <2>1. PICK f : Sums(f, k)
    BY <1>2
  <2> DEFINE g == [i \in 0..(k + 1) |-> IF i <= k THEN f[i] ELSE f[k] + HeaderPages(Pointed(k))]
  <2>2. g = [i \in 0..(k + 1) |-> IF i = 0 THEN 0 ELSE g[i - 1] + HeaderPages(Pointed(i - 1))]
    <3>. SUFFICES ASSUME NEW i \in 0..(k + 1)
                  PROVE  g[i] = IF i = 0 THEN 0 ELSE g[i - 1] + HeaderPages(Pointed(i - 1))
      OBVIOUS
    <3>1. CASE i <= k
      <4>1. g[i] = f[i] /\ (i # 0 => g[i - 1] = f[i - 1])
        BY <3>1
      <4>2. f[i] = IF i = 0 THEN 0 ELSE f[i - 1] + HeaderPages(Pointed(i - 1))
        BY <2>1, <3>1 DEF Sums
      <4>. QED
        BY <4>1, <4>2
    <3>2. CASE i = k + 1
      <4>1. g[i] = f[k] + HeaderPages(Pointed(k)) /\ g[i - 1] = f[k] /\ i # 0 /\ i - 1 = k
        BY <3>2
      <4>. QED
        BY <4>1
    <3>. QED
      BY <3>1, <3>2
  <2>. HIDE DEF g
  <2>3. Sums(g, k + 1)
    BY <2>2 DEF Sums
  <2>. QED
    BY <2>3
<1>. HIDE DEF P
<1>3. n \in P
  BY <1>1, <1>2, UpTo
<1>. QED
  BY <1>3 DEF P

\* What the firmware's tables take
LEMMA TableSizes ==
  ASSUME machine \in Machines, NEW p \in Nat
  PROVE  HeaderPages(p) \in Nat /\ WholePages(p) \in Nat /\ Pages((p % N) + HEADER) = HeaderPages(p)
         /\ Pages((p % N) + Rom(p + 1)) = WholePages(p)
<1>1. p % N \in Nat
  BY NType, WholeAndRest
<1>2. HEADER \in Nat /\ Rom(p + 1) \in Nat
  BY RomType, LayoutAssumption
<1>3. (p % N) + HEADER \in Nat /\ (p % N) + Rom(p + 1) \in Nat
  BY <1>1, <1>2
<1>. QED
  BY <1>3, PagesOf DEF HeaderPages, WholePages

\* The FADT of a conforming firmware
LEMMA FadtFirst ==
  ASSUME machine \in Machines, Conforming
  PROVE  /\ FadtId \in PointerIds /\ FadtId \in Nat /\ Rom(FadtAt) = FACP /\ FadtAt \in Pointers
         /\ \A i \in PointerIds : i \in Nat /\ Pointed(i) \in Pointers /\ (Rom(Pointed(i)) = FACP => FadtId <= i)
<1> DEFINE I == {i \in PointerIds : Rom(Pointed(i)) = FACP}
           F == {p \in Pointers : Rom(p) = FACP}
<1>1. Cardinality(F) = 1
  BY DEF Conforming
<1>2. F # {}
  <2>. HIDE DEF F
  <2>. QED
    BY <1>1, FS_EmptySet
<1>3. I # {}
  BY <1>2 DEF Pointers
<1>4. I \in SUBSET Nat /\ \A i \in PointerIds : i \in Nat
  BY DEF PointerIds
<1>5. FadtId = Min(I)
  BY DEF FadtId
<1>6. FadtId \in I /\ \A i \in I : FadtId <= i
  <2>. HIDE DEF I
  <2>. QED
    BY <1>3, <1>4, <1>5, LeastNumber
<1>. QED
  BY <1>4, <1>6 DEF FadtAt, Pointers

LEMMA PointersTables ==
  ASSUME machine \in Machines, Conforming
  PROVE  /\ \A p \in Pointers : Table(p) /\ p \in Nat /\ p # 0
         /\ Table(machine.root) /\ Table(DsdtAt) /\ Rom(DsdtAt) = DSDT /\ Rom(FadtAt + 1) >= FADT
         /\ \A p : Table(p) => p \in Nat /\ p # 0 /\ p < FRAMES * N /\ p + HEADER <= FRAMES * N
                               /\ Rom(p + 1) >= HEADER /\ p + Rom(p + 1) <= FRAMES * N
<1>1. FRAMES * N \in Nat /\ HEADER \in Nat
  BY BootAssumption, LayoutAssumption, NType
<1>2. \A p : Table(p) => p \in Nat /\ p # 0 /\ p < FRAMES * N /\ Rom(p + 1) >= HEADER /\ p + Rom(p + 1) <= FRAMES * N
  <2> DEFINE c == FRAMES * N
  <2>1. \A p : Table(p) => p \in 1..(c - 1) /\ Rom(p + 1) >= HEADER /\ p + Rom(p + 1) <= c
    BY DEF Table
  <2>. HIDE DEF c
  <2>2. \A p \in 1..(c - 1) : p \in Nat /\ p # 0 /\ p < c
    BY <1>1 DEF c
  <2>. QED
    BY <2>1, <2>2 DEF c
<1>3. \A p : Table(p) => p + HEADER <= FRAMES * N
  <2>. SUFFICES ASSUME NEW p, Table(p) PROVE p + HEADER <= FRAMES * N
    OBVIOUS
  <2> DEFINE c == FRAMES * N
             n == Rom(p + 1)
  <2>1. c \in Nat /\ n \in Nat /\ p \in Nat /\ n >= HEADER /\ p + n <= c
    BY <1>1, <1>2, RomType
  <2>. HIDE DEF c, n
  <2>. QED
    BY <1>1, <2>1 DEF c
<1>4. FadtAt \in Pointers /\ Rom(FadtAt) = FACP
  BY FadtFirst
<1>5. \A p \in Pointers : Table(p)
  BY DEF Conforming
<1>6. Rom(FadtAt + 1) >= FADT /\ Table(DsdtAt) /\ Rom(DsdtAt) = DSDT
  BY <1>4 DEF Conforming, DsdtAt
<1>. QED
  BY <1>2, <1>3, <1>5, <1>6 DEF Conforming

\* The pointers' places are the numbers below one.
LEMMA PointersAre ==
  ASSUME machine \in Machines
  PROVE  \E c \in Int : PointerIds = 0..(c - 1) /\ c = (Rom(machine.root + 1) - HEADER) \div PointerSize
<1> DEFINE a == Rom(machine.root + 1) - HEADER
<1>1. a \in Int /\ (PointerSize = 1 \/ PointerSize = 2)
  BY RomType, LayoutAssumption DEF PointerSize
<1>. HIDE DEF a
<1>2. a \div PointerSize \in Int
  BY <1>1
<1>. QED
  BY <1>2 DEF PointerIds, a

\* The sums, and what they make
LEMMA HeaderSums ==
  ASSUME machine \in Machines, Conforming
  PROVE  /\ Headers[0] = 0
         /\ \A i \in 0..FadtId : /\ Headers[i] \in Nat /\ Headers[i + 1] = Headers[i] + HeaderPages(Pointed(i))
                                 /\ Headers[i + 1] \in Nat /\ Headers[i + 1] <= Headers[FadtId + 1]
         /\ PagesNeeded = Both(machine.root) + Headers[FadtId + 1] + WholePages(FadtAt) + Both(DsdtAt)
<1> DEFINE n == FadtId
           H == Headers
<1>1. n \in Nat /\ n \in PointerIds
  BY FadtFirst
<1>2. Sums(H, n + 1)
  BY <1>1, SumsExist DEF Headers
<1>3. PagesNeeded = Both(machine.root) + H[n + 1] + WholePages(FadtAt) + Both(DsdtAt)
  BY DEF PagesNeeded, Headers, Sums, Both, FadtAt, DsdtAt
<1>4. \A i \in 0..n : HeaderPages(Pointed(i)) \in Nat
  <2>1. \A i \in 0..n : i \in PointerIds
    BY <1>1, PointersAre
  <2>2. \A i \in 0..n : Pointed(i) \in Nat
    BY <2>1, FadtFirst, PointersTables
  <2>. QED
    BY <2>2, TableSizes
<1>. HIDE DEF n, H
<1>5. H[0] = 0 /\ \A i \in 0..n : H[i + 1] = H[i] + HeaderPages(Pointed(i))
  <2>1. H[0] = 0
    BY <1>1, <1>2 DEF Sums
  <2>2. ASSUME NEW i \in 0..n PROVE H[i + 1] = H[i] + HeaderPages(Pointed(i))
    <3>1. i + 1 \in 0..(n + 1) /\ i + 1 # 0 /\ (i + 1) - 1 = i
      BY <1>1
    <3>. QED
      BY <1>2, <3>1 DEF Sums
  <2>. QED
    BY <2>1, <2>2
<1>6. ASSUME NEW m \in 0..(n + 1) PROVE H[m] \in Nat
  <2> DEFINE P == {k \in 0..(n + 1) : H[k] \in Nat}
  <2>1. 0 \in P
    BY <1>1, <1>5
  <2>2. ASSUME NEW k \in 0..(m - 1), k \in P PROVE k + 1 \in P
    <3>1. k \in 0..n /\ k + 1 \in 0..(n + 1)
      BY <1>1
    <3>. QED
      BY <1>4, <1>5, <2>2, <3>1
  <2>. HIDE DEF P
  <2>3. m \in P
    BY <1>1, <2>1, <2>2, UpTo
  <2>. QED
    BY <2>3 DEF P
<1>7. ASSUME NEW m \in 0..(n + 1) PROVE H[(n + 1) - m] <= H[n + 1]
  <2> DEFINE P == {k \in 0..(n + 1) : H[(n + 1) - k] <= H[n + 1]}
  <2>1. 0 \in P
    BY <1>1, <1>6
  <2>2. ASSUME NEW k \in 0..(m - 1), k \in P PROVE k + 1 \in P
    <3> DEFINE j == n - k
    <3>1. j \in 0..n /\ j + 1 = (n + 1) - k /\ j = (n + 1) - (k + 1) /\ j \in 0..(n + 1) /\ j + 1 \in 0..(n + 1)
          /\ k + 1 \in 0..(n + 1)
      BY <1>1
    <3>2. H[j + 1] = H[j] + HeaderPages(Pointed(j)) /\ HeaderPages(Pointed(j)) \in Nat
      BY <1>4, <1>5, <3>1
    <3>3. H[j] \in Nat /\ H[j + 1] \in Nat /\ H[n + 1] \in Nat
      BY <1>1, <1>6, <3>1
    <3>4. H[j + 1] <= H[n + 1]
      BY <2>2, <3>1
    <3>5. H[j] <= H[n + 1]
      BY <3>2, <3>3, <3>4
    <3>. QED
      BY <3>1, <3>5
  <2>. HIDE DEF P
  <2>3. m \in P
    BY <1>1, <2>1, <2>2, UpTo
  <2>. QED
    BY <2>3 DEF P
<1>8. ASSUME NEW i \in 0..n
      PROVE  H[i] \in Nat /\ H[i + 1] \in Nat /\ H[i + 1] <= H[n + 1]
  <2>1. i \in 0..(n + 1) /\ i + 1 \in 0..(n + 1) /\ n - i \in 0..(n + 1) /\ (n + 1) - (n - i) = i + 1
    BY <1>1
  <2>. QED
    BY <1>6, <1>7, <2>1
<1>. QED
  BY <1>3, <1>5, <1>8 DEF n, H

\* The firmware is conforming and its tables fit the window.
Fitting == Conforming /\ ACPI_MAPPING_BASE + PagesNeeded * N <= ACPI_MAPPING_LIMIT

\* Where the window's pages end once the mapping in progress is done
Claimed == IF job.kind = "acpi" THEN Cur + job.left ELSE AcpiNext
RootHead == HeaderPages(machine.root)
RootBoth == Both(machine.root)
Before(i) == AcpiPage + RootBoth + Headers[i]
WithFadt == Before(FadtId + 1) + WholePages(FadtAt)
WithDsdt == WithFadt + HeaderPages(DsdtAt)

\* No page was claimed but those that are needed, and no pointer was passed over
\* that leads to the FADT.
RoomInv ==
  Fitting =>
    /\ panic # "acpi"
    /\ pc = "root_header" => Claimed = AcpiPage + RootHead
    /\ pc = "root_table" => Claimed = AcpiPage + RootBoth
    /\ pc = "entry" => \E i \in 0..FadtId : entry[1] = i /\ Claimed = Before(i)
    /\ pc = "entry_header" => \E i \in 0..FadtId : entry = <<i, Pointed(i)>> /\ Claimed = Before(i + 1)
    /\ pc = "fadt" => entry[2] = FadtAt /\ Claimed = WithFadt
    /\ pc = "dsdt_header" => fadt[2] = FadtAt /\ Claimed = WithDsdt
    /\ pc = "dsdt" => fadt[2] = FadtAt

LEMMA NeedsKept ==
  ASSUME machine' = machine
  PROVE  /\ Fitting' <=> Fitting
         /\ FadtId' = FadtId /\ FadtAt' = FadtAt /\ DsdtAt' = DsdtAt /\ \A i : Pointed(i)' = Pointed(i)
         /\ RootHead' = RootHead /\ RootBoth' = RootBoth /\ WithFadt' = WithFadt /\ WithDsdt' = WithDsdt
         /\ \A i : Before(i)' = Before(i)
<1>1. \A i : Pointed(i)' = Pointed(i)
  BY DEF Pointed, PointerSize, Rom
<1>2. PointerIds' = PointerIds /\ \A p : Rom(p)' = Rom(p)
  BY DEF PointerIds, PointerSize, Rom
<1>3. FadtId' = FadtId
  BY <1>1, <1>2 DEF FadtId, Rom, Pointed, PointerSize
<1>4. FadtAt' = FadtAt
  BY <1>3 DEF FadtAt, Pointed, PointerSize, Rom
<1>5. DsdtAt' = DsdtAt
  BY <1>4 DEF DsdtAt, Rom
<1>6. RootHead' = RootHead /\ RootBoth' = RootBoth
  BY DEF RootHead, RootBoth, Both, HeaderPages, WholePages, Rom
<1>7. Headers' = Headers
  BY <1>3 DEF Headers, Sums, Pointed, PointerSize, Rom
<1>8. \A i : Before(i)' = Before(i)
  BY <1>6, <1>7 DEF Before
<1>9. WithFadt' = WithFadt /\ WithDsdt' = WithDsdt
  BY <1>3, <1>4, <1>5, <1>6, <1>7 DEF WithFadt, WithDsdt, Before, WholePages, HeaderPages, Rom
<1>10. Conforming' <=> Conforming
  BY FirmwareKept
<1>11. PagesNeeded' = PagesNeeded
  BY <1>3 DEF PagesNeeded, WholePages, HeaderPages, Pointed, PointerSize, Rom
<1>. QED
  BY <1>1, <1>3, <1>4, <1>5, <1>6, <1>8, <1>9, <1>10, <1>11 DEF Fitting

\* All that is needed lies in the window.
LEMMA WindowFits ==
  ASSUME machine \in Machines, Fitting
  PROVE  /\ RootHead \in Nat /\ RootBoth \in Nat /\ AcpiPage \in Nat /\ AcpiEnd \in Nat
         /\ RootHead <= RootBoth /\ AcpiPage + RootBoth <= AcpiEnd
         /\ \A i \in 0..FadtId : /\ Before(i) \in Nat /\ Before(i + 1) = Before(i) + HeaderPages(Pointed(i))
                                 /\ Before(i + 1) \in Nat /\ Before(i + 1) <= AcpiEnd
         /\ Before(0) = AcpiPage + RootBoth
         /\ WithFadt \in Nat /\ WithDsdt \in Nat /\ WithFadt <= AcpiEnd /\ WithDsdt <= AcpiEnd
         /\ WithDsdt + WholePages(DsdtAt) <= AcpiEnd
<1> DEFINE h == Headers[FadtId + 1]
           f == WholePages(FadtAt)
           d == HeaderPages(DsdtAt)
           e == WholePages(DsdtAt)
<1>1. Conforming /\ machine.root \in Nat
  BY MachineTypes DEF Fitting
<1>2. FadtAt \in Nat /\ DsdtAt \in Nat /\ FadtId \in Nat
  BY <1>1, FadtFirst, PointersTables
<1>3. f \in Nat /\ d \in Nat /\ e \in Nat /\ RootHead \in Nat /\ RootBoth \in Nat /\ RootHead <= RootBoth
  BY <1>1, <1>2, TableSizes DEF RootHead, RootBoth, Both
<1>4. h \in Nat
  BY <1>1, <1>2, HeaderSums
<1>5. PagesNeeded = RootBoth + h + f + (d + e)
  BY <1>1, HeaderSums DEF RootBoth, Both
<1>6. AcpiPage \in Nat /\ AcpiEnd \in Nat /\ ACPI_MAPPING_BASE = AcpiPage * N /\ ACPI_MAPPING_LIMIT = AcpiEnd * N
  BY Layout
<1>. HIDE DEF h, f, d, e
<1>7. AcpiPage + PagesNeeded <= AcpiEnd
  <2>1. PagesNeeded \in Nat
    BY <1>3, <1>4, <1>5
  <2>2. AcpiPage * N + PagesNeeded * N <= AcpiEnd * N
    BY <1>6 DEF Fitting
  <2>3. (AcpiPage + PagesNeeded) * N = AcpiPage * N + PagesNeeded * N
    BY <1>6, <2>1, NType
  <2>. QED
    BY <1>6, <2>1, <2>2, <2>3, Scale
<1>8. \A i \in 0..FadtId : Headers[i] \in Nat /\ Headers[i + 1] = Headers[i] + HeaderPages(Pointed(i))
                           /\ Headers[i + 1] \in Nat /\ Headers[i + 1] <= h
  BY <1>1, HeaderSums DEF h
<1>9. \A i \in 0..FadtId : HeaderPages(Pointed(i)) \in Nat
  <2>1. \A i \in 0..FadtId : i \in PointerIds
    BY <1>1, <1>2, FadtFirst, PointersAre
  <2>2. \A i \in 0..FadtId : Pointed(i) \in Nat
    BY <1>1, <2>1, FadtFirst, PointersTables
  <2>. QED
    BY <2>2, TableSizes
<1>10. ASSUME NEW i \in 0..FadtId
       PROVE  /\ Before(i) \in Nat /\ Before(i + 1) = Before(i) + HeaderPages(Pointed(i))
              /\ Before(i + 1) \in Nat /\ Before(i + 1) <= AcpiEnd
  BY <1>3, <1>4, <1>5, <1>6, <1>7, <1>8, <1>9 DEF Before
<1>11. Headers[0] = 0
  BY <1>1, HeaderSums
<1>12. Before(0) = AcpiPage + RootBoth
  BY <1>3, <1>6, <1>11 DEF Before
<1>13. WithFadt = AcpiPage + RootBoth + h + f /\ WithDsdt = WithFadt + d
  BY DEF WithFadt, WithDsdt, Before, h, f, d
<1>14. /\ WithFadt \in Nat /\ WithDsdt \in Nat /\ WithFadt <= AcpiEnd /\ WithDsdt <= AcpiEnd
       /\ WithDsdt + e <= AcpiEnd /\ AcpiPage + RootBoth <= AcpiEnd
  BY <1>3, <1>4, <1>5, <1>6, <1>7, <1>13
<1>. QED
  BY <1>3, <1>6, <1>10, <1>12, <1>14 DEF e

\* When a mapping is done the window goes on where it ends.
LEMMA ClaimedNext ==
  ASSUME WindowsInv, job.left = 0
  PROVE  Claimed = AcpiNext /\ Claimed \in Nat
<1>1. TypeOk /\ JobOk
  BY DEF WindowsInv
<1>2. Cur \in Nat /\ AcpiNext \in Nat
  BY <1>1, Numbers
<1>. QED
  BY <1>1, <1>2 DEF Claimed, JobOk

\* acpi_map_range, where there is room
LEMMA HasRoom ==
  ASSUME WindowsInv, job.left = 0, NEW p \in Nat, NEW words \in Nat \ {0}, p # 0, p + words <= FRAMES * N,
         Claimed + Pages((p % N) + words) <= AcpiEnd
  PROVE  Mappable(p, words)
<1> DEFINE k == Pages((p % N) + words)
<1>1. p % N \in Nat /\ (p % N) + words \in Nat
  BY NType, WholeAndRest
<1>2. k \in Nat
  BY <1>1, PagesOf
<1>3. AcpiNext \in Nat /\ AcpiEnd \in Nat /\ acpi_mapping_next = AcpiNext * N /\ ACPI_MAPPING_LIMIT = AcpiEnd * N
  BY Numbers, Layout DEF WindowsInv, TypeOk
<1>4. AcpiNext + k <= AcpiEnd
  BY ClaimedNext
<1>. HIDE DEF k
<1>5. (AcpiNext + k) * N <= AcpiEnd * N /\ (AcpiNext + k) * N = AcpiNext * N + k * N
  BY <1>2, <1>3, <1>4, Scale, NType
<1>. QED
  BY <1>3, <1>5 DEF Mappable, k

LEMMA Claims ==
  ASSUME WindowsInv, job.left = 0, NEW p \in Nat, NEW words \in Nat, NEW next, MapRange(p, words, next)
  PROVE  Claimed' = Claimed + Pages((p % N) + words) /\ pc' = next
<1>1. Map("acpi", acpi_mapping_next, p, (p % N) + words, next)
  BY DEF MapRange
<1>2. acpi_mapping_next = AcpiNext * N /\ AcpiNext \in Nat
  BY Numbers DEF WindowsInv, TypeOk
<1>3. p % N \in Nat /\ (p % N) + words \in Nat
  BY NType, WholeAndRest
<1>4. acpi_mapping_next \in Nat /\ acpi_mapping_next \div N = AcpiNext
  BY <1>2, PageStart
<1>5. job'.left = Pages((p % N) + words) /\ Cur' = AcpiNext /\ job'.kind = "acpi" /\ pc' = next
  BY <1>1, <1>3, <1>4, JobStarted
<1>. QED
  BY <1>5, ClaimedNext DEF Claimed

LEMMA RoomSteady ==
  ASSUME RoomInv, UNCHANGED <<machine, pc, fadt, entry>>, Claimed' = Claimed, panic' = "acpi" => panic = "acpi"
  PROVE  RoomInv'
BY NeedsKept DEF RoomInv

\* A step outside the search for the tables
LEMMA RoomElse ==
  ASSUME RoomInv, machine' = machine, panic' = panic,
         pc' \notin {"root_header", "root_table", "entry", "entry_header", "fadt", "dsdt_header", "dsdt"}
  PROVE  RoomInv'
BY NeedsKept DEF RoomInv

LEMMA RoomMap ==
  ASSUME WindowsInv, RoomInv, MapPage
  PROVE  RoomInv'
<1>1. TypeOk /\ Cur \in Nat /\ AcpiNext \in Nat
  BY Numbers DEF WindowsInv
<1>2. /\ UNCHANGED <<machine, pc, fadt, entry>> /\ job.left \in Nat /\ job'.left = job.left - 1
      /\ job'.kind = job.kind /\ Cur' = Cur + 1
  BY <1>1, JobStep
<1>3. panic' = panic /\ (job.kind # "acpi" => acpi_mapping_next' = acpi_mapping_next)
  BY DEF MapPage
<1>4. Claimed' = Claimed
  BY <1>1, <1>2, <1>3 DEF Claimed, AcpiNext
<1>. QED
  BY <1>2, <1>3, <1>4, RoomSteady

LEMMA RoomRootHeader ==
  ASSUME WindowsInv, RoomInv, RootHeader
  PROVE  RoomInv'
<1>1. pc = "root" /\ job.left = 0 /\ panic = "no" /\ machine \in Machines
  BY DEF RootHeader, Running, WindowsInv, TypeOk
<1>2. PICK p \in Nat, n \in Nat \ {0} : p = machine.root /\ n = HEADER
  BY <1>1, MachineTypes, LayoutAssumption
<1>3. Claimed = AcpiPage
  <2>1. AcpiNext = AcpiPage
    BY <1>1 DEF WindowsInv, JobOk, TypeOk, AcpiSteps
  <2>. QED
    BY <1>1, <2>1, ClaimedNext
<1>4. CASE Fitting
  <2>1. Table(p) /\ p # 0 /\ p + n <= FRAMES * N /\ p < FRAMES * N
    BY <1>1, <1>2, <1>4, PointersTables DEF Fitting
  <2>2. Pages((p % N) + n) = RootHead
    BY <1>1, <1>2, TableSizes DEF RootHead
  <2>3. Claimed + Pages((p % N) + n) <= AcpiEnd
    BY <1>1, <1>3, <1>4, <2>2, WindowFits
  <2>4. Mappable(p, n)
    BY <1>1, <2>1, <2>3, HasRoom
  <2>5. ~(p >= FRAMES * N)
    BY <2>1, BootAssumption, NType
  <2>6. MapRange(p, n, "root_header") /\ machine' = machine /\ panic' = panic
    BY <1>2, <2>4, <2>5 DEF RootHeader, MapOrPanic, Acpi
  <2>7. Claimed' = AcpiPage + RootHead /\ pc' = "root_header"
    BY <1>1, <1>3, <2>2, <2>6, Claims
  <2>. QED
    BY <1>1, <2>6, <2>7, NeedsKept DEF RoomInv
<1>5. CASE ~Fitting
  <2>1. machine' = machine
    BY DEF RootHeader, MapOrPanic, Acpi, Panic
  <2>. QED
    BY <1>5, <2>1, NeedsKept DEF RoomInv
<1>. QED
  BY <1>4, <1>5

LEMMA RoomRootTable ==
  ASSUME WindowsInv, TablesInv, RoomInv, RootTable
  PROVE  RoomInv'
<1>1. pc = "root_header" /\ job.left = 0 /\ panic = "no" /\ machine \in Machines
  BY DEF RootTable, Running, WindowsInv, TypeOk
<1>2. Length = Rom(machine.root + 1)
  BY <1>1, Waited DEF TablesInv, Wanted, Reading, Ranged
<1>3. CASE Fitting
  <2>1. PICK p \in Nat, n \in Nat : p = machine.root /\ n = Length
    BY <1>1, <1>2, MachineTypes, RomType
  <2>2. p # 0 /\ n >= HEADER /\ p + n <= FRAMES * N
    BY <1>1, <1>2, <1>3, <2>1, PointersTables DEF Fitting
  <2>3. n # 0
    BY <2>1, <2>2, LayoutAssumption
  <2>4. Pages((p % N) + n) = WholePages(p) /\ RootBoth = RootHead + WholePages(p)
    BY <1>1, <1>2, <2>1, TableSizes DEF RootBoth, RootHead, Both
  <2>5. Claimed = AcpiPage + RootHead
    BY <1>1, <1>3 DEF RoomInv
  <2>6. Claimed + Pages((p % N) + n) = AcpiPage + RootBoth /\ AcpiPage + RootBoth <= AcpiEnd
    <3>1. WholePages(p) \in Nat
      BY <1>1, TableSizes
    <3>. QED
      BY <1>1, <1>3, <2>4, <2>5, <3>1, WindowFits
  <2>7. Mappable(p, n)
    BY <1>1, <2>1, <2>2, <2>3, <2>6, HasRoom
  <2>8. MapRange(p, n, "root_table") /\ machine' = machine /\ panic' = panic
    BY <2>1, <2>2, <2>7, LayoutAssumption DEF RootTable, MapOrPanic, Acpi
  <2>9. Claimed' = AcpiPage + RootBoth /\ pc' = "root_table"
    BY <1>1, <2>6, <2>8, Claims
  <2>. QED
    BY <1>1, <2>8, <2>9, NeedsKept DEF RoomInv
<1>4. CASE ~Fitting
  <2>1. machine' = machine
    BY DEF RootTable, MapOrPanic, Acpi, Panic
  <2>. QED
    BY <1>4, <2>1, NeedsKept DEF RoomInv
<1>. QED
  BY <1>3, <1>4

LEMMA RoomFindFadt ==
  ASSUME WindowsInv, TablesInv, RoomInv, FindFadt
  PROVE  RoomInv'
<1>1. pc = "root_table" /\ job.left = 0 /\ panic = "no" /\ machine \in Machines
  BY DEF FindFadt, Running, WindowsInv, TypeOk
<1>2. Length = Rom(machine.root + 1)
  BY <1>1, Waited DEF TablesInv, Wanted, Reading, Ranged
<1>3. CASE Fitting
  <2>1. (Length - HEADER) % PointerSize = 0
    BY <1>2, <1>3 DEF Fitting, Conforming
  <2>2. /\ entry' = <<0, 0>> /\ pc' = "entry"
        /\ UNCHANGED <<machine, panic, job, acpi_mapping_next>>
    BY <2>1 DEF FindFadt, Acpi, memory
  <2>3. Claimed' = AcpiPage + RootBoth
    BY <1>1, <1>3, <2>2 DEF RoomInv, Claimed, Cur, AcpiNext
  <2>4. 0 \in 0..FadtId /\ Before(0) = AcpiPage + RootBoth
    <3>1. FadtId \in Nat
      BY <1>1, <1>3, FadtFirst DEF Fitting
    <3>. QED
      BY <1>1, <1>3, <3>1, WindowFits
  <2>5. \E i \in 0..FadtId' : entry'[1] = i /\ Claimed' = Before(i)'
    <3>1. entry'[1] = 0
      BY <2>2
    <3>. QED
      BY <2>2, <2>3, <2>4, <3>1, NeedsKept
  <2>. QED
    BY <1>1, <2>2, <2>5 DEF RoomInv
<1>4. CASE ~Fitting
  <2>1. machine' = machine
    BY DEF FindFadt, Acpi, Panic
  <2>. QED
    BY <1>4, <2>1, NeedsKept DEF RoomInv
<1>. QED
  BY <1>3, <1>4

LEMMA RoomEntryHeader ==
  ASSUME WindowsInv, TablesInv, RoomInv, EntryHeader
  PROVE  RoomInv'
<1>1. pc = "entry" /\ job.left = 0 /\ panic = "no" /\ machine \in Machines /\ root # None /\ entry[1] < Entries
  BY DEF EntryHeader, Running, WindowsInv, TypeOk, TablesInv, Order
<1>2. CASE Fitting
  <2>1. PICK i \in 0..FadtId : entry[1] = i /\ Claimed = Before(i)
    BY <1>1, <1>2 DEF RoomInv
  <2>2. i \in PointerIds /\ Pointed(i) \in Pointers
        /\ Word(root[1] + HEADER + entry[1] * PointerSize) = Pointed(i)
    BY <1>1, <2>1, PointerRead
  <2>3. PICK p \in Nat, n \in Nat \ {0} : p = Pointed(i) /\ n = HEADER
    BY <1>1, <1>2, <2>2, PointersTables, LayoutAssumption DEF Fitting
  <2>4. p # 0 /\ p + n <= FRAMES * N /\ p < FRAMES * N
    BY <1>1, <1>2, <2>2, <2>3, PointersTables DEF Fitting
  <2>5. Pages((p % N) + n) = HeaderPages(Pointed(i))
    BY <1>1, <2>3, TableSizes
  <2>6. Claimed + Pages((p % N) + n) = Before(i + 1) /\ Before(i + 1) <= AcpiEnd
    BY <1>1, <1>2, <2>1, <2>5, WindowFits
  <2>7. Mappable(p, n)
    BY <1>1, <2>4, <2>6, HasRoom
  <2>8. MapRange(p, n, "entry_header") /\ entry' = <<i, p>> /\ machine' = machine /\ panic' = panic
    BY <2>1, <2>2, <2>3, <2>4, <2>7 DEF EntryHeader, Acpi
  <2>9. Claimed' = Before(i + 1) /\ pc' = "entry_header"
    BY <1>1, <2>6, <2>8, Claims
  <2>10. \E k \in 0..FadtId' : entry' = <<k, Pointed(k)'>> /\ Claimed' = Before(k + 1)'
    BY <2>3, <2>8, <2>9, NeedsKept
  <2>. QED
    BY <1>1, <2>8, <2>9, <2>10 DEF RoomInv
<1>3. CASE ~Fitting
  <2>1. machine' = machine
    BY DEF EntryHeader, SkipEntry, Acpi
  <2>. QED
    BY <1>3, <2>1, NeedsKept DEF RoomInv
<1>. QED
  BY <1>2, <1>3

LEMMA RoomEntryTable ==
  ASSUME WindowsInv, TablesInv, RoomInv, EntryTable
  PROVE  RoomInv'
<1>1. pc = "entry_header" /\ job.left = 0 /\ panic = "no" /\ machine \in Machines
  BY DEF EntryTable, Running, WindowsInv, TypeOk
<1>2. Signature = Rom(entry[2]) /\ Length = Rom(entry[2] + 1)
  BY <1>1, Waited DEF TablesInv, Wanted, Reading, Ranged
<1>3. CASE Fitting
  <2>1. PICK i \in 0..FadtId : entry = <<i, Pointed(i)>> /\ Claimed = Before(i + 1)
    BY <1>1, <1>3 DEF RoomInv
  <2>2. FadtId \in Nat /\ FadtId \in PointerIds /\ Rom(FadtAt) = FACP /\ Conforming
    BY <1>1, <1>3, FadtFirst DEF Fitting
  <2>3. i \in PointerIds /\ i \in Nat
    BY <1>1, <2>1, <2>2, PointersAre
  <2>4. CASE i = FadtId
    <3>1. PICK p \in Nat, n \in Nat : p = FadtAt /\ n = Length
      BY <1>1, <1>2, <2>2, RomType, FadtFirst, PointersTables
    <3>2. entry[2] = p /\ p = Pointed(i) /\ Signature = FACP /\ n = Rom(p + 1)
      BY <1>2, <2>1, <2>2, <2>4, <3>1 DEF FadtAt
    <3>3. p # 0 /\ n >= FADT /\ p + n <= FRAMES * N
      BY <1>1, <2>2, <3>1, <3>2, FadtFirst, PointersTables
    <3>4. n >= HEADER /\ n # 0
      BY <3>1, <3>3, LayoutAssumption
    <3>5. Pages((p % N) + n) = WholePages(FadtAt)
      BY <1>1, <3>1, <3>2, TableSizes
    <3>6. Claimed + Pages((p % N) + n) = WithFadt /\ WithFadt <= AcpiEnd
      BY <1>1, <1>3, <2>1, <2>4, <3>5, WindowFits DEF WithFadt
    <3>7. Mappable(p, n)
      BY <1>1, <3>1, <3>3, <3>4, <3>6, HasRoom
    <3>8. MapRange(p, n, "fadt") /\ UNCHANGED <<machine, panic, entry>>
      BY <3>1, <3>2, <3>4, <3>7 DEF EntryTable, IsFadt, Acpi
    <3>9. Claimed' = WithFadt /\ pc' = "fadt" /\ entry'[2] = FadtAt
      BY <1>1, <3>1, <3>2, <3>6, <3>8, Claims
    <3>. QED
      BY <1>1, <3>8, <3>9, NeedsKept DEF RoomInv
  <2>5. CASE i # FadtId
    <3>1. Rom(Pointed(i)) # FACP
      BY <1>1, <2>1, <2>2, <2>3, <2>5, FadtFirst
    <3>2. ~IsFadt
      BY <1>2, <2>1, <3>1 DEF IsFadt
    <3>3. /\ entry' = <<i + 1, 0>> /\ pc' = "entry"
          /\ UNCHANGED <<machine, panic, job, acpi_mapping_next>>
      BY <2>1, <3>2 DEF EntryTable, SkipEntry, NextEntry, Acpi, memory
    <3>4. Claimed' = Before(i + 1)
      BY <2>1, <3>3 DEF Claimed, Cur, AcpiNext
    <3>5. i + 1 \in 0..FadtId
      BY <2>1, <2>2, <2>5
    <3>6. \E k \in 0..FadtId' : entry'[1] = k /\ Claimed' = Before(k)'
      BY <3>3, <3>4, <3>5, NeedsKept
    <3>. QED
      BY <1>1, <3>3, <3>6 DEF RoomInv
  <2>. QED
    BY <2>4, <2>5
<1>4. CASE ~Fitting
  <2>1. machine' = machine
    BY DEF EntryTable, SkipEntry, Acpi
  <2>. QED
    BY <1>4, <2>1, NeedsKept DEF RoomInv
<1>. QED
  BY <1>3, <1>4

LEMMA RoomNoFadt ==
  ASSUME WindowsInv, TablesInv, RoomInv, NoFadt
  PROVE  RoomInv'
<1>1. pc = "entry" /\ root # None /\ machine \in Machines /\ entry[1] >= Entries /\ machine' = machine
  BY DEF NoFadt, Running, WindowsInv, TypeOk, TablesInv, Order, Panic
<1>2. ~Fitting
  <2>. SUFFICES ASSUME Fitting PROVE FALSE
    OBVIOUS
  <2>1. entry[1] \in 0..FadtId
    BY <1>1 DEF RoomInv
  <2>2. FadtId \in PointerIds /\ FadtId \in Nat
    BY <1>1, FadtFirst DEF Fitting
  <2>3. Word(root[1] + 1) = Rom(machine.root + 1)
    <3>1. Holds(root[1], machine.root, Rom(machine.root + 1)) /\ Rom(machine.root + 1) >= HEADER
      BY <1>1 DEF TablesInv, RootRead, Fetched
    <3>2. 1 < Rom(machine.root + 1)
      BY <1>1, <3>1, RomType, LayoutAssumption
    <3>. QED
      BY <3>1, <3>2, WordRead
  <2>4. PICK c \in Int : PointerIds = 0..(c - 1) /\ c = Entries
    BY <1>1, <2>3, PointersAre DEF Entries
  <2>. QED
    BY <1>1, <2>1, <2>2, <2>4
<1>. QED
  BY <1>1, <1>2, NeedsKept DEF RoomInv

LEMMA RoomDsdtHeader ==
  ASSUME WindowsInv, TablesInv, RoomInv, DsdtHeader
  PROVE  RoomInv'
<1>1. pc = "fadt" /\ job.left = 0 /\ panic = "no" /\ machine \in Machines
  BY DEF DsdtHeader, Running, WindowsInv, TypeOk
<1>2. Length = Rom(entry[2] + 1) /\ Holds(job.at, entry[2], Rom(entry[2] + 1))
  BY <1>1, Waited DEF TablesInv, Wanted, Reading, Ranged
<1>3. CASE Fitting
  <2>1. entry[2] = FadtAt /\ Claimed = WithFadt
    BY <1>1, <1>3 DEF RoomInv
  <2>2. FadtAt \in Nat /\ Rom(FadtAt + 1) >= FADT /\ DsdtAt \in Nat /\ DsdtAt # 0 /\ DsdtAt + HEADER <= FRAMES * N
    BY <1>1, <1>3, FadtFirst, PointersTables DEF Fitting
  <2>3. PICK n \in Nat : n = Rom(FadtAt + 1)
    BY <1>1, RomType
  <2>4. HEADER \in Nat \ {0} /\ HEADER < n
    BY <2>2, <2>3, LayoutAssumption
  <2>5. Word(job.at + HEADER) = DsdtAt
    BY <1>2, <2>1, <2>3, <2>4, WordRead DEF DsdtAt
  <2>6. PICK p \in Nat : p = DsdtAt
    BY <2>2
  <2>7. Pages((p % N) + HEADER) = HeaderPages(DsdtAt)
    BY <1>1, <2>6, TableSizes
  <2>8. Claimed + Pages((p % N) + HEADER) = WithDsdt /\ WithDsdt <= AcpiEnd
    BY <1>1, <1>3, <2>1, <2>7, WindowFits DEF WithDsdt
  <2>9. Mappable(p, HEADER)
    BY <1>1, <2>2, <2>4, <2>6, <2>8, HasRoom
  <2>10. ~(Length < FADT)
    BY <1>2, <2>1, <2>2, <2>3, LayoutAssumption
  <2>11. MapRange(p, HEADER, "dsdt_header") /\ fadt' = <<job.at, FadtAt>> /\ machine' = machine /\ panic' = panic
    BY <2>1, <2>5, <2>6, <2>9, <2>10 DEF DsdtHeader, Acpi
  <2>12. Claimed' = WithDsdt /\ pc' = "dsdt_header" /\ fadt'[2] = FadtAt
    BY <1>1, <2>4, <2>8, <2>11, Claims
  <2>. QED
    BY <1>1, <2>11, <2>12, NeedsKept DEF RoomInv
<1>4. CASE ~Fitting
  <2>1. machine' = machine
    BY DEF DsdtHeader, Acpi, Panic
  <2>. QED
    BY <1>4, <2>1, NeedsKept DEF RoomInv
<1>. QED
  BY <1>3, <1>4

LEMMA RoomDsdtTable ==
  ASSUME WindowsInv, TablesInv, RoomInv, DsdtTable
  PROVE  RoomInv'
<1>1. pc = "dsdt_header" /\ job.left = 0 /\ panic = "no" /\ machine \in Machines /\ fadt # None
  BY DEF DsdtTable, Running, WindowsInv, TypeOk, TablesInv, Order
<1>2. Length = Rom(Rom(fadt[2] + HEADER) + 1)
  BY <1>1, Waited DEF TablesInv, Wanted, Reading, Ranged
<1>3. CASE Fitting
  <2>1. fadt[2] = FadtAt /\ Claimed = WithDsdt
    BY <1>1, <1>3 DEF RoomInv
  <2>2. PICK p \in Nat, n \in Nat : p = DsdtAt /\ n = Length
    BY <1>1, <1>2, RomType DEF DsdtAt
  <2>3. n = Rom(p + 1) /\ Word(fadt[1] + HEADER) = p
    BY <1>1, <1>2, <2>1, <2>2, DsdtPointer DEF DsdtAt
  <2>4. p # 0 /\ n >= HEADER /\ p + n <= FRAMES * N
    BY <1>1, <1>3, <2>2, <2>3, PointersTables DEF Fitting
  <2>5. n # 0
    BY <2>2, <2>4, LayoutAssumption
  <2>6. Pages((p % N) + n) = WholePages(DsdtAt)
    BY <1>1, <2>2, <2>3, TableSizes
  <2>7. Claimed + Pages((p % N) + n) <= AcpiEnd
    BY <1>1, <1>3, <2>1, <2>6, WindowFits
  <2>8. Mappable(p, n)
    BY <1>1, <2>4, <2>5, <2>7, HasRoom
  <2>9. MapRange(p, n, "dsdt") /\ UNCHANGED <<machine, panic, fadt>>
    BY <2>2, <2>3, <2>4, <2>8, LayoutAssumption DEF DsdtTable, MapOrPanic, Acpi, tables
  <2>10. pc' = "dsdt"
    BY <1>1, <2>9, Claims
  <2>. QED
    BY <1>1, <2>1, <2>9, <2>10, NeedsKept DEF RoomInv
<1>4. CASE ~Fitting
  <2>1. machine' = machine
    BY DEF DsdtTable, MapOrPanic, Acpi, Panic
  <2>. QED
    BY <1>4, <2>1, NeedsKept DEF RoomInv
<1>. QED
  BY <1>3, <1>4

LEMMA RoomDsdtFound ==
  ASSUME WindowsInv, TablesInv, RoomInv, DsdtFound
  PROVE  RoomInv'
<1>1. pc = "dsdt" /\ job.left = 0 /\ panic = "no" /\ machine \in Machines
  BY DEF DsdtFound, Running, WindowsInv, TypeOk
<1>2. Signature = Rom(Rom(fadt[2] + HEADER))
  BY <1>1, Waited DEF TablesInv, Wanted, Reading, Ranged
<1>3. CASE Fitting
  <2>1. Rom(Rom(fadt[2] + HEADER)) = DSDT
    BY <1>1, <1>3, PointersTables DEF RoomInv, Fitting, DsdtAt
  <2>2. pc' = "screen" /\ machine' = machine /\ panic' = panic
    BY <1>2, <2>1 DEF DsdtFound, Acpi
  <2>. QED
    BY <2>2, RoomElse
<1>4. CASE ~Fitting
  <2>1. machine' = machine
    BY DEF DsdtFound, Acpi, Panic
  <2>. QED
    BY <1>4, <2>1, NeedsKept DEF RoomInv
<1>. QED
  BY <1>3, <1>4

LEMMA RoomNext ==
  ASSUME WindowsInv, TablesInv, RoomInv, [Next]_vars
  PROVE  RoomInv'
<1>1. CASE MapPage
  BY <1>1, RoomMap
<1>2. CASE RootHeader \/ RootTable \/ FindFadt \/ EntryHeader \/ EntryTable \/ NoFadt
  BY <1>2, RoomRootHeader, RoomRootTable, RoomFindFadt, RoomEntryHeader, RoomEntryTable, RoomNoFadt
<1>3. CASE DsdtHeader \/ DsdtTable \/ DsdtFound
  BY <1>3, RoomDsdtHeader, RoomDsdtTable, RoomDsdtFound
<1>4. CASE HeapFails \/ MapPageExhausted \/ ProgramRefused
  <2>1. Panic("no_heap") \/ Panic("exhausted") \/ Panic("init_refused")
    BY <1>4 DEF HeapFails, MapPageExhausted, ProgramRefused
  <2>2. UNCHANGED <<machine, pc, fadt, entry, job, acpi_mapping_next>> /\ panic' # "acpi"
    BY <2>1 DEF Panic, memory, tables
  <2>3. Claimed' = Claimed
    BY <2>2 DEF Claimed, Cur, AcpiNext
  <2>. QED
    BY <2>2, <2>3, RoomSteady
<1>5. CASE VmmInit \/ MapHeap \/ MapFramebuffer \/ FramebufferReady \/ NoFramebuffer \/ MapProgram \/ MapStack \/ NoProgram
  <2>1. pc' \in {"heap", "root", "screen_mapped", "init", "stack", "user_mode", "shell"}
        /\ machine' = machine /\ panic' = panic
    BY <1>5 DEF VmmInit, MapHeap, MapFramebuffer, FramebufferReady, NoFramebuffer, MapProgram, MapStack, NoProgram, Map
  <2>. QED
    BY <2>1, RoomElse
<1>6. CASE Booted \/ UNCHANGED vars
  <2>1. UNCHANGED <<machine, pc, fadt, entry, job, acpi_mapping_next, panic>>
    BY <1>6 DEF Booted, vars, memory, tables
  <2>2. Claimed' = Claimed
    BY <2>1 DEF Claimed, Cur, AcpiNext
  <2>. QED
    BY <2>1, <2>2, RoomSteady
<1>. QED
  BY <1>1, <1>2, <1>3, <1>4, <1>5, <1>6 DEF Next, FindTables

LEMMA RoomJustifies ==
  ASSUME WindowsInv, RoomInv
  PROVE  AcpiPanicJustified
<1>. SUFFICES ASSUME panic = "acpi", Conforming, ~(ACPI_MAPPING_BASE + PagesNeeded * N > ACPI_MAPPING_LIMIT)
              PROVE  FALSE
  BY DEF AcpiPanicJustified
<1>1. machine \in Machines
  BY DEF WindowsInv, TypeOk
<1>2. PagesNeeded \in Nat
  <2>1. FadtAt \in Nat /\ DsdtAt \in Nat /\ machine.root \in Nat /\ FadtId \in Nat
    BY <1>1, FadtFirst, PointersTables, MachineTypes
  <2>2. WholePages(FadtAt) \in Nat /\ Both(DsdtAt) \in Nat /\ Both(machine.root) \in Nat
    BY <1>1, <2>1, TableSizes DEF Both
  <2>3. Headers[FadtId + 1] \in Nat
    BY <1>1, <2>1, HeaderSums
  <2>. QED
    BY <1>1, <2>2, <2>3, HeaderSums
<1>3. Fitting
  <2>1. PagesNeeded * N \in Nat /\ ACPI_MAPPING_BASE \in Nat /\ ACPI_MAPPING_LIMIT \in Nat
    BY <1>2, Scale, LayoutAssumption
  <2>. QED
    BY <2>1 DEF Fitting
<1>. QED
  BY <1>3 DEF RoomInv

\* acpi_init gives the machine up only for tables that are malformed or find no
\* room: it takes no page of the window but those that are needed, and passes over
\* no pointer to the FADT (acpi.c, fadt.c and dsdt.c).
THEOREM PanicsCorrect == Spec /\ ScreenFits => []AcpiPanicJustified
<1>1. Init => RoomInv
  BY DEF Init, RoomInv
<1>2. WindowsInv /\ TablesInv /\ RoomInv /\ [Next]_vars => RoomInv'
  BY RoomNext
<1>3. WindowsInv /\ RoomInv => AcpiPanicJustified
  BY RoomJustifies
<1>. QED
  BY <1>1, <1>2, <1>3, TablesHold, PTL DEF Spec

=============================================================================
