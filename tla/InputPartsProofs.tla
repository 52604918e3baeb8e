------------------------- MODULE InputPartsProofs ---------------------------
(***************************************************************************)
(* The parts that the input path is made of, each by itself: the rings of  *)
(* ipc.rs, the frames of the traps, ps2_init, and the uptime read half by  *)
(* half, for every capacity, every number of words and every length of a   *)
(* half.                                                                   *)
(***************************************************************************)
EXTENDS IpcRing, Traps, Ps2Setup, Uptime, SequenceTheorems, TLAPS

-----------------------------------------------------------------------------
(* What Put and Take do to a ring, and the arithmetic modulo its capacity.  *)

\* An index less than two rings away is reduced by one subtraction at most.
LEMMA NoWrap ==
  ASSUME NEW C \in Nat, C > 0, NEW x \in Nat, x < C
  PROVE  x % C = x
OBVIOUS

LEMMA OneWrap ==
  ASSUME NEW C \in Nat, C > 0, NEW x \in Nat, C <= x, x < C + C
  PROVE  x % C = x - C
OBVIOUS

LEMMA WrapOnce ==
  ASSUME NEW C \in Nat, C > 0, NEW x \in Nat, x < C + C
  PROVE  /\ x < C => x % C = x
         /\ C <= x => x % C = x - C
         /\ x % C \in 0..(C - 1)
<1>1. CASE x < C
  <2>1. x % C = x
    BY <1>1, NoWrap
  <2> QED
    BY <1>1, <2>1
<1>2. CASE C <= x
  <2>1. x % C = x - C
    BY <1>2, OneWrap
  <2> QED
    BY <1>2, <2>1
<1> QED
  BY <1>1, <1>2

\* Two distances shorter than the ring lead from one slot to two.
LEMMA SlotsDiffer ==
  ASSUME NEW C \in Nat, C > 0, NEW h \in 0..(C - 1),
         NEW i \in 0..(C - 1), NEW j \in 0..(C - 1), i # j
  PROVE  (h + i) % C # (h + j) % C
<1> DEFINE x == h + i
           y == h + j
<1>1. x \in Nat /\ x < C + C /\ y \in Nat /\ y < C + C /\ x # y
      /\ x - y # C /\ y - x # C
  OBVIOUS
<1> HIDE DEF x, y
<1>2. /\ x < C => x % C = x
      /\ C <= x => x % C = x - C
  BY <1>1, WrapOnce
<1>3. /\ y < C => y % C = y
      /\ C <= y => y % C = y - C
  BY <1>1, WrapOnce
<1>4. x % C # y % C
  BY <1>1, <1>2, <1>3
<1> QED
  BY <1>4 DEF x, y

\* Two steps along the ring are one step of their sum.
LEMMA WrapSum ==
  ASSUME NEW C \in Nat, C > 0, NEW x \in Nat, x < C + C, NEW d \in Nat,
         (x % C) + d < C + C, x + d < C + C
  PROVE  ((x % C) + d) % C = (x + d) % C
<1> DEFINE s == x % C
           t == s + d
           u == x + d
<1>1. /\ x < C => s = x
      /\ C <= x => s = x - C
      /\ s \in 0..(C - 1)
  BY WrapOnce
<1>2. /\ t \in Nat /\ t < C + C /\ u \in Nat /\ u < C + C
      /\ x < C => t = u
      /\ C <= x => t = u - C
  <2> HIDE DEF s
  <2>1. t \in Nat /\ u \in Nat /\ u < C + C
      /\ (x < C => t = u)
      /\ (C <= x => t = u - C)
    BY <1>1
  <2> QED
    BY <2>1 DEF s
<1> HIDE DEF t, u
<1>3. /\ t < C => t % C = t
      /\ C <= t => t % C = t - C
  BY <1>2, WrapOnce
<1>4. /\ u < C => u % C = u
      /\ C <= u => u % C = u - C
  BY <1>2, WrapOnce
<1>5. t % C = u % C
  BY <1>2, <1>3, <1>4
<1> QED
  BY <1>5 DEF t, u

\* A step of the tail with one message more, or of the head with one fewer,
\* leaves the tail where head and count say.
LEMMA StepWraps ==
  ASSUME NEW C \in Nat, C > 0, NEW h \in 0..(C - 1), NEW n \in 0..C
  PROVE  /\ (h + n) % C \in 0..(C - 1)
         /\ n < C => (((h + n) % C) + 1) % C = (h + (n + 1)) % C
         /\ n > 0 => (((h + 1) % C) + (n - 1)) % C = (h + n) % C
<1>1. (h + n) % C \in 0..(C - 1)
  BY WrapOnce
<1>2. ASSUME n < C PROVE (((h + n) % C) + 1) % C = (h + (n + 1)) % C
  <2> DEFINE x == h + n
             s == x % C
  <2>1. x \in Nat /\ x < C + C /\ x + 1 < C + C /\ x + 1 = h + (n + 1)
    BY <1>2
  <2>2. s \in 0..(C - 1)
    BY <1>1
  <2> HIDE DEF x
  <2>3. s + 1 < C + C
    <3> HIDE DEF s
    <3> QED BY <2>2
  <2>4. ((x % C) + 1) % C = (x + 1) % C
    BY <2>1, <2>3, WrapSum
  <2> QED
    BY <2>1, <2>4 DEF x
<1>3. ASSUME n > 0 PROVE (((h + 1) % C) + (n - 1)) % C = (h + n) % C
  <2> DEFINE x == h + 1
             s == x % C
             d == n - 1
  <2>1. x \in Nat /\ x < C + C /\ d \in Nat /\ d < C /\ x + d < C + C /\ x + d = h + n
    BY <1>3
  <2> HIDE DEF x, d
  <2>2. s \in 0..(C - 1)
    BY <2>1, WrapOnce
  <2>3. s + d < C + C
    <3> HIDE DEF s
    <3> QED BY <2>1, <2>2
  <2>4. ((x % C) + d) % C = (x + d) % C
    BY <2>1, <2>3, WrapSum
  <2> QED
    BY <2>1, <2>4 DEF x, d
<1> QED
  BY <1>1, <1>2, <1>3

-----------------------------------------------------------------------------
(* What Put and Take do to a ring.                                          *)

Ring(ep) == /\ ep \in Endpoint
            /\ ep.tail = (ep.head + ep.count) % IPC_QUEUE_CAPACITY

\* The bytes a caller announces are there.
Announced(buffer, length) ==
  length \in 0..IPC_MAX_PAYLOAD /\ \A k \in 1..length : buffer[k] \in Byte

\* A slot that is written over is a message again, whatever it held.
LEMMA WrittenType ==
  ASSUME NEW m \in IpcMessage, NEW sender \in Nat, NEW buffer, NEW length,
         Announced(buffer, length)
  PROVE  /\ Written(m, sender, buffer, length) \in IpcMessage
         /\ Visible(Written(m, sender, buffer, length)) =
              [sender |-> sender, payload |-> [k \in 1..length |-> buffer[k]]]
<1> DEFINE w == Written(m, sender, buffer, length)
<1>1. w.sender = sender /\ w.length = length
      /\ w.data = [k \in 1..IPC_MAX_PAYLOAD |-> IF k <= length THEN buffer[k] ELSE m.data[k]]
  BY DEF Written
<1>2. w \in IpcMessage
  BY RingAssumption DEF IpcMessage, Announced, Written
<1>3. [k \in 1..w.length |-> w.data[k]] = [k \in 1..length |-> buffer[k]]
  BY <1>1, RingAssumption DEF Announced
<1> QED
  BY <1>1, <1>2, <1>3 DEF Visible

\* Put fills the slot at the tail and keeps the ring consistent.
LEMMA PutRing ==
  ASSUME NEW ep, Ring(ep), ep.count < IPC_QUEUE_CAPACITY,
         NEW sender \in Nat, NEW buffer, NEW length, Announced(buffer, length)
  PROVE  /\ Ring(Put(ep, sender, buffer, length))
         /\ Put(ep, sender, buffer, length).active = ep.active
<1> DEFINE C == IPC_QUEUE_CAPACITY
           w == Written(ep.messages[ep.tail], sender, buffer, length)
           p == Put(ep, sender, buffer, length)
<1>1. C \in Nat /\ C > 0 /\ ep.head \in 0..(C - 1) /\ ep.count \in 0..C
      /\ ep.tail \in Slots /\ ep.messages \in [Slots -> IpcMessage]
  BY RingAssumption DEF Ring, Endpoint, Slots
<1>2. w \in IpcMessage
  BY <1>1, WrittenType
<1>3. (ep.tail + 1) % C = (ep.head + (ep.count + 1)) % C
  BY <1>1, StepWraps DEF Ring
<1>4. (ep.tail + 1) % C \in Slots
  BY <1>1, <1>3, StepWraps DEF Slots
<1>5. /\ p = [ep EXCEPT !.messages = [ep.messages EXCEPT ![ep.tail] = w],
                        !.tail = (ep.tail + 1) % C, !.count = ep.count + 1]
  BY DEF Put, Ring, Endpoint
<1>6. [ep.messages EXCEPT ![ep.tail] = w] \in [Slots -> IpcMessage]
  BY <1>1, <1>2
<1>7. ep.count + 1 \in 0..C
  BY <1>1
<1> QED
  BY <1>3, <1>4, <1>5, <1>6, <1>7 DEF Ring, Endpoint

\* Take passes over the slot at the head and keeps the ring consistent.
LEMMA TakeRing ==
  ASSUME NEW ep, Ring(ep), ep.count # 0
  PROVE  Ring(Take(ep)) /\ Take(ep).active = ep.active
<1> DEFINE C == IPC_QUEUE_CAPACITY
<1>1. C \in Nat /\ C > 0 /\ ep.head \in 0..(C - 1) /\ ep.count \in 0..C
  BY RingAssumption DEF Ring, Endpoint, Slots
<1>2. (((ep.head + 1) % C) + (ep.count - 1)) % C = (ep.head + ep.count) % C
  <2> DEFINE h == ep.head
             n == ep.count
  <2>1. h \in 0..(C - 1) /\ n \in 0..C /\ n > 0
    BY <1>1
  <2> HIDE DEF h, n
  <2>2. (((h + 1) % C) + (n - 1)) % C = (h + n) % C
    BY <1>1, <2>1, StepWraps
  <2> QED
    BY <2>2 DEF h, n
<1>3. (ep.head + 1) % C \in Slots
  <2>1. 1 \in 0..C
    BY <1>1
  <2> QED
    BY <1>1, <2>1, StepWraps DEF Slots
<1>4. Take(ep) = [ep EXCEPT !.head = (ep.head + 1) % C, !.count = ep.count - 1]
  BY DEF Take
<1>5. ep.count - 1 \in 0..C
  BY <1>1
<1> QED
  BY <1>2, <1>3, <1>4, <1>5 DEF Ring, Endpoint

\* The i-th message of a ring lies i - 1 slots past its head.
LEMMA SlotIsMessage ==
  ASSUME NEW ep, Ring(ep), NEW i \in 1..ep.count
  PROVE  /\ (ep.head + i - 1) % IPC_QUEUE_CAPACITY \in Slots
         /\ ep.head + i - 1 = ep.head + (i - 1)
         /\ i - 1 \in 0..(IPC_QUEUE_CAPACITY - 1)
<1>1. IPC_QUEUE_CAPACITY \in Nat /\ IPC_QUEUE_CAPACITY > 0 /\ ep.head \in 0..(IPC_QUEUE_CAPACITY - 1)
      /\ ep.count \in 0..IPC_QUEUE_CAPACITY
  BY RingAssumption DEF Ring, Endpoint, Slots
<1>2. i - 1 \in 0..IPC_QUEUE_CAPACITY /\ i - 1 \in 0..(IPC_QUEUE_CAPACITY - 1)
      /\ ep.head + i - 1 = ep.head + (i - 1)
  BY <1>1
<1>3. (ep.head + (i - 1)) % IPC_QUEUE_CAPACITY \in 0..(IPC_QUEUE_CAPACITY - 1)
  BY <1>1, <1>2, StepWraps
<1> QED
  BY <1>2, <1>3 DEF Slots

\* Put appends to the contents: the slot at the tail is the only one it
\* writes, and no message that waits is in it.
LEMMA PutAppends ==
  ASSUME NEW ep, Ring(ep), ep.count < IPC_QUEUE_CAPACITY,
         NEW sender \in Nat, NEW buffer, NEW length, Announced(buffer, length)
  PROVE  Contents(Put(ep, sender, buffer, length)) =
           Append(Contents(ep),
                  [sender |-> sender, payload |-> [k \in 1..length |-> buffer[k]]])
<1> DEFINE C == IPC_QUEUE_CAPACITY
           w == Written(ep.messages[ep.tail], sender, buffer, length)
           p == Put(ep, sender, buffer, length)
           m == [sender |-> sender, payload |-> [k \in 1..length |-> buffer[k]]]
<1>1. C \in Nat /\ C > 0 /\ ep.head \in 0..(C - 1) /\ ep.count \in 0..(C - 1)
      /\ ep.tail \in Slots /\ ep.messages \in [Slots -> IpcMessage]
      /\ ep.tail = (ep.head + ep.count) % C
  BY RingAssumption DEF Ring, Endpoint, Slots
<1>2. p.head = ep.head /\ p.count = ep.count + 1
      /\ p.messages = [ep.messages EXCEPT ![ep.tail] = w]
  BY DEF Put, Ring, Endpoint
<1>3. Visible(w) = m
  <2>1. ep.messages[ep.tail] \in IpcMessage
    BY <1>1
  <2> QED
    BY <2>1, WrittenType
<1>4. ASSUME NEW i \in 1..ep.count PROVE Visible(Slot(p, i)) = Visible(Slot(ep, i))
  <2>1. /\ (ep.head + (i - 1)) % C \in Slots
        /\ i - 1 \in 0..(C - 1)
        /\ ep.head + i - 1 = ep.head + (i - 1)
    BY SlotIsMessage
  <2>2. i - 1 # ep.count
    BY <1>1
  <2>3. (ep.head + (i - 1)) % C # ep.tail
    BY <1>1, <2>1, <2>2, SlotsDiffer
  <2> QED
    BY <1>1, <1>2, <2>1, <2>3 DEF Slot
<1>5. Visible(Slot(p, ep.count + 1)) = m
  <2>1. ep.head + (ep.count + 1) - 1 = ep.head + ep.count
    BY <1>1
  <2> QED
    BY <1>1, <1>2, <1>3, <2>1 DEF Slot
<1>6. Contents(p) = [i \in 1..(ep.count + 1) |-> Visible(Slot(p, i))]
  BY <1>2 DEF Contents
<1>7. Len(Contents(ep)) = ep.count
  BY <1>1 DEF Contents
<1>8. Append(Contents(ep), m) =
        [i \in 1..(ep.count + 1) |-> IF i = ep.count + 1 THEN m ELSE Visible(Slot(ep, i))]
  BY <1>1, <1>7 DEF Contents
<1>9. ASSUME NEW i \in 1..(ep.count + 1)
      PROVE  Contents(p)[i] = Append(Contents(ep), m)[i]
  <2>1. CASE i = ep.count + 1
    <3>1. Append(Contents(ep), m)[i] = m
      BY <1>8, <2>1
    <3>2. Contents(p)[i] = Visible(Slot(p, i))
      BY <1>6
    <3> QED
      BY <1>5, <2>1, <3>1, <3>2
  <2>2. CASE i # ep.count + 1
    <3>1. Append(Contents(ep), m)[i] = Visible(Slot(ep, i))
      BY <1>8, <2>2
    <3>2. Contents(p)[i] = Visible(Slot(p, i)) /\ i \in 1..ep.count
      BY <1>1, <1>6, <2>2
    <3> QED
      BY <1>4, <3>1, <3>2
  <2> QED
    BY <2>1, <2>2
<1> DEFINE before == Contents(ep)
           after == Contents(p)
           longer == Append(before, m)
<1> HIDE DEF p, m
<1>10. after = [i \in 1..(ep.count + 1) |-> after[i]]
  BY <1>6
<1>11. longer = [i \in 1..(ep.count + 1) |-> longer[i]]
  BY <1>8
<1>12. \A i \in 1..(ep.count + 1) : after[i] = longer[i]
  BY <1>9
<1> HIDE DEF before, after, longer
<1>13. after = longer
  BY <1>10, <1>11, <1>12
<1> QED
  BY <1>13 DEF before, after, longer, p, m

\* Take removes the oldest message of the contents, which is at the head.
LEMMA TakeIsTail ==
  ASSUME NEW ep, Ring(ep), ep.count # 0
  PROVE  /\ Contents(ep) # <<>>
         /\ Head(Contents(ep)) = Visible(ep.messages[ep.head])
         /\ Contents(Take(ep)) = Tail(Contents(ep))
<1> DEFINE C == IPC_QUEUE_CAPACITY
           t == Take(ep)
<1>1. C \in Nat /\ C > 0 /\ ep.head \in 0..(C - 1) /\ ep.count \in 1..C
  BY RingAssumption DEF Ring, Endpoint, Slots
<1>2. t.head = (ep.head + 1) % C /\ t.count = ep.count - 1 /\ t.messages = ep.messages
  BY DEF Take, Ring, Endpoint
<1>3. (ep.head + 1 - 1) % C = ep.head
  <2>1. ep.head + 1 - 1 = ep.head
    BY <1>1
  <2>2. ep.head % C = ep.head
    BY <1>1
  <2> QED
    BY <2>1, <2>2
<1>4. 1 \in 1..ep.count /\ Contents(ep)[1] = Visible(ep.messages[ep.head])
  BY <1>1, <1>3 DEF Contents, Slot
<1>5. ASSUME NEW i \in 1..(ep.count - 1) PROVE Slot(t, i) = Slot(ep, i + 1)
  <2>1. i + 1 \in 1..ep.count /\ i \in 0..ep.count /\ i > 0
    BY <1>1
  <2>2. (((ep.head + 1) % C) + (i - 1)) % C = (ep.head + i) % C
    <3>1. i \in 0..C /\ i > 0
      BY <1>1, <2>1
    <3> QED
      BY <1>1, <3>1, StepWraps
  <2>3. (ep.head + 1) % C \in Int
    <3>1. 1 \in 0..C
      BY <1>1
    <3> QED
      BY <1>1, <3>1, StepWraps
  <2>4. ((ep.head + 1) % C) + i - 1 = ((ep.head + 1) % C) + (i - 1)
        /\ ep.head + (i + 1) - 1 = ep.head + i
    BY <1>1, <2>1, <2>3
  <2> QED
    BY <1>2, <2>2, <2>4 DEF Slot
<1>6. Contents(ep) = [i \in 1..ep.count |-> Visible(Slot(ep, i))] /\ Len(Contents(ep)) = ep.count
  BY <1>1 DEF Contents
<1>7. Tail(Contents(ep)) = [i \in 1..(ep.count - 1) |-> Visible(Slot(ep, i + 1))]
  BY <1>1, <1>6
<1>8. Contents(t) = [i \in 1..(ep.count - 1) |-> Visible(Slot(t, i))]
  BY <1>2 DEF Contents
<1> QED
  BY <1>1, <1>4, <1>5, <1>6, <1>7, <1>8

-----------------------------------------------------------------------------
(* What is pushed on a stack in a trap is taken off it again.               *)

Stacks == {"boot", "kernel_stack", "user"}
Places == {"setup", "boot", "init", "jump", "iretd", "user", "booted", "poll", "check", "empty",
           "copy", "store", "got", "sleep", "asleep", "handle", "uptime"}
Answers == {"version", "0xDEADC0DE", "endpoint", "status"}

\* The words that come to lie on a stack or in a register.
Kinds == {"err", "number", "ds", "pointer", "eflags", "cs", "eip", "ss", "stale", "answer", "kernel"} \cup Stacks
Names == {"none", "kernel", "user", "frame", "word"}
Words == Kinds \X (Names \cup Answers \cup Places \cup Registers \cup BOOLEAN \cup Nat)

Processors ==
  [reg : [Registers -> Words], ds : Words, cs : {"kernel", "user"}, flag : BOOLEAN,
   on : Stacks, mem : [Stacks -> Seq(Words)], saved : Seq(Words)]

LEMMA ProcessorFacts ==
  ASSUME NEW p \in Processors
  PROVE  /\ p.reg \in [Registers -> Words] /\ p.ds \in Words /\ p.cs \in {"kernel", "user"}
         /\ p.flag \in BOOLEAN /\ p.on \in Stacks /\ p.mem \in [Stacks -> Seq(Words)]
         /\ p.saved \in Seq(Words)
         /\ \A s \in Stacks : p.mem[s] \in Seq(Words) /\ Len(p.mem[s]) \in Nat
BY DEF Processors

\* A processor by its parts.
Processor(reg, ds, cs, flag, on, mem, saved) ==
  [reg |-> reg, ds |-> ds, cs |-> cs, flag |-> flag, on |-> on, mem |-> mem, saved |-> saved]

LEMMA MemoryChanged ==
  ASSUME NEW p \in Processors, NEW mem
  PROVE  [p EXCEPT !.mem = mem] = Processor(p.reg, p.ds, p.cs, p.flag, p.on, mem, p.saved)
BY DEF Processors, Processor

LEMMA PushFacts ==
  ASSUME NEW p \in Processors, NEW t \in Seq(Words)
  PROVE  /\ Push(p, t) \in Processors
         /\ Push(p, t).mem[p.on] = p.mem[p.on] \o t
         /\ Push(p, t).reg = p.reg /\ Push(p, t).ds = p.ds /\ Push(p, t).on = p.on
         /\ Push(p, t).cs = p.cs /\ Push(p, t).flag = p.flag /\ Push(p, t).saved = p.saved
<1>1. p.mem[p.on] \o t \in Seq(Words)
  BY ConcatProperties, ProcessorFacts
<1>2. p.on \in Stacks /\ p.mem \in [Stacks -> Seq(Words)]
  BY ProcessorFacts
<1> QED BY <1>1, <1>2 DEF Push, Processors

LEMMA WordOfPush ==
  ASSUME NEW p \in Processors, NEW t \in Seq(Words), NEW k \in 0..(Len(t) - 1)
  PROVE  Word(Push(p, t), k) = t[Len(t) - k]
<1> DEFINE s == p.mem[p.on]
<1>1. s \in Seq(Words) /\ Len(s) \in Nat /\ Len(t) \in Nat
  BY ProcessorFacts
<1> HIDE DEF s
<1>2. Len(s \o t) = Len(s) + Len(t) /\ (s \o t)[Len(s) + Len(t) - k] = t[Len(s) + Len(t) - k - Len(s)]
  BY <1>1, ConcatProperties
<1>3. Len(s) + Len(t) - k - Len(s) = Len(t) - k
  BY <1>1
<1>4. Word(Push(p, t), k) = (s \o t)[Len(s \o t) - k]
  <2>1. Push(p, t).mem[p.on] = s \o t /\ Push(p, t).on = p.on
    BY PushFacts DEF s
  <2> QED BY <2>1 DEF Word
<1> QED BY <1>2, <1>3, <1>4

LEMMA CutOff ==
  ASSUME NEW s \in Seq(Words), NEW t \in Seq(Words)
  PROVE  SubSeq(s \o t, 1, Len(s \o t) - Len(t)) = s
<1>1. Len(s \o t) - Len(t) = Len(s)
  <2>1. Len(s) \in Nat /\ Len(t) \in Nat
    OBVIOUS
  <2> QED BY <2>1, ConcatProperties
<1>2. CASE s = <<>>
  BY <1>1, <1>2, SubSeqEmpty
<1>3. CASE s # <<>>
  <2>1. 1 \in 1..Len(s) /\ Len(s) \in 1..Len(s)
    BY <1>3, EmptySeq
  <2>2. SubSeq(s \o t, 1, Len(s)) = SubSeq(s, 1, Len(s))
    BY <2>1, SubSeqOfConcat1
  <2> QED BY <1>1, <2>2, SubSeqFull
<1> QED BY <1>2, <1>3

LEMMA DropOfPush ==
  ASSUME NEW p \in Processors, NEW t \in Seq(Words)
  PROVE  Drop(Push(p, t), Len(t)) = p
<1> DEFINE s == p.mem[p.on]
<1>1. SubSeq(s \o t, 1, Len(s \o t) - Len(t)) = s
  BY CutOff, ProcessorFacts
<1>2. p.on \in Stacks /\ p.mem \in [Stacks -> Seq(Words)]
  BY ProcessorFacts
<1>3. Drop(Push(p, t), Len(t)) = [p EXCEPT !.mem[p.on] = SubSeq(s \o t, 1, Len(s \o t) - Len(t))]
  BY <1>2 DEF Push, Drop, Processors
<1>4. [p EXCEPT !.mem[p.on] = s] = p
  BY <1>2 DEF Processors
<1> QED BY <1>1, <1>3, <1>4

LEMMA Joined ==
  ASSUME NEW s \in Seq(Words), NEW t \in Seq(Words)
  PROVE  /\ s \o t \in Seq(Words) /\ Len(s \o t) = Len(s) + Len(t)
         /\ \A i \in 1..Len(s) : (s \o t)[i] = s[i]
         /\ \A i \in 1..Len(t) : (s \o t)[Len(s) + i] = t[i]
<1>1. s \o t \in Seq(Words) /\ Len(s \o t) = Len(s) + Len(t)
  BY ConcatProperties
<1>2. Len(s) \in Nat /\ Len(t) \in Nat
  OBVIOUS
<1>3. ASSUME NEW i \in 1..Len(s) PROVE (s \o t)[i] = s[i]
  <2>1. i \in 1..(Len(s) + Len(t)) /\ i <= Len(s)
    BY <1>2
  <2> QED BY <2>1, ConcatProperties
<1>4. ASSUME NEW i \in 1..Len(t) PROVE (s \o t)[Len(s) + i] = t[i]
  <2>1. Len(s) + i \in 1..(Len(s) + Len(t)) /\ ~(Len(s) + i <= Len(s)) /\ Len(s) + i - Len(s) = i
    BY <1>2
  <2> QED BY <2>1, ConcatProperties
<1> QED BY <1>1, <1>3, <1>4

\* The stub of an interrupt.
Frame(p, n) == <<<<"err", "none">>, <<"number", n>>>> \o pusha(p) \o <<p.ds, POINTER>>

LEMMA RegisterFacts ==
  /\ Registers = {"edi", "esi", "ebp", "ebx", "edx", "ecx", "eax"}
  /\ POPA["edi"] = 0 /\ POPA["esi"] = 1 /\ POPA["ebp"] = 2 /\ POPA["ebx"] = 4
  /\ POPA["edx"] = 5 /\ POPA["ecx"] = 6 /\ POPA["eax"] = 7
BY DEF Registers, POPA

LEMMA EspFacts ==
  ASSUME NEW p \in Processors
  PROVE  esp(p) \in Words
<1>1. p.on \in Stacks /\ Len(p.mem[p.on]) \in Nat
  BY ProcessorFacts
<1> QED BY <1>1 DEF esp, Words, Kinds

LEMMA PushaFacts ==
  ASSUME NEW p \in Processors
  PROVE  /\ pusha(p) \in Seq(Words) /\ Len(pusha(p)) = 8
         /\ \A r \in Registers : pusha(p)[8 - POPA[r]] = p.reg[r]
<1>1. pusha(p) = [n \in 1..8 |-> IF PUSHA[n] = "esp" THEN esp(p) ELSE p.reg[PUSHA[n]]]
  BY DEF pusha
<1>2. \A n \in 1..8 : PUSHA[n] \in Registers \cup {"esp"}
  BY RegisterFacts DEF PUSHA
<1>3. \A n \in 1..8 : (IF PUSHA[n] = "esp" THEN esp(p) ELSE p.reg[PUSHA[n]]) \in Words
  BY <1>2, EspFacts, ProcessorFacts
<1>4. pusha(p) \in Seq(Words) /\ Len(pusha(p)) = 8
  BY <1>1, <1>3
<1>5. ASSUME NEW r \in Registers PROVE pusha(p)[8 - POPA[r]] = p.reg[r]
  <2>1. 8 - POPA[r] \in 1..8 /\ PUSHA[8 - POPA[r]] = r /\ r # "esp"
    BY RegisterFacts DEF PUSHA
  <2> QED BY <1>1, <2>1
<1> QED BY <1>4, <1>5

LEMMA FrameFacts ==
  ASSUME NEW p \in Processors, NEW n \in Nat
  PROVE  /\ Frame(p, n) \in Seq(Words) /\ Len(Frame(p, n)) = 12
         /\ Frame(p, n)[2] = <<"number", n>> /\ Frame(p, n)[11] = p.ds
         /\ \A r \in Registers : Frame(p, n)[10 - POPA[r]] = p.reg[r]
<1> DEFINE top == <<p.ds, POINTER>>
           low == <<<<"err", "none">>, <<"number", n>>>>
           mid == pusha(p)
<1>1. top \in Seq(Words) /\ Len(top) = 2 /\ top[1] = p.ds
  <2>1. p.ds \in Words /\ POINTER \in Words
    BY ProcessorFacts DEF POINTER, Words, Kinds, Names
  <2> QED BY <2>1
<1>2. low \in Seq(Words) /\ Len(low) = 2 /\ low[2] = <<"number", n>>
  <2>1. <<"err", "none">> \in Words /\ <<"number", n>> \in Words
    BY DEF Words, Kinds, Names
  <2> QED BY <2>1
<1>3. mid \in Seq(Words) /\ Len(mid) = 8 /\ \A r \in Registers : mid[8 - POPA[r]] = p.reg[r]
  BY PushaFacts
<1>4. Frame(p, n) = (low \o mid) \o top
  BY DEF Frame
<1> HIDE DEF top, low, mid
<1> DEFINE both == low \o mid
<1>5. /\ both \in Seq(Words) /\ Len(both) = 10
      /\ both[2] = low[2] /\ \A i \in 1..8 : both[2 + i] = mid[i]
  <2>1. mid \in Seq(Words) /\ Len(mid) = 8
    BY <1>3
  <2>2. /\ both \in Seq(Words) /\ Len(both) = Len(low) + Len(mid)
        /\ \A i \in 1..Len(low) : both[i] = low[i]
        /\ \A i \in 1..Len(mid) : both[Len(low) + i] = mid[i]
    BY <1>2, <2>1, Joined
  <2> HIDE DEF both
  <2> QED BY <1>2, <2>1, <2>2
<1> HIDE DEF both
<1>6. /\ Frame(p, n) \in Seq(Words) /\ Len(Frame(p, n)) = 12
      /\ \A i \in 1..10 : Frame(p, n)[i] = both[i]
      /\ Frame(p, n)[11] = top[1]
  <2>1. Frame(p, n) = both \o top
    BY <1>4 DEF both
  <2>2. /\ Frame(p, n) \in Seq(Words) /\ Len(Frame(p, n)) = Len(both) + Len(top)
        /\ \A i \in 1..Len(both) : Frame(p, n)[i] = both[i]
        /\ \A i \in 1..Len(top) : Frame(p, n)[Len(both) + i] = top[i]
    <3>1. both \in Seq(Words) /\ top \in Seq(Words)
      BY <1>1, <1>5
    <3> QED BY <2>1, <3>1, Joined
  <2> QED BY <1>1, <1>5, <2>2
<1>7. ASSUME NEW r \in Registers PROVE Frame(p, n)[10 - POPA[r]] = p.reg[r]
  <2> DEFINE k == POPA[r]
  <2>1. k \in 0..7
    BY RegisterFacts
  <2>2. mid[8 - k] = p.reg[r]
    BY <1>3
  <2> HIDE DEF k
  <2>3. Frame(p, n)[10 - k] = both[10 - k]
    BY <1>6, <2>1
  <2>4. both[2 + (8 - k)] = mid[8 - k]
    BY <1>5, <2>1
  <2>5. 2 + (8 - k) = 10 - k
    BY <2>1
  <2> QED BY <2>2, <2>3, <2>4, <2>5 DEF k
<1>8. Frame(p, n)[2] = <<"number", n>>
  BY <1>2, <1>5, <1>6
<1>9. Frame(p, n)[11] = p.ds
  BY <1>1, <1>6
<1> QED BY <1>6, <1>7, <1>8, <1>9


\* The words that a stub pushed are taken off again: the registers, the segments
\* and the stack are as they were.
LEMMA StubUndone ==
  ASSUME NEW p \in Processors, NEW n \in Nat
  PROVE  /\ IrqFrame(IrqStub(p, n)) = p
         /\ intr_num(IrqStub(p, n)) = n
         /\ IrqStub(p, n).flag = p.flag /\ IrqStub(p, n).ds = KERNEL_DS
         /\ \A r \in Registers \ CallerSaved : IrqStub(p, n).reg[r] = p.reg[r]
<1> DEFINE f == Frame(p, n)
           q == Push(p, f)
           s == IrqStub(p, n)
<1>1. /\ f \in Seq(Words) /\ Len(f) = 12 /\ f[2] = <<"number", n>> /\ f[11] = p.ds
      /\ \A r \in Registers : f[10 - POPA[r]] = p.reg[r]
  BY FrameFacts
<1>2. s = CallC([q EXCEPT !.ds = KERNEL_DS])
  BY DEF IrqStub, Frame
<1> HIDE DEF f
<1>3. q \in Processors /\ q.on = p.on
  BY <1>1, PushFacts
<1>4. /\ s.mem = q.mem /\ s.on = q.on /\ s.cs = q.cs /\ s.flag = q.flag /\ s.saved = q.saved
      /\ s.ds = KERNEL_DS
      /\ s = [q EXCEPT !.ds = KERNEL_DS, !.reg = s.reg]
      /\ \A r \in Registers \ CallerSaved : s.reg[r] = q.reg[r]
  <2> HIDE DEF q, s
  <2> QED BY <1>2, <1>3 DEF CallC, Processors
<1> HIDE DEF q, s
<1>5. ASSUME NEW k \in 0..11 PROVE Word(s, k) = f[12 - k]
  <2>1. Word(s, k) = Word(q, k)
    BY <1>4 DEF Word
  <2>2. k \in 0..(Len(f) - 1) /\ Len(f) - k = 12 - k
    BY <1>1
  <2>3. Word(q, k) = f[Len(f) - k]
    BY <1>1, <2>2, WordOfPush DEF q
  <2> QED BY <2>1, <2>2, <2>3
<1>6. intr_num(s) = n
  <2>1. Word(s, 10) = f[2]
    BY <1>5
  <2> QED BY <1>1, <2>1 DEF intr_num
<1>7. popa(s, 2) = p.reg
  <2>1. ASSUME NEW r \in Registers PROVE Word(s, 2 + POPA[r]) = p.reg[r]
    <3> DEFINE k == POPA[r]
    <3>1. k \in 0..7
      BY RegisterFacts
    <3>2. f[10 - k] = p.reg[r]
      BY <1>1
    <3> HIDE DEF k
    <3>3. 2 + k \in 0..11 /\ 12 - (2 + k) = 10 - k
      BY <3>1
    <3>4. Word(s, 2 + k) = f[12 - (2 + k)]
      BY <1>5, <3>3
    <3> QED BY <3>2, <3>3, <3>4 DEF k
  <2>2. p.reg = [r \in Registers |-> p.reg[r]]
    BY ProcessorFacts
  <2> QED BY <2>1, <2>2 DEF popa
<1>8. Word(s, 1) = p.ds
  <2>1. Word(s, 1) = f[11]
    BY <1>5
  <2> QED BY <1>1, <2>1
<1>9. IrqFrame(s) = [Drop(s, 12) EXCEPT !.reg = p.reg, !.ds = p.ds]
  <2>1. 10 + NumberAndError = 12
    BY DEF NumberAndError
  <2> QED BY <1>7, <1>8, <2>1 DEF IrqFrame
<1>10. Drop(s, 12) = [Drop(q, 12) EXCEPT !.ds = KERNEL_DS, !.reg = s.reg]
  BY <1>3, <1>4 DEF Drop, Processors
<1>11. Drop(q, 12) = p
  <2>1. Drop(q, Len(f)) = p
    BY <1>1, DropOfPush DEF q
  <2> QED BY <1>1, <2>1
<1>12. IrqFrame(s) = p
  BY <1>9, <1>10, <1>11 DEF Processors
<1>13. s.flag = p.flag /\ \A r \in Registers \ CallerSaved : s.reg[r] = p.reg[r]
  BY <1>1, <1>4, PushFacts DEF q
<1> QED BY <1>4, <1>6, <1>12, <1>13 DEF s



LEMMA Dropped ==
  ASSUME NEW p \in Processors, NEW n, NEW rest, SubSeq(p.mem[p.on], 1, Len(p.mem[p.on]) - n) = rest
  PROVE  Drop(p, n) = Processor(p.reg, p.ds, p.cs, p.flag, p.on, [p.mem EXCEPT ![p.on] = rest], p.saved)
<1>1. Drop(p, n) = [p EXCEPT !.mem = [p.mem EXCEPT ![p.on] = rest]]
  BY DEF Drop, Processors
<1> QED BY <1>1, MemoryChanged

\* iret with the words it takes.
Rest(p, n) == SubSeq(p.mem[p.on], 1, Len(p.mem[p.on]) - n)

LEMMA Returned ==
  ASSUME NEW p \in Processors
  PROVE  /\ Word(p, 1)[2] = "user" =>
              Iret(p) = Processor(p.reg, p.ds, Word(p, 1)[2], Word(p, 2)[2], Word(p, 3)[1],
                                  [p.mem EXCEPT ![p.on] = Rest(p, 5)], p.saved)
         /\ Word(p, 1)[2] # "user" =>
              Iret(p) = Processor(p.reg, p.ds, Word(p, 1)[2], Word(p, 2)[2], p.on,
                                  [p.mem EXCEPT ![p.on] = Rest(p, 3)], p.saved)
<1> DEFINE cs == Word(p, 1)[2]
           flag == Word(p, 2)[2]
<1>1. ASSUME NEW n
      PROVE  Drop(p, n) = Processor(p.reg, p.ds, p.cs, p.flag, p.on, [p.mem EXCEPT ![p.on] = Rest(p, n)], p.saved)
  BY Dropped DEF Rest
<1>2. CASE cs = "user"
  <2> DEFINE d == Drop(p, 5)
             on == Word(p, 3)[1]
  <2>1. Iret(p) = [d EXCEPT !.cs = cs, !.flag = flag, !.on = on]
    BY <1>2 DEF Iret
  <2>2. d = Processor(p.reg, p.ds, p.cs, p.flag, p.on, [p.mem EXCEPT ![p.on] = Rest(p, 5)], p.saved)
    BY <1>1
  <2> HIDE DEF d, cs, flag, on
  <2>3. Iret(p) = Processor(p.reg, p.ds, cs, flag, on, [p.mem EXCEPT ![p.on] = Rest(p, 5)], p.saved)
    BY <2>1, <2>2 DEF Processor
  <2> QED BY <1>2, <2>3 DEF cs, flag, on
<1>3. CASE cs # "user"
  <2> DEFINE d == Drop(p, 3)
  <2>1. Iret(p) = [d EXCEPT !.cs = cs, !.flag = flag, !.on = d.on]
    BY <1>3 DEF Iret
  <2>2. d = Processor(p.reg, p.ds, p.cs, p.flag, p.on, [p.mem EXCEPT ![p.on] = Rest(p, 3)], p.saved)
    BY <1>1
  <2> HIDE DEF d, cs, flag
  <2>3. Iret(p) = Processor(p.reg, p.ds, cs, flag, p.on, [p.mem EXCEPT ![p.on] = Rest(p, 3)], p.saved)
    BY <2>1, <2>2 DEF Processor
  <2> QED BY <1>3, <2>3 DEF cs, flag
<1> QED BY <1>2, <1>3

\* What the processor leaves on the stack when it enters a gate, and what it is
\* when it has come back.
Entered(p, on, words) ==
  Processor(p.reg, p.ds, "kernel", FALSE, on, [p.mem EXCEPT ![on] = words],
            IF on = "boot" THEN <<>> ELSE p.saved)
CameBack(p) ==
  Processor(p.reg, p.ds, p.cs, p.flag, p.on,
            IF p.cs = "user" THEN [p.mem EXCEPT !["kernel_stack"] = <<>>] ELSE p.mem,
            IF p.cs = "kernel" /\ p.on = "boot" THEN <<>> ELSE p.saved)

LEMMA EnteredFacts ==
  ASSUME NEW p \in Processors, NEW words \in Seq(Words), NEW on \in Stacks,
         NEW e, e = Entered(p, on, words)
  PROVE  /\ e \in Processors /\ ~e.flag /\ e.reg = p.reg /\ e.ds = p.ds /\ e.on = on
         /\ e.mem = [p.mem EXCEPT ![on] = words] /\ e.mem[e.on] = words
         /\ e.saved = IF on = "boot" THEN <<>> ELSE p.saved
<1> DEFINE mem == [p.mem EXCEPT ![on] = words]
           saved == IF on = "boot" THEN <<>> ELSE p.saved
<1>1. mem \in [Stacks -> Seq(Words)] /\ mem[on] = words /\ saved \in Seq(Words)
  BY ProcessorFacts
<1>2. e = Processor(p.reg, p.ds, "kernel", FALSE, on, mem, saved)
  BY DEF Entered
<1> HIDE DEF mem, saved
<1>3. /\ e.reg = p.reg /\ e.ds = p.ds /\ e.flag = FALSE /\ e.on = on /\ e.mem = mem
      /\ e.saved = saved
  BY <1>2 DEF Processor
<1>4. e \in Processors
  <2>1. p.reg \in [Registers -> Words] /\ p.ds \in Words
    BY ProcessorFacts
  <2> QED BY <1>1, <1>2, <2>1 DEF Processor, Processors
<1> QED BY <1>1, <1>3, <1>4 DEF mem, saved

\* iret takes the words of a gate off again.
LEMMA GateUndone ==
  ASSUME NEW p \in Processors, NEW eip \in Places, p.cs = "user" => p.on = "user"
  PROVE  /\ Enter(p, eip) \in Processors /\ ~Enter(p, eip).flag
         /\ Enter(p, eip).reg = p.reg /\ Enter(p, eip).ds = p.ds
         /\ Enter(p, eip).on = (IF p.cs = "user" THEN "kernel_stack" ELSE p.on)
         /\ Enter(p, eip).saved = (IF p.cs = "kernel" /\ p.on = "boot" THEN <<>> ELSE p.saved)
         /\ ReturnPlace(Enter(p, eip)) = eip
         /\ Iret(Enter(p, eip)) = CameBack(p)
<1> DEFINE e == Enter(p, eip)
           three == <<<<"eflags", p.flag>>, <<"cs", p.cs>>, <<"eip", eip>>>>
           two == <<<<"ss", p.cs>>, esp(p)>>
           on == IF p.cs = "user" THEN "kernel_stack" ELSE p.on
           base == IF p.cs = "user" THEN two ELSE p.mem[p.on]
           words == base \o three
<1>1. /\ p.reg \in [Registers -> Words] /\ p.ds \in Words /\ p.cs \in {"kernel", "user"}
      /\ p.flag \in BOOLEAN /\ p.on \in Stacks /\ p.mem \in [Stacks -> Seq(Words)]
      /\ p.saved \in Seq(Words) /\ "kernel_stack" \in Stacks
  BY ProcessorFacts DEF Stacks
<1>2. three \in Seq(Words) /\ Len(three) = 3
      /\ three[1] = <<"eflags", p.flag>> /\ three[2] = <<"cs", p.cs>> /\ three[3] = <<"eip", eip>>
  <2>1. <<"eflags", p.flag>> \in Words
    BY <1>1 DEF Words, Kinds
  <2>2. <<"cs", p.cs>> \in Words
    BY <1>1 DEF Words, Kinds, Names
  <2>3. <<"eip", eip>> \in Words
    BY DEF Words, Kinds
  <2> QED BY <2>1, <2>2, <2>3
<1>3. two \in Seq(Words) /\ Len(two) = 2 /\ two[2] = esp(p)
  <2>1. <<"ss", p.cs>> \in Words
    BY <1>1 DEF Words, Kinds, Names
  <2>2. esp(p) \in Words
    BY EspFacts
  <2> QED BY <2>1, <2>2
<1>4. base \in Seq(Words)
  BY <1>1, <1>3
<1>5. e = Entered(p, on, words)
  <2>1. e = [p EXCEPT !.on = on, !.mem[on] = words, !.saved = IF on = "boot" THEN <<>> ELSE p.saved,
                      !.cs = "kernel", !.flag = FALSE]
    BY DEF Enter, Esp0, Processors
  <2>2. e = [p EXCEPT !.mem = [p.mem EXCEPT ![on] = words], !.cs = "kernel", !.flag = FALSE, !.on = on,
                      !.saved = IF on = "boot" THEN <<>> ELSE p.saved]
    <3> HIDE DEF on, words
    <3> QED BY <2>1 DEF Processors
  <2> HIDE DEF e, on, words
  <2>3. e = Processor(p.reg, p.ds, "kernel", FALSE, on, [p.mem EXCEPT ![on] = words],
                      IF on = "boot" THEN <<>> ELSE p.saved)
    <3> DEFINE mem == [p.mem EXCEPT ![on] = words]
               saved == IF on = "boot" THEN <<>> ELSE p.saved
               off == FALSE
               q1 == [p EXCEPT !.mem = mem]
               q2 == [q1 EXCEPT !.cs = "kernel"]
               q3 == [q2 EXCEPT !.flag = off]
               q4 == [q3 EXCEPT !.on = on]
               q5 == [q4 EXCEPT !.saved = saved]
    <3>1. e = q5
      BY <2>2
    <3> HIDE DEF mem, saved, off
    <3>2. q1 = Processor(p.reg, p.ds, p.cs, p.flag, p.on, mem, p.saved)
      BY MemoryChanged
    <3> HIDE DEF q1
    <3>3. q2 = Processor(p.reg, p.ds, "kernel", p.flag, p.on, mem, p.saved)
      BY <3>2 DEF Processor
    <3> HIDE DEF q2
    <3>4. q3 = Processor(p.reg, p.ds, "kernel", off, p.on, mem, p.saved)
      BY <3>3 DEF Processor
    <3> HIDE DEF q3
    <3>5. q4 = Processor(p.reg, p.ds, "kernel", off, on, mem, p.saved)
      BY <3>4 DEF Processor
    <3> HIDE DEF q4
    <3>6. q5 = Processor(p.reg, p.ds, "kernel", off, on, mem, saved)
      BY <3>5 DEF Processor
    <3> QED BY <3>1, <3>6 DEF mem, saved, off
  <2> QED BY <2>3 DEF Entered
<1> HIDE DEF e, two, three, base
<1>6. /\ words \in Seq(Words) /\ Len(words) = Len(base) + Len(three)
      /\ \A i \in 1..Len(three) : words[Len(base) + i] = three[i]
      /\ \A i \in 1..Len(base) : words[i] = base[i]
      /\ SubSeq(words, 1, Len(words) - Len(three)) = base
  BY <1>2, <1>4, Joined, CutOff
<1> HIDE DEF words, on
<1>7. /\ e \in Processors /\ ~e.flag /\ e.reg = p.reg /\ e.ds = p.ds /\ e.on = on
      /\ e.mem = [p.mem EXCEPT ![on] = words] /\ e.mem[e.on] = words
      /\ e.saved = IF on = "boot" THEN <<>> ELSE p.saved
  <2>1. on \in Stacks
    BY <1>1 DEF on
  <2>2. words \in Seq(Words)
    BY <1>6
  <2> QED BY ONLY <1>5, <2>1, <2>2, p \in Processors, EnteredFacts
<1>8. Word(e, 0) = three[3] /\ Word(e, 1) = three[2] /\ Word(e, 2) = three[1]
  <2>1. Len(words) = Len(base) + 3 /\ Len(base) \in Nat
    BY <1>2, <1>4, <1>6
  <2>2. /\ words[Len(base) + 1] = three[1] /\ words[Len(base) + 2] = three[2]
        /\ words[Len(base) + 3] = three[3]
    BY <1>2, <1>6
  <2>3. Len(words) - 0 = Len(base) + 3 /\ Len(words) - 1 = Len(base) + 2 /\ Len(words) - 2 = Len(base) + 1
    BY <2>1
  <2> QED BY <1>7, <2>2, <2>3 DEF Word
<1>9. ReturnPlace(e) = eip /\ Word(e, 1)[2] = p.cs /\ Word(e, 2)[2] = p.flag
  BY <1>2, <1>8 DEF ReturnPlace
<1>10. Iret(e) = CameBack(p)
  <2>1. CASE p.cs = "user"
    <3>1. base = two /\ on = "kernel_stack"
      BY <2>1 DEF base, on
    <3>2. Len(words) = 5
      <4>1. Len(three) = 3
        BY <1>2
      <4> QED BY <1>3, <1>6, <3>1, <4>1
    <3>3. SubSeq(words, 1, Len(words) - 5) = <<>>
      <4>1. Len(words) - 5 = 0
        BY <3>2
      <4>2. SubSeq(words, 1, 0) = <<>>
        BY SubSeqEmpty
      <4> QED BY <4>1, <4>2
    <3>4. Word(e, 3)[1] = p.on
      <4>1. Len(words) - 3 = 2 /\ 2 \in 1..Len(two)
        BY <1>3, <3>2
      <4>2. words[2] = two[2]
        BY <1>6, <3>1, <4>1
      <4>3. Word(e, 3) = esp(p)
        BY <1>3, <1>7, <4>1, <4>2 DEF Word
      <4> QED BY <4>3 DEF esp
    <3>5. Iret(e) = Processor(e.reg, e.ds, "user", p.flag, p.on, [e.mem EXCEPT ![e.on] = <<>>], e.saved)
      <4>1. Word(e, 1)[2] = "user"
        BY <1>9, <2>1
      <4>2. Rest(e, 5) = <<>>
        BY <1>7, <3>3 DEF Rest
      <4>3. Iret(e) = Processor(e.reg, e.ds, Word(e, 1)[2], Word(e, 2)[2], Word(e, 3)[1],
                                [e.mem EXCEPT ![e.on] = <<>>], e.saved)
        BY <1>7, <4>1, <4>2, Returned
      <4> QED BY <1>9, <3>4, <4>1, <4>3
    <3>6. [e.mem EXCEPT ![e.on] = <<>>] = [p.mem EXCEPT !["kernel_stack"] = <<>>]
      BY <1>1, <1>7, <3>1
    <3> QED BY <1>7, <2>1, <3>1, <3>5, <3>6 DEF CameBack
  <2>2. CASE p.cs = "kernel"
    <3>1. base = p.mem[p.on] /\ on = p.on
      BY <2>2 DEF base, on
    <3>2. SubSeq(words, 1, Len(words) - 3) = base
      BY <1>2, <1>6
    <3>3. Iret(e) = Processor(e.reg, e.ds, "kernel", p.flag, e.on, [e.mem EXCEPT ![e.on] = base], e.saved)
      <4>1. Word(e, 1)[2] = "kernel"
        BY <1>9, <2>2
      <4>2. Rest(e, 3) = base
        BY <1>7, <3>2 DEF Rest
      <4>3. Iret(e) = Processor(e.reg, e.ds, Word(e, 1)[2], Word(e, 2)[2], e.on,
                                [e.mem EXCEPT ![e.on] = base], e.saved)
        BY <1>7, <4>1, <4>2, Returned
      <4> QED BY <1>9, <4>1, <4>3
    <3>4. [e.mem EXCEPT ![e.on] = base] = p.mem
      BY <1>1, <1>7, <3>1
    <3> QED BY <1>7, <2>2, <3>1, <3>3, <3>4 DEF CameBack
  <2> QED BY <1>1, <2>1, <2>2
<1>11. (IF on = "boot" THEN <<>> ELSE p.saved) = (IF p.cs = "kernel" /\ p.on = "boot" THEN <<>> ELSE p.saved)
  BY <1>1 DEF on
<1> QED BY <1>7, <1>9, <1>10, <1>11 DEF e, on


-----------------------------------------------------------------------------
(* A system call.                                                           *)

LEMMA CallCFacts ==
  ASSUME NEW p \in Processors
  PROVE  /\ CallC(p) = [p EXCEPT !.reg = CallC(p).reg]
         /\ CallC(p).reg \in [Registers -> Words]
         /\ CallC(p).mem = p.mem /\ CallC(p).on = p.on /\ CallC(p).saved = p.saved
<1>1. CallC(p) = [p EXCEPT !.reg = [r \in Registers |-> IF r \in CallerSaved THEN STALE ELSE p.reg[r]]]
  BY DEF CallC, Processors
<1>2. [r \in Registers |-> IF r \in CallerSaved THEN STALE ELSE p.reg[r]] \in [Registers -> Words]
  <2>1. STALE \in Words
    BY DEF STALE, Words, Kinds, Names
  <2> QED BY <2>1, ProcessorFacts
<1> QED BY <1>1, <1>2 DEF Processors

\* Putting a word into what was pushed.
LEMMA JoinedExcept ==
  ASSUME NEW s \in Seq(Words), NEW t \in Seq(Words), NEW k \in 1..Len(t), NEW a \in Words
  PROVE  [s \o t EXCEPT ![Len(s) + k] = a] = s \o [t EXCEPT ![k] = a]
<1> DEFINE u == [t EXCEPT ![k] = a]
           v == [s \o t EXCEPT ![Len(s) + k] = a]
           w == s \o u
<1>1. Len(s) \in Nat /\ Len(t) \in Nat
  OBVIOUS
<1>2. u \in Seq(Words) /\ Len(u) = Len(t) /\ \A j \in 1..Len(t) : u[j] = IF j = k THEN a ELSE t[j]
  BY ExceptSeq
<1>3. /\ s \o t \in Seq(Words) /\ Len(s \o t) = Len(s) + Len(t)
      /\ \A i \in 1..Len(s) : (s \o t)[i] = s[i]
      /\ \A i \in 1..Len(t) : (s \o t)[Len(s) + i] = t[i]
  BY Joined
<1>4. Len(s) + k \in 1..Len(s \o t)
  BY <1>1, <1>3
<1> DEFINE st == s \o t
<1>5. /\ v \in Seq(Words) /\ Len(v) = Len(st)
      /\ \A j \in 1..Len(st) : v[j] = IF j = Len(s) + k THEN a ELSE st[j]
  <2> HIDE DEF st
  <2>1. st \in Seq(Words) /\ Len(s) + k \in 1..Len(st)
    BY <1>3, <1>4 DEF st
  <2>2. /\ [st EXCEPT ![Len(s) + k] = a] \in Seq(Words)
        /\ Len([st EXCEPT ![Len(s) + k] = a]) = Len(st)
        /\ \A j \in 1..Len(st) : [st EXCEPT ![Len(s) + k] = a][j] = IF j = Len(s) + k THEN a ELSE st[j]
    BY <2>1, ExceptSeq
  <2> QED BY <2>2 DEF st
<1> HIDE DEF u, v, w, st
<1>6. /\ w \in Seq(Words) /\ Len(w) = Len(s) + Len(u)
      /\ \A i \in 1..Len(s) : w[i] = s[i]
      /\ \A i \in 1..Len(u) : w[Len(s) + i] = u[i]
  BY <1>2, Joined DEF w
<1>7. ASSUME NEW i \in 1..Len(v) PROVE v[i] = w[i]
  <2>0. i \in 1..(Len(s) + Len(t))
    BY <1>3, <1>5 DEF st
  <2>1. CASE i \in 1..Len(s)
    <3>1. i # Len(s) + k
      BY <1>1, <2>1
    <3>2. v[i] = st[i]
      BY <1>3, <1>5, <2>0, <3>1 DEF st
    <3> QED BY <1>3, <1>6, <2>1, <3>2 DEF st
  <2>2. CASE i \notin 1..Len(s)
    <3> DEFINE j == i - Len(s)
    <3>1. j \in 1..Len(t) /\ i = Len(s) + j
      BY <1>1, <2>0, <2>2
    <3> HIDE DEF j
    <3>2. w[i] = u[j] /\ st[i] = t[j]
      BY <1>2, <1>3, <1>6, <3>1 DEF st
    <3>3. v[i] = IF i = Len(s) + k THEN a ELSE st[i]
      BY <1>3, <1>5, <2>0 DEF st
    <3>4. (i = Len(s) + k) <=> (j = k)
      BY <1>1, <3>1
    <3> QED BY <1>2, <3>1, <3>2, <3>3, <3>4
  <2> QED BY <2>1, <2>2
<1>8. Len(v) = Len(w)
  BY <1>2, <1>3, <1>5, <1>6 DEF st
<1>9. v = w
  BY <1>5, <1>6, <1>7, <1>8, SeqEqual
<1> QED BY <1>9 DEF v, w, u

\* What the stub of a system call pushes.
CallFrame(p) == Append(pusha(p), POINTER)

LEMMA CallFrameFacts ==
  ASSUME NEW p \in Processors
  PROVE  /\ CallFrame(p) \in Seq(Words) /\ Len(CallFrame(p)) = 9
         /\ \A r \in Registers : CallFrame(p)[8 - POPA[r]] = p.reg[r]
<1>1. pusha(p) \in Seq(Words) /\ Len(pusha(p)) = 8 /\ \A r \in Registers : pusha(p)[8 - POPA[r]] = p.reg[r]
  BY PushaFacts
<1>2. POINTER \in Words
  BY DEF POINTER, Words, Kinds, Names
<1>3. /\ CallFrame(p) \in Seq(Words) /\ Len(CallFrame(p)) = 9
      /\ \A i \in 1..8 : CallFrame(p)[i] = pusha(p)[i]
  <2> DEFINE h == pusha(p)
  <2>1. h \in Seq(Words) /\ Len(h) = 8
    BY <1>1
  <2> HIDE DEF h
  <2>2. /\ Append(h, POINTER) \in Seq(Words) /\ Len(Append(h, POINTER)) = Len(h) + 1
        /\ \A i \in 1..Len(h) : Append(h, POINTER)[i] = h[i]
    <3>1. /\ Append(h, POINTER) \in Seq(Words) /\ Len(Append(h, POINTER)) = Len(h) + 1
          /\ \A i \in 1..Len(h) + 1 : Append(h, POINTER)[i] = IF i <= Len(h) THEN h[i] ELSE POINTER
      <4>1. h \in Seq(Words)
        BY <2>1
      <4> QED BY <1>2, <4>1, AppendProperties
    <3>2. Len(h) \in Nat
      BY <2>1
    <3> QED BY <3>1, <3>2
  <2>3. CallFrame(p) = Append(h, POINTER)
    BY DEF CallFrame, h
  <2> QED BY <2>1, <2>2, <2>3 DEF h
<1>4. ASSUME NEW r \in Registers PROVE 8 - POPA[r] \in 1..8
  BY RegisterFacts
<1> QED BY <1>1, <1>3, <1>4

\* The answer is put where eax was saved, and the frame is taken off again: a
\* system call gives back the registers it was called with, all but eax.
LEMMA CallUndone ==
  ASSUME NEW p \in Processors, NEW a \in Words, NEW s, s = Answered(CallC(SyscallStub(p)), a)
  PROVE  /\ SyscallReturn(s) = [p EXCEPT !.reg = [p.reg EXCEPT !["eax"] = a]]
         /\ SyscallStub(p).saved = p.saved /\ Word(SyscallStub(p), 5) = p.reg["ebx"]
         /\ s \in Processors
         /\ Word(s, 8) = a /\ s.saved = p.saved /\ s.cs = p.cs /\ s.ds = p.ds
<1> DEFINE t == CallFrame(p)
           u == [t EXCEPT ![1] = a]
           q == SyscallStub(p)
           c == CallC(q)
           base == p.mem[p.on]
<1>1. t \in Seq(Words) /\ Len(t) = 9 /\ \A r \in Registers : t[8 - POPA[r]] = p.reg[r]
  BY CallFrameFacts
<1>2. u \in Seq(Words) /\ Len(u) = 9 /\ u[1] = a /\ \A j \in 2..9 : u[j] = t[j]
  <2> HIDE DEF t
  <2>1. 1 \in 1..Len(t)
    BY <1>1
  <2>2. /\ u \in Seq(Words) /\ Len(u) = Len(t)
        /\ \A j \in 1..Len(t) : u[j] = IF j = 1 THEN a ELSE t[j]
    <3>1. t \in Seq(Words)
      BY <1>1
    <3> QED BY <2>1, <3>1, ExceptSeq
  <2>3. Len(t) = 9
    BY <1>1
  <2> HIDE DEF u
  <2> QED BY <2>2, <2>3
<1>3. /\ q = Push(p, t) /\ q \in Processors /\ q.on = p.on /\ q.mem[p.on] = base \o t
      /\ q.reg = p.reg /\ q.saved = p.saved
  <2>1. q = Push(p, t)
    BY DEF SyscallStub, CallFrame
  <2> HIDE DEF q, t
  <2> QED BY <1>1, <2>1, PushFacts
<1> HIDE DEF t, u, q
<1>4. /\ c = [q EXCEPT !.reg = c.reg] /\ c.mem = q.mem /\ c.on = q.on /\ c.saved = q.saved
  BY <1>3, CallCFacts
<1>5. base \in Seq(Words) /\ p.on \in Stacks /\ p.mem \in [Stacks -> Seq(Words)] /\ Len(base) \in Nat
  BY ProcessorFacts
<1> HIDE DEF c, base
<1>6. Len(base \o t) - 8 = Len(base) + 1
  <2>1. Len(base \o t) = Len(base) + Len(t)
    BY <1>1, <1>5, ConcatProperties
  <2> QED BY <1>1, <1>5, <2>1
<1>7. [base \o t EXCEPT ![Len(base) + 1] = a] = base \o u
  <2>1. 1 \in 1..Len(t) /\ t \in Seq(Words)
    BY <1>1
  <2>2. [base \o t EXCEPT ![Len(base) + 1] = a] = base \o [t EXCEPT ![1] = a]
    BY <1>5, <2>1, JoinedExcept
  <2> QED BY <2>2 DEF u
<1>8. s = [Push(p, u) EXCEPT !.reg = c.reg]
  <2>1. s = [c EXCEPT !.mem = [c.mem EXCEPT ![c.on] = [c.mem[c.on] EXCEPT ![Len(c.mem[c.on]) - 8] = a]]]
    BY DEF Answered, c, q
  <2>2. [c.mem[c.on] EXCEPT ![Len(c.mem[c.on]) - 8] = a] = base \o u
    BY <1>3, <1>4, <1>6, <1>7
  <2>3. s = [c EXCEPT !.mem = [q.mem EXCEPT ![p.on] = base \o u]]
    BY <1>3, <1>4, <2>1, <2>2
  <2>4. q.mem = [p.mem EXCEPT ![p.on] = base \o t]
    <3>1. q = [p EXCEPT !.mem = [p.mem EXCEPT ![p.on] = base \o t]]
      BY <1>3 DEF Push, base
    <3> QED BY <3>1 DEF Processors
  <2>5. [q.mem EXCEPT ![p.on] = base \o u] = [p.mem EXCEPT ![p.on] = base \o u]
    BY <1>5, <2>4
  <2>6. q = [p EXCEPT !.mem = [p.mem EXCEPT ![p.on] = base \o t]]
    BY <1>3 DEF Push, base
  <2>7. Push(p, u) = [p EXCEPT !.mem = [p.mem EXCEPT ![p.on] = base \o u]]
    BY DEF Push, base
  <2> DEFINE m == [p.mem EXCEPT ![p.on] = base \o u]
             n == [p.mem EXCEPT ![p.on] = base \o t]
  <2>8. s = [c EXCEPT !.mem = m] /\ q = [p EXCEPT !.mem = n] /\ Push(p, u) = [p EXCEPT !.mem = m]
    BY <2>3, <2>5, <2>6, <2>7
  <2> HIDE DEF m, n
  <2> QED BY <1>4, <2>8 DEF Processors
<1>9. ASSUME NEW k \in 0..8 PROVE Word(s, k) = u[9 - k]
  <2>1. Word(s, k) = Word(Push(p, u), k)
    <3>1. Push(p, u) \in Processors
      BY <1>2, PushFacts
    <3>2. s.mem = Push(p, u).mem /\ s.on = Push(p, u).on
      BY <1>8, <3>1 DEF Processors
    <3> QED BY <3>2 DEF Word
  <2>2. k \in 0..(Len(u) - 1) /\ Len(u) - k = 9 - k
    BY <1>2
  <2>3. Word(Push(p, u), k) = u[Len(u) - k]
    BY <1>2, <2>2, WordOfPush
  <2> QED BY <2>1, <2>2, <2>3
<1>10. popa(s, 1) = [p.reg EXCEPT !["eax"] = a]
  <2>1. ASSUME NEW r \in Registers PROVE Word(s, 1 + POPA[r]) = IF r = "eax" THEN a ELSE p.reg[r]
    <3> DEFINE k == POPA[r]
    <3>1. k \in 0..7 /\ (k = 7 <=> r = "eax")
      BY RegisterFacts
    <3>2. t[8 - k] = p.reg[r]
      BY <1>1
    <3> HIDE DEF k
    <3>3. 1 + k \in 0..8 /\ 9 - (1 + k) = 8 - k
      BY <3>1
    <3>4. Word(s, 1 + k) = u[9 - (1 + k)]
      BY <1>9, <3>3
    <3>5. Word(s, 1 + k) = u[8 - k]
      BY <3>3, <3>4
    <3>6. k # 7 => 8 - k \in 2..9
      BY <3>1
    <3>7. k = 7 => 8 - k = 1
      OBVIOUS
    <3> QED BY <1>2, <3>1, <3>2, <3>5, <3>6, <3>7 DEF k
  <2>2. p.reg \in [Registers -> Words] /\ "eax" \in Registers
    BY ProcessorFacts, RegisterFacts
  <2> QED BY <2>1, <2>2 DEF popa
<1>11. Drop(s, 9) = [p EXCEPT !.reg = c.reg]
  <2>1. Drop(Push(p, u), Len(u)) = p
    BY <1>2, DropOfPush
  <2>2. Drop(Push(p, u), 9) = p
    BY <1>2, <2>1
  <2>3. Push(p, u) \in Processors
    BY <1>2, PushFacts
  <2>4. Drop(s, 9) = [Drop(Push(p, u), 9) EXCEPT !.reg = c.reg]
    BY <1>8, <2>3 DEF Drop, Processors
  <2> QED BY <2>2, <2>4
<1>12. SyscallReturn(s) = [p EXCEPT !.reg = [p.reg EXCEPT !["eax"] = a]]
  <2>1. SyscallReturn(s) = [[p EXCEPT !.reg = c.reg] EXCEPT !.reg = [p.reg EXCEPT !["eax"] = a]]
    BY <1>10, <1>11 DEF SyscallReturn
  <2> QED BY <2>1 DEF Processors
<1>13. Word(s, 8) = a
  BY <1>2, <1>9
<1>14. Word(q, 5) = p.reg["ebx"]
  <2>1. 5 \in 0..(Len(t) - 1) /\ Len(t) - 5 = 4
    BY <1>1
  <2>2. Word(Push(p, t), 5) = t[4]
    BY <1>1, <2>1, WordOfPush
  <2>3. t[4] = p.reg["ebx"]
    <3>1. POPA["ebx"] = 4 /\ "ebx" \in Registers
      BY RegisterFacts
    <3>2. t[8 - POPA["ebx"]] = p.reg["ebx"]
      BY <1>1, <3>1
    <3> QED BY <3>1, <3>2
  <2> QED BY <1>3, <2>2, <2>3
<1>15. s \in Processors /\ s.saved = p.saved /\ s.cs = p.cs /\ s.ds = p.ds
  <2> DEFINE v == Push(p, u)
  <2>1. v \in Processors /\ v.saved = p.saved /\ v.cs = p.cs /\ v.ds = p.ds
    BY <1>2, PushFacts
  <2>2. c.reg \in [Registers -> Words]
    BY <1>3, CallCFacts DEF c
  <2> HIDE DEF v
  <2>3. s = [v EXCEPT !.reg = c.reg]
    BY <1>8 DEF v
  <2> QED BY <2>1, <2>2, <2>3 DEF Processors
<1> QED BY <1>3, <1>12, <1>13, <1>14, <1>15 DEF c, q


\* iret gives back whatever the registers are.
LEMMA IretKeepsRegisters ==
  ASSUME NEW p \in Processors, NEW reg \in [Registers -> Words], NEW q, q = [p EXCEPT !.reg = reg]
  PROVE  Iret(q) = [Iret(p) EXCEPT !.reg = reg] /\ ReturnPlace(q) = ReturnPlace(p)
<1>1. /\ q \in Processors /\ q.mem = p.mem /\ q.on = p.on /\ q.ds = p.ds /\ q.saved = p.saved
      /\ q.reg = reg
  BY DEF Processors
<1>2. \A k : Word(q, k) = Word(p, k) /\ Rest(q, k) = Rest(p, k)
  BY <1>1 DEF Word, Rest
<1>3. ReturnPlace(q) = ReturnPlace(p)
  BY <1>2 DEF ReturnPlace
<1> DEFINE cs == Word(p, 1)[2]
           flag == Word(p, 2)[2]
           on == Word(p, 3)[1]
           deep == [p.mem EXCEPT ![p.on] = Rest(p, 5)]
           flat == [p.mem EXCEPT ![p.on] = Rest(p, 3)]
<1>4. CASE cs = "user"
  <2>1. Iret(p) = Processor(p.reg, p.ds, cs, flag, on, deep, p.saved)
    BY <1>4, Returned
  <2>2. Iret(q) = Processor(q.reg, q.ds, Word(q, 1)[2], Word(q, 2)[2], Word(q, 3)[1],
                            [q.mem EXCEPT ![q.on] = Rest(q, 5)], q.saved)
    BY <1>1, <1>2, <1>4, Returned
  <2>3. Iret(q) = Processor(reg, p.ds, cs, flag, on, deep, p.saved)
    BY <1>1, <1>2, <2>2
  <2> HIDE DEF cs, flag, on, deep
  <2> QED BY <1>3, <2>1, <2>3 DEF Processor
<1>5. CASE cs # "user"
  <2>1. Iret(p) = Processor(p.reg, p.ds, cs, flag, p.on, flat, p.saved)
    BY <1>5, Returned
  <2>2. Iret(q) = Processor(q.reg, q.ds, Word(q, 1)[2], Word(q, 2)[2], q.on,
                            [q.mem EXCEPT ![q.on] = Rest(q, 3)], q.saved)
    BY <1>1, <1>2, <1>5, Returned
  <2>3. Iret(q) = Processor(reg, p.ds, cs, flag, p.on, flat, p.saved)
    BY <1>1, <1>2, <2>2
  <2> HIDE DEF cs, flag, flat
  <2> QED BY <1>3, <2>1, <2>3 DEF Processor
<1> QED BY <1>4, <1>5

-----------------------------------------------------------------------------
(* The jump to the program.                                                 *)

LEMMA UserFrameFacts ==
  /\ UserFrame \in Seq(Words) /\ Len(UserFrame) = 5
  /\ UserFrame[2] = <<"user", 0>> /\ UserFrame[3][2] \in BOOLEAN
  /\ UserFrame[4] = <<"cs", "user">> /\ UserFrame[5] = <<"eip", "user">>
<1>1. <<"ss", "user">> \in Words /\ <<"cs", "user">> \in Words /\ <<"eip", "user">> \in Words
  BY DEF Words, Kinds, Names
<1>2. <<"user", 0>> \in Words
  BY DEF Words, Kinds, Stacks
<1>3. <<"eflags", TRUE>> \in Words
  BY DEF Words, Kinds
<1> DEFINE flags == <<"eflags", TRUE>>
<1>4. flags[2] \in BOOLEAN
  OBVIOUS
<1>5. UserFrame = <<<<"ss", "user">>, <<"user", 0>>, flags, <<"cs", "user">>, <<"eip", "user">>>>
  BY DEF UserFrame
<1>6. flags \in Words
  BY <1>3
<1> HIDE DEF flags
<1> QED BY <1>1, <1>2, <1>4, <1>5, <1>6

\* What a caller counts on when jump_to_user comes back.
Caller(reg) == <<<<"eip", "booted">>, reg.ebp, reg.ebx, reg.esi, reg.edi>>
Jump(reg) == UserFrame \o <<USER_DS, POINTER>> \o Caller(reg)

LEMMA JumpFacts ==
  ASSUME NEW reg \in [Registers -> Words]
  PROVE  /\ Caller(reg) \in Seq(Words) /\ Len(Caller(reg)) = 5
         /\ Jump(reg) \in Seq(Words) /\ Len(Jump(reg)) = 12
         /\ Jump(reg)[6] = USER_DS /\ Jump(reg)[7] = POINTER
         /\ SubSeq(Jump(reg), 1, 5) = UserFrame
         /\ SubSeq(Jump(reg), 8, 12) = Caller(reg)
<1> DEFINE pair == <<USER_DS, POINTER>>
           both == UserFrame \o pair
           caller == Caller(reg)
           jump == Jump(reg)
<1>1. pair \in Seq(Words) /\ Len(pair) = 2 /\ pair[1] = USER_DS /\ pair[2] = POINTER
  <2>1. USER_DS \in Words /\ POINTER \in Words
    BY DEF USER_DS, POINTER, Words, Kinds, Names
  <2> QED BY <2>1
<1>2. caller \in Seq(Words) /\ Len(caller) = 5
  <2>1. <<"eip", "booted">> \in Words
    BY DEF Words, Kinds, Places
  <2>2. reg.ebp \in Words /\ reg.ebx \in Words /\ reg.esi \in Words /\ reg.edi \in Words
    BY RegisterFacts
  <2> QED BY <2>1, <2>2 DEF Caller
<1>3. jump = both \o caller
  BY DEF Jump
<1>4. UserFrame \in Seq(Words) /\ Len(UserFrame) = 5
  BY UserFrameFacts
<1> HIDE DEF pair, caller, jump
<1>5. /\ both \in Seq(Words) /\ Len(both) = Len(UserFrame) + Len(pair)
      /\ \A i \in 1..Len(pair) : both[Len(UserFrame) + i] = pair[i]
  BY <1>1, <1>4, Joined
<1>6. SubSeq(both, 1, 5) = UserFrame
  <2>1. SubSeq(both, 1, Len(both) - Len(pair)) = UserFrame
    BY <1>1, <1>4, CutOff
  <2>2. Len(both) - Len(pair) = 5
    BY <1>1, <1>4, <1>5
  <2> QED BY <2>1, <2>2
<1>7. Len(both) = 7 /\ both[6] = USER_DS /\ both[7] = POINTER
  BY <1>1, <1>4, <1>5
<1> HIDE DEF both
<1>8. /\ jump \in Seq(Words) /\ Len(jump) = Len(both) + Len(caller)
      /\ \A i \in 1..Len(both) : jump[i] = both[i]
  BY <1>2, <1>3, <1>5, Joined
<1>9. SubSeq(jump, 1, 5) = SubSeq(both, 1, 5)
  <2>1. 1 \in 1..Len(both) /\ 5 \in 1..Len(both)
    BY <1>7
  <2> QED BY <1>2, <1>3, <1>5, <2>1, SubSeqOfConcat1
<1>10. SubSeq(jump, 8, 12) = caller
  <2>1. 8 \in Len(both) + 1 .. Len(both) + Len(caller) /\ 12 \in Len(both) + 1 .. Len(both) + Len(caller)
    BY <1>2, <1>7
  <2>2. SubSeq(both \o caller, 8, 12) = SubSeq(caller, 8 - Len(both), 12 - Len(both))
    <3>1. both \in Seq(Words) /\ caller \in Seq(Words)
      BY <1>2, <1>5
    <3> QED BY <2>1, <3>1, SubSeqOfConcat2
  <2>3. 8 - Len(both) = 1 /\ 12 - Len(both) = Len(caller)
    BY <1>2, <1>7
  <2> QED BY <1>2, <1>3, <2>2, <2>3, SubSeqFull
<1> QED BY <1>2, <1>6, <1>7, <1>8, <1>9, <1>10 DEF jump, caller

\* What jump_to_user and its caller push.
LEMMA JumpPushed ==
  ASSUME NEW p \in Processors, p.mem[p.on] = <<>>
  PROVE  /\ CallJump(p) \in Processors
         /\ CallJump(p) = Processor(p.reg, p.ds, p.cs, p.flag, p.on, [p.mem EXCEPT ![p.on] = Jump(p.reg)], p.saved)
<1> DEFINE r == p.reg
           three == <<USER_DS, POINTER, <<"eip", "booted">>>>
           four == <<r.ebp, r.ebx, r.esi, r.edi>>
           pair == <<USER_DS, POINTER>>
           words == UserFrame \o three \o four
<1>1. r \in [Registers -> Words]
  BY ProcessorFacts
<1>2. USER_DS \in Words /\ POINTER \in Words /\ <<"eip", "booted">> \in Words
  BY DEF USER_DS, POINTER, Words, Kinds, Names, Places
<1>3. r.ebp \in Words /\ r.ebx \in Words /\ r.esi \in Words /\ r.edi \in Words
  BY <1>1, RegisterFacts
<1>4. three \in Seq(Words) /\ four \in Seq(Words) /\ pair \in Seq(Words) /\ UserFrame \in Seq(Words)
  BY <1>2, <1>3, UserFrameFacts
<1>5. three \o four = pair \o Caller(r)
  <2> DEFINE eip == <<"eip", "booted">>
  <2>1. eip \in Words
    BY <1>2
  <2> HIDE DEF eip
  <2>2. <<USER_DS, POINTER, eip>> \o <<r.ebp, r.ebx, r.esi, r.edi>>
          = <<USER_DS, POINTER>> \o <<eip, r.ebp, r.ebx, r.esi, r.edi>>
    <3> DEFINE ebp == r.ebp
               ebx == r.ebx
               esi == r.esi
               edi == r.edi
               ds == USER_DS
               at == POINTER
    <3>1. ebp \in Words /\ ebx \in Words /\ esi \in Words /\ edi \in Words /\ ds \in Words /\ at \in Words
      BY <1>2, <1>3
    <3> HIDE DEF ebp, ebx, esi, edi, ds, at
    <3>2. <<ds, at, eip>> \o <<ebp, ebx, esi, edi>> = <<ds, at>> \o <<eip, ebp, ebx, esi, edi>>
      <4> DEFINE u == <<ds, at, eip>> \o <<ebp, ebx, esi, edi>>
                 v == <<ds, at>> \o <<eip, ebp, ebx, esi, edi>>
      <4>1. /\ <<ds, at, eip>> \in Seq(Words) /\ <<ebp, ebx, esi, edi>> \in Seq(Words)
            /\ <<ds, at>> \in Seq(Words) /\ <<eip, ebp, ebx, esi, edi>> \in Seq(Words)
        BY <2>1, <3>1
      <4>2. u \in Seq(Words) /\ v \in Seq(Words)
        BY <4>1, ConcatProperties
      <4>3. Len(u) = 7 /\ Len(v) = 7
        OBVIOUS
      <4>4. \A i \in 1..7 : u[i] = v[i]
        OBVIOUS
      <4> HIDE DEF u, v
      <4>5. u = v
        BY <4>2, <4>3, <4>4, SeqEqual
      <4> QED BY <4>5 DEF u, v
    <3> QED BY <3>2 DEF ebp, ebx, esi, edi, ds, at
  <2> QED BY <2>2 DEF Caller, eip
<1>6. Caller(r) \in Seq(Words)
  BY <1>1, JumpFacts
<1>7. words = Jump(r)
  <2> HIDE DEF three, four, pair, r
  <2>1. words = UserFrame \o (three \o four)
    BY <1>4, ConcatAssociative
  <2>2. (UserFrame \o pair) \o Caller(r) = UserFrame \o (pair \o Caller(r))
    BY <1>4, <1>6, ConcatAssociative
  <2> QED BY <1>5, <2>1, <2>2 DEF Jump, pair
<1>8. CallJump(p) = Push(p, Jump(r))
  BY <1>7 DEF CallJump
<1>9. Jump(r) \in Seq(Words)
  BY <1>1, JumpFacts
<1> HIDE DEF r
<1>10. Push(p, Jump(r)) = [p EXCEPT !.mem = [p.mem EXCEPT ![p.on] = Jump(r)]]
  <2>1. <<>> \o Jump(r) = Jump(r)
    BY <1>9, ConcatEmptySeq
  <2> QED BY <2>1 DEF Push
<1>11. Push(p, Jump(r)) \in Processors
  BY <1>9, PushFacts
<1> QED BY <1>8, <1>10, <1>11, MemoryChanged DEF r

\* The stack is cut down to the frame iretd takes.
LEMMA StackSwitched ==
  ASSUME NEW p \in Processors, NEW reg \in [Registers -> Words], p.mem[p.on] = Jump(reg)
  PROVE  LET s == SwitchStack(p)
         IN /\ s \in Processors /\ s.ds = USER_DS /\ s.cs = p.cs /\ s.flag = p.flag /\ s.on = p.on
            /\ s.mem = [p.mem EXCEPT ![p.on] = UserFrame] /\ s.saved = Caller(reg)
<1> DEFINE s == SwitchStack(p)
           d == Drop(p, 7)
           words == p.mem[p.on]
           mem == [p.mem EXCEPT ![p.on] = UserFrame]
           pair == [p.reg EXCEPT !["eax"] = POINTER, !["ebx"] = USER_DS]
<1>1. /\ words \in Seq(Words) /\ Len(words) = 12 /\ words[6] = USER_DS /\ words[7] = POINTER
      /\ SubSeq(words, 1, 5) = UserFrame /\ SubSeq(words, 8, 12) = Caller(reg)
  BY JumpFacts
<1> HIDE DEF words
<1>2. Word(p, 5) = POINTER /\ Word(p, 6) = USER_DS
  <2>1. Len(words) - 5 = 7 /\ Len(words) - 6 = 6
    BY <1>1
  <2> QED BY <1>1, <2>1 DEF Word, words
<1>3. d = Processor(p.reg, p.ds, p.cs, p.flag, p.on, mem, p.saved)
  <2>1. Len(words) - 7 = 5
    BY <1>1
  <2>2. SubSeq(words, 1, Len(words) - 7) = UserFrame
    BY <1>1, <2>1
  <2> QED BY <2>2, Dropped DEF words
<1>4. SubSeq(words, Len(words) - 4, Len(words)) = Caller(reg)
  <2>1. Len(words) - 4 = 8 /\ Len(words) = 12
    BY <1>1
  <2> QED BY <1>1, <2>1
<1>5. s = [d EXCEPT !.reg = [[d.reg EXCEPT !["eax"] = POINTER] EXCEPT !["ebx"] = USER_DS], !.ds = USER_DS,
                    !.saved = Caller(reg)]
  <2>1. s = [d EXCEPT !.reg.eax = Word(p, 5), !.reg.ebx = Word(p, 6), !.ds = Word(p, 6),
                      !.saved = SubSeq(words, Len(words) - 4, Len(words))]
    BY DEF SwitchStack, words
  <2> HIDE DEF s, d
  <2> DEFINE eax == Word(p, 5)
             ebx == Word(p, 6)
             tail == SubSeq(words, Len(words) - 4, Len(words))
  <2>2. d.reg = p.reg
    BY <1>3 DEF Processor
  <2>3. s = [d EXCEPT !.reg = [[d.reg EXCEPT !["eax"] = eax] EXCEPT !["ebx"] = ebx], !.ds = ebx, !.saved = tail]
    <3> HIDE DEF eax, ebx, tail
    <3> QED BY <1>3, <2>1 DEF Processor, eax, ebx, tail
  <2> QED BY <1>2, <1>4, <2>3
<1>6. /\ s.ds = USER_DS /\ s.cs = d.cs /\ s.flag = d.flag /\ s.on = d.on /\ s.mem = d.mem
      /\ s.saved = Caller(reg) /\ s.reg = [[d.reg EXCEPT !["eax"] = POINTER] EXCEPT !["ebx"] = USER_DS]
      /\ s = Processor(s.reg, s.ds, s.cs, s.flag, s.on, s.mem, s.saved)
  <2> HIDE DEF s, d, mem
  <2> QED BY <1>3, <1>5 DEF Processor
<1>7. d.reg = p.reg /\ d.cs = p.cs /\ d.flag = p.flag /\ d.on = p.on /\ d.mem = mem
  <2> HIDE DEF d, mem
  <2> QED BY <1>3 DEF Processor
<1>8. s.reg \in [Registers -> Words] /\ s.ds \in Words
  <2>1. USER_DS \in Words /\ POINTER \in Words /\ p.reg \in [Registers -> Words]
    BY ProcessorFacts DEF USER_DS, POINTER, Words, Kinds, Names
  <2>2. s.ds = USER_DS /\ s.reg = [[p.reg EXCEPT !["eax"] = POINTER] EXCEPT !["ebx"] = USER_DS]
    BY <1>6, <1>7
  <2> HIDE DEF s
  <2> QED BY <2>1, <2>2
<1>9. mem \in [Stacks -> Seq(Words)] /\ Caller(reg) \in Seq(Words)
  BY ProcessorFacts, UserFrameFacts, JumpFacts
<1>10. s \in Processors
  <2>1. p.cs \in {"kernel", "user"} /\ p.flag \in BOOLEAN /\ p.on \in Stacks
    BY ProcessorFacts
  <2> HIDE DEF s, d, mem
  <2> QED BY <1>6, <1>7, <1>8, <1>9, <2>1 DEF Processor, Processors
<1> QED BY <1>6, <1>7, <1>10 DEF s

\* iretd enters the program.
LEMMA ProgramEntered ==
  ASSUME NEW p \in Processors, p.mem[p.on] = UserFrame
  PROVE  LET u == Iret(p)
         IN /\ ReturnPlace(p) = "user"
            /\ u \in Processors /\ u.ds = p.ds /\ u.cs = "user" /\ u.on = "user"
            /\ u.mem = [p.mem EXCEPT ![p.on] = <<>>] /\ u.saved = p.saved
<1> DEFINE u == Iret(p)
           mem == [p.mem EXCEPT ![p.on] = <<>>]
           flag == Word(p, 2)[2]
<1>1. /\ Word(p, 0) = <<"eip", "user">> /\ Word(p, 1) = <<"cs", "user">>
      /\ Word(p, 2) = UserFrame[3] /\ Word(p, 3) = <<"user", 0>>
  <2>1. Len(UserFrame) - 0 = 5 /\ Len(UserFrame) - 1 = 4 /\ Len(UserFrame) - 2 = 3 /\ Len(UserFrame) - 3 = 2
    <3>1. Len(UserFrame) = 5
      BY UserFrameFacts
    <3> QED BY <3>1
  <2> QED BY <2>1, UserFrameFacts DEF Word
<1>2. flag \in BOOLEAN
  BY <1>1, UserFrameFacts
<1>3. Rest(p, 5) = <<>>
  <2>1. Len(UserFrame) - 5 = 0
    <3>1. Len(UserFrame) = 5
      BY UserFrameFacts
    <3> QED BY <3>1
  <2>2. SubSeq(UserFrame, 1, 0) = <<>>
    BY SubSeqEmpty
  <2> QED BY <2>1, <2>2 DEF Rest
<1>4. u = Processor(p.reg, p.ds, "user", flag, "user", mem, p.saved)
  <2>1. Word(p, 1)[2] = "user" /\ Word(p, 3)[1] = "user"
    BY <1>1
  <2>2. u = Processor(p.reg, p.ds, Word(p, 1)[2], Word(p, 2)[2], Word(p, 3)[1],
                      [p.mem EXCEPT ![p.on] = Rest(p, 5)], p.saved)
    BY <2>1, Returned
  <2> QED BY <1>3, <2>1, <2>2
<1>5. mem \in [Stacks -> Seq(Words)] /\ "user" \in Stacks
  <2>1. <<>> \in Seq(Words)
    BY EmptySeq
  <2> QED BY <2>1, ProcessorFacts DEF Stacks
<1>6. p.reg \in [Registers -> Words] /\ p.ds \in Words /\ p.saved \in Seq(Words)
  BY ProcessorFacts
<1> HIDE DEF u, mem, flag
<1>7. u.ds = p.ds /\ u.cs = "user" /\ u.on = "user" /\ u.mem = mem /\ u.saved = p.saved
  BY <1>4 DEF Processor
<1>8. u \in Processors
  BY <1>2, <1>4, <1>5, <1>6 DEF Processor, Processors
<1>9. ReturnPlace(p) = "user"
  BY <1>1 DEF ReturnPlace
<1> QED BY <1>7, <1>8, <1>9 DEF u, mem

\* The way back from the exit.
LEMMA SavedWordFacts ==
  ASSUME NEW p \in Processors, NEW i \in Nat \ {0}
  PROVE  SavedWord(p, i) \in Words
<1>1. STALE \in Words
  BY DEF STALE, Words, Kinds, Names
<1>2. p.saved \in Seq(Words)
  BY ProcessorFacts
<1> QED BY <1>1, <1>2 DEF SavedWord

LEMMA ExitReturned ==
  ASSUME NEW p \in Processors, Word(p, 8) \in Words, NEW k, k = ReturnToKernel(p)
  PROVE  /\ k.cs = p.cs /\ k.ds = p.ds /\ k.on = "boot" /\ k.mem = BootProcessor.mem
         /\ k.reg.ebp = SavedWord(p, 2) /\ k.reg.ebx = SavedWord(p, 3)
         /\ k.reg.esi = SavedWord(p, 4) /\ k.reg.edi = SavedWord(p, 5)
         /\ k.reg.eax = Word(p, 8)
         /\ k \in Processors
<1> DEFINE popped == [ebp |-> SavedWord(p, 2), ebx |-> SavedWord(p, 3), esi |-> SavedWord(p, 4), edi |-> SavedWord(p, 5),
                      eax |-> Word(p, 8)]
           reg == [r \in Registers |-> IF r \in DOMAIN popped THEN popped[r] ELSE p.reg[r]]
<1>1. /\ reg.ebp = SavedWord(p, 2) /\ reg.ebx = SavedWord(p, 3) /\ reg.esi = SavedWord(p, 4) /\ reg.edi = SavedWord(p, 5)
      /\ reg.eax = Word(p, 8)
  BY RegisterFacts
<1>2. reg \in [Registers -> Words]
  <2>1. /\ SavedWord(p, 2) \in Words /\ SavedWord(p, 3) \in Words /\ SavedWord(p, 4) \in Words /\ SavedWord(p, 5) \in Words
    BY SavedWordFacts
  <2>2. \A r \in DOMAIN popped : popped[r] \in Words
    BY <2>1
  <2>3. p.reg \in [Registers -> Words]
    BY ProcessorFacts
  <2> HIDE DEF popped
  <2> QED BY <2>2, <2>3
<1> DEFINE mem == BootProcessor.mem
<1>3. mem \in [Stacks -> Seq(Words)]
  BY DEF BootProcessor, Stacks
<1>4. k = [p EXCEPT !.reg = reg, !.on = "boot", !.mem = mem, !.saved = <<>>]
  BY DEF ReturnToKernel
<1> HIDE DEF reg, mem
<1>5. /\ k.cs = p.cs /\ k.ds = p.ds /\ k.on = "boot" /\ k.mem = mem /\ k.reg = reg /\ k.saved = <<>>
      /\ k.flag = p.flag
  BY <1>4 DEF Processors
<1>6. k \in Processors
  <2>1. "boot" \in Stacks /\ <<>> \in Seq(Words)
    BY DEF Stacks
  <2> QED BY <1>2, <1>3, <1>4, <2>1 DEF Processors
<1> QED BY <1>1, <1>5, <1>6 DEF mem

-----------------------------------------------------------------------------
(* The replies that ps2_init reads.                                         *)

\* The byte that a reply out of step finds before it.
Late ==
  [at \in {"disable", "config", "selftest", "iftest"} |->
     CASE at \in {"disable", "config"} -> {SCANCODE}
       [] at = "selftest" -> Configs
       [] at = "iftest" -> {PASSED, FAILED}]

Clean == port = <<>> /\ (setup \in {"selftest", "iftest", "enable"} => config \in Configs)
OutOfStep ==
  /\ excuse # "none"
  /\ setup \in DOMAIN Late
  /\ \E byte \in Late[setup] : port = <<byte>>

SetupInv ==
  /\ setup \in {"flush", "disable", "config", "selftest", "iftest", "enable", "done", "failed"}
  /\ setup \in {"disable", "config", "selftest", "iftest", "enable"} => Clean \/ OutOfStep
  /\ setup = "failed" => excuse # "none"

\* The invariant says what the property says.
LEMMA RepliesOfInv == SetupInv => RepliesInStep
BY DEF SetupInv, RepliesInStep, Clean, OutOfStep, Late

\* A reply is behind what waits, and the first byte is read.
LEMMA AskedClean ==
  ASSUME NEW answer, port = <<>>
  PROVE  Head(Asked(answer)) = answer /\ Tail(Asked(answer)) = <<>>
BY DEF Asked

LEMMA AskedLate ==
  ASSUME NEW answer, NEW byte, port = <<byte>>
  PROVE  Head(Asked(answer)) = byte /\ Tail(Asked(answer)) = <<answer>>
<1> DEFINE S == {byte, answer}
<1>1. <<byte>> \in Seq(S) /\ answer \in S /\ <<byte>> # <<>>
  OBVIOUS
<1>2. Head(<<byte>>) = byte /\ Tail(<<byte>>) = <<>>
  OBVIOUS
<1>3. Append(<<>>, answer) = <<answer>>
  OBVIOUS
<1>4. /\ Head(Append(<<byte>>, answer)) = Head(<<byte>>)
      /\ Tail(Append(<<byte>>, answer)) = Append(Tail(<<byte>>), answer)
  <2> HIDE DEF S
  <2> QED BY <1>1, HeadTailAppend
<1> QED BY <1>2, <1>3, <1>4 DEF Asked

\* Every command, and a key that comes early, keeps the invariant.
LEMMA SetupKeeps == SetupInv /\ [ps2_init \/ StrayKey]_setupVars => SetupInv'
<1> SUFFICES ASSUME SetupInv, [ps2_init \/ StrayKey]_setupVars PROVE SetupInv'
  OBVIOUS
<1> USE DEF SetupInv
<1>1. CASE Flush
  <2>1. setup' \in {"flush", "disable"} /\ (setup' = "disable" => port' = <<>>)
    BY <1>1 DEF Flush
  <2> QED BY <2>1 DEF Clean
<1>2. CASE StrayKey
  <2>1. setup' = setup /\ setup \in {"flush", "disable"} /\ port' = <<SCANCODE>>
        /\ (setup = "disable" => excuse' = "stray key")
    BY <1>2 DEF StrayKey
  <2>2. setup = "disable" => OutOfStep'
    BY <2>1 DEF OutOfStep, Late
  <2> QED BY <2>1, <2>2
<1>3. CASE DisableKeyboard
  <2>1. setup = "disable" /\ setup' = "config" /\ port' = port /\ excuse' = excuse
    BY <1>3 DEF DisableKeyboard
  <2> QED BY <2>1 DEF Clean, OutOfStep, Late
<1>4. CASE ReadConfig
  <2>1. PICK answer \in Configs :
          config' = Head(Asked(answer)) /\ port' = Tail(Asked(answer))
    BY <1>4 DEF ReadConfig
  <2>2. setup = "config" /\ setup' = "selftest" /\ excuse' = excuse
    BY <1>4 DEF ReadConfig
  <2>3. CASE Clean
    BY <2>1, <2>2, <2>3, AskedClean DEF Clean
  <2>4. CASE OutOfStep
    <3>1. PICK byte : port = <<byte>>
      BY <2>4 DEF OutOfStep
    <3>2. port' = <<answer>>
      BY <2>1, <3>1, AskedLate
    <3> QED BY <2>2, <2>4, <3>2 DEF OutOfStep, Late
  <2> QED BY <2>2, <2>3, <2>4
<1>5. CASE SelfTest
  <2>1. PICK answer \in {PASSED, FAILED} :
          /\ setup' = IF Head(Asked(answer)) = PASSED THEN "iftest" ELSE "failed"
          /\ port' = Tail(Asked(answer))
          /\ excuse' = IF answer = FAILED THEN "failed test" ELSE excuse
    BY <1>5 DEF SelfTest, Test, Accepted
  <2>2. setup = "selftest" /\ config' = config
    BY <1>5 DEF SelfTest, Test
  <2>3. CASE Clean
    <3>1. Head(Asked(answer)) = answer /\ port' = <<>>
      BY <2>1, <2>3, AskedClean DEF Clean
    <3> QED BY <2>1, <2>2, <2>3, <3>1 DEF Clean, PASSED, FAILED
  <2>4. CASE OutOfStep
    <3>1. PICK byte : port = <<byte>>
      BY <2>4 DEF OutOfStep
    <3>2. port' = <<answer>> /\ excuse' # "none"
      BY <2>1, <2>4, <3>1, AskedLate DEF OutOfStep
    <3> QED BY <2>1, <3>2 DEF OutOfStep, Late
  <2> QED BY <2>2, <2>3, <2>4
<1>6. CASE InterfaceTest
  <2>1. PICK answer \in {0, FAILED} :
          /\ setup' = IF Head(Asked(answer)) = 0 THEN "enable" ELSE "failed"
          /\ port' = Tail(Asked(answer))
          /\ excuse' = IF answer = FAILED THEN "failed test" ELSE excuse
    BY <1>6 DEF InterfaceTest, Test, Accepted
  <2>2. setup = "iftest" /\ config' = config
    BY <1>6 DEF InterfaceTest, Test
  <2>3. CASE Clean
    <3>1. Head(Asked(answer)) = answer /\ port' = <<>>
      BY <2>1, <2>3, AskedClean DEF Clean
    <3> QED BY <2>1, <2>2, <2>3, <3>1 DEF Clean, FAILED
  <2>4. CASE OutOfStep
    <3>1. PICK byte \in {PASSED, FAILED} : port = <<byte>>
      BY <2>2, <2>4 DEF OutOfStep, Late
    <3>2. Head(Asked(answer)) = byte /\ excuse' # "none"
      BY <2>1, <2>4, <3>1, AskedLate DEF OutOfStep
    <3>3. byte # 0
      BY <3>1 DEF PASSED, FAILED
    <3>4. setup' = "failed"
      BY <2>1, <3>2, <3>3
    <3> QED BY <3>2, <3>4
  <2> QED BY <2>2, <2>3, <2>4
<1>7. CASE EnableKeyboard
  BY <1>7 DEF EnableKeyboard
<1>8. CASE UNCHANGED setupVars
  BY <1>8 DEF setupVars, Clean, OutOfStep, Late
<1> QED BY <1>1, <1>2, <1>3, <1>4, <1>5, <1>6, <1>7, <1>8 DEF ps2_init

\* ps2_init ends with the controller's own configuration byte written back and an
\* empty port, or panics with a reason: a test that failed, or a key that came
\* after the last look at the port.
THEOREM RepliesCorrect == SetupSpec => []RepliesInStep
<1>1. SetupInit => SetupInv
  BY DEF SetupInit, SetupInv
<1>2. SetupSpec => []SetupInv
  BY <1>1, SetupKeeps, PTL DEF SetupSpec
<1> QED BY <1>2, RepliesOfInv, PTL

-----------------------------------------------------------------------------
(* The uptime shown.                                                        *)

Load == [half : {"low", "high"}, value : Nat]

ClockTypeOK ==
  /\ ticks \in Nat /\ ticks < LowHalves * HighHalves
  /\ began \in Nat \cup {-1}
  /\ carried \in BOOLEAN
  /\ loads \in Seq(Load)

\* What has been loaded, by readings.
LoadsOK ==
  /\ Len(loads) \in 0..4
  /\ began = -1 => Len(loads) = 0
  /\ Len(loads) >= 2 => loads[1].half # loads[2].half
  /\ Len(loads) >= 4 => loads[3].half # loads[4].half

Early(k) == loads[k].value >= began % LowHalves
Past(k) == loads[k].value <= ticks % LowHalves

\* While the low half has not gone round.
Steady ==
  /\ began <= ticks /\ ticks \div LowHalves = began \div LowHalves
  /\ \A k \in 1..Len(loads) :
       IF loads[k].half = "high" THEN loads[k].value = began \div LowHalves
                                 ELSE Early(k) /\ Past(k)
  /\ \A j, k \in 1..Len(loads) :
       j <= k /\ loads[j].half = "low" /\ loads[k].half = "low" => loads[j].value <= loads[k].value

ClockInv ==
  /\ ClockTypeOK
  /\ LoadsOK
  /\ began # -1 /\ ~carried => Steady

-----------------------------------------------------------------------------
\* Arithmetic of whole parts and rests.
LEMMA WholeAndRest ==
  ASSUME NEW n \in Nat, NEW p \in Nat \ {0}
  PROVE  /\ n \div p \in Nat /\ n % p \in Nat /\ n % p < p
         /\ n = p * (n \div p) + (n % p)
<1>1. n \div p \in Nat
  OBVIOUS
<1>2. n % p \in Nat /\ n % p < p
  OBVIOUS
<1>3. n = p * (n \div p) + (n % p)
  OBVIOUS
<1> QED BY <1>1, <1>2, <1>3

LEMMA OnlyWholeAndRest ==
  ASSUME NEW q \in Nat, NEW r \in Nat, NEW p \in Nat \ {0}, r < p
  PROVE  (p * q + r) \div p = q /\ (p * q + r) % p = r
OBVIOUS

LEMMA ProductGrows ==
  ASSUME NEW a \in Nat, NEW b \in Nat, NEW p \in Nat, a <= b
  PROVE  p * a <= p * b
OBVIOUS

LEMMA WholeGrows ==
  ASSUME NEW m \in Nat, NEW n \in Nat, NEW p \in Nat \ {0}, m <= n
  PROVE  p * (m \div p) <= p * (n \div p)
<1> DEFINE c == m \div p
           d == n \div p
<1>1. /\ c \in Nat /\ p * c <= m
      /\ d \in Nat /\ n < p * d + p
  <2>1. c \in Nat /\ m % p \in Nat /\ m = p * c + (m % p)
    BY WholeAndRest
  <2>2. d \in Nat /\ n % p \in Nat /\ n % p < p /\ n = p * d + (n % p)
    BY WholeAndRest
  <2>3. p * c \in Nat /\ p * d \in Nat
    BY <2>1, <2>2
  <2> HIDE DEF c, d
  <2> QED BY <2>1, <2>2, <2>3
<1> HIDE DEF c, d
<1>2. CASE c <= d
  <2>1. p * c <= p * d
    BY <1>1, <1>2, ProductGrows
  <2> QED BY <2>1 DEF c, d
<1>3. CASE d + 1 <= c
  <2>1. p * (d + 1) <= p * c
    BY <1>1, <1>3, ProductGrows
  <2>2. p * (d + 1) = p * d + p
    BY <1>1
  <2>3. p * c \in Nat /\ p * d \in Nat
    BY <1>1
  <2> QED BY <1>1, <2>1, <2>2, <2>3
<1> QED BY <1>1, <1>2, <1>3

\* What is loaded is a number.
LEMMA LoadFacts ==
  ASSUME NEW load \in Load
  PROVE  load.value \in Nat /\ load.half \in {"low", "high"}
BY DEF Load

\* One more, with no carry.
LEMMA NoCarry ==
  ASSUME NEW n \in Nat, NEW p \in Nat \ {0}, (n + 1) % p # 0
  PROVE  (n + 1) \div p = n \div p /\ (n + 1) % p = (n % p) + 1
<1> DEFINE q == n \div p
           r == n % p
<1>1. q \in Nat /\ r \in Nat /\ r < p /\ n = p * q + r
  BY WholeAndRest
<1>2. p * q \in Nat
  BY <1>1
<1> HIDE DEF q, r
<1>3. CASE r + 1 < p
  <2>1. n + 1 = p * q + (r + 1)
    BY <1>1, <1>2
  <2>2. (p * q + (r + 1)) \div p = q /\ (p * q + (r + 1)) % p = r + 1
    BY <1>1, <1>3, OnlyWholeAndRest
  <2> QED BY <2>1, <2>2 DEF q, r
<1>4. CASE r + 1 = p
  <2>1. p * (q + 1) = p * q + p
    BY <1>1
  <2>2. n + 1 = p * (q + 1) + 0
    BY <1>1, <1>2, <1>4, <2>1
  <2>3. (p * (q + 1) + 0) % p = 0
    BY <1>1, OnlyWholeAndRest
  <2> QED BY <2>2, <2>3
<1> QED BY <1>1, <1>3, <1>4

-----------------------------------------------------------------------------
(* The invariant.                                                           *)

LEMMA TickKeeps == ClockInv /\ pit_callback => ClockInv'
<1> SUFFICES ASSUME ClockInv, pit_callback PROVE ClockInv'
  OBVIOUS
<1> USE UptimeAssumption
<1> DEFINE size == LowHalves * HighHalves
<1>1. size \in Nat \ {0}
  OBVIOUS
<1>2. ticks' = (ticks + 1) % size /\ ticks \in Nat /\ ticks < size
  BY DEF pit_callback, ClockInv, ClockTypeOK
<1>3. ticks' \in Nat /\ ticks' < size
  <2> HIDE DEF size
  <2> QED BY <1>1, <1>2, WholeAndRest
<1>4. ClockTypeOK' /\ LoadsOK'
  BY <1>3 DEF ClockInv, ClockTypeOK, LoadsOK, pit_callback
<1>5. ASSUME began' # -1, ~carried' PROVE Steady'
  <2>1. /\ began # -1 /\ ~carried /\ ticks' % LowHalves # 0
        /\ began' = began /\ loads' = loads
    BY <1>5 DEF pit_callback
  <2>2. Steady /\ began \in Nat /\ loads \in Seq(Load)
    BY <2>1 DEF ClockInv, ClockTypeOK
  <2>3. ticks' = ticks + 1
    <3>1. CASE ticks + 1 < size
      <4>1. size * 0 + (ticks + 1) = ticks + 1
        BY <1>1, <1>2
      <4>2. (size * 0 + (ticks + 1)) % size = ticks + 1
        <5> HIDE DEF size
        <5> QED BY <1>1, <1>2, <3>1, OnlyWholeAndRest
      <4> QED BY <1>2, <4>1, <4>2
    <3>2. CASE ticks + 1 = size
      <4>1. size * 1 + 0 = size
        BY <1>1
      <4>2. (size * 1 + 0) % size = 0
        <5> HIDE DEF size
        <5> QED BY <1>1, OnlyWholeAndRest
      <4>3. ticks' = 0
        BY <1>2, <3>2, <4>1, <4>2
      <4>4. 0 % LowHalves = 0
        OBVIOUS
      <4> QED BY <2>1, <4>3, <4>4
    <3> HIDE DEF size
    <3> QED BY <1>1, <1>2, <3>1, <3>2
  <2>4. ticks' \div LowHalves = ticks \div LowHalves /\ ticks' % LowHalves = (ticks % LowHalves) + 1
    BY <1>2, <2>1, <2>3, NoCarry
  <2>5. ticks % LowHalves \in Nat
    BY <1>2, WholeAndRest
  <2>6. ASSUME NEW k \in 1..Len(loads) PROVE Past(k) => Past(k)'
    <3>1. loads[k].value \in Nat
      <4>1. loads[k] \in Load
        BY <2>2
      <4> QED BY <4>1, LoadFacts
    <3> QED BY <2>1, <2>4, <2>5, <3>1 DEF Past
  <2>7. began' <= ticks' /\ ticks' \div LowHalves = began' \div LowHalves
    BY <1>2, <2>1, <2>2, <2>3, <2>4 DEF Steady
  <2> QED BY <2>1, <2>2, <2>6, <2>7 DEF Steady, Early
<1> QED BY <1>4, <1>5 DEF ClockInv

LEMMA LoadKeeps == ClockInv /\ began # -1 /\ LoadHalf => ClockInv'
<1> SUFFICES ASSUME ClockInv, began # -1, LoadHalf PROVE ClockInv'
  OBVIOUS
<1> USE UptimeAssumption
<1>1. PICK name \in {"low", "high"} :
        /\ Len(loads) % 2 = 1 => name # loads[Len(loads)].half
        /\ loads' = Append(loads, Half(name))
  BY DEF LoadHalf
<1>2. /\ ticks' = ticks /\ began' = began /\ carried' = carried
      /\ Len(loads) < 4 /\ loads \in Seq(Load) /\ Len(loads) \in 0..4
      /\ ticks \in Nat /\ began \in Nat
  BY DEF LoadHalf, ClockInv, ClockTypeOK, LoadsOK
<1>3. /\ Half(name) \in Load /\ Half(name).half = name
      /\ name = "low" => Half(name).value = ticks % LowHalves
      /\ name = "high" => Half(name).value = ticks \div LowHalves
  <2>1. ticks % LowHalves \in Nat /\ ticks \div LowHalves \in Nat
    BY <1>2, WholeAndRest
  <2> QED BY <2>1 DEF Half, Load
<1>4. /\ loads' \in Seq(Load) /\ Len(loads') = Len(loads) + 1
      /\ \A k \in 1..Len(loads) : loads'[k] = loads[k]
      /\ loads'[Len(loads) + 1] = Half(name)
  BY <1>1, <1>2, <1>3, AppendProperties
<1>5. ClockTypeOK'
  BY <1>2, <1>4 DEF ClockInv, ClockTypeOK
<1>6. LoadsOK'
  <2>1. Len(loads) = 1 => name # loads[1].half
    BY <1>1
  <2>2. Len(loads) = 3 => name # loads[3].half
    BY <1>1
  <2>3. Len(loads) \in {0, 1, 2, 3}
    BY <1>2
  <2> QED BY <1>2, <1>3, <1>4, <2>1, <2>2, <2>3 DEF ClockInv, LoadsOK
<1>7. ASSUME ~carried PROVE Steady'
  <2>1. Steady
    BY <1>7 DEF ClockInv
  <2>2. began % LowHalves <= ticks % LowHalves
    <3> DEFINE whole == LowHalves * (ticks \div LowHalves)
    <3>1. /\ ticks = whole + (ticks % LowHalves) /\ ticks % LowHalves \in Nat
          /\ ticks \div LowHalves \in Nat
      BY <1>2, WholeAndRest
    <3>2. began = whole + (began % LowHalves) /\ began % LowHalves \in Nat
      BY <1>2, <2>1, WholeAndRest DEF Steady
    <3>3. whole \in Nat
      BY <3>1
    <3>4. began <= ticks
      BY <2>1 DEF Steady
    <3> HIDE DEF whole
    <3> QED BY <3>1, <3>2, <3>3, <3>4
  <2>3. ticks % LowHalves \in Nat /\ began % LowHalves \in Nat
    BY <1>2, WholeAndRest
  <2>4. ASSUME NEW k \in 1..Len(loads')
        PROVE  IF loads'[k].half = "high" THEN loads'[k].value = began \div LowHalves
               ELSE began % LowHalves <= loads'[k].value /\ loads'[k].value <= ticks % LowHalves
    <3>1. CASE k \in 1..Len(loads)
      <4>1. loads'[k] = loads[k] /\ loads[k] \in Load
        BY <1>2, <1>4, <3>1
      <4>2. loads[k].value \in Nat
        BY <4>1, LoadFacts
      <4> QED BY <2>1, <2>3, <3>1, <4>1, <4>2 DEF Steady, Early, Past
    <3>2. CASE k = Len(loads) + 1
      <4>1. loads'[k] = Half(name)
        BY <1>4, <3>2
      <4> QED BY <1>3, <2>1, <2>2, <2>3, <4>1 DEF Steady
    <3> QED BY <1>2, <1>4, <3>1, <3>2
  <2>5. ASSUME NEW j \in 1..Len(loads'), NEW k \in 1..Len(loads'),
               j <= k, loads'[j].half = "low", loads'[k].half = "low"
        PROVE  loads'[j].value <= loads'[k].value
    <3>1. CASE k \in 1..Len(loads)
      <4>1. j \in 1..Len(loads)
        BY <1>2, <2>5, <3>1
      <4> QED BY <1>4, <2>1, <2>5, <3>1, <4>1 DEF Steady
    <3>2. CASE k = Len(loads) + 1
      <4>1. loads'[k].value = ticks % LowHalves
        BY <1>3, <1>4, <2>5, <3>2
      <4> QED BY <2>4, <2>5, <4>1
    <3> QED BY <1>2, <1>4, <3>1, <3>2
  <2>6. began' <= ticks' /\ ticks' \div LowHalves = began' \div LowHalves
    BY <1>2, <2>1 DEF Steady
  <2>7. ASSUME NEW k \in 1..Len(loads')
        PROVE  IF loads'[k].half = "high" THEN loads'[k].value = began' \div LowHalves
               ELSE Early(k)' /\ Past(k)'
    <3>1. loads'[k].value \in Nat
      <4>1. loads'[k] \in Load
        BY <1>4, <2>7
      <4> QED BY <4>1, LoadFacts
    <3> QED BY <1>2, <2>3, <2>4, <3>1 DEF Early, Past
  <2> QED BY <2>5, <2>6, <2>7 DEF Steady
<1> QED BY <1>2, <1>5, <1>6, <1>7 DEF ClockInv

LEMMA BeginEndKeeps == ClockInv /\ (BeginUptime \/ EndUptime) => ClockInv'
<1> SUFFICES ASSUME ClockInv, BeginUptime \/ EndUptime PROVE ClockInv'
  OBVIOUS
<1>1. /\ ticks' = ticks /\ loads' = <<>> /\ carried' = FALSE /\ began' \in {ticks, -1}
      /\ ticks \in Nat
  BY DEF ClockInv, ClockTypeOK, BeginUptime, EndUptime
<1>2. Len(loads') = 0 /\ loads' \in Seq(Load)
  BY <1>1
<1>3. ClockTypeOK' /\ LoadsOK'
  <2>1. ClockTypeOK'
    BY <1>1, <1>2 DEF ClockInv, ClockTypeOK
  <2>2. LoadsOK'
    BY <1>2 DEF LoadsOK
  <2> QED BY <2>1, <2>2
<1>4. began' # -1 => Steady'
  BY <1>1, <1>2 DEF Steady
<1> QED BY <1>3, <1>4 DEF ClockInv

LEMMA ClockKeeps == ClockInv /\ [pit_callback \/ cmd_uptime]_clock => ClockInv'
<1>1. ClockInv /\ UNCHANGED clock => ClockInv'
  BY DEF clock, ClockInv, ClockTypeOK, LoadsOK, Steady, Early, Past
<1> QED BY <1>1, TickKeeps, LoadKeeps, BeginEndKeeps DEF cmd_uptime

-----------------------------------------------------------------------------
(* What is shown.                                                           *)

\* The reading that begins at the i-th load lies between the call and now, and
\* readings do not go back.
LEMMA ReadingNear ==
  ASSUME ClockInv, began # -1, ~carried, NEW i \in {1, 3}, Len(loads) > i
  PROVE  /\ Reading(i) \in Nat /\ began <= Reading(i) /\ Reading(i) <= ticks
         /\ \E k \in {i, i + 1} :
              /\ loads[k].half = "low"
              /\ Reading(i) = LowHalves * (began \div LowHalves) + loads[k].value
<1> USE UptimeAssumption
<1> DEFINE index(name) == CHOOSE k \in {i, i + 1} : loads[k].half = name
           whole == LowHalves * (began \div LowHalves)
<1>1. /\ Steady /\ loads \in Seq(Load) /\ Len(loads) \in 0..4 /\ {i, i + 1} \subseteq 1..Len(loads)
      /\ ticks \in Nat /\ began \in Nat
  BY DEF ClockInv, ClockTypeOK, LoadsOK
<1>2. loads[i].half # loads[i + 1].half
  <2>1. CASE i = 1
    BY <2>1 DEF ClockInv, LoadsOK
  <2>2. CASE i = 3
    BY <1>1, <2>2 DEF ClockInv, LoadsOK
  <2> QED BY <2>1, <2>2
<1>3. loads[i] \in Load /\ loads[i + 1] \in Load
  BY <1>1
<1>4. ASSUME NEW name \in {"low", "high"}
      PROVE  index(name) \in {i, i + 1} /\ loads[index(name)].half = name
  <2>1. \E k \in {i, i + 1} : loads[k].half = name
    BY <1>2, <1>3 DEF Load
  <2> QED BY <2>1
<1>5. Reading(i) = loads[index("high")].value * LowHalves + loads[index("low")].value
  BY DEF Reading
<1> DEFINE h == index("high")
           l == index("low")
<1>6. h \in 1..Len(loads) /\ loads[h].half = "high" /\ l \in {i, i + 1} /\ l \in 1..Len(loads)
      /\ loads[l].half = "low"
  BY <1>1, <1>4
<1> HIDE DEF h, l
<1>7. /\ loads[h].value = began \div LowHalves
      /\ began % LowHalves <= loads[l].value /\ loads[l].value <= ticks % LowHalves
      /\ loads[l].value \in Nat
  <2>1. loads[l] \in Load
    BY <1>1, <1>6
  <2>2. loads[l].value \in Nat
    BY <2>1, LoadFacts
  <2>3. loads[h].value = began \div LowHalves
    BY <1>1, <1>6 DEF Steady
  <2>4. Early(l) /\ Past(l)
    BY <1>1, <1>6 DEF Steady
  <2>5. began % LowHalves \in Nat /\ ticks % LowHalves \in Nat
    BY <1>1, WholeAndRest
  <2> QED BY <2>2, <2>3, <2>4, <2>5 DEF Early, Past
<1>8. /\ began \div LowHalves \in Nat /\ began % LowHalves \in Nat
      /\ ticks % LowHalves \in Nat
      /\ began = whole + (began % LowHalves) /\ ticks = whole + (ticks % LowHalves)
  BY <1>1, WholeAndRest DEF Steady
<1>9. Reading(i) = whole + loads[l].value /\ whole \in Nat
  <2>1. Reading(i) = (began \div LowHalves) * LowHalves + loads[l].value
    BY <1>5, <1>7 DEF h, l
  <2> DEFINE d == began \div LowHalves
  <2>2. d \in Nat /\ LowHalves \in Nat
    BY <1>8
  <2>3. d * LowHalves = LowHalves * d /\ LowHalves * d \in Nat
    <3> HIDE DEF d
    <3> QED BY <2>2
  <2> QED BY <2>1, <2>3
<1>10. Reading(i) \in Nat /\ began <= Reading(i) /\ Reading(i) <= ticks
  <2> DEFINE from == began % LowHalves
             to == ticks % LowHalves
             v == loads[l].value
  <2>1. /\ from \in Nat /\ to \in Nat /\ v \in Nat /\ whole \in Nat
        /\ began = whole + from /\ ticks = whole + to /\ from <= v /\ v <= to
        /\ Reading(i) = whole + v
    BY <1>7, <1>8, <1>9
  <2> HIDE DEF whole, from, to, v
  <2> QED BY <2>1
<1> QED BY <1>6, <1>9, <1>10

LEMMA NearOfInv == ClockInv => UptimeNear
<1> SUFFICES ASSUME ClockInv, Complete, ~carried
             PROVE  /\ Shown <= ticks
                    /\ Shown >= began - (IF Len(loads) = 2 THEN 0 ELSE TicksPerSecond - 1)
  BY DEF UptimeNear
<1> USE UptimeAssumption
<1>1. /\ began # -1 /\ ticks \in Nat /\ began \in Nat /\ Len(loads) \in {2, 4}
      /\ Steady
  BY DEF ClockInv, ClockTypeOK, LoadsOK, Complete
<1>2. First \in Nat /\ began <= First /\ First <= ticks
  <2>1. Len(loads) > 1
    BY <1>1
  <2>2. Reading(1) \in Nat /\ began <= Reading(1) /\ Reading(1) <= ticks
    BY <1>1, <2>1, ReadingNear
  <2> QED BY <2>2 DEF First
<1>3. Second \in Nat /\ First <= Second /\ Second <= ticks
  <2>1. CASE Len(loads) = 2
    BY <1>2, <2>1 DEF First, Second
  <2>2. CASE Len(loads) = 4
    <3> DEFINE whole == LowHalves * (began \div LowHalves)
    <3>1. Second = Reading(3)
      BY <2>2 DEF Second
    <3>2. Reading(3) \in Nat /\ Reading(3) <= ticks
      BY <1>1, <2>2, ReadingNear
    <3>3. PICK j \in {1, 1 + 1} : loads[j].half = "low" /\ Reading(1) = whole + loads[j].value
      BY <1>1, <2>2, ReadingNear
    <3>4. PICK k \in {3, 3 + 1} : loads[k].half = "low" /\ Reading(3) = whole + loads[k].value
      BY <1>1, <2>2, ReadingNear
    <3>5. j \in 1..Len(loads) /\ k \in 1..Len(loads) /\ j <= k
      BY <2>2, <3>3, <3>4
    <3>6. loads[j].value <= loads[k].value
      BY <1>1, <3>3, <3>4, <3>5 DEF Steady
    <3>7. loads[j].value \in Nat /\ loads[k].value \in Nat /\ whole \in Nat
      <4>1. loads \in Seq(Load)
        BY DEF ClockInv, ClockTypeOK
      <4>2. loads[j] \in Load /\ loads[k] \in Load
        BY <3>5, <4>1
      <4>3. loads[j].value \in Nat /\ loads[k].value \in Nat
        BY <4>2, LoadFacts
      <4>4. began \div LowHalves \in Nat
        BY <1>1, WholeAndRest
      <4>5. whole \in Nat
        BY <4>4
      <4> QED BY <4>3, <4>5
    <3> HIDE DEF whole
    <3> QED BY <3>1, <3>2, <3>3, <3>4, <3>6, <3>7 DEF First
  <2> QED BY <1>1, <2>1, <2>2
<1> DEFINE a == TicksPerSecond * (First \div TicksPerSecond)
           b == TicksPerSecond * (Second \div TicksPerSecond)
<1>4. /\ First \div TicksPerSecond \in Nat /\ a \in Nat /\ b \in Nat /\ a <= b
      /\ First % TicksPerSecond \in Nat /\ First % TicksPerSecond < TicksPerSecond
      /\ Second % TicksPerSecond \in Nat
      /\ First = a + (First % TicksPerSecond) /\ Second = b + (Second % TicksPerSecond)
  <2>1. /\ First \div TicksPerSecond \in Nat /\ Second \div TicksPerSecond \in Nat
        /\ First % TicksPerSecond \in Nat /\ First % TicksPerSecond < TicksPerSecond
        /\ Second % TicksPerSecond \in Nat
        /\ First = a + (First % TicksPerSecond) /\ Second = b + (Second % TicksPerSecond)
    BY <1>2, <1>3, WholeAndRest
  <2>2. a <= b
    BY <1>2, <1>3, WholeGrows
  <2>3. a \in Nat /\ b \in Nat
    BY <2>1
  <2> QED BY <2>1, <2>2, <2>3
<1>5. Shown = a + (Second % TicksPerSecond)
  BY <1>4 DEF Shown
<1> HIDE DEF a, b
<1>6. Shown <= ticks /\ Shown \in Nat
  BY <1>1, <1>3, <1>4, <1>5
<1>7. CASE Len(loads) = 2
  <2>1. First = Second
    BY <1>7 DEF First, Second
  <2>2. Shown = First
    BY <1>4, <1>5, <2>1
  <2> QED BY <1>1, <1>2, <1>6, <1>7, <2>2
<1>8. CASE Len(loads) = 4
  <2>1. Shown >= began - (TicksPerSecond - 1)
    BY <1>1, <1>2, <1>4, <1>5
  <2> QED BY <1>6, <1>8, <2>1
<1> QED BY <1>1, <1>7, <1>8

LEMMA ClockStarts == ClockInit => ClockInv
<1> SUFFICES ASSUME ClockInit PROVE ClockInv
  OBVIOUS
<1>1. ticks = 0 /\ loads = <<>> /\ began = -1 /\ carried = FALSE /\ Len(loads) = 0
  BY DEF ClockInit
<1>2. 0 < LowHalves * HighHalves
  BY UptimeAssumption
<1>3. ClockTypeOK
  <2>1. loads \in Seq(Load)
    BY <1>1
  <2>2. ticks \in Nat /\ ticks < LowHalves * HighHalves
    BY <1>1, <1>2
  <2>3. began \in Nat \cup {-1}
    BY <1>1
  <2>4. carried \in BOOLEAN
    BY <1>1
  <2> QED BY <2>1, <2>2, <2>3, <2>4 DEF ClockTypeOK
<1>4. LoadsOK
  BY <1>1 DEF LoadsOK
<1> QED BY <1>1, <1>3, <1>4 DEF ClockInv

\* cmd_uptime, which reads the count half by half while pit_callback counts on,
\* shows the time of the call or less than a second off, and never the future,
\* unless the low half goes round during the call.
THEOREM UptimeCorrect == UptimeSpec => []UptimeNear
<1>1. UptimeSpec => []ClockInv
  BY ClockStarts, ClockKeeps, PTL DEF UptimeSpec
<1> QED BY <1>1, NearOfInv, PTL

=============================================================================
