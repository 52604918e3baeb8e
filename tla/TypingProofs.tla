---------------------------- MODULE TypingProofs ----------------------------
(***************************************************************************)
(* From the keyboard's bytes to the line on the screen, for any set of     *)
(* keys, any backlog of bytes, any buffer, history and screen.             *)
(*                                                                         *)
(* The keyboard's invariant runs the driver over the bytes that nobody has *)
(* read yet: they lead it from the state it is in to the one in which it   *)
(* knows the modifiers that are down, and publish on the way what is owed. *)
(*                                                                         *)
(* The line editor's invariant bounds its indices, which makes of buffer   *)
(* and ring the sequences of LineEditor; the screen's says which cells     *)
(* hold the line, and that those behind it are blank.                      *)
(***************************************************************************)
EXTENDS Keyboard, Shell, SequenceTheorems, NaturalsInduction, WellFoundedInduction, TLAPS

Flags == {"LSHIFT", "RSHIFT", "LCTRL", "RCTRL", "LALT", "RALT", "CAPSLOCK"}
Names == Nat \X (BOOLEAN \cup {"arrow"})
Bytes == 0..255

\* A state of the driver, with the keys it still has to publish.
States == [m : SUBSET Flags, x : BOOLEAN, r : Seq(Names)]
At(m, x, r) == [m |-> m, x |-> x, r |-> r]

-----------------------------------------------------------------------------
(* What the driver makes of a byte.                                         *)

Code(b) == b \notin ErrorBytes \cup {SC_EXTENDED}
Break(b) == b >= Up(0)
Toggled(m) == (m \ {"CAPSLOCK"}) \cup ({"CAPSLOCK"} \ m)
Updated(m, sc) == IF sc = SC_CAPSLOCK THEN Toggled(m) ELSE m \cup Modifier(sc, FALSE)
ModsAfter(m, x, b) ==
  IF ~Code(b) THEN m
  ELSE IF Break(b) THEN m \ Modifier(b % Up(0), x)
  ELSE IF x THEN m \cup Modifier(b % Up(0), TRUE)
  ELSE Updated(m, b % Up(0))
AwaitsAfter(x, b) == IF b = SC_EXTENDED THEN TRUE ELSE IF Code(b) THEN FALSE ELSE x
KeyOf(m, x, b) ==
  IF ~Code(b) \/ Break(b) THEN None
  ELSE IF x THEN Arrow(b % Up(0))
  ELSE Typed(b % Up(0), AnyShift(Updated(m, b % Up(0))), "CAPSLOCK" \in Updated(m, b % Up(0)))

\* The driver reads b in state s and is in state t, and publishes what it owed.
Steps(s, b, t) ==
  /\ t.m = ModsAfter(s.m, s.x, b)
  /\ t.x = AwaitsAfter(s.x, b)
  /\ IF KeyOf(s.m, s.x, b) = None THEN t.r = s.r
     ELSE s.r # <<>> /\ Head(s.r) = KeyOf(s.m, s.x, b) /\ t.r = Tail(s.r)

\* keyboard_handler is such a step.
LEMMA HandlerSteps ==
  ASSUME keyboard_handler, wire \in Seq(Bytes), extended_prefix \in BOOLEAN
  PROVE  /\ wire # <<>> /\ wire' = Tail(wire) /\ UNCHANGED <<held, caps>>
         /\ modifier_state' = ModsAfter(modifier_state, extended_prefix, Head(wire))
         /\ extended_prefix' = AwaitsAfter(extended_prefix, Head(wire))
         /\ key' = KeyOf(modifier_state, extended_prefix, Head(wire))
         /\ owed' = IF key' = None \/ owed = <<>> THEN owed ELSE Tail(owed)
<1>1. /\ wire # <<>> /\ wire' = Tail(wire) /\ UNCHANGED <<held, caps>>
      /\ owed' = IF key' = None \/ owed = <<>> THEN owed ELSE Tail(owed)
  BY DEF keyboard_handler, HandleError, HandlePrefix, HandleExtended, clear_modifiers, HandleMake, Reads, publish_key
<1> DEFINE b == Head(wire)
<1>2. CASE HandleError
  <2>1. ~Code(b) /\ b # SC_EXTENDED
    BY <1>2 DEF HandleError, Scancode, Code, ErrorBytes, SC_EXTENDED
  <2>2. modifier_state' = modifier_state /\ extended_prefix' = extended_prefix /\ key' = None
    BY <1>2 DEF HandleError, publish_key
  <2> HIDE DEF b
  <2>3. ModsAfter(modifier_state, extended_prefix, b) = modifier_state
    BY <2>1 DEF ModsAfter
  <2>4. AwaitsAfter(extended_prefix, b) = extended_prefix
    BY <2>1 DEF AwaitsAfter
  <2>5. KeyOf(modifier_state, extended_prefix, b) = None
    BY <2>1 DEF KeyOf
  <2> QED BY <1>1, <2>2, <2>3, <2>4, <2>5 DEF b
<1>3. CASE HandlePrefix
  BY <1>1, <1>3 DEF HandlePrefix, Reads, publish_key, Scancode, ModsAfter, AwaitsAfter, KeyOf, Code
<1>4. CASE HandleExtended
  BY <1>1, <1>4 DEF HandleExtended, Reads, publish_key, Scancode, IsCode, IsBreak, Make, PrefixAfter,
                    ModsAfter, AwaitsAfter, KeyOf, Code, Break
<1>5. CASE clear_modifiers
  <2>1. Code(b) /\ Break(b) /\ ~extended_prefix /\ b # SC_EXTENDED
    BY <1>5 DEF clear_modifiers, Scancode, IsCode, IsBreak, Code, Break
  <2>2. /\ modifier_state' = modifier_state \ Modifier(b % Up(0), FALSE)
        /\ extended_prefix' = extended_prefix /\ key' = None
    BY <1>5 DEF clear_modifiers, publish_key, Clears, Make, Scancode
  <2> HIDE DEF b
  <2>3. ModsAfter(modifier_state, extended_prefix, b) = modifier_state \ Modifier(b % Up(0), FALSE)
    BY <2>1 DEF ModsAfter
  <2>4. AwaitsAfter(extended_prefix, b) = FALSE
    BY <2>1 DEF AwaitsAfter
  <2>5. KeyOf(modifier_state, extended_prefix, b) = None
    BY <2>1 DEF KeyOf
  <2> QED BY <1>1, <2>1, <2>2, <2>3, <2>4, <2>5 DEF b
<1>6. CASE HandleMake
  <2>1. update_modifiers = Updated(modifier_state, Make)
    BY DEF update_modifiers, Updated, Toggled
  <2>2. /\ Code(Head(wire)) /\ ~Break(Head(wire)) /\ ~extended_prefix /\ extended_prefix' = extended_prefix
        /\ Make = Head(wire) % Up(0)
        /\ modifier_state' = Updated(modifier_state, Make)
        /\ key' = Typed(Make, AnyShift(modifier_state'), "CAPSLOCK" \in modifier_state')
    BY <1>6, <2>1 DEF HandleMake, publish_key, Scancode, IsCode, IsBreak, Make, Code, Break
  <2>3. Head(wire) # SC_EXTENDED
    BY <2>2 DEF Code
  <2>4. AwaitsAfter(extended_prefix, b) = FALSE
    BY <2>2, <2>3 DEF AwaitsAfter
  <2>5. ModsAfter(modifier_state, extended_prefix, b) = modifier_state'
    BY <2>2 DEF ModsAfter
  <2>6. KeyOf(modifier_state, extended_prefix, b) = key'
    BY <2>2 DEF KeyOf, ModsAfter
  <2> QED BY <1>1, <2>2, <2>4, <2>5, <2>6
<1> QED BY <1>1, <1>2, <1>3, <1>4, <1>5, <1>6 DEF keyboard_handler

-----------------------------------------------------------------------------
(* Runs of the driver over several bytes.                                   *)

Path(w, p) == \A i \in 1..Len(w) : Steps(p[i], w[i], p[i + 1])
Run(w, s, t) ==
  \E p \in [1..(Len(w) + 1) -> States] : p[1] = s /\ p[Len(w) + 1] = t /\ Path(w, p)

LEMMA RunNone ==
  ASSUME NEW s \in States
  PROVE  Run(<<>>, s, s) /\ \A t : Run(<<>>, s, t) => t = s
<1>1. Len(<<>>) = 0
  OBVIOUS
<1> DEFINE p == [i \in 1..(0 + 1) |-> s]
<1>2. p \in [1..(0 + 1) -> States] /\ p[1] = s /\ p[0 + 1] = s
  OBVIOUS
<1>3. Path(<<>>, p)
  BY <1>1 DEF Path
<1> QED BY <1>1, <1>2, <1>3 DEF Run

\* Two runs make one, and one can be cut in two.
LEMMA RunJoin ==
  ASSUME NEW v \in Seq(Bytes), NEW w \in Seq(Bytes), NEW s, NEW t, NEW u,
         Run(v, s, t), Run(w, t, u)
  PROVE  Run(v \o w, s, u)
<1> DEFINE n == Len(v)
           k == Len(w)
           c == v \o w
<1>1. n \in Nat /\ k \in Nat
  OBVIOUS
<1>2. PICK p \in [1..(n + 1) -> States] : p[1] = s /\ p[n + 1] = t /\ Path(v, p)
  BY DEF Run
<1>3. PICK q \in [1..(k + 1) -> States] : q[1] = t /\ q[k + 1] = u /\ Path(w, q)
  BY DEF Run
<1>4. \A i \in 1..n : Steps(p[i], v[i], p[i + 1])
  BY <1>2 DEF Path
<1>5. \A i \in 1..k : Steps(q[i], w[i], q[i + 1])
  BY <1>3 DEF Path
<1>6. /\ Len(c) = n + k
      /\ \A i \in 1..(n + k) : c[i] = IF i <= n THEN v[i] ELSE w[i - n]
  BY ConcatProperties
<1> HIDE DEF n, k, c
<1> DEFINE r == [i \in 1..((n + k) + 1) |-> IF i <= n THEN p[i] ELSE q[i - n]]
<1>7. r \in [1..((n + k) + 1) -> States]
  <2> SUFFICES ASSUME NEW i \in 1..((n + k) + 1) PROVE (IF i <= n THEN p[i] ELSE q[i - n]) \in States
    OBVIOUS
  <2>1. i <= n => i \in 1..(n + 1)
    BY <1>1
  <2>2. ~(i <= n) => i - n \in 1..(k + 1)
    BY <1>1
  <2> QED BY <1>2, <1>3, <2>1, <2>2
<1>8. r[1] = s /\ r[(n + k) + 1] = u
  <2>1. 1 \in 1..((n + k) + 1) /\ (n + k) + 1 \in 1..((n + k) + 1) /\ ~((n + k) + 1 <= n)
        /\ ((n + k) + 1) - n = k + 1 /\ (~(1 <= n) => n = 0 /\ n + 1 = 1 /\ 1 - n = 1)
    BY <1>1
  <2> QED BY <1>2, <1>3, <2>1
<1>9. ASSUME NEW i \in 1..(n + k) PROVE Steps(r[i], c[i], r[i + 1])
  <2>1. i \in 1..((n + k) + 1) /\ i + 1 \in 1..((n + k) + 1)
    BY <1>1
  <2>2. CASE i < n
    <3>1. i \in 1..n /\ i <= n /\ i + 1 <= n
      BY <1>1, <2>2
    <3>2. r[i] = p[i] /\ r[i + 1] = p[i + 1] /\ c[i] = v[i]
      BY <1>6, <2>1, <3>1
    <3> QED BY <1>4, <3>1, <3>2
  <2>3. CASE i = n
    <3>1. i \in 1..n /\ i <= n /\ ~(i + 1 <= n) /\ (i + 1) - n = 1
      BY <1>1, <2>3
    <3>2. r[i] = p[i] /\ r[i + 1] = q[1] /\ c[i] = v[i] /\ q[1] = p[i + 1]
      BY <1>2, <1>3, <1>6, <2>1, <2>3, <3>1
    <3> QED BY <1>4, <3>1, <3>2
  <2>4. CASE i > n
    <3>1. i - n \in 1..k /\ ~(i <= n) /\ ~(i + 1 <= n) /\ (i + 1) - n = (i - n) + 1
      BY <1>1, <2>4
    <3>2. r[i] = q[i - n] /\ r[i + 1] = q[(i - n) + 1] /\ c[i] = w[i - n]
      BY <1>6, <2>1, <3>1
    <3> QED BY <1>5, <3>1, <3>2
  <2> QED BY <1>1, <2>2, <2>3, <2>4
<1> HIDE DEF r
<1>10. Path(c, r)
  BY <1>6, <1>9 DEF Path
<1>11. Run(c, s, u)
  BY <1>6, <1>7, <1>8, <1>10 DEF Run
<1> QED BY <1>11 DEF c

LEMMA RunCut ==
  ASSUME NEW v \in Seq(Bytes), NEW w \in Seq(Bytes), NEW s, NEW u, Run(v \o w, s, u)
  PROVE  \E t \in States : Run(v, s, t) /\ Run(w, t, u)
<1> DEFINE n == Len(v)
           k == Len(w)
           c == v \o w
<1>1. n \in Nat /\ k \in Nat
  OBVIOUS
<1>2. /\ Len(c) = n + k
      /\ \A i \in 1..(n + k) : c[i] = IF i <= n THEN v[i] ELSE w[i - n]
  BY ConcatProperties
<1>3. PICK r \in [1..((n + k) + 1) -> States] : r[1] = s /\ r[(n + k) + 1] = u /\ Path(c, r)
  <2> HIDE DEF c
  <2> QED BY <1>2 DEF Run, c
<1> HIDE DEF n, k, c
<1>4. \A i \in 1..(n + k) : Steps(r[i], c[i], r[i + 1])
  BY <1>2, <1>3 DEF Path
<1> DEFINE p == [i \in 1..(n + 1) |-> r[i]]
           q == [i \in 1..(k + 1) |-> r[n + i]]
<1>5. n + 1 \in 1..((n + k) + 1) /\ \A i \in 1..(n + 1) : i \in 1..((n + k) + 1)
  BY <1>1
<1>6. \A i \in 1..(k + 1) : n + i \in 1..((n + k) + 1)
  BY <1>1
<1>7. p \in [1..(n + 1) -> States] /\ q \in [1..(k + 1) -> States] /\ r[n + 1] \in States
  BY <1>3, <1>5, <1>6
<1>8. p[1] = s /\ p[n + 1] = r[n + 1] /\ q[1] = r[n + 1] /\ q[k + 1] = u
  <2>1. 1 \in 1..(n + 1) /\ n + 1 \in 1..(n + 1) /\ 1 \in 1..(k + 1) /\ k + 1 \in 1..(k + 1) /\ n + (k + 1) = (n + k) + 1
    BY <1>1
  <2> QED BY <1>3, <2>1
<1>9. ASSUME NEW i \in 1..n PROVE Steps(p[i], v[i], p[i + 1])
  <2>1. i \in 1..(n + 1) /\ i + 1 \in 1..(n + 1) /\ i \in 1..(n + k) /\ i <= n
    BY <1>1
  <2>2. p[i] = r[i] /\ p[i + 1] = r[i + 1] /\ c[i] = v[i]
    BY <1>2, <2>1
  <2> QED BY <1>4, <2>1, <2>2
<1>10. ASSUME NEW i \in 1..k PROVE Steps(q[i], w[i], q[i + 1])
  <2>1. i \in 1..(k + 1) /\ i + 1 \in 1..(k + 1) /\ n + i \in 1..(n + k) /\ ~(n + i <= n)
        /\ n + (i + 1) = (n + i) + 1 /\ (n + i) - n = i
    BY <1>1
  <2>2. q[i] = r[n + i] /\ q[i + 1] = r[(n + i) + 1] /\ c[n + i] = w[i]
    BY <1>2, <2>1
  <2> QED BY <1>4, <2>1, <2>2
<1> HIDE DEF p, q
<1>11. Run(v, s, r[n + 1])
  <2>1. Path(v, p)
    BY <1>9 DEF Path, n
  <2>2. p \in [1..(Len(v) + 1) -> States] /\ p[1] = s /\ p[Len(v) + 1] = r[n + 1]
    BY <1>7, <1>8 DEF n
  <2> QED BY <2>1, <2>2 DEF Run
<1>12. Run(w, r[n + 1], u)
  <2>1. Path(w, q)
    BY <1>10 DEF Path, k
  <2>2. q \in [1..(Len(w) + 1) -> States] /\ q[1] = r[n + 1] /\ q[Len(w) + 1] = u
    BY <1>7, <1>8 DEF k
  <2> QED BY <2>1, <2>2 DEF Run
<1> QED BY <1>7, <1>11, <1>12

LEMMA RunOne ==
  ASSUME NEW b \in Bytes, NEW s \in States, NEW t \in States
  PROVE  Run(<<b>>, s, t) <=> Steps(s, b, t)
<1>1. Len(<<b>>) = 1 /\ <<b>>[1] = b
  OBVIOUS
<1>2. ASSUME Steps(s, b, t) PROVE Run(<<b>>, s, t)
  <2> DEFINE p == [i \in 1..(1 + 1) |-> IF i = 1 THEN s ELSE t]
  <2>1. p \in [1..(1 + 1) -> States] /\ p[1] = s /\ p[1 + 1] = t
    OBVIOUS
  <2>2. \A i \in 1..1 : i = 1
    OBVIOUS
  <2> HIDE DEF p
  <2>3. Path(<<b>>, p)
    BY <1>1, <1>2, <2>1, <2>2 DEF Path
  <2> QED BY <1>1, <2>1, <2>3 DEF Run
<1>3. ASSUME Run(<<b>>, s, t) PROVE Steps(s, b, t)
  <2>1. PICK p : p[1] = s /\ p[Len(<<b>>) + 1] = t /\ Path(<<b>>, p)
    BY <1>3 DEF Run
  <2>2. 1 \in 1..Len(<<b>>)
    BY <1>1
  <2>3. Steps(p[1], <<b>>[1], p[1 + 1])
    BY <2>1, <2>2 DEF Path
  <2> QED BY <1>1, <2>1, <2>3
<1> QED BY <1>2, <1>3

\* A byte more that arrives, the first byte that is read, and an error.
LEMMA RunMore ==
  ASSUME NEW w \in Seq(Bytes), NEW b \in Bytes, NEW s \in States, NEW t \in States, NEW u \in States,
         Run(w, s, t), Steps(t, b, u)
  PROVE  Run(Append(w, b), s, u)
<1>1. Run(<<b>>, t, u) /\ <<b>> \in Seq(Bytes)
  BY RunOne
<1>2. Run(w \o <<b>>, s, u)
  BY <1>1, RunJoin
<1> QED BY <1>2, AppendIsConcat

LEMMA RunLess ==
  ASSUME NEW w \in Seq(Bytes), w # <<>>, NEW s \in States, NEW u \in States, Run(w, s, u)
  PROVE  \E t \in States : Steps(s, Head(w), t) /\ Run(Tail(w), t, u)
<1> DEFINE b == Head(w)
           v == Tail(w)
<1>1. w = <<b>> \o v /\ b \in Bytes /\ v \in Seq(Bytes) /\ <<b>> \in Seq(Bytes)
  BY HeadTailProperties
<1> HIDE DEF b, v
<1>2. Run(<<b>> \o v, s, u)
  BY <1>1
<1>3. PICK t \in States : Run(<<b>>, s, t) /\ Run(v, t, u)
  BY <1>1, <1>2, RunCut
<1>4. Steps(s, b, t)
  BY <1>1, <1>3, RunOne
<1> QED BY <1>3, <1>4 DEF b, v

LEMMA RunError ==
  ASSUME NEW w \in Seq(Bytes), NEW i \in 1..(Len(w) + 1), NEW s \in States, NEW u \in States, Run(w, s, u)
  PROVE  InsertAt(w, i, 0) \in Seq(Bytes) /\ Run(InsertAt(w, i, 0), s, u)
<1> DEFINE v == SubSeq(w, 1, i - 1)
           x == SubSeq(w, i, Len(w))
<1>1. v \in Seq(Bytes) /\ x \in Seq(Bytes) /\ w = v \o x
  <2>1. v \in Seq(Bytes) /\ x \in Seq(Bytes) /\ Len(v) = i - 1 /\ Len(x) = Len(w) - (i - 1)
        /\ (\A j \in 1..(i - 1) : v[j] = w[j]) /\ (\A j \in 1..(Len(w) - (i - 1)) : x[j] = w[(i + j) - 1])
    OBVIOUS
  <2>2. Len(w) \in Nat
    OBVIOUS
  <2> HIDE DEF v, x
  <2> DEFINE c == v \o x
  <2>3. c \in Seq(Bytes) /\ Len(c) = Len(v) + Len(x)
        /\ \A j \in 1..(Len(v) + Len(x)) : c[j] = IF j <= Len(v) THEN v[j] ELSE x[j - Len(v)]
    <3>1. v \in Seq(Bytes) /\ x \in Seq(Bytes)
      BY <2>1
    <3> QED BY <3>1, ConcatProperties
  <2> HIDE DEF c
  <2>4. Len(c) = Len(w)
    BY <2>1, <2>2, <2>3
  <2>5. ASSUME NEW j \in 1..Len(w) PROVE c[j] = w[j]
    <3>1. CASE j <= i - 1
      <4>1. j \in 1..(i - 1) /\ j \in 1..(Len(v) + Len(x)) /\ j <= Len(v)
        BY <2>1, <2>2, <3>1
      <4> QED BY <2>1, <2>3, <4>1
    <3>2. CASE ~(j <= i - 1)
      <4>1. /\ j - (i - 1) \in 1..(Len(w) - (i - 1)) /\ j \in 1..(Len(v) + Len(x)) /\ ~(j <= Len(v))
            /\ (i + (j - (i - 1))) - 1 = j /\ j - Len(v) = j - (i - 1)
        BY <2>1, <2>2, <3>2
      <4>2. x[j - (i - 1)] = w[j]
        BY <2>1, <4>1
      <4> QED BY <2>3, <4>1, <4>2
    <3> QED BY <3>1, <3>2
  <2>6. c = w
    <3>1. c = [j \in 1..Len(w) |-> c[j]] /\ w = [j \in 1..Len(w) |-> w[j]]
      BY <2>3, <2>4
    <3> QED BY <2>5, <3>1
  <2> QED BY <2>1, <2>6 DEF c
<1> HIDE DEF v, x
<1>2. Run(v \o x, s, u)
  BY <1>1
<1>3. PICK t \in States : Run(v, s, t) /\ Run(x, t, u)
  BY <1>1, <1>2, RunCut
<1>4. Steps(t, 0, t) /\ 0 \in Bytes
  <2>1. ~Code(0) /\ 0 # SC_EXTENDED
    BY DEF Code, ErrorBytes, SC_EXTENDED
  <2> QED BY <2>1 DEF Steps, ModsAfter, AwaitsAfter, KeyOf, Bytes
<1>5. Append(v, 0) \in Seq(Bytes) /\ Run(Append(v, 0), s, t)
  BY <1>1, <1>3, <1>4, RunMore
<1>6. Run(Append(v, 0) \o x, s, u)
  BY <1>1, <1>3, <1>5, RunJoin
<1>7. InsertAt(w, i, 0) = (v \o <<0>>) \o x
  BY DEF InsertAt, v, x
<1>8. v \o <<0>> = Append(v, 0)
  BY <1>1, <1>4, AppendIsConcat
<1>9. Append(v, 0) \o x \in Seq(Bytes)
  BY <1>1, <1>5, ConcatProperties
<1> QED BY <1>6, <1>7, <1>8, <1>9

\* What is owed later does not disturb what is owed first.
Owes(s, k) == At(s.m, s.x, Append(s.r, k))

LEMMA StepsOwing ==
  ASSUME NEW s \in States, NEW t \in States, NEW b, Steps(s, b, t), NEW k \in Names
  PROVE  Steps(Owes(s, k), b, Owes(t, k))
<1> DEFINE y == Owes(s, k)
           z == Owes(t, k)
<1>1. /\ y.m = s.m /\ y.x = s.x /\ y.r = Append(s.r, k)
      /\ z.m = t.m /\ z.x = t.x /\ z.r = Append(t.r, k)
  BY DEF Owes, At
<1>2. s.r \in Seq(Names) /\ t.r \in Seq(Names)
  BY DEF States
<1> HIDE DEF y, z
<1>3. KeyOf(y.m, y.x, b) = KeyOf(s.m, s.x, b)
  BY <1>1
<1>4. z.m = ModsAfter(y.m, y.x, b)
  BY <1>1 DEF Steps
<1>5. z.x = AwaitsAfter(y.x, b)
  BY <1>1 DEF Steps
<1>6. Steps(y, b, z)
  <2>1. CASE KeyOf(s.m, s.x, b) = None
    <3>1. z.r = y.r
      BY <1>1, <2>1 DEF Steps
    <3> QED BY <1>3, <1>4, <1>5, <2>1, <3>1 DEF Steps
  <2>2. CASE KeyOf(s.m, s.x, b) # None
    <3>1. s.r # <<>> /\ Head(s.r) = KeyOf(s.m, s.x, b) /\ t.r = Tail(s.r)
      BY <2>2 DEF Steps
    <3>2. y.r # <<>> /\ Head(y.r) = Head(s.r) /\ Tail(y.r) = Append(Tail(s.r), k)
      <4> DEFINE q == s.r
      <4>1. q \in Seq(Names) /\ q # <<>> /\ y.r = Append(q, k)
        BY <1>1, <1>2, <3>1
      <4> HIDE DEF q
      <4>2. Append(q, k) # <<>> /\ Head(Append(q, k)) = Head(q) /\ Tail(Append(q, k)) = Append(Tail(q), k)
        BY <4>1
      <4> QED BY <4>1, <4>2 DEF q
    <3>3. z.r = Tail(y.r) /\ Head(y.r) = KeyOf(y.m, y.x, b)
      BY <1>1, <1>3, <3>1, <3>2
    <3> QED BY <1>3, <1>4, <1>5, <2>2, <3>2, <3>3 DEF Steps
  <2> QED BY <2>1, <2>2
<1> QED BY <1>6 DEF y, z

LEMMA RunOwing ==
  ASSUME NEW w \in Seq(Bytes), NEW s \in States, NEW t \in States, Run(w, s, t), NEW k \in Names
  PROVE  Run(w, Owes(s, k), Owes(t, k))
<1> DEFINE n == Len(w)
<1>1. n \in Nat
  OBVIOUS
<1>2. PICK p \in [1..(n + 1) -> States] : p[1] = s /\ p[n + 1] = t /\ Path(w, p)
  BY DEF Run
<1> HIDE DEF n
<1>3. \A i \in 1..n : Steps(p[i], w[i], p[i + 1])
  BY <1>2 DEF Path, n
<1> DEFINE q == [i \in 1..(n + 1) |-> Owes(p[i], k)]
<1>4. q \in [1..(n + 1) -> States]
  BY <1>2 DEF States, Owes, At
<1>5. q[1] = Owes(s, k) /\ q[n + 1] = Owes(t, k)
  BY <1>1, <1>2
<1>6. ASSUME NEW i \in 1..n PROVE Steps(q[i], w[i], q[i + 1])
  <2>1. i \in 1..(n + 1) /\ i + 1 \in 1..(n + 1)
    BY <1>1
  <2>2. p[i] \in States /\ p[i + 1] \in States /\ Steps(p[i], w[i], p[i + 1])
    BY <1>2, <1>3, <2>1
  <2>3. q[i] = Owes(p[i], k) /\ q[i + 1] = Owes(p[i + 1], k)
    BY <2>1
  <2> QED BY <2>2, <2>3, StepsOwing
<1> HIDE DEF q
<1>7. Path(w, q)
  BY <1>6 DEF Path, n
<1> QED BY <1>4, <1>5, <1>7 DEF Run, n

-----------------------------------------------------------------------------
(* The modifiers that are down.                                             *)

Down(h, c) == (UNION {Modifier(k[1], k[2]) : k \in h}) \cup (IF c THEN {"CAPSLOCK"} ELSE {})

LEMMA ModifierFlags ==
  ASSUME NEW sc, NEW x \in BOOLEAN
  PROVE  Modifier(sc, x) \subseteq Flags \ {"CAPSLOCK"}
BY DEF Modifier, Flags

\* No two keys have a flag in common.
LEMMA OwnFlag ==
  ASSUME NEW sc, NEW x \in BOOLEAN, NEW f
  PROVE  f \in Modifier(sc, x) <=>
           \/ f = "LSHIFT" /\ sc = SC_LSHIFT /\ ~x
           \/ f = "RSHIFT" /\ sc = SC_RSHIFT /\ ~x
           \/ f = "LCTRL" /\ sc = SC_LCTRL /\ ~x
           \/ f = "RCTRL" /\ sc = SC_LCTRL /\ x
           \/ f = "LALT" /\ sc = SC_LALT /\ ~x
           \/ f = "RALT" /\ sc = SC_LALT /\ x
BY DEF Modifier, SC_LSHIFT, SC_RSHIFT, SC_LCTRL, SC_LALT

LEMMA KeyPair ==
  ASSUME NEW k \in Keys
  PROVE  /\ k[1] \in 1..127 /\ k[2] \in BOOLEAN /\ k = <<k[1], k[2]>>
         /\ k[1] \in Bytes /\ k[1] % Up(0) = k[1] /\ Code(k[1]) /\ ~Break(k[1])
         /\ Up(k[1]) \in Bytes /\ Up(k[1]) % Up(0) = k[1] /\ Code(Up(k[1])) /\ Break(Up(k[1]))
<1>1. k \in (1..127) \X BOOLEAN /\ Up(k[1]) \notin ErrorBytes \cup {SC_EXTENDED}
  BY KeyboardAssumption DEF Up
<1>2. k[1] \in 1..127 /\ k[2] \in BOOLEAN /\ k = <<k[1], k[2]>>
  BY <1>1
<1>3. k[1] \in Bytes /\ k[1] % 128 = k[1] /\ k[1] # 0 /\ k[1] < 128
  BY <1>2 DEF Bytes
<1>4. k[1] + 128 \in Bytes /\ (k[1] + 128) % 128 = k[1] /\ k[1] + 128 >= 128
  BY <1>2 DEF Bytes
<1>5. Up(0) = 128 /\ Up(k[1]) = k[1] + 128
  BY <1>2 DEF Up
<1>6. k[1] \notin ErrorBytes \cup {SC_EXTENDED}
  BY <1>3 DEF ErrorBytes, SC_EXTENDED
<1>7. Code(k[1]) /\ Code(Up(k[1]))
  BY <1>1, <1>6 DEF Code
<1>8. ~Break(k[1]) /\ Break(Up(k[1]))
  BY <1>2 DEF Break, Up
<1> QED BY <1>2, <1>3, <1>4, <1>5, <1>7, <1>8

LEMMA SameKey ==
  ASSUME NEW k \in Keys, NEW l \in Keys, NEW f \in Modifier(k[1], k[2]), f \in Modifier(l[1], l[2])
  PROVE  k = l
<1>1. k[2] \in BOOLEAN /\ l[2] \in BOOLEAN /\ k = <<k[1], k[2]>> /\ l = <<l[1], l[2]>>
  BY KeyPair
<1>2. k[1] = l[1] /\ (k[2] <=> l[2])
  BY <1>1, OwnFlag DEF SC_LSHIFT, SC_RSHIFT, SC_LCTRL, SC_LALT
<1>3. k[2] = l[2]
  BY <1>1, <1>2
<1> QED BY <1>1, <1>2, <1>3

LEMMA DownFacts ==
  ASSUME NEW h \in SUBSET Keys, NEW c \in BOOLEAN
  PROVE  /\ Down(h, c) \in SUBSET Flags
         /\ "LSHIFT" \in Down(h, c) <=> <<SC_LSHIFT, FALSE>> \in h
         /\ "RSHIFT" \in Down(h, c) <=> <<SC_RSHIFT, FALSE>> \in h
         /\ "LCTRL" \in Down(h, c) => \E k \in h : k[1] = SC_LCTRL
         /\ "CAPSLOCK" \in Down(h, c) <=> c
<1>1. \A k \in h : k[2] \in BOOLEAN /\ k = <<k[1], k[2]>>
  BY KeyPair
<1>2. \A k \in h : Modifier(k[1], k[2]) \subseteq Flags \ {"CAPSLOCK"}
  BY <1>1, ModifierFlags
<1>3. \A f : f \in Down(h, c) <=> (\E k \in h : f \in Modifier(k[1], k[2])) \/ (c /\ f = "CAPSLOCK")
  BY DEF Down
<1>4. Down(h, c) \in SUBSET Flags /\ ("CAPSLOCK" \in Down(h, c) <=> c)
  BY <1>2, <1>3 DEF Flags
<1>5. ASSUME NEW f, NEW k \in h
      PROVE  f \in Modifier(k[1], k[2]) <=>
               \/ f = "LSHIFT" /\ k[1] = SC_LSHIFT /\ ~k[2]
               \/ f = "RSHIFT" /\ k[1] = SC_RSHIFT /\ ~k[2]
               \/ f = "LCTRL" /\ k[1] = SC_LCTRL /\ ~k[2]
               \/ f = "RCTRL" /\ k[1] = SC_LCTRL /\ k[2]
               \/ f = "LALT" /\ k[1] = SC_LALT /\ ~k[2]
               \/ f = "RALT" /\ k[1] = SC_LALT /\ k[2]
  BY <1>1, OwnFlag
<1>6. "LSHIFT" \in Down(h, c) <=> \E k \in h : k[1] = SC_LSHIFT /\ ~k[2]
  BY <1>3, <1>5
<1>7. "RSHIFT" \in Down(h, c) <=> \E k \in h : k[1] = SC_RSHIFT /\ ~k[2]
  BY <1>3, <1>5
<1>8. "LCTRL" \in Down(h, c) => \E k \in h : k[1] = SC_LCTRL
  BY <1>3, <1>5
<1>9. ASSUME NEW sc PROVE (\E k \in h : k[1] = sc /\ ~k[2]) <=> <<sc, FALSE>> \in h
  <2>1. ASSUME NEW k \in h, k[1] = sc, ~k[2] PROVE <<sc, FALSE>> \in h
    <3>1. k[2] = FALSE
      BY <1>1, <2>1
    <3>2. k = <<sc, FALSE>>
      BY <1>1, <2>1, <3>1
    <3> QED BY <3>2
  <2>2. ASSUME <<sc, FALSE>> \in h PROVE \E k \in h : k[1] = sc /\ ~k[2]
    BY <2>2
  <2> QED BY <2>1, <2>2
<1> QED BY <1>4, <1>6, <1>7, <1>8, <1>9

LEMMA DownPress ==
  ASSUME NEW h \in SUBSET Keys, NEW c \in BOOLEAN, NEW k \in Keys
  PROVE  Down(h \cup {k}, c) = Down(h, c) \cup Modifier(k[1], k[2])
BY DEF Down

LEMMA DownRelease ==
  ASSUME NEW h \in SUBSET Keys, NEW c \in BOOLEAN, NEW k \in h
  PROVE  Down(h \ {k}, c) = Down(h, c) \ Modifier(k[1], k[2])
<1>1. \A l \in h : \A f : f \in Modifier(k[1], k[2]) /\ f \in Modifier(l[1], l[2]) => k = l
  BY SameKey
<1>2. "CAPSLOCK" \notin Modifier(k[1], k[2])
  BY KeyPair, ModifierFlags
<1> QED BY <1>1, <1>2 DEF Down

-----------------------------------------------------------------------------
(* The invariant.                                                           *)

\* The driver as it is, and as it is when it knows what is held.
Now == At(modifier_state, extended_prefix, owed)
Knows(h, c, r) == At(Down(h, c), FALSE, r)

KeyboardInv ==
  /\ held \subseteq Keys /\ caps \in BOOLEAN
  /\ wire \in Seq(Bytes) /\ owed \in Seq(Names)
  /\ modifier_state \in SUBSET Flags /\ extended_prefix \in BOOLEAN
  /\ Run(wire, Now, Knows(held, caps, <<>>))

LEMMA StateFacts ==
  ASSUME NEW m \in SUBSET Flags, NEW x \in BOOLEAN, NEW r \in Seq(Names)
  PROVE  /\ At(m, x, r) \in States
         /\ At(m, x, r).m = m /\ At(m, x, r).x = x /\ At(m, x, r).r = r
BY DEF At, States

LEMMA KnowsFacts ==
  ASSUME NEW h \in SUBSET Keys, NEW c \in BOOLEAN, NEW r \in Seq(Names)
  PROVE  /\ Knows(h, c, r) \in States /\ Knows(h, c, r).m = Down(h, c)
         /\ Knows(h, c, r).x = FALSE /\ Knows(h, c, r).r = r
<1> DEFINE m == Down(h, c)
<1>1. m \in SUBSET Flags /\ FALSE \in BOOLEAN
  BY DownFacts
<1> HIDE DEF m
<1>2. At(m, FALSE, r) \in States
  BY <1>1 DEF At, States
<1>3. At(m, FALSE, r).m = m /\ At(m, FALSE, r).x = FALSE /\ At(m, FALSE, r).r = r
  BY DEF At
<1>4. Knows(h, c, r) = At(m, FALSE, r)
  BY DEF Knows, m
<1> QED BY <1>2, <1>3, <1>4 DEF m

\* A byte that publishes nothing, and one that publishes what is owed.
LEMMA StepIs ==
  ASSUME NEW m \in SUBSET Flags, NEW x \in BOOLEAN, NEW b, NEW r, NEW q,
         NEW n \in SUBSET Flags, NEW y \in BOOLEAN, n = ModsAfter(m, x, b), y = AwaitsAfter(x, b),
         IF KeyOf(m, x, b) = None THEN q = r ELSE r = <<KeyOf(m, x, b)>> /\ q = <<>>
  PROVE  Steps(At(m, x, r), b, At(n, y, q))
<1> DEFINE s == At(m, x, r)
           t == At(n, y, q)
<1>1. s.m = m /\ s.x = x /\ s.r = r /\ t.m = n /\ t.x = y /\ t.r = q
  BY DEF At
<1> HIDE DEF s, t
<1>2. KeyOf(s.m, s.x, b) = KeyOf(m, x, b) /\ t.m = ModsAfter(s.m, s.x, b)
  BY <1>1
<1>3. t.x = AwaitsAfter(s.x, b)
  BY <1>1
<1>4. CASE KeyOf(m, x, b) = None
  <2>1. Steps(s, b, t)
    BY <1>1, <1>2, <1>3, <1>4 DEF Steps
  <2> QED BY <2>1 DEF s, t
<1>5. CASE KeyOf(m, x, b) # None
  <2>1. s.r # <<>> /\ Head(s.r) = KeyOf(s.m, s.x, b) /\ t.r = Tail(s.r)
    <3> DEFINE k == KeyOf(m, x, b)
    <3>1. r = <<k>> /\ q = <<>>
      BY <1>5
    <3> HIDE DEF k
    <3>2. <<k>> # <<>> /\ Head(<<k>>) = k /\ Tail(<<k>>) = <<>>
      OBVIOUS
    <3> QED BY <1>1, <1>2, <3>1, <3>2 DEF k
  <2>2. Steps(s, b, t)
    BY <1>2, <1>3, <1>5, <2>1 DEF Steps
  <2> QED BY <2>2 DEF s, t
<1> QED BY <1>4, <1>5

\* What the driver makes of the codes of a key.
LEMMA CodeSteps ==
  ASSUME NEW k \in Keys, NEW m, NEW x \in BOOLEAN
  PROVE  /\ ModsAfter(m, TRUE, k[1]) = m \cup Modifier(k[1], TRUE)
         /\ ModsAfter(m, FALSE, k[1]) = Updated(m, k[1])
         /\ ModsAfter(m, x, Up(k[1])) = m \ Modifier(k[1], x)
         /\ AwaitsAfter(x, k[1]) = FALSE /\ AwaitsAfter(x, Up(k[1])) = FALSE
         /\ KeyOf(m, TRUE, k[1]) = Arrow(k[1]) /\ KeyOf(m, x, Up(k[1])) = None
         /\ KeyOf(m, FALSE, k[1]) =
              Typed(k[1], AnyShift(Updated(m, k[1])), "CAPSLOCK" \in Updated(m, k[1]))
<1> DEFINE b == k[1]
           u == Up(k[1])
<1>1. b % Up(0) = b /\ Code(b) /\ ~Break(b) /\ u % Up(0) = b /\ Code(u) /\ Break(u)
  BY KeyPair
<1> HIDE DEF b, u
<1>2. b # SC_EXTENDED /\ u # SC_EXTENDED
  BY <1>1 DEF Code
<1>3. /\ ModsAfter(m, TRUE, b) = m \cup Modifier(b, TRUE)
      /\ ModsAfter(m, FALSE, b) = Updated(m, b)
      /\ ModsAfter(m, x, u) = m \ Modifier(b, x)
  BY <1>1 DEF ModsAfter
<1>4. AwaitsAfter(x, b) = FALSE /\ AwaitsAfter(x, u) = FALSE
  BY <1>1, <1>2 DEF AwaitsAfter
<1>5. /\ KeyOf(m, TRUE, b) = Arrow(b) /\ KeyOf(m, x, u) = None
      /\ KeyOf(m, FALSE, b) = Typed(b, AnyShift(Updated(m, b)), "CAPSLOCK" \in Updated(m, b))
  BY <1>1 DEF KeyOf
<1> QED BY <1>3, <1>4, <1>5 DEF b, u

\* Shift, Caps Lock and what has no character.
LEMMA NoCharacter ==
  ASSUME NEW sc \in {SC_LSHIFT, SC_RSHIFT, SC_CAPSLOCK}, NEW shift, NEW capslock
  PROVE  Typed(sc, shift, capslock) = None
<1>1. sc \notin Shifted /\ sc \notin Unshifted
  BY DEF Shifted, Unshifted, SC_LSHIFT, SC_RSHIFT, SC_CAPSLOCK
<1>2. \A on : Ascii(sc, on) = None
  BY <1>1 DEF Ascii
<1> QED BY <1>2 DEF Typed

LEMMA TypedName ==
  ASSUME NEW sc \in Nat, NEW shift \in BOOLEAN, NEW capslock \in BOOLEAN
  PROVE  Typed(sc, shift, capslock) \in Names \cup {None}
<1>1. ASSUME NEW on \in BOOLEAN PROVE Ascii(sc, on) \in Names \cup {None}
  <2>1. <<sc, on>> \in Names
    BY DEF Names
  <2> QED BY <2>1 DEF Ascii
<1> DEFINE on == IF is_letter(sc) /\ capslock THEN ~shift ELSE shift
<1>2. on \in BOOLEAN /\ Typed(sc, shift, capslock) = Ascii(sc, on)
  BY DEF Typed
<1> HIDE DEF on
<1> QED BY <1>1, <1>2

\* What a key means is what the driver makes of it, in the state that it is in
\* when it has read every byte before.
LEMMA MeaningRead ==
  ASSUME held \subseteq Keys, caps \in BOOLEAN, NEW k \in Keys,
         held' = held \cup {k}, caps' = (caps # (k = <<SC_CAPSLOCK, FALSE>>))
  PROVE  /\ ~k[2] => /\ KeyOf(Down(held, caps), FALSE, k[1]) = Meaning(k)
                     /\ Updated(Down(held, caps), k[1]) = Down(held', caps')
         /\ k[2] => /\ KeyOf(Down(held, caps), TRUE, k[1]) = Meaning(k)
                    /\ Down(held, caps) \cup Modifier(k[1], TRUE) = Down(held', caps')
         /\ Meaning(k) \in Names \cup {None} /\ None \notin Names
<1> DEFINE m == Down(held, caps)
           sc == k[1]
           h == held'
           c == caps'
<1>1. k[2] \in BOOLEAN /\ k = <<sc, k[2]>> /\ sc \in 1..127
  BY KeyPair
<1>2. Down(h, caps) = m \cup Modifier(sc, k[2])
  BY DownPress
<1>3. m \in SUBSET Flags /\ ("CAPSLOCK" \in m <=> caps)
  BY DownFacts
<1>4. AnyShift(m) <=> {<<SC_LSHIFT, FALSE>>, <<SC_RSHIFT, FALSE>>} \cap held # {}
  BY DownFacts DEF AnyShift
<1>5. Meaning(k) \in Names \cup {None} /\ None \notin Names
  <2>1. None \notin Names
    BY DEF None, Names
  <2>2. Arrow(sc) \in Names \cup {None}
    BY <1>1 DEF Arrow, Names
  <2> DEFINE shift == {<<SC_LSHIFT, FALSE>>, <<SC_RSHIFT, FALSE>>} \cap held # {}
  <2>3. shift \in BOOLEAN
    OBVIOUS
  <2>4. Meaning(k) = IF k[2] THEN Arrow(sc) ELSE Typed(sc, shift, caps)
    BY DEF Meaning
  <2> HIDE DEF shift
  <2>5. Typed(sc, shift, caps) \in Names \cup {None}
    BY <1>1, <2>3, TypedName
  <2> QED BY <2>1, <2>2, <2>4, <2>5
<1> HIDE DEF m
<1>6. CASE k[2]
  <2>1. k[2] = TRUE /\ k # <<SC_CAPSLOCK, FALSE>>
    <3>1. k[2] = TRUE
      BY <1>1, <1>6
    <3>2. k = <<SC_CAPSLOCK, FALSE>> => k[2] = FALSE
      OBVIOUS
    <3> QED BY <3>1, <3>2
  <2>2. c = caps
    BY <2>1
  <2>3. m \cup Modifier(sc, TRUE) = Down(h, c)
    BY <1>2, <2>1, <2>2
  <2>4. KeyOf(m, TRUE, sc) = Meaning(k)
    BY <1>6, CodeSteps DEF Meaning
  <2> QED BY <1>5, <1>6, <2>3, <2>4 DEF m
<1>7. CASE ~k[2]
  <2>1. k[2] = FALSE /\ k = <<sc, FALSE>>
    BY <1>1, <1>7
  <2>2. KeyOf(m, FALSE, sc) = Typed(sc, AnyShift(Updated(m, sc)), "CAPSLOCK" \in Updated(m, sc))
    BY CodeSteps
  <2>3. CASE sc = SC_CAPSLOCK
    <3>1. c = ~caps
      BY <2>1, <2>3
    <3>2. Modifier(sc, FALSE) = {}
      BY <2>3 DEF Modifier, SC_CAPSLOCK, SC_LSHIFT, SC_RSHIFT, SC_LCTRL, SC_LALT
    <3>3. Updated(m, sc) = Down(h, c)
      <4>1. Down(h, caps) = m
        BY <1>2, <2>1, <3>2
      <4>2. Updated(m, sc) = Toggled(m)
        BY <2>3 DEF Updated
      <4>3. \A f : f \in Down(h, c) <=> (\E l \in h : f \in Modifier(l[1], l[2])) \/ (c /\ f = "CAPSLOCK")
        BY DEF Down
      <4>4. \A f : f \in Down(h, caps) <=> (\E l \in h : f \in Modifier(l[1], l[2])) \/ (caps /\ f = "CAPSLOCK")
        BY DEF Down
      <4>5. \A l \in h : "CAPSLOCK" \notin Modifier(l[1], l[2])
        BY KeyPair, ModifierFlags
      <4>6. \A f : f \in Toggled(m) <=>
                   \/ f \in m /\ f # "CAPSLOCK"
                   \/ f = "CAPSLOCK" /\ "CAPSLOCK" \notin m
        BY DEF Toggled
      <4>7. \A f : f \in Toggled(m) <=> f \in Down(h, c)
        BY <3>1, <4>1, <4>3, <4>4, <4>5, <4>6
      <4> QED BY <4>2, <4>7
    <3>4. Typed(sc, AnyShift(Updated(m, sc)), "CAPSLOCK" \in Updated(m, sc)) = None
      BY <2>3, NoCharacter
    <3>5. Meaning(k) = None
      BY <1>7, <2>3, NoCharacter DEF Meaning
    <3> QED BY <1>5, <1>7, <2>2, <3>3, <3>4, <3>5 DEF m
  <2>4. CASE sc # SC_CAPSLOCK
    <3>1. c = caps
      <4>1. k = <<SC_CAPSLOCK, FALSE>> => sc = SC_CAPSLOCK
        OBVIOUS
      <4>2. k # <<SC_CAPSLOCK, FALSE>>
        BY <2>4, <4>1
      <4> QED BY <4>2
    <3>2. Updated(m, sc) = m \cup Modifier(sc, FALSE)
      BY <2>4 DEF Updated
    <3>3. Updated(m, sc) = Down(h, c)
      BY <1>2, <2>1, <3>1, <3>2
    <3>4. CASE sc \in {SC_LSHIFT, SC_RSHIFT}
      <4>1. KeyOf(m, FALSE, sc) = None
        BY <2>2, <3>4, NoCharacter
      <4>2. Meaning(k) = None
        BY <1>7, <3>4, NoCharacter DEF Meaning
      <4> QED BY <1>5, <1>7, <3>3, <4>1, <4>2 DEF m
    <3>5. CASE sc \notin {SC_LSHIFT, SC_RSHIFT}
      <4>1. "LSHIFT" \notin Modifier(sc, FALSE) /\ "RSHIFT" \notin Modifier(sc, FALSE)
            /\ "CAPSLOCK" \notin Modifier(sc, FALSE)
        BY <3>5 DEF Modifier
      <4>2. AnyShift(Updated(m, sc)) <=> AnyShift(m)
        BY <3>2, <4>1 DEF AnyShift
      <4>3. "CAPSLOCK" \in Updated(m, sc) <=> caps
        BY <1>3, <3>2, <4>1
      <4>4. Typed(sc, AnyShift(Updated(m, sc)), "CAPSLOCK" \in Updated(m, sc)) = Meaning(k)
        <5>1. AnyShift(Updated(m, sc)) = ({<<SC_LSHIFT, FALSE>>, <<SC_RSHIFT, FALSE>>} \cap held # {})
          BY <1>4, <4>2 DEF AnyShift
        <5>2. ("CAPSLOCK" \in Updated(m, sc)) = caps
          BY <4>3
        <5> QED BY <1>7, <5>1, <5>2 DEF Meaning
      <4> QED BY <1>5, <1>7, <2>2, <3>3, <4>4 DEF m
    <3> QED BY <3>4, <3>5
  <2> QED BY <2>3, <2>4
<1> QED BY <1>1, <1>6, <1>7

\* Bytes that are sent and lead from what the keyboard knew to what it knows
\* keep the invariant.
LEMMA Sent ==
  ASSUME KeyboardInv, NEW bytes \in Seq(Bytes), wire' = wire \o bytes, UNCHANGED driver,
         held' \subseteq Keys, caps' \in BOOLEAN, NEW n \in Names \cup {None},
         owed' = (IF n = None THEN owed ELSE Append(owed, n)),
         Run(bytes, Knows(held, caps, IF n = None THEN <<>> ELSE <<n>>), Knows(held', caps', <<>>))
  PROVE  KeyboardInv'
<1>1. /\ held \subseteq Keys /\ caps \in BOOLEAN /\ wire \in Seq(Bytes) /\ owed \in Seq(Names)
      /\ modifier_state \in SUBSET Flags /\ extended_prefix \in BOOLEAN
      /\ Run(wire, Now, Knows(held, caps, <<>>))
  BY DEF KeyboardInv
<1>2. modifier_state' = modifier_state /\ extended_prefix' = extended_prefix
  BY DEF driver
<1>3. wire \o bytes \in Seq(Bytes)
  BY <1>1, ConcatProperties
<1>4. owed' \in Seq(Names)
  BY <1>1
<1>5. <<>> \in Seq(Names)
  OBVIOUS
<1>6. Now \in States /\ Now.m = modifier_state /\ Now.x = extended_prefix /\ Now.r = owed
  BY <1>1, StateFacts DEF Now
<1>7. Knows(held, caps, <<>>) \in States /\ Knows(held, caps, <<>>).m = Down(held, caps)
      /\ Knows(held, caps, <<>>).x = FALSE /\ Knows(held, caps, <<>>).r = <<>>
  BY <1>1, <1>5, KnowsFacts
<1>8. CASE n = None
  <2>1. Now' = Now
    BY <1>2, <1>8 DEF Now
  <2>2. Run(wire \o bytes, Now, Knows(held', caps', <<>>))
    BY <1>1, <1>8, RunJoin
  <2> QED BY <1>1, <1>2, <1>3, <1>4, <2>1, <2>2 DEF KeyboardInv
<1>9. CASE n # None
  <2>1. n \in Names
    BY <1>9
  <2>2. Run(wire, Owes(Now, n), Owes(Knows(held, caps, <<>>), n))
    BY <1>1, <1>6, <1>7, <2>1, RunOwing
  <2>3. Owes(Now, n) = Now'
    BY <1>2, <1>6, <1>9 DEF Owes, Now
  <2>4. Owes(Knows(held, caps, <<>>), n) = Knows(held, caps, <<n>>)
    <3>1. Append(<<>>, n) = <<n>>
      OBVIOUS
    <3> QED BY <1>7, <3>1 DEF Owes, Knows
  <2>5. Run(bytes, Knows(held, caps, <<n>>), Knows(held', caps', <<>>))
    BY <1>9
  <2>6. Run(wire \o bytes, Now', Knows(held', caps', <<>>))
    <3>1. Run(wire, Now', Knows(held, caps, <<n>>))
      BY <2>2, <2>3, <2>4
    <3> QED BY <1>1, <2>5, <3>1, RunJoin
  <2> QED BY <1>1, <1>2, <1>3, <1>4, <2>6 DEF KeyboardInv
<1> QED BY <1>8, <1>9

LEMMA AppendTwo ==
  ASSUME NEW a \in Bytes, NEW b \in Bytes
  PROVE  Append(<<a>>, b) = <<a, b>> /\ <<a, b>> \in Seq(Bytes)
<1> DEFINE u == Append(<<a>>, b)
           v == <<a, b>>
<1>1. u \in Seq(Bytes) /\ v \in Seq(Bytes) /\ Len(u) = 2 /\ Len(v) = 2
  OBVIOUS
<1>2. u[1] = a /\ u[2] = b /\ v[1] = a /\ v[2] = b
  OBVIOUS
<1> HIDE DEF u, v
<1>3. \A i \in 1..2 : i = 1 \/ i = 2
  OBVIOUS
<1>4. \A i \in 1..Len(u) : u[i] = v[i]
  BY <1>1, <1>2, <1>3
<1>5. u = v
  BY <1>1, <1>4, SeqEqual
<1> QED BY <1>1, <1>5 DEF u, v

\* A prefix, and the code after it.
LEMMA RunPrefixed ==
  ASSUME NEW b \in Bytes, NEW m \in SUBSET Flags, NEW r \in Seq(Names),
         NEW t \in States, Steps(At(m, TRUE, r), b, t)
  PROVE  <<SC_EXTENDED, b>> \in Seq(Bytes) /\ Run(<<SC_EXTENDED, b>>, At(m, FALSE, r), t)
<1>1. At(m, FALSE, r) \in States /\ At(m, TRUE, r) \in States
  BY DEF At, States
<1>2. ~Code(SC_EXTENDED) /\ SC_EXTENDED \in Bytes
  BY DEF Code, SC_EXTENDED, Bytes
<1>3. Steps(At(m, FALSE, r), SC_EXTENDED, At(m, TRUE, r))
  <2>1. ModsAfter(m, FALSE, SC_EXTENDED) = m /\ KeyOf(m, FALSE, SC_EXTENDED) = None
    BY <1>2 DEF ModsAfter, KeyOf
  <2>2. AwaitsAfter(FALSE, SC_EXTENDED) = TRUE
    BY DEF AwaitsAfter
  <2> QED BY <2>1, <2>2, StepIs
<1>4. <<SC_EXTENDED>> \in Seq(Bytes)
  BY <1>2
<1>5. Run(<<SC_EXTENDED>>, At(m, FALSE, r), At(m, TRUE, r))
  BY <1>1, <1>2, <1>3, RunOne
<1>6. Run(Append(<<SC_EXTENDED>>, b), At(m, FALSE, r), t)
  BY <1>1, <1>4, <1>5, RunMore
<1>7. Append(<<SC_EXTENDED>>, b) = <<SC_EXTENDED, b>> /\ <<SC_EXTENDED, b>> \in Seq(Bytes)
  BY <1>2, AppendTwo, Zenon
<1> QED BY <1>6, <1>7

\* A Shift that is only pretended changes nothing.
LEMMA FakeRuns ==
  ASSUME NEW f \in FakeShifts, NEW m \in SUBSET Flags, NEW r \in Seq(Names)
  PROVE  f \in Seq(Bytes) /\ Run(f, At(m, FALSE, r), At(m, FALSE, r))
<1>1. At(m, FALSE, r) \in States
  BY DEF At, States
<1>2. CASE f = <<>>
  <2> DEFINE s == At(m, FALSE, r)
  <2>1. s \in States
    BY <1>1
  <2> HIDE DEF s
  <2>2. Run(<<>>, s, s) /\ <<>> \in Seq(Bytes)
    BY <2>1, RunNone
  <2> QED BY <1>2, <2>2 DEF s
<1>3. ASSUME NEW b \in {SC_LSHIFT, Up(SC_LSHIFT), Up(SC_RSHIFT)}
      PROVE  <<SC_EXTENDED, b>> \in Seq(Bytes) /\ Run(<<SC_EXTENDED, b>>, At(m, FALSE, r), At(m, FALSE, r))
  <2>1. b \in {42, 170, 182} /\ b \in Bytes
    BY DEF SC_LSHIFT, SC_RSHIFT, Up, Bytes
  <2>2. Code(b) /\ b # SC_EXTENDED
    BY <2>1 DEF Code, ErrorBytes, SC_EXTENDED
  <2>3. b % Up(0) \in {42, 54} /\ (~Break(b) => b % Up(0) = 42)
    BY <2>1 DEF Up, Break
  <2>4. Modifier(b % Up(0), TRUE) = {} /\ (~Break(b) => Arrow(b % Up(0)) = None)
    BY <2>3 DEF Modifier, Arrow, SC_ARROWS, SC_LSHIFT, SC_RSHIFT, SC_LCTRL, SC_LALT
  <2>5. ModsAfter(m, TRUE, b) = m
    BY <2>2, <2>4 DEF ModsAfter
  <2>6. AwaitsAfter(TRUE, b) = FALSE
    BY <2>2 DEF AwaitsAfter
  <2>7. KeyOf(m, TRUE, b) = None
    BY <2>2, <2>4 DEF KeyOf
  <2>8. Steps(At(m, TRUE, r), b, At(m, FALSE, r))
    BY <2>5, <2>6, <2>7, StepIs
  <2> QED BY <1>1, <2>1, <2>8, RunPrefixed
<1> QED BY <1>2, <1>3 DEF FakeShifts

-----------------------------------------------------------------------------
(* What the keyboard sends.                                                 *)

LEMMA PressSent ==
  ASSUME KeyboardInv, NEW k \in Keys, Press(k)
  PROVE  KeyboardInv'
<1> DEFINE m == Down(held, caps)
           h == held \cup {k}
           c == (caps # (k = <<SC_CAPSLOCK, FALSE>>))
           n == Meaning(k)
           r == IF n = None THEN <<>> ELSE <<n>>
<1>1. /\ held \subseteq Keys /\ caps \in BOOLEAN /\ owed \in Seq(Names)
      /\ held' = h /\ caps' = c /\ owed' = (IF n = None THEN owed ELSE Append(owed, n))
      /\ h \subseteq Keys /\ c \in BOOLEAN
  BY DEF KeyboardInv, Press
<1>2. /\ ~k[2] => KeyOf(m, FALSE, k[1]) = n /\ Updated(m, k[1]) = Down(h, c)
      /\ k[2] => KeyOf(m, TRUE, k[1]) = n /\ m \cup Modifier(k[1], TRUE) = Down(h, c)
      /\ n \in Names \cup {None} /\ None \notin Names
  <2>1. held' = held \cup {k} /\ caps' = (caps # (k = <<SC_CAPSLOCK, FALSE>>))
    BY DEF Press
  <2> HIDE DEF h, c
  <2> QED BY <1>1, <2>1, MeaningRead
<1>3. m \in SUBSET Flags /\ Down(h, c) \in SUBSET Flags
  BY <1>1, DownFacts
<1>4. r \in Seq(Names) /\ <<>> \in Seq(Names)
  BY <1>2
<1>5. k[1] \in Bytes
  BY KeyPair
<1>6. \A a \in BOOLEAN : AwaitsAfter(a, k[1]) = FALSE
  BY CodeSteps
<1>7. /\ At(m, FALSE, r) = Knows(held, caps, IF n = None THEN <<>> ELSE <<n>>)
      /\ At(Down(h, c), FALSE, <<>>) = Knows(held', caps', <<>>)
  BY <1>1 DEF Knows
<1>8. At(Down(h, c), FALSE, <<>>) \in States /\ At(m, FALSE, r) \in States
  BY <1>3, <1>4 DEF At, States
<1>9. IF n = None THEN <<>> = r ELSE r = <<n>>
  OBVIOUS
<1> HIDE DEF m, h, c, n, r
<1>10. CASE k[2]
  <2>1. PICK f \in FakeShifts : Sends(f \o <<SC_EXTENDED, k[1]>>)
    BY <1>10 DEF Press
  <2>2. f \in Seq(Bytes) /\ Run(f, At(m, FALSE, r), At(m, FALSE, r))
    BY <1>3, <1>4, FakeRuns
  <2>3. ModsAfter(m, TRUE, k[1]) = Down(h, c) /\ KeyOf(m, TRUE, k[1]) = n
    BY <1>2, <1>10, CodeSteps
  <2>4. Steps(At(m, TRUE, r), k[1], At(Down(h, c), FALSE, <<>>))
    BY <1>3, <1>6, <1>9, <2>3, StepIs
  <2>5. /\ <<SC_EXTENDED, k[1]>> \in Seq(Bytes)
        /\ Run(<<SC_EXTENDED, k[1]>>, At(m, FALSE, r), At(Down(h, c), FALSE, <<>>))
    BY <1>3, <1>4, <1>5, <1>8, <2>4, RunPrefixed
  <2> DEFINE e == <<SC_EXTENDED, k[1]>>
  <2>6. wire' = wire \o (f \o e) /\ UNCHANGED driver
    BY <2>1 DEF Sends
  <2> HIDE DEF e
  <2>7. f \o e \in Seq(Bytes) /\ Run(f \o e, At(m, FALSE, r), At(Down(h, c), FALSE, <<>>))
    <3>1. e \in Seq(Bytes) /\ Run(e, At(m, FALSE, r), At(Down(h, c), FALSE, <<>>))
      BY <2>5 DEF e
    <3> QED BY <2>2, <3>1, RunJoin, ConcatProperties
  <2> QED BY <1>1, <1>2, <1>7, <2>6, <2>7, Sent
<1>11. CASE ~k[2]
  <2>1. Sends(<<k[1]>>)
    BY <1>11 DEF Press
  <2>2. ModsAfter(m, FALSE, k[1]) = Down(h, c) /\ KeyOf(m, FALSE, k[1]) = n
    <3>1. ModsAfter(m, FALSE, k[1]) = Updated(m, k[1])
      BY CodeSteps
    <3> QED BY <1>2, <1>11, <3>1
  <2>3. Steps(At(m, FALSE, r), k[1], At(Down(h, c), FALSE, <<>>))
    BY <1>3, <1>6, <1>9, <2>2, StepIs
  <2> DEFINE b == k[1]
             s == At(m, FALSE, r)
             t == At(Down(h, c), FALSE, <<>>)
  <2>4. b \in Bytes /\ s \in States /\ t \in States /\ Steps(s, b, t)
    BY <1>5, <1>8, <2>3
  <2> HIDE DEF b, s, t
  <2>5. <<b>> \in Seq(Bytes) /\ Run(<<b>>, s, t)
    BY <2>4, RunOne
  <2>6. wire' = wire \o <<b>> /\ UNCHANGED driver
    BY <2>1 DEF Sends, b
  <2> QED BY <1>1, <1>2, <1>7, <2>5, <2>6, Sent DEF s, t
<1> QED BY <1>10, <1>11

LEMMA ReleaseSent ==
  ASSUME KeyboardInv, NEW k \in Keys, Release(k)
  PROVE  KeyboardInv'
<1> DEFINE m == Down(held, caps)
           g == Down(held \ {k}, caps)
<1>1. /\ held \subseteq Keys /\ caps \in BOOLEAN /\ owed \in Seq(Names) /\ k \in held
      /\ held' = held \ {k} /\ caps' = caps /\ owed' = owed /\ held \ {k} \subseteq Keys
  BY DEF KeyboardInv, Release
<1>2. g = m \ Modifier(k[1], k[2])
  BY <1>1, DownRelease
<1>3. m \in SUBSET Flags /\ g \in SUBSET Flags
  BY <1>1, DownFacts
<1>4. <<>> \in Seq(Names) /\ k[2] \in BOOLEAN /\ Up(k[1]) \in Bytes
  BY KeyPair
<1>5. /\ At(m, FALSE, <<>>) = Knows(held, caps, <<>>)
      /\ At(g, FALSE, <<>>) = Knows(held', caps', <<>>)
  BY <1>1 DEF Knows
<1>6. At(g, FALSE, <<>>) \in States /\ At(m, FALSE, <<>>) \in States
  BY <1>3, <1>4 DEF At, States
<1>7. \A x \in BOOLEAN : /\ AwaitsAfter(x, Up(k[1])) = FALSE
                         /\ ModsAfter(m, x, Up(k[1])) = m \ Modifier(k[1], x)
                         /\ KeyOf(m, x, Up(k[1])) = None
  BY CodeSteps
<1>8. ModsAfter(m, k[2], Up(k[1])) = g
  BY <1>2, <1>4, <1>7
<1> HIDE DEF m, g
<1>9. ASSUME NEW x \in BOOLEAN, x = k[2] PROVE Steps(At(m, x, <<>>), Up(k[1]), At(g, FALSE, <<>>))
  <2>1. ModsAfter(m, x, Up(k[1])) = g /\ KeyOf(m, x, Up(k[1])) = None
    BY <1>7, <1>8, <1>9
  <2>2. AwaitsAfter(x, Up(k[1])) = FALSE
    BY <1>7
  <2> QED BY <1>3, <1>4, <2>1, <2>2, StepIs
<1>10. CASE k[2]
  <2>1. PICK f \in FakeShifts : Sends(<<SC_EXTENDED, Up(k[1])>> \o f)
    BY <1>10 DEF Release
  <2>2. f \in Seq(Bytes) /\ Run(f, At(g, FALSE, <<>>), At(g, FALSE, <<>>))
    BY <1>3, <1>4, FakeRuns
  <2>3. k[2] = TRUE
    BY <1>4, <1>10
  <2>4. Steps(At(m, TRUE, <<>>), Up(k[1]), At(g, FALSE, <<>>))
    BY <1>9, <2>3
  <2> DEFINE e == <<SC_EXTENDED, Up(k[1])>>
  <2>5. e \in Seq(Bytes) /\ Run(e, At(m, FALSE, <<>>), At(g, FALSE, <<>>))
    BY <1>3, <1>4, <1>6, <2>4, RunPrefixed
  <2>6. wire' = wire \o (e \o f) /\ UNCHANGED driver
    BY <2>1 DEF Sends
  <2> HIDE DEF e
  <2>7. e \o f \in Seq(Bytes) /\ Run(e \o f, At(m, FALSE, <<>>), At(g, FALSE, <<>>))
    BY <2>2, <2>5, RunJoin, ConcatProperties
  <2> QED BY <1>1, <1>5, <2>6, <2>7, Sent
<1>11. CASE ~k[2]
  <2>1. Sends(<<Up(k[1])>>)
    BY <1>11 DEF Release
  <2>2. k[2] = FALSE
    BY <1>4, <1>11
  <2> DEFINE b == Up(k[1])
             s == At(m, FALSE, <<>>)
             t == At(g, FALSE, <<>>)
  <2>3. b \in Bytes /\ s \in States /\ t \in States /\ Steps(s, b, t)
    BY <1>4, <1>6, <1>9, <2>2
  <2>4. wire' = wire \o <<b>> /\ UNCHANGED driver
    BY <2>1 DEF Sends
  <2> HIDE DEF b, s, t
  <2>5. <<b>> \in Seq(Bytes) /\ Run(<<b>>, s, t)
    BY <2>3, RunOne
  <2>6. s = Knows(held, caps, <<>>) /\ t = Knows(held', caps', <<>>)
    BY <1>5 DEF s, t
  <2> QED BY <1>1, <2>4, <2>5, <2>6, Sent
<1> QED BY <1>10, <1>11

LEMMA PauseSent ==
  ASSUME KeyboardInv, Pause
  PROVE  KeyboardInv'
<1> DEFINE m == Down(held, caps)
           s == At(m, FALSE, <<>>)
<1>1. /\ held \subseteq Keys /\ caps \in BOOLEAN /\ owed \in Seq(Names)
      /\ held' = held /\ caps' = caps /\ owed' = owed /\ \A k \in held : k[1] # SC_LCTRL
      /\ wire' = wire \o <<225, 29, 69, 225, 157, 197>> /\ UNCHANGED driver
  BY DEF KeyboardInv, Pause, Sends, SC_LCTRL, Up
<1>2. m \in SUBSET Flags /\ "LCTRL" \notin m
  BY <1>1, DownFacts
<1> HIDE DEF m
<1> DEFINE c == m \cup {"LCTRL"}
           t == At(c, FALSE, <<>>)
<1>3. c \in SUBSET Flags /\ c \ {"LCTRL"} = m
  BY <1>2 DEF Flags
<1>4. s \in States /\ t \in States
  BY <1>2, <1>3 DEF At, States
<1>5. ASSUME NEW n \in SUBSET Flags
      PROVE  /\ ModsAfter(n, FALSE, 225) = n /\ KeyOf(n, FALSE, 225) = None
             /\ ModsAfter(n, FALSE, 29) = n \cup {"LCTRL"} /\ KeyOf(n, FALSE, 29) = None
             /\ ModsAfter(n, FALSE, 69) = n /\ KeyOf(n, FALSE, 69) = None
             /\ ModsAfter(n, FALSE, 157) = n \ {"LCTRL"} /\ KeyOf(n, FALSE, 157) = None
             /\ ModsAfter(n, FALSE, 197) = n /\ KeyOf(n, FALSE, 197) = None
  <2>1. /\ ~Code(225) /\ Code(29) /\ Code(69) /\ Code(157) /\ Code(197)
        /\ ~Break(29) /\ ~Break(69) /\ Break(157) /\ Break(197)
        /\ 29 % Up(0) = 29 /\ 69 % Up(0) = 69 /\ 157 % Up(0) = 29 /\ 197 % Up(0) = 69
    BY DEF Code, Break, ErrorBytes, SC_EXTENDED, Up
  <2>2. Modifier(29, FALSE) = {"LCTRL"} /\ Modifier(69, FALSE) = {}
    BY DEF Modifier, SC_LSHIFT, SC_RSHIFT, SC_LCTRL, SC_LALT
  <2>3. Updated(n, 29) = n \cup Modifier(29, FALSE) /\ Updated(n, 69) = n \cup Modifier(69, FALSE)
    BY DEF Updated, SC_CAPSLOCK
  <2>4. /\ ModsAfter(n, FALSE, 225) = n /\ ModsAfter(n, FALSE, 29) = n \cup {"LCTRL"}
        /\ ModsAfter(n, FALSE, 69) = n /\ ModsAfter(n, FALSE, 157) = n \ {"LCTRL"}
        /\ ModsAfter(n, FALSE, 197) = n
    <3> DEFINE ctrl == Modifier(29, FALSE)
               lock == Modifier(69, FALSE)
    <3>1. ModsAfter(n, FALSE, 225) = n
      BY <2>1 DEF ModsAfter
    <3>2. ModsAfter(n, FALSE, 29) = Updated(n, 29) /\ ModsAfter(n, FALSE, 69) = Updated(n, 69)
      BY <2>1 DEF ModsAfter
    <3>3. ASSUME NEW u, Code(u), Break(u), NEW b, b = u % Up(0)
          PROVE  ModsAfter(n, FALSE, u) = n \ Modifier(b, FALSE)
      BY <3>3 DEF ModsAfter
    <3>4. ModsAfter(n, FALSE, 157) = n \ ctrl
      <4> DEFINE u == 157
                 b == 29
      <4>1. Code(u) /\ Break(u) /\ b = u % Up(0)
        BY <2>1
      <4> HIDE DEF u, b
      <4>2. ModsAfter(n, FALSE, u) = n \ Modifier(b, FALSE)
        BY <3>3, <4>1
      <4> QED BY <4>2 DEF u, b
    <3>5. ModsAfter(n, FALSE, 197) = n \ lock
      <4> DEFINE u == 197
                 b == 69
      <4>1. Code(u) /\ Break(u) /\ b = u % Up(0)
        BY <2>1
      <4> HIDE DEF u, b
      <4>2. ModsAfter(n, FALSE, u) = n \ Modifier(b, FALSE)
        BY <3>3, <4>1
      <4> QED BY <4>2 DEF u, b
    <3>6. Updated(n, 29) = n \cup ctrl /\ Updated(n, 69) = n \cup lock /\ ctrl = {"LCTRL"} /\ lock = {}
      BY <2>2, <2>3
    <3> HIDE DEF ctrl, lock
    <3>7. n \cup lock = n /\ n \ lock = n
      BY <3>6
    <3>8. ModsAfter(n, FALSE, 29) = n \cup {"LCTRL"} /\ ModsAfter(n, FALSE, 157) = n \ {"LCTRL"}
      BY <3>2, <3>4, <3>6, Zenon
    <3>9. ModsAfter(n, FALSE, 69) = n /\ ModsAfter(n, FALSE, 197) = n
      BY <3>2, <3>6, <3>7, <3>5, Zenon
    <3> QED BY <3>1, <3>8, <3>9
  <2>5. \A shift, capslock : Typed(29, shift, capslock) = None /\ Typed(69, shift, capslock) = None
    <3>1. \A on : Ascii(29, on) = None /\ Ascii(69, on) = None
      BY DEF Ascii, Shifted, Unshifted
    <3> QED BY <3>1 DEF Typed
  <2>6. KeyOf(n, FALSE, 225) = None /\ KeyOf(n, FALSE, 157) = None /\ KeyOf(n, FALSE, 197) = None
    BY <2>1 DEF KeyOf
  <2>7. KeyOf(n, FALSE, 29) = None
    BY <2>1, <2>5 DEF KeyOf
  <2>8. KeyOf(n, FALSE, 69) = None
    BY <2>1, <2>5 DEF KeyOf
  <2> QED BY <2>4, <2>6, <2>7, <2>8
<1>6. ASSUME NEW n PROVE ModsAfter(n, FALSE, 225) = n /\ KeyOf(n, FALSE, 225) = None
  <2>1. ~Code(225)
    BY DEF Code, ErrorBytes
  <2> QED BY <2>1 DEF ModsAfter, KeyOf
<1>7. \A b \in {225, 29, 69, 157, 197} : AwaitsAfter(FALSE, b) = FALSE /\ b \in Bytes
  <2>1. \A b \in {225, 29, 69, 157, 197} : b # SC_EXTENDED /\ b \in Bytes
    BY DEF SC_EXTENDED, Bytes
  <2> QED BY <2>1 DEF AwaitsAfter
<1>8. Steps(s, 225, s)
  <2>1. ModsAfter(m, FALSE, 225) = m /\ KeyOf(m, FALSE, 225) = None
    BY <1>6
  <2>2. AwaitsAfter(FALSE, 225) = FALSE
    BY <1>7
  <2> QED BY <1>2, <2>1, <2>2, StepIs
<1>9. Steps(s, 29, t)
  <2>1. ModsAfter(m, FALSE, 29) = c /\ KeyOf(m, FALSE, 29) = None
    BY <1>2, <1>5
  <2>2. AwaitsAfter(FALSE, 29) = FALSE
    BY <1>7
  <2> HIDE DEF c
  <2> QED BY <1>2, <1>3, <2>1, <2>2, StepIs
<1>10. Steps(t, 69, t)
  <2>1. ModsAfter(c, FALSE, 69) = c /\ KeyOf(c, FALSE, 69) = None
    BY <1>3, <1>5
  <2>2. AwaitsAfter(FALSE, 69) = FALSE
    BY <1>7
  <2> HIDE DEF c
  <2> QED BY <1>3, <2>1, <2>2, StepIs
<1>11. Steps(t, 225, t)
  <2>1. ModsAfter(c, FALSE, 225) = c /\ KeyOf(c, FALSE, 225) = None
    BY <1>6
  <2>2. AwaitsAfter(FALSE, 225) = FALSE
    BY <1>7
  <2> HIDE DEF c
  <2> QED BY <1>3, <2>1, <2>2, StepIs
<1>12. Steps(t, 157, s)
  <2>1. ModsAfter(c, FALSE, 157) = m /\ KeyOf(c, FALSE, 157) = None
    BY <1>3, <1>5
  <2>2. AwaitsAfter(FALSE, 157) = FALSE
    BY <1>7
  <2> HIDE DEF c
  <2> QED BY <1>2, <1>3, <2>1, <2>2, StepIs
<1>13. Steps(s, 197, s)
  <2>1. ModsAfter(m, FALSE, 197) = m /\ KeyOf(m, FALSE, 197) = None
    BY <1>2, <1>5
  <2>2. AwaitsAfter(FALSE, 197) = FALSE
    BY <1>7
  <2> QED BY <1>2, <2>1, <2>2, StepIs
<1>14. s = Knows(held, caps, <<>>) /\ s = Knows(held', caps', <<>>)
  BY <1>1 DEF Knows, m
<1> HIDE DEF s, t
<1> DEFINE Sure(w, u) == w \in Seq(Bytes) /\ Run(w, s, u)
<1>15. ASSUME NEW w, NEW u \in States, NEW v \in States, NEW b \in {225, 29, 69, 157, 197},
              Sure(w, u), Steps(u, b, v)
       PROVE  Sure(Append(w, b), v)
  BY <1>4, <1>7, <1>15, RunMore
<1>16. Sure(<<>>, s)
  BY <1>4, RunNone
<1> HIDE DEF Sure
<1>17. Sure(Append(<<>>, 225), s)
  BY <1>4, <1>8, <1>15, <1>16
<1>18. Sure(Append(Append(<<>>, 225), 29), t)
  BY <1>4, <1>9, <1>15, <1>17
<1>19. Sure(Append(Append(Append(<<>>, 225), 29), 69), t)
  BY <1>4, <1>10, <1>15, <1>18
<1>20. Sure(Append(Append(Append(Append(<<>>, 225), 29), 69), 225), t)
  BY <1>4, <1>11, <1>15, <1>19
<1>21. Sure(Append(Append(Append(Append(Append(<<>>, 225), 29), 69), 225), 157), s)
  BY <1>4, <1>12, <1>15, <1>20
<1>22. Sure(Append(Append(Append(Append(Append(Append(<<>>, 225), 29), 69), 225), 157), 197), s)
  BY <1>4, <1>13, <1>15, <1>21
<1> DEFINE w == <<225, 29, 69, 225, 157, 197>>
<1>23. w = Append(Append(Append(Append(Append(Append(<<>>, 225), 29), 69), 225), 157), 197)
  OBVIOUS
<1> HIDE DEF w
<1>24. w \in Seq(Bytes) /\ Run(w, s, s)
  BY <1>22, <1>23 DEF Sure
<1> QED BY <1>1, <1>14, <1>24, Sent DEF w

LEMMA ErrorSent ==
  ASSUME KeyboardInv, Error
  PROVE  KeyboardInv'
<1>1. /\ held \subseteq Keys /\ caps \in BOOLEAN /\ wire \in Seq(Bytes) /\ owed \in Seq(Names)
      /\ modifier_state \in SUBSET Flags /\ extended_prefix \in BOOLEAN
      /\ Run(wire, Now, Knows(held, caps, <<>>))
  BY DEF KeyboardInv
<1>2. PICK i \in 1..(Len(wire) + 1) : wire' = InsertAt(wire, i, 0)
  BY DEF Error
<1>3. /\ held' = held /\ caps' = caps /\ owed' = owed
      /\ modifier_state' = modifier_state /\ extended_prefix' = extended_prefix
  BY DEF Error, driver
<1>4. Now \in States
  BY <1>1, StateFacts DEF Now
<1>5. <<>> \in Seq(Names)
  OBVIOUS
<1>6. Knows(held, caps, <<>>) \in States
  BY <1>1, <1>5, KnowsFacts
<1>7. wire' \in Seq(Bytes) /\ Run(wire', Now, Knows(held, caps, <<>>))
  BY <1>1, <1>2, <1>4, <1>6, RunError
<1>8. Now' = Now /\ Knows(held', caps', <<>>) = Knows(held, caps, <<>>)
  BY <1>3 DEF Now
<1> QED BY <1>1, <1>3, <1>7, <1>8 DEF KeyboardInv

-----------------------------------------------------------------------------
(* What the handler reads.                                                  *)

LEMMA HandlerReads ==
  ASSUME KeyboardInv, keyboard_handler
  PROVE  KeyboardInv' /\ (key' = None \/ (owed # <<>> /\ key' = Head(owed)))
<1>1. /\ held \subseteq Keys /\ caps \in BOOLEAN /\ wire \in Seq(Bytes) /\ owed \in Seq(Names)
      /\ modifier_state \in SUBSET Flags /\ extended_prefix \in BOOLEAN
      /\ Run(wire, Now, Knows(held, caps, <<>>))
  BY DEF KeyboardInv
<1>2. /\ wire # <<>> /\ wire' = Tail(wire) /\ held' = held /\ caps' = caps
      /\ modifier_state' = ModsAfter(modifier_state, extended_prefix, Head(wire))
      /\ extended_prefix' = AwaitsAfter(extended_prefix, Head(wire))
      /\ key' = KeyOf(modifier_state, extended_prefix, Head(wire))
      /\ owed' = IF key' = None \/ owed = <<>> THEN owed ELSE Tail(owed)
  BY <1>1, HandlerSteps
<1>3. Now \in States /\ Now.m = modifier_state /\ Now.x = extended_prefix /\ Now.r = owed
  BY <1>1, StateFacts DEF Now
<1>4. <<>> \in Seq(Names)
  OBVIOUS
<1>5. Knows(held, caps, <<>>) \in States
  BY <1>1, <1>4, KnowsFacts
<1>6. PICK t \in States : Steps(Now, Head(wire), t) /\ Run(Tail(wire), t, Knows(held, caps, <<>>))
  BY <1>1, <1>2, <1>3, <1>5, RunLess
<1>7. ModsAfter(Now.m, Now.x, Head(wire)) = modifier_state' /\ KeyOf(Now.m, Now.x, Head(wire)) = key'
  BY <1>2, <1>3
<1>8. AwaitsAfter(Now.x, Head(wire)) = extended_prefix'
  BY <1>2, <1>3
<1>9. t.m = modifier_state' /\ t.x = extended_prefix'
  BY <1>6, <1>7, <1>8 DEF Steps
<1>10. IF key' = None THEN t.r = owed ELSE owed # <<>> /\ Head(owed) = key' /\ t.r = Tail(owed)
  BY <1>3, <1>6, <1>7 DEF Steps
<1>11. t.r = owed'
  BY <1>2, <1>10
<1>12. t \in [m : SUBSET Flags, x : BOOLEAN, r : Seq(Names)]
  BY DEF States
<1>13. t = [m |-> t.m, x |-> t.x, r |-> t.r] /\ t.m \in SUBSET Flags /\ t.x \in BOOLEAN /\ t.r \in Seq(Names)
  BY <1>12
<1>14. t = Now'
  BY <1>9, <1>11, <1>13 DEF Now, At
<1>15. Tail(wire) \in Seq(Bytes)
  BY <1>1, <1>2
<1>16. Knows(held', caps', <<>>) = Knows(held, caps, <<>>)
  BY <1>2
<1>17. Run(wire', Now', Knows(held', caps', <<>>))
  BY <1>2, <1>6, <1>14, <1>16
<1>18. KeyboardInv'
  BY <1>1, <1>2, <1>9, <1>11, <1>13, <1>15, <1>17 DEF KeyboardInv
<1> QED BY <1>10, <1>18

-----------------------------------------------------------------------------
(* The theorems.                                                            *)

LEMMA KeyboardInvariant == KeyboardSpec => []KeyboardInv
<1>1. KeyboardInit => KeyboardInv
  <2> SUFFICES ASSUME KeyboardInit PROVE KeyboardInv
    OBVIOUS
  <2>1. /\ held = {} /\ caps = FALSE /\ wire = <<>> /\ owed = <<>>
        /\ modifier_state = {} /\ extended_prefix = FALSE
    BY DEF KeyboardInit
  <2>2. Down(held, caps) = {}
    BY <2>1 DEF Down
  <2>3. Now = At({}, FALSE, <<>>) /\ Knows(held, caps, <<>>) = At({}, FALSE, <<>>)
    BY <2>1, <2>2 DEF Now, Knows
  <2>4. <<>> \in Seq(Bytes) /\ <<>> \in Seq(Names)
    OBVIOUS
  <2> DEFINE s == At({}, FALSE, <<>>)
  <2>5. s \in States
    BY <2>4 DEF At, States
  <2> HIDE DEF s
  <2>6. Run(<<>>, s, s)
    BY <2>5, RunNone
  <2>7. Run(wire, Now, Knows(held, caps, <<>>))
    BY <2>1, <2>3, <2>6 DEF s
  <2> QED BY <2>1, <2>4, <2>7 DEF KeyboardInv
<1>2. KeyboardInv /\ [KeyboardNext]_keyboardVars => KeyboardInv'
  <2> SUFFICES ASSUME KeyboardInv, [KeyboardNext]_keyboardVars PROVE KeyboardInv'
    OBVIOUS
  <2>1. CASE UNCHANGED keyboardVars
    <3>1. /\ held' = held /\ caps' = caps /\ wire' = wire /\ owed' = owed
          /\ modifier_state' = modifier_state /\ extended_prefix' = extended_prefix
      BY <2>1 DEF keyboardVars, keyboard, driver
    <3>2. Now' = Now /\ Knows(held', caps', <<>>) = Knows(held, caps, <<>>)
      BY <3>1 DEF Now
    <3> QED BY <3>1, <3>2 DEF KeyboardInv
  <2>2. ASSUME NEW k \in Keys, Press(k) PROVE KeyboardInv'
    BY <2>2, PressSent
  <2>3. ASSUME NEW k \in Keys, Release(k) PROVE KeyboardInv'
    BY <2>3, ReleaseSent
  <2>4. CASE Pause
    BY <2>4, PauseSent
  <2>5. CASE Error
    BY <2>5, ErrorSent
  <2>6. CASE keyboard_handler
    BY <2>6, HandlerReads
  <2> QED BY <2>1, <2>2, <2>3, <2>4, <2>5, <2>6 DEF KeyboardNext
<1> QED BY <1>1, <1>2, PTL DEF KeyboardSpec

\* When every byte is read the driver is where the keyboard is.
LEMMA AllRead ==
  ASSUME KeyboardInv, wire = <<>>
  PROVE  modifier_state = Down(held, caps) /\ extended_prefix = FALSE /\ owed = <<>>
<1>1. /\ held \subseteq Keys /\ caps \in BOOLEAN /\ owed \in Seq(Names)
      /\ modifier_state \in SUBSET Flags /\ extended_prefix \in BOOLEAN
      /\ Run(<<>>, Now, Knows(held, caps, <<>>))
  BY DEF KeyboardInv
<1>2. Now \in States /\ Now.m = modifier_state /\ Now.x = extended_prefix /\ Now.r = owed
  BY <1>1, StateFacts DEF Now
<1>3. Knows(held, caps, <<>>) = Now
  BY <1>1, <1>2, RunNone
<1>4. <<>> \in Seq(Names)
  OBVIOUS
<1> QED BY <1>1, <1>2, <1>3, <1>4, KnowsFacts

\* Whatever is pressed, released, repeated or reported while bytes wait, the
\* driver that has read them all knows which modifiers are down: what
\* keyboard_handler carries from one interrupt to the next never goes astray.
THEOREM ModifiersKnown == KeyboardSpec => []ModifiersTrack
<1>1. KeyboardInv => ModifiersTrack
  BY AllRead DEF ModifiersTrack, Down
<1> QED BY <1>1, KeyboardInvariant, PTL

\* And it has published every key that had a meaning.
THEOREM AllPublished == KeyboardSpec => []NoneForgotten
<1>1. KeyboardInv => NoneForgotten
  BY AllRead DEF NoneForgotten
<1> QED BY <1>1, KeyboardInvariant, PTL

\* keyboard_handler publishes a key as it was when it was typed, and in that
\* order, however late its byte is read.
THEOREM KeysAsTyped == KeyboardSpec => PublishedAsTyped
<1>1. KeyboardInv /\ [KeyboardNext]_keyboardVars
        => [keyboard_handler => key' = None \/ (owed # <<>> /\ key' = Head(owed))]_keyboardVars
  BY HandlerReads
<1> QED BY <1>1, KeyboardInvariant, PTL DEF KeyboardSpec, PublishedAsTyped


-----------------------------------------------------------------------------
(* The line editor and the screen.                                          *)

LEMMA SeqSame ==
  ASSUME NEW S, NEW s \in Seq(S), NEW t \in Seq(S), Len(s) = Len(t), \A i \in 1..Len(s) : s[i] = t[i]
  PROVE  s = t
BY SeqEqual

-----------------------------------------------------------------------------
(* The line and its history.                                                *)

Line(b, n) == [i \in 1..n |-> b[i - 1]]

EditInv ==
  /\ DOMAIN input_buffer = Buffer /\ input_buffer = [i \in Buffer |-> input_buffer[i]]
  /\ input_len \in Buffer /\ input_pos \in 0..input_len
  /\ \A i \in 0..(input_len - 1) : input_buffer[i] \in Letters
  /\ history_buffer \in [0..(SHELL_HISTORY_MAX - 1) -> Seq(Letters)]
  /\ \A i \in 0..(SHELL_HISTORY_MAX - 1) : Len(history_buffer[i]) \in Buffer
  /\ history_count \in Nat
  /\ history_index \in Oldest(history_count)..history_count \/ (history_index = -1 /\ history_count = 0)

LEMMA BufferFacts == 0 \in Buffer /\ SHELL_INPUT_BUF_SIZE \in Nat /\ SHELL_INPUT_BUF_SIZE > 0
<1>1. SHELL_INPUT_BUF_SIZE \in Nat \ {0}
  BY ShellAssumption
<1> QED BY <1>1 DEF Buffer

LEMMA LineFacts ==
  ASSUME NEW b, NEW n \in Nat, \A i \in 0..(n - 1) : b[i] \in Letters
  PROVE  /\ Line(b, n) \in Seq(Letters) /\ Len(Line(b, n)) = n
         /\ \A i \in 1..n : Line(b, n)[i] = b[i - 1]
<1>1. \A i \in 1..n : i - 1 \in 0..(n - 1)
  OBVIOUS
<1>2. Line(b, n) \in [1..n -> Letters]
  BY <1>1 DEF Line
<1> QED BY <1>2 DEF Line

LEMMA RestFacts ==
  ASSUME NEW b, NEW n \in Nat, NEW p \in 0..n, \A i \in 0..(n - 1) : b[i] \in Letters
  PROVE  /\ Rest(b, p, n) \in Seq(Letters) /\ Len(Rest(b, p, n)) = n - p
         /\ \A i \in 1..(n - p) : Rest(b, p, n)[i] = b[p + i - 1]
<1>1. \A i \in 1..(n - p) : p + i - 1 \in 0..(n - 1)
  OBVIOUS
<1>2. n - p \in Nat
  OBVIOUS
<1>3. Rest(b, p, n) \in [1..(n - p) -> Letters]
  BY <1>1 DEF Rest
<1> QED BY <1>2, <1>3 DEF Rest

LEMMA LineIsText == \A n : Text(n) = Line(input_buffer, n)
BY DEF Text, Line

LEMMA WholeLine ==
  ASSUME NEW b, NEW n \in Nat, NEW p \in 0..n, \A i \in 0..(n - 1) : b[i] \in Letters
  PROVE  Line(b, p) \o Rest(b, p, n) = Line(b, n)
<1> DEFINE x == Line(b, p)
           y == Rest(b, p, n)
           z == Line(b, n)
<1>1. x \in Seq(Letters) /\ Len(x) = p /\ \A i \in 1..p : x[i] = b[i - 1]
  <2>1. p \in Nat /\ \A i \in 0..(p - 1) : b[i] \in Letters
    OBVIOUS
  <2> QED BY <2>1, LineFacts
<1>2. y \in Seq(Letters) /\ Len(y) = n - p /\ \A i \in 1..(n - p) : y[i] = b[p + i - 1]
  BY RestFacts
<1>3. z \in Seq(Letters) /\ Len(z) = n /\ \A i \in 1..n : z[i] = b[i - 1]
  BY LineFacts
<1> HIDE DEF x, y, z
<1>4. /\ x \o y \in Seq(Letters) /\ Len(x \o y) = n
      /\ \A i \in 1..n : (x \o y)[i] = IF i <= p THEN x[i] ELSE y[i - p]
  <2>1. x \in Seq(Letters) /\ y \in Seq(Letters) /\ Len(x) + Len(y) = n
    BY <1>1, <1>2
  <2> QED BY <1>1, <2>1, ConcatProperties
<1>5. ASSUME NEW i \in 1..n PROVE (x \o y)[i] = z[i]
  <2>1. CASE i <= p
    <3>1. i \in 1..p
      BY <2>1
    <3> QED BY <1>1, <1>3, <1>4, <2>1, <3>1
  <2>2. CASE ~(i <= p)
    <3>1. i - p \in 1..(n - p) /\ p + (i - p) - 1 = i - 1
      BY <2>2
    <3> QED BY <1>2, <1>3, <1>4, <2>2, <3>1
  <2> QED BY <2>1, <2>2
<1> QED BY <1>3, <1>4, <1>5, SeqSame DEF x, y, z

\* What the actions make of the line, as sequences.
LEMMA InsertLine ==
  ASSUME EditInv, NEW c \in Letters, Insert(c)
  PROVE  /\ EditInv'
         /\ Len(Line(input_buffer, input_len)) < SHELL_INPUT_BUF_SIZE - 1
         /\ Line(input_buffer, input_pos)' = Append(Line(input_buffer, input_pos), c)
         /\ Rest(input_buffer, input_pos, input_len)' = Rest(input_buffer, input_pos, input_len)
<1> DEFINE b == input_buffer
           n == input_len
           p == input_pos
           d == input_buffer'
           s == [i \in Buffer |-> IF p < i /\ i <= n THEN b[i - 1] ELSE b[i]]
<1>1. /\ n \in Nat /\ p \in Nat /\ p <= n /\ n < SHELL_INPUT_BUF_SIZE - 1
      /\ \A i \in 0..(n - 1) : b[i] \in Letters
      /\ SHELL_INPUT_BUF_SIZE \in Nat
  <2>1. n \in Buffer /\ p \in 0..n /\ n < SHELL_INPUT_BUF_SIZE - 1 /\ \A i \in 0..(n - 1) : b[i] \in Letters
    BY DEF EditInv, Insert, Room
  <2>2. SHELL_INPUT_BUF_SIZE \in Nat
    BY ShellAssumption
  <2> HIDE DEF n, p, b
  <2> QED BY <2>1, <2>2 DEF Buffer
<1>2. /\ d = [s EXCEPT ![p] = c, ![n + 1] = NUL]
      /\ input_len' = n + 1 /\ input_pos' = p + 1 /\ UNCHANGED history
  BY DEF Insert
<1> HIDE DEF b, n, p, d
<1>3. DOMAIN d = Buffer /\ d = [i \in Buffer |-> d[i]]
  BY <1>2
<1>4. \A i \in Buffer : d[i] = IF i = n + 1 THEN NUL ELSE IF i = p THEN c ELSE s[i]
  BY <1>2
<1>5. \A i \in Buffer : s[i] = IF p < i /\ i <= n THEN b[i - 1] ELSE b[i]
  OBVIOUS
<1> HIDE DEF s
<1>6. \A i \in 0..n : d[i] = IF i < p THEN b[i] ELSE IF i = p THEN c ELSE b[i - 1]
  <2>1. \A i \in 0..n : i \in Buffer /\ i # n + 1
    BY <1>1 DEF Buffer
  <2> QED BY <1>1, <1>4, <1>5, <2>1
<1>7. ASSUME NEW i \in 0..n PROVE d[i] \in Letters
  <2>1. i < p => i \in 0..(n - 1)
    BY <1>1
  <2>2. i > p => i - 1 \in 0..(n - 1)
    BY <1>1
  <2> QED BY <1>1, <1>6, <2>1, <2>2
<1>8. EditInv'
  <2>1. n + 1 \in Buffer /\ p + 1 \in 0..(n + 1) /\ (n + 1) - 1 = n
    BY <1>1 DEF Buffer
  <2> QED BY <1>2, <1>3, <1>7, <2>1 DEF EditInv, history, b, n, p, d
<1>9. Line(d, p + 1) = Append(Line(b, p), c)
  <2>1. /\ Line(d, p + 1) \in Seq(Letters) /\ Len(Line(d, p + 1)) = p + 1
        /\ \A i \in 1..(p + 1) : Line(d, p + 1)[i] = d[i - 1]
    <3>1. p + 1 \in Nat /\ \A i \in 0..((p + 1) - 1) : i \in 0..n
      BY <1>1
    <3> QED BY <1>7, <3>1, LineFacts
  <2>2. Line(b, p) \in Seq(Letters) /\ Len(Line(b, p)) = p /\ \A i \in 1..p : Line(b, p)[i] = b[i - 1]
    <3>1. \A i \in 0..(p - 1) : i \in 0..(n - 1)
      BY <1>1
    <3> QED BY <1>1, <3>1, LineFacts
  <2> DEFINE x == Line(b, p)
             y == Line(d, p + 1)
  <2> HIDE DEF x, y
  <2>3. /\ Append(x, c) \in Seq(Letters) /\ Len(Append(x, c)) = p + 1
        /\ Append(x, c)[p + 1] = c /\ \A i \in 1..p : Append(x, c)[i] = x[i]
    BY <2>2 DEF x
  <2>4. ASSUME NEW i \in 1..(p + 1) PROVE y[i] = Append(x, c)[i]
    <3>1. i - 1 \in 0..n /\ y[i] = d[i - 1]
      BY <1>1, <2>1 DEF y
    <3>2. CASE i = p + 1
      <4>1. i - 1 = p
        BY <1>1, <3>2
      <4>2. y[i] = c
        BY <1>1, <1>6, <3>1, <4>1
      <4> QED BY <2>3, <3>2, <4>2
    <3>3. CASE i # p + 1
      <4>1. i \in 1..p /\ i - 1 < p
        BY <1>1, <3>3
      <4>2. y[i] = b[i - 1]
        BY <1>6, <3>1, <4>1
      <4> QED BY <2>2, <2>3, <4>1, <4>2 DEF x
    <3> QED BY <3>2, <3>3
  <2>5. y \in Seq(Letters) /\ Len(y) = p + 1
    BY <2>1 DEF y
  <2>6. y = Append(x, c)
    BY <2>3, <2>4, <2>5, SeqSame
  <2> QED BY <2>6 DEF x, y
<1>10. Rest(d, p + 1, n + 1) = Rest(b, p, n)
  <2>1. (n + 1) - (p + 1) = n - p
    BY <1>1
  <2>2. ASSUME NEW k \in 1..(n - p) PROVE d[(p + 1) + k - 1] = b[p + k - 1]
    <3>1. (p + 1) + k - 1 = p + k /\ p + k \in 0..n /\ p + k > p
      BY <1>1
    <3>2. d[p + k] = b[p + k - 1]
      BY <1>1, <1>6, <3>1
    <3> QED BY <3>1, <3>2
  <2> QED BY <2>1, <2>2 DEF Rest
<1>11. Len(Line(b, n)) < SHELL_INPUT_BUF_SIZE - 1
  <2>1. Len(Line(b, n)) = n
    BY <1>1, LineFacts
  <2> QED BY <1>1, <2>1
<1>12. Line(input_buffer, input_pos)' = Line(d, p + 1) /\ Rest(input_buffer, input_pos, input_len)' = Rest(d, p + 1, n + 1)
  BY <1>2 DEF d
<1> QED BY <1>8, <1>9, <1>10, <1>11, <1>12 DEF b, n, p

\* A cursor that moves hands a character from one part to the other.
LEMMA LineCut ==
  ASSUME NEW b, NEW p \in Nat, p > 0, \A i \in 0..(p - 1) : b[i] \in Letters
  PROVE  /\ Line(b, p) # <<>> /\ Len(Line(b, p)) = p /\ Line(b, p)[p] = b[p - 1]
         /\ Line(b, p - 1) = SubSeq(Line(b, p), 1, p - 1)
         /\ Line(b, p) = Append(Line(b, p - 1), b[p - 1])
<1> DEFINE x == Line(b, p)
           y == Line(b, p - 1)
<1>1. x \in Seq(Letters) /\ Len(x) = p /\ \A i \in 1..p : x[i] = b[i - 1]
  BY LineFacts
<1>2. y \in Seq(Letters) /\ Len(y) = p - 1 /\ \A i \in 1..(p - 1) : y[i] = b[i - 1]
  <2>1. p - 1 \in Nat /\ \A i \in 0..((p - 1) - 1) : b[i] \in Letters
    OBVIOUS
  <2> QED BY <2>1, LineFacts
<1>3. b[p - 1] \in Letters
  OBVIOUS
<1> HIDE DEF x, y
<1> DEFINE z == SubSeq(x, 1, p - 1)
           a == Append(y, b[p - 1])
<1>4. z \in Seq(Letters) /\ Len(z) = p - 1 /\ \A i \in 1..(p - 1) : z[i] = x[i]
  BY <1>1
<1>5. a \in Seq(Letters) /\ Len(a) = p /\ a[p] = b[p - 1] /\ \A i \in 1..(p - 1) : a[i] = y[i]
  BY <1>2, <1>3
<1> HIDE DEF z, a
<1>6. y = z
  <2>1. ASSUME NEW i \in 1..(p - 1) PROVE y[i] = z[i]
    <3>1. i \in 1..p
      OBVIOUS
    <3> QED BY <1>1, <1>2, <1>4, <3>1
  <2> QED BY <1>2, <1>4, <2>1, SeqSame
<1>7. x = a
  <2>1. ASSUME NEW i \in 1..p PROVE x[i] = a[i]
    <3>1. i = p \/ i \in 1..(p - 1)
      OBVIOUS
    <3> QED BY <1>1, <1>2, <1>5, <3>1
  <2> QED BY <1>1, <1>5, <2>1, SeqSame
<1>8. x # <<>> /\ x[p] = b[p - 1]
  BY <1>1
<1> QED BY <1>1, <1>6, <1>7, <1>8 DEF x, y, z, a

LEMMA RestCut ==
  ASSUME NEW b, NEW n \in Nat, NEW p \in 0..n, p > 0, \A i \in 0..(n - 1) : b[i] \in Letters
  PROVE  /\ Rest(b, p - 1, n) = <<b[p - 1]>> \o Rest(b, p, n)
         /\ Rest(b, p - 1, n) # <<>> /\ Head(Rest(b, p - 1, n)) = b[p - 1]
         /\ Tail(Rest(b, p - 1, n)) = Rest(b, p, n)
<1> DEFINE x == Rest(b, p - 1, n)
           y == Rest(b, p, n)
           o == <<b[p - 1]>>
<1>1. p \in Nat /\ p <= n /\ p - 1 \in 0..n /\ b[p - 1] \in Letters /\ n - (p - 1) = (n - p) + 1 /\ n - p \in Nat
  OBVIOUS
<1>2. x \in Seq(Letters) /\ Len(x) = (n - p) + 1 /\ \A i \in 1..((n - p) + 1) : x[i] = b[(p - 1) + i - 1]
  <2> DEFINE q == p - 1
  <2>1. q \in 0..n /\ n - q = (n - p) + 1
    BY <1>1
  <2> HIDE DEF q
  <2>2. /\ Rest(b, q, n) \in Seq(Letters) /\ Len(Rest(b, q, n)) = n - q
        /\ \A i \in 1..(n - q) : Rest(b, q, n)[i] = b[q + i - 1]
    BY <2>1, RestFacts
  <2> QED BY <2>1, <2>2 DEF q
<1>3. y \in Seq(Letters) /\ Len(y) = n - p /\ \A i \in 1..(n - p) : y[i] = b[p + i - 1]
  BY RestFacts
<1>4. o \in Seq(Letters) /\ Len(o) = 1 /\ o[1] = b[p - 1]
  BY <1>1
<1> HIDE DEF x, y, o
<1>5. /\ o \o y \in Seq(Letters) /\ Len(o \o y) = 1 + (n - p)
      /\ \A i \in 1..(1 + (n - p)) : (o \o y)[i] = IF i <= 1 THEN o[i] ELSE y[i - 1]
  <2>1. o \in Seq(Letters) /\ y \in Seq(Letters)
    BY <1>3, <1>4
  <2>2. /\ o \o y \in Seq(Letters) /\ Len(o \o y) = Len(o) + Len(y)
        /\ \A i \in 1..(Len(o) + Len(y)) : (o \o y)[i] = IF i <= Len(o) THEN o[i] ELSE y[i - Len(o)]
    BY <2>1, ConcatProperties
  <2> QED BY <1>3, <1>4, <2>2
<1>6. ASSUME NEW i \in 1..((n - p) + 1) PROVE x[i] = (o \o y)[i]
  <2>1. CASE i = 1
    <3>1. (p - 1) + i - 1 = p - 1 /\ i <= 1 /\ i \in 1..(1 + (n - p))
      BY <1>1, <2>1
    <3> QED BY <1>2, <1>4, <1>5, <2>1, <3>1
  <2>2. CASE i # 1
    <3>1. i - 1 \in 1..(n - p) /\ (p - 1) + i - 1 = p + (i - 1) - 1 /\ ~(i <= 1) /\ i \in 1..(1 + (n - p))
      BY <1>1, <2>2
    <3>2. x[i] = b[(p - 1) + i - 1] /\ y[i - 1] = b[p + (i - 1) - 1]
      BY <1>2, <1>3, <3>1
    <3> QED BY <1>5, <3>1, <3>2
  <2> QED BY <2>1, <2>2
<1>7. x = o \o y
  <2>1. Len(x) = Len(o \o y) /\ \A i \in 1..Len(x) : x[i] = (o \o y)[i]
    BY <1>1, <1>2, <1>5, <1>6
  <2> QED BY <1>2, <1>5, <2>1, SeqSame
<1>8. x # <<>> /\ Head(x) = b[p - 1]
  <2>1. 1 \in 1..((n - p) + 1) /\ (p - 1) + 1 - 1 = p - 1
    BY <1>1
  <2>2. x[1] = b[p - 1]
    BY <1>2, <2>1
  <2> QED BY <1>1, <1>2, <2>2
<1>9. Tail(x) = y
  <2> DEFINE t == Tail(x)
  <2>1. t \in Seq(Letters) /\ Len(t) = n - p /\ \A i \in 1..(n - p) : t[i] = x[i + 1]
    BY <1>1, <1>2, <1>8
  <2> HIDE DEF t
  <2>2. ASSUME NEW i \in 1..(n - p) PROVE t[i] = y[i]
    <3>1. i + 1 \in 1..((n - p) + 1) /\ (p - 1) + (i + 1) - 1 = p + i - 1
      BY <1>1
    <3>2. x[i + 1] = b[(p - 1) + (i + 1) - 1]
      BY <1>2, <3>1
    <3> QED BY <1>3, <2>1, <3>1, <3>2
  <2>3. t = y
    BY <1>3, <2>1, <2>2, SeqSame
  <2> QED BY <2>3 DEF t
<1> QED BY <1>7, <1>8, <1>9 DEF x, y, o

LEMMA EraseLine ==
  ASSUME EditInv, Backspace
  PROVE  /\ EditInv'
         /\ Line(input_buffer, input_pos) # <<>>
         /\ Line(input_buffer, input_pos)'
              = SubSeq(Line(input_buffer, input_pos), 1, Len(Line(input_buffer, input_pos)) - 1)
         /\ Rest(input_buffer, input_pos, input_len)' = Rest(input_buffer, input_pos, input_len)
<1> DEFINE b == input_buffer
           n == input_len
           p == input_pos
           d == input_buffer'
<1>1. /\ n \in Nat /\ p \in Nat /\ 0 < p /\ p <= n /\ n \in Buffer
      /\ \A i \in 0..(n - 1) : b[i] \in Letters
      /\ SHELL_INPUT_BUF_SIZE \in Nat /\ n < SHELL_INPUT_BUF_SIZE
  <2>1. n \in Buffer /\ p \in 0..n /\ p > 0 /\ \A i \in 0..(n - 1) : b[i] \in Letters
    BY DEF EditInv, Backspace
  <2>2. SHELL_INPUT_BUF_SIZE \in Nat
    BY ShellAssumption
  <2> HIDE DEF n, p, b
  <2> QED BY <2>1, <2>2 DEF Buffer
<1>2. /\ d = [i \in Buffer |-> IF p - 1 <= i /\ i < n THEN b[i + 1] ELSE b[i]]
      /\ input_len' = n - 1 /\ input_pos' = p - 1 /\ UNCHANGED history
  BY DEF Backspace
<1> HIDE DEF b, n, p, d
<1>3. DOMAIN d = Buffer /\ d = [i \in Buffer |-> d[i]]
  BY <1>2
<1>4. \A i \in 0..(n - 1) : d[i] = IF i < p - 1 THEN b[i] ELSE b[i + 1]
  <2>1. \A i \in 0..(n - 1) : i \in Buffer /\ i < n /\ (p - 1 <= i <=> ~(i < p - 1))
    BY <1>1 DEF Buffer
  <2> QED BY <1>2, <2>1
<1>5. ASSUME NEW i \in 0..((n - 1) - 1) PROVE d[i] \in Letters
  <2>1. i \in 0..(n - 1) /\ i + 1 \in 0..(n - 1)
    BY <1>1
  <2> QED BY <1>1, <1>4, <2>1
<1>6. EditInv'
  <2>1. n - 1 \in Buffer /\ p - 1 \in 0..(n - 1)
    BY <1>1 DEF Buffer
  <2> QED BY <1>2, <1>3, <1>5, <2>1 DEF EditInv, history, b, n, p, d
<1>7. Line(d, p - 1) = Line(b, p - 1)
  <2>1. ASSUME NEW i \in 1..(p - 1) PROVE d[i - 1] = b[i - 1]
    <3>1. i - 1 \in 0..(n - 1) /\ i - 1 < p - 1
      BY <1>1
    <3> QED BY <1>4, <3>1
  <2> QED BY <2>1 DEF Line
<1>8. Rest(d, p - 1, n - 1) = Rest(b, p, n)
  <2>1. (n - 1) - (p - 1) = n - p
    BY <1>1
  <2>2. ASSUME NEW k \in 1..(n - p) PROVE d[(p - 1) + k - 1] = b[p + k - 1]
    <3>1. /\ (p - 1) + k - 1 = p + k - 2 /\ p + k - 2 \in 0..(n - 1) /\ ~(p + k - 2 < p - 1)
          /\ (p + k - 2) + 1 = p + k - 1
      BY <1>1
    <3>2. d[p + k - 2] = b[(p + k - 2) + 1]
      BY <1>4, <3>1
    <3> QED BY <3>1, <3>2
  <2> QED BY <2>1, <2>2 DEF Rest
<1>9. /\ Line(b, p) # <<>> /\ Len(Line(b, p)) = p
      /\ Line(b, p - 1) = SubSeq(Line(b, p), 1, p - 1)
  <2>1. \A i \in 0..(p - 1) : i \in 0..(n - 1)
    BY <1>1
  <2> QED BY <1>1, <2>1, LineCut
<1>10. Line(input_buffer, input_pos)' = Line(d, p - 1) /\ Rest(input_buffer, input_pos, input_len)' = Rest(d, p - 1, n - 1)
  BY <1>2 DEF d
<1> QED BY <1>6, <1>7, <1>8, <1>9, <1>10 DEF b, n, p

LEMMA LeftOfLine ==
  ASSUME EditInv, CursorLeft
  PROVE  /\ EditInv'
         /\ Line(input_buffer, input_pos) # <<>>
         /\ Line(input_buffer, input_pos)'
              = SubSeq(Line(input_buffer, input_pos), 1, Len(Line(input_buffer, input_pos)) - 1)
         /\ Rest(input_buffer, input_pos, input_len)'
              = <<Line(input_buffer, input_pos)[Len(Line(input_buffer, input_pos))]>>
                  \o Rest(input_buffer, input_pos, input_len)
<1> DEFINE b == input_buffer
           n == input_len
           p == input_pos
<1>1. n \in Nat /\ p \in 0..n /\ p > 0 /\ \A i \in 0..(n - 1) : b[i] \in Letters
  <2>1. n \in Buffer /\ p \in 0..n /\ p > 0 /\ \A i \in 0..(n - 1) : b[i] \in Letters
    BY DEF EditInv, CursorLeft
  <2>2. SHELL_INPUT_BUF_SIZE \in Nat
    BY ShellAssumption
  <2> HIDE DEF n, p, b
  <2> QED BY <2>1, <2>2 DEF Buffer
<1>2. input_buffer' = b /\ input_len' = n /\ input_pos' = p - 1 /\ UNCHANGED history
  BY DEF CursorLeft
<1> HIDE DEF b, n, p
<1>3. EditInv'
  <2>1. p - 1 \in 0..n
    BY <1>1
  <2> QED BY <1>2, <2>1 DEF EditInv, history, b, n, p
<1>4. /\ Line(b, p) # <<>> /\ Len(Line(b, p)) = p /\ Line(b, p)[p] = b[p - 1]
      /\ Line(b, p - 1) = SubSeq(Line(b, p), 1, p - 1)
  <2>1. p \in Nat /\ \A i \in 0..(p - 1) : i \in 0..(n - 1)
    BY <1>1
  <2> QED BY <1>1, <2>1, LineCut
<1>5. Rest(b, p - 1, n) = <<b[p - 1]>> \o Rest(b, p, n)
  BY <1>1, RestCut
<1>6. Line(input_buffer, input_pos)' = Line(b, p - 1) /\ Rest(input_buffer, input_pos, input_len)' = Rest(b, p - 1, n)
  BY <1>2
<1> QED BY <1>3, <1>4, <1>5, <1>6 DEF b, n, p

LEMMA RightOfLine ==
  ASSUME EditInv, CursorRight
  PROVE  /\ EditInv'
         /\ Rest(input_buffer, input_pos, input_len) # <<>>
         /\ Line(input_buffer, input_pos)'
              = Append(Line(input_buffer, input_pos), Head(Rest(input_buffer, input_pos, input_len)))
         /\ Rest(input_buffer, input_pos, input_len)' = Tail(Rest(input_buffer, input_pos, input_len))
<1> DEFINE b == input_buffer
           n == input_len
           p == input_pos
           q == p + 1
<1>1. n \in Nat /\ p \in 0..n /\ p < n /\ \A i \in 0..(n - 1) : b[i] \in Letters
  <2>1. n \in Buffer /\ p \in 0..n /\ p < n /\ \A i \in 0..(n - 1) : b[i] \in Letters
    BY DEF EditInv, CursorRight
  <2>2. SHELL_INPUT_BUF_SIZE \in Nat
    BY ShellAssumption
  <2> HIDE DEF n, p, b
  <2> QED BY <2>1, <2>2 DEF Buffer
<1>2. input_buffer' = b /\ input_len' = n /\ input_pos' = q /\ UNCHANGED history
  BY DEF CursorRight
<1> HIDE DEF b, n, p
<1>3. q \in 0..n /\ q \in Nat /\ q > 0 /\ q - 1 = p
  BY <1>1
<1> HIDE DEF q
<1>4. EditInv'
  BY <1>2, <1>3 DEF EditInv, history, b, n, p
<1>5. Line(b, q) = Append(Line(b, p), b[p])
  <2>1. \A i \in 0..(q - 1) : i \in 0..(n - 1)
    BY <1>1, <1>3
  <2>2. Line(b, q) = Append(Line(b, q - 1), b[q - 1])
    BY <1>1, <1>3, <2>1, LineCut
  <2> QED BY <1>3, <2>2
<1>6. Rest(b, p, n) # <<>> /\ Head(Rest(b, p, n)) = b[p] /\ Tail(Rest(b, p, n)) = Rest(b, q, n)
  <2>1. /\ Rest(b, q - 1, n) # <<>> /\ Head(Rest(b, q - 1, n)) = b[q - 1]
        /\ Tail(Rest(b, q - 1, n)) = Rest(b, q, n)
    BY <1>1, <1>3, RestCut
  <2> QED BY <1>3, <2>1
<1>7. Line(input_buffer, input_pos)' = Line(b, q) /\ Rest(input_buffer, input_pos, input_len)' = Rest(b, q, n)
  BY <1>2
<1> QED BY <1>4, <1>5, <1>6, <1>7 DEF b, n, p

-----------------------------------------------------------------------------
(* The lines remembered.                                                    *)

Past(h, count) ==
  [k \in 1..(IF count < SHELL_HISTORY_MAX THEN count ELSE SHELL_HISTORY_MAX) |-> h[(count - k) % SHELL_HISTORY_MAX]]

\* A line that is recalled is the one that lies as far back.
LEMMA PastFacts ==
  ASSUME EditInv
  PROVE  /\ SHELL_HISTORY_MAX \in Nat /\ SHELL_HISTORY_MAX > 0
         /\ Past(history_buffer, history_count) \in Seq(Seq(Letters))
         /\ Len(Past(history_buffer, history_count)) = Remembered
         /\ Remembered = history_count - Oldest(history_count) /\ Remembered \in Nat
         /\ \A i \in Oldest(history_count)..(history_count - 1) :
              /\ Recalled(i) \in Seq(Letters) /\ Len(Recalled(i)) \in Buffer
              /\ Past(history_buffer, history_count)[history_count - i] = Recalled(i)
<1> DEFINE H == SHELL_HISTORY_MAX
           c == history_count
           m == Remembered
<1>1. H \in Nat /\ H > 0 /\ c \in Nat
  <2>1. H \in Nat \ {0}
    BY ShellAssumption
  <2>2. c \in Nat
    BY DEF EditInv
  <2> QED BY <2>1, <2>2
<1>2. m \in Nat /\ m = IF c < H THEN c ELSE H
  BY <1>1 DEF Remembered
<1>3. m = c - Oldest(c)
  BY <1>1, <1>2 DEF Oldest
<1>4. ASSUME NEW i \in Int
      PROVE  history_buffer[i % H] \in Seq(Letters) /\ Len(history_buffer[i % H]) \in Buffer
  <2>1. i % H \in 0..(H - 1)
    BY <1>1
  <2> QED BY <2>1 DEF EditInv
<1> HIDE DEF H, c, m
<1> DEFINE p == Past(history_buffer, c)
<1>5. p = [k \in 1..m |-> history_buffer[(c - k) % H]]
  BY <1>2 DEF Past, H
<1> HIDE DEF p
<1>6. p \in Seq(Seq(Letters)) /\ Len(p) = m
  <2>1. \A k \in 1..m : history_buffer[(c - k) % H] \in Seq(Letters)
    BY <1>1, <1>2, <1>4
  <2>2. p \in [1..m -> Seq(Letters)]
    BY <1>5, <2>1
  <2> QED BY <1>2, <2>2
<1>7. ASSUME NEW i \in Oldest(c)..(c - 1)
      PROVE  /\ Recalled(i) \in Seq(Letters) /\ Len(Recalled(i)) \in Buffer
             /\ p[c - i] = Recalled(i)
  <2>1. i \in Int /\ c - i \in 1..m /\ c - (c - i) = i
    BY <1>1, <1>2, <1>3 DEF Oldest, H
  <2>2. Recalled(i) = history_buffer[i % H]
    BY DEF Recalled, H
  <2> QED BY <1>4, <1>5, <2>1, <2>2
<1> QED BY <1>1, <1>2, <1>3, <1>6, <1>7 DEF H, c, m, p

\* What strcpy leaves is the line that was copied.
LEMMA CopiedLine ==
  ASSUME EditInv, NEW s \in Seq(Letters), Len(s) \in Buffer
  PROVE  /\ Copied(s) = [i \in Buffer |-> Copied(s)[i]] /\ DOMAIN Copied(s) = Buffer
         /\ \A i \in 0..(Len(s) - 1) : Copied(s)[i] = s[i + 1] /\ Copied(s)[i] \in Letters
         /\ Line(Copied(s), Len(s)) = s
         /\ Rest(Copied(s), Len(s), Len(s)) = <<>>
<1> DEFINE d == Copied(s)
           n == Len(s)
<1>1. d = [i \in Buffer |-> IF i < n THEN s[i + 1] ELSE IF i = n THEN NUL ELSE input_buffer[i]]
  BY DEF Copied
<1>2. /\ n \in Nat /\ SHELL_INPUT_BUF_SIZE \in Nat /\ n < SHELL_INPUT_BUF_SIZE
      /\ \A i \in 1..n : s[i] \in Letters
  <2>1. SHELL_INPUT_BUF_SIZE \in Nat
    BY ShellAssumption
  <2>3. n \in Nat /\ n \in Buffer
    OBVIOUS
  <2>2. \A i \in 1..n : s[i] \in Letters
    OBVIOUS
  <2> HIDE DEF n
  <2> QED BY <2>1, <2>2, <2>3 DEF Buffer
<1> HIDE DEF d, n
<1>3. DOMAIN d = Buffer /\ d = [i \in Buffer |-> d[i]]
  BY <1>1
<1>4. ASSUME NEW i \in 0..(n - 1) PROVE d[i] = s[i + 1] /\ d[i] \in Letters
  <2>1. i \in Buffer /\ i < n /\ i + 1 \in 1..n
    BY <1>2 DEF Buffer
  <2> QED BY <1>1, <1>2, <2>1
<1>5. Line(d, n) = s
  <2> DEFINE x == Line(d, n)
  <2>1. x \in Seq(Letters) /\ Len(x) = n /\ \A i \in 1..n : x[i] = d[i - 1]
    BY <1>2, <1>4, LineFacts
  <2> HIDE DEF x
  <2>2. ASSUME NEW i \in 1..n PROVE x[i] = s[i]
    <3>1. i - 1 \in 0..(n - 1) /\ (i - 1) + 1 = i
      BY <1>2
    <3> QED BY <1>4, <2>1, <3>1
  <2>3. x = s
    BY <2>1, <2>2, SeqSame DEF n
  <2> QED BY <2>3 DEF x
<1>6. Rest(d, n, n) = <<>>
  <2>1. n - n = 0
    BY <1>2
  <2> QED BY <2>1 DEF Rest
<1> QED BY <1>3, <1>4, <1>5, <1>6 DEF d, n

LEMMA ShowLine ==
  ASSUME EditInv, NEW s \in Seq(Letters), Len(s) \in Buffer, shell_set_current_line(s)
  PROVE  /\ DOMAIN input_buffer' = Buffer /\ input_buffer' = [i \in Buffer |-> input_buffer'[i]]
         /\ input_len' = Len(s) /\ input_pos' = Len(s) /\ input_len' \in Buffer /\ input_pos' \in 0..input_len'
         /\ \A i \in 0..(input_len' - 1) : input_buffer'[i] \in Letters
         /\ Line(input_buffer, input_pos)' = s
         /\ Rest(input_buffer, input_pos, input_len)' = <<>>
<1> DEFINE d == Copied(s)
           n == Len(s)
<1>1. /\ d = [i \in Buffer |-> d[i]] /\ DOMAIN d = Buffer
      /\ \A i \in 0..(n - 1) : d[i] \in Letters
      /\ Line(d, n) = s /\ Rest(d, n, n) = <<>>
  BY CopiedLine
<1>2. input_buffer' = d /\ input_len' = n /\ input_pos' = n /\ n \in Buffer /\ n \in 0..n
  BY DEF shell_set_current_line
<1> HIDE DEF d, n
<1>3. Line(input_buffer, input_pos)' = Line(d, n) /\ Rest(input_buffer, input_pos, input_len)' = Rest(d, n, n)
  BY <1>2
<1>4. \A i \in 0..(input_len' - 1) : input_buffer'[i] \in Letters
  BY <1>1, <1>2
<1> QED BY <1>1, <1>2, <1>3, <1>4 DEF n

LEMMA KeyUpShows ==
  ASSUME EditInv, KeyUp
  PROVE  LET back == history_count - history_index
             past == Past(history_buffer, history_count)
         IN /\ EditInv'
            /\ back < Len(past) /\ (history_count - history_index)' = back + 1
            /\ Line(input_buffer, input_pos)' = past[back + 1]
            /\ Rest(input_buffer, input_pos, input_len)' = <<>>
            /\ Past(history_buffer, history_count)' = past
<1> DEFINE c == history_count
           j == history_index
           i == j - 1
           s == Recalled(i)
           past == Past(history_buffer, c)
<1>1. /\ j > Oldest(c) /\ history_index' = i /\ shell_set_current_line(Recalled(history_index'))
      /\ history_buffer' = history_buffer /\ history_count' = c /\ c > 0
  BY DEF KeyUp
<1>2. c \in Nat /\ j \in Oldest(c)..c
  <2>1. c \in Nat /\ (j \in Oldest(c)..c \/ (j = -1 /\ c = 0))
    BY DEF EditInv
  <2>2. c # 0
    BY <1>1, <2>1
  <2> QED BY <2>1, <2>2
<1>3. /\ Len(past) = c - Oldest(c) /\ Oldest(c) \in Int
      /\ \A k \in Oldest(c)..(c - 1) :
           Recalled(k) \in Seq(Letters) /\ Len(Recalled(k)) \in Buffer /\ past[c - k] = Recalled(k)
  <2>1. SHELL_HISTORY_MAX \in Nat
    BY ShellAssumption
  <2>2. Oldest(c) \in Int
    BY <1>2, <2>1 DEF Oldest
  <2> QED BY <2>2, PastFacts
<1> HIDE DEF c, j, past
<1>4. i \in Oldest(c)..(c - 1) /\ c - i = (c - j) + 1 /\ i \in Oldest(c)..c
  BY <1>1, <1>2, <1>3
<1>5. s \in Seq(Letters) /\ Len(s) \in Buffer /\ past[(c - j) + 1] = s /\ shell_set_current_line(s)
  BY <1>1, <1>3, <1>4
<1> HIDE DEF s, i
<1>6. /\ DOMAIN input_buffer' = Buffer /\ input_buffer' = [k \in Buffer |-> input_buffer'[k]]
      /\ input_len' \in Buffer /\ input_pos' \in 0..input_len'
      /\ \A k \in 0..(input_len' - 1) : input_buffer'[k] \in Letters
      /\ Line(input_buffer, input_pos)' = s
      /\ Rest(input_buffer, input_pos, input_len)' = <<>>
  BY <1>5, ShowLine
<1>7. EditInv'
  BY <1>1, <1>2, <1>4, <1>6 DEF EditInv, c
<1>8. c - j < Len(past) /\ (history_count - history_index)' = (c - j) + 1
  BY <1>1, <1>2, <1>3, <1>4
<1>9. Past(history_buffer, history_count)' = past
  BY <1>1 DEF past, c
<1> QED BY <1>5, <1>6, <1>7, <1>8, <1>9 DEF c, j, past

LEMMA KeyDownShows ==
  ASSUME EditInv, KeyDown
  PROVE  LET back == history_count - history_index
             past == Past(history_buffer, history_count)
         IN /\ EditInv'
            /\ back > 0 /\ (history_count - history_index)' = back - 1
            /\ Line(input_buffer, input_pos)' = (IF back - 1 = 0 THEN <<>> ELSE past[back - 1])
            /\ Rest(input_buffer, input_pos, input_len)' = <<>>
            /\ Past(history_buffer, history_count)' = past
<1> DEFINE c == history_count
           j == history_index
           i == j + 1
           s == IF i = c THEN <<>> ELSE Recalled(i)
           past == Past(history_buffer, c)
<1>1. /\ j < c /\ history_index' = i
      /\ shell_set_current_line(IF history_index' = c THEN <<>> ELSE Recalled(history_index'))
      /\ history_buffer' = history_buffer /\ history_count' = c
  BY DEF KeyDown
<1>2. c \in Nat /\ (j \in Oldest(c)..c \/ (j = -1 /\ c = 0))
  BY DEF EditInv
<1>3. /\ Len(past) = c - Oldest(c) /\ Oldest(c) \in Nat
      /\ \A k \in Oldest(c)..(c - 1) :
           Recalled(k) \in Seq(Letters) /\ Len(Recalled(k)) \in Buffer /\ past[c - k] = Recalled(k)
  <2>1. SHELL_HISTORY_MAX \in Nat
    BY ShellAssumption
  <2>2. Oldest(c) \in Nat
    BY <1>2, <2>1 DEF Oldest
  <2> QED BY <2>2, PastFacts
<1> HIDE DEF c, j, past
<1>4. /\ i \in Int /\ c - i = (c - j) - 1 /\ c - j > 0 /\ i <= c
      /\ i # c => i \in Oldest(c)..(c - 1)
      /\ i \in Oldest(c)..c
  <2>1. CASE j \in Oldest(c)..c
    BY <1>1, <1>2, <1>3, <2>1
  <2>2. CASE j = -1 /\ c = 0
    <3>1. SHELL_HISTORY_MAX \in Nat
      BY ShellAssumption
    <3>2. Oldest(c) = 0
      BY <2>2, <3>1 DEF Oldest
    <3> QED BY <2>2, <3>2
  <2> QED BY <1>2, <2>1, <2>2
<1>5. /\ s \in Seq(Letters) /\ Len(s) \in Buffer /\ shell_set_current_line(s)
      /\ s = IF (c - j) - 1 = 0 THEN <<>> ELSE past[(c - j) - 1]
  <2>1. shell_set_current_line(s)
    BY <1>1
  <2>2. CASE i = c
    <3>1. s = <<>> /\ (c - j) - 1 = 0
      BY <1>2, <1>4, <2>2
    <3>2. <<>> \in Seq(Letters) /\ Len(<<>>) = 0
      OBVIOUS
    <3>3. 0 \in Buffer
      BY BufferFacts
    <3> QED BY <2>1, <3>1, <3>2, <3>3
  <2>3. CASE i # c
    <3>1. s = Recalled(i) /\ (c - j) - 1 # 0 /\ i \in Oldest(c)..(c - 1)
      BY <1>2, <1>4, <2>3
    <3>2. Recalled(i) \in Seq(Letters) /\ Len(Recalled(i)) \in Buffer /\ past[(c - j) - 1] = Recalled(i)
      BY <1>3, <1>4, <3>1
    <3> HIDE DEF i
    <3> QED BY <2>1, <3>1, <3>2
  <2> QED BY <2>2, <2>3
<1> HIDE DEF s, i
<1>6. /\ DOMAIN input_buffer' = Buffer /\ input_buffer' = [k \in Buffer |-> input_buffer'[k]]
      /\ input_len' \in Buffer /\ input_pos' \in 0..input_len'
      /\ \A k \in 0..(input_len' - 1) : input_buffer'[k] \in Letters
      /\ Line(input_buffer, input_pos)' = s
      /\ Rest(input_buffer, input_pos, input_len)' = <<>>
  BY <1>5, ShowLine
<1>7. EditInv'
  BY <1>1, <1>2, <1>4, <1>6 DEF EditInv, c
<1>8. c - j > 0 /\ (history_count - history_index)' = (c - j) - 1
  BY <1>1, <1>4
<1>9. Past(history_buffer, history_count)' = past
  BY <1>1 DEF past, c
<1> QED BY <1>5, <1>6, <1>7, <1>8, <1>9 DEF c, j, past

\* The residues of as many neighbours as there are rows are different.
LEMMA OtherRow ==
  ASSUME NEW H \in Nat, H > 0, NEW c \in Int, NEW k \in 1..(H - 1)
  PROVE  (c - k) % H # c % H
<1>1. \A i \in Int : i = H * (i \div H) + (i % H)
  OBVIOUS
<1> DEFINE x == c \div H
           y == (c - k) \div H
<1>2. x \in Int /\ y \in Int
  OBVIOUS
<1> SUFFICES ASSUME (c - k) % H = c % H PROVE FALSE
  OBVIOUS
<1>3. k = H * x - H * y
  <2>1. c = H * (c \div H) + (c % H)
    BY <1>1
  <2>2. c - k \in Int
    OBVIOUS
  <2>3. c - k = H * ((c - k) \div H) + ((c - k) % H)
    BY <1>1, <2>2
  <2> DEFINE r == c % H
             v == H * x
             z == H * y
  <2>4. r \in Int /\ v \in Int /\ z \in Int /\ c = v + r /\ c - k = z + r
    BY <1>2, <2>1, <2>3
  <2> HIDE DEF r, v, z
  <2>5. k = v - z
    BY <2>4
  <2> QED BY <2>5 DEF v, z
<1> HIDE DEF x, y
<1>4. k = H * (x - y)
  BY <1>2, <1>3
<1>5. x - y <= 0 => H * (x - y) <= 0
  BY <1>2
<1>6. x - y >= 1 => H * (x - y) >= H
  BY <1>2
<1> QED BY <1>2, <1>4, <1>5, <1>6

LEMMA EnterRemembers ==
  ASSUME EditInv, EnterLine
  PROVE  LET past == Past(history_buffer, history_count)
             whole == Line(input_buffer, input_pos) \o Rest(input_buffer, input_pos, input_len)
         IN /\ EditInv'
            /\ whole # <<>> /\ (history_count - history_index)' = 0
            /\ Line(input_buffer, input_pos)' = <<>>
            /\ Rest(input_buffer, input_pos, input_len)' = <<>>
            /\ Past(history_buffer, history_count)'
                 = SubSeq(<<whole>> \o past, 1,
                          IF Len(past) < SHELL_HISTORY_MAX THEN Len(past) + 1 ELSE SHELL_HISTORY_MAX)
<1> DEFINE b == input_buffer
           n == input_len
           p == input_pos
           c == history_count
           H == SHELL_HISTORY_MAX
           h == history_buffer
           g == history_buffer'
           d == input_buffer'
           w == Line(b, n)
           past == Past(h, c)
           after == Past(g, c + 1)
<1>1. /\ n > 0 /\ g = [h EXCEPT ![c % H] = w] /\ history_count' = c + 1 /\ history_index' = c + 1
      /\ d = [b EXCEPT ![n] = NUL] /\ input_len' = 0 /\ input_pos' = 0
  BY LineIsText DEF EnterLine
<1>2. /\ n \in Nat /\ n \in Buffer /\ p \in 0..n /\ \A i \in 0..(n - 1) : b[i] \in Letters
      /\ DOMAIN b = Buffer /\ b = [i \in Buffer |-> b[i]]
      /\ c \in Nat /\ h \in [0..(H - 1) -> Seq(Letters)]
      /\ \A i \in 0..(H - 1) : Len(h[i]) \in Buffer
  <2>1. /\ n \in Buffer /\ p \in 0..n /\ \A i \in 0..(n - 1) : b[i] \in Letters
        /\ DOMAIN b = Buffer /\ b = [i \in Buffer |-> b[i]]
        /\ c \in Nat /\ h \in [0..(H - 1) -> Seq(Letters)]
        /\ \A i \in 0..(H - 1) : Len(h[i]) \in Buffer
    BY DEF EditInv
  <2> HIDE DEF n
  <2>2. n \in Nat
    BY <2>1, BufferFacts DEF Buffer
  <2> QED BY <2>1, <2>2
<1>3. H \in Nat /\ H > 0
  <2>1. H \in Nat \ {0}
    BY ShellAssumption
  <2> QED BY <2>1
<1>4. /\ past \in Seq(Seq(Letters)) /\ Len(past) = (IF c < H THEN c ELSE H)
  <2>1. past \in Seq(Seq(Letters)) /\ Len(past) = Remembered
    BY PastFacts
  <2> QED BY <2>1 DEF Remembered
<1>5. w \in Seq(Letters) /\ Len(w) = n /\ w = Line(b, p) \o Rest(b, p, n)
  BY <1>2, LineFacts, WholeLine
<1>6. past = [k \in 1..(IF c < H THEN c ELSE H) |-> h[(c - k) % H]]
      /\ after = [k \in 1..(IF c + 1 < H THEN c + 1 ELSE H) |-> g[((c + 1) - k) % H]]
  BY DEF Past
<1> HIDE DEF b, n, p, c, H, h, g, d, w, past, after
<1>7. c % H \in 0..(H - 1)
  BY <1>2, <1>3
<1>8. g \in [0..(H - 1) -> Seq(Letters)] /\ \A i \in 0..(H - 1) : Len(g[i]) \in Buffer
  BY <1>1, <1>2, <1>5, <1>7
<1>9. EditInv'
  <2>1. DOMAIN d = Buffer /\ d = [i \in Buffer |-> d[i]]
    BY <1>1, <1>2
  <2>2. 0 \in Buffer /\ 0 \in 0..0 /\ (\A i \in 0..(0 - 1) : FALSE)
    BY BufferFacts
  <2>3. c + 1 \in Nat /\ c + 1 \in Oldest(c + 1)..(c + 1)
    <3>1. Oldest(c + 1) \in Int /\ Oldest(c + 1) <= c + 1
      BY <1>2, <1>3 DEF Oldest, H
    <3> QED BY <1>2, <3>1
  <2>4. DOMAIN input_buffer' = Buffer /\ input_buffer' = [i \in Buffer |-> input_buffer'[i]]
    BY <2>1 DEF d
  <2>5. \A i \in 0..(input_len' - 1) : input_buffer'[i] \in Letters
    BY <1>1, <2>2
  <2>6. /\ history_buffer' \in [0..(SHELL_HISTORY_MAX - 1) -> Seq(Letters)]
        /\ \A i \in 0..(SHELL_HISTORY_MAX - 1) : Len(history_buffer'[i]) \in Buffer
    BY <1>8 DEF g, H
  <2> QED BY <1>1, <2>2, <2>3, <2>4, <2>5, <2>6 DEF EditInv
<1> DEFINE m == IF c < H THEN c + 1 ELSE H
           one == <<w>>
           all == one \o past
<1>10. m \in Nat /\ m > 0 /\ m = (IF c + 1 < H THEN c + 1 ELSE H) /\ m <= 1 + Len(past)
       /\ m = (IF Len(past) < H THEN Len(past) + 1 ELSE H)
       /\ m <= H /\ (c < H => m = c + 1) /\ (~(c < H) => m = H)
  BY <1>2, <1>3, <1>4
<1>11. one \in Seq(Seq(Letters)) /\ Len(one) = 1 /\ one[1] = w
  BY <1>5
<1>12. Len(past) \in Nat
  BY <1>4
<1>13. /\ all \in Seq(Seq(Letters)) /\ Len(all) = 1 + Len(past)
       /\ \A i \in 1..(1 + Len(past)) : all[i] = IF i <= 1 THEN one[i] ELSE past[i - 1]
  <2> HIDE DEF one
  <2>1. one \in Seq(Seq(Letters)) /\ past \in Seq(Seq(Letters))
    BY <1>4, <1>11
  <2>2. /\ one \o past \in Seq(Seq(Letters)) /\ Len(one \o past) = Len(one) + Len(past)
        /\ \A i \in 1..(Len(one) + Len(past)) :
             (one \o past)[i] = IF i <= Len(one) THEN one[i] ELSE past[i - Len(one)]
    BY <2>1, ConcatProperties
  <2> QED BY <1>11, <1>12, <2>2
<1> HIDE DEF one, all, m
<1> DEFINE kept == SubSeq(all, 1, m)
<1>14. kept \in Seq(Seq(Letters)) /\ Len(kept) = m /\ \A i \in 1..m : kept[i] = all[i]
  BY <1>10, <1>12, <1>13
<1>15. after = [k \in 1..m |-> g[((c + 1) - k) % H]]
  BY <1>6, <1>10
<1>16. after \in Seq(Seq(Letters)) /\ Len(after) = m
  <2>1. \A k \in 1..m : g[((c + 1) - k) % H] \in Seq(Letters)
    <3>1. \A k \in 1..m : ((c + 1) - k) % H \in 0..(H - 1)
      BY <1>2, <1>3, <1>10
    <3> QED BY <1>8, <3>1
  <2>2. after \in [1..m -> Seq(Letters)]
    BY <1>15, <2>1
  <2> QED BY <1>10, <2>2
<1> HIDE DEF kept
<1>17. ASSUME NEW k \in 1..m PROVE after[k] = kept[k]
  <2>1. k \in Int /\ after[k] = g[((c + 1) - k) % H] /\ kept[k] = all[k] /\ k \in 1..(1 + Len(past))
    BY <1>10, <1>12, <1>14, <1>15
  <2>2. CASE k = 1
    <3>1. (c + 1) - k = c /\ k <= 1
      BY <1>2, <2>2
    <3>2. after[k] = w
      BY <1>1, <1>2, <1>7, <2>1, <3>1
    <3>3. kept[k] = w
      BY <1>11, <1>13, <2>1, <2>2, <3>1
    <3> QED BY <3>2, <3>3
  <2>3. CASE k # 1
    <3> DEFINE i == k - 1
    <3>1. i \in 1..(H - 1) /\ i \in 1..(IF c < H THEN c ELSE H) /\ (c + 1) - k = c - i /\ ~(k <= 1)
      BY <1>2, <1>3, <1>10, <2>3
    <3>2. kept[k] = past[i]
      BY <1>13, <2>1, <3>1
    <3> HIDE DEF i
    <3>3. (c - i) % H # c % H /\ (c - i) % H \in 0..(H - 1)
      <4>1. c \in Int /\ c - i \in Int
        BY <1>2, <3>1
      <4>2. (c - i) % H # c % H
        BY <1>3, <3>1, <4>1, OtherRow
      <4> QED BY <1>3, <4>1, <4>2
    <3>4. g[(c - i) % H] = h[(c - i) % H]
      BY <1>1, <1>2, <3>3
    <3>5. past[i] = h[(c - i) % H]
      BY <1>6, <3>1
    <3> QED BY <2>1, <3>1, <3>2, <3>4, <3>5
  <2> QED BY <2>2, <2>3
<1>18. after = kept
  BY <1>14, <1>16, <1>17, SeqSame
<1>19. w # <<>>
  BY <1>1, <1>5
<1>20. Line(input_buffer, input_pos)' = <<>> /\ Rest(input_buffer, input_pos, input_len)' = <<>>
  BY <1>1 DEF Line, Rest
<1>21. (history_count - history_index)' = 0
  BY <1>1, <1>2
<1>22. Past(history_buffer, history_count)' = after
  BY <1>1 DEF after, g
<1> QED BY <1>5, <1>9, <1>10, <1>18, <1>19, <1>20, <1>21, <1>22 DEF b, n, p, c, H, h, w, past, kept, all, one

LEMMA EnterChangesNothing ==
  ASSUME EditInv, EnterNothing
  PROVE  /\ EditInv' /\ input_len' = input_len /\ input_pos' = input_pos
         /\ UNCHANGED history
         /\ Line(input_buffer, input_pos)' = Line(input_buffer, input_pos)
         /\ Rest(input_buffer, input_pos, input_len)' = Rest(input_buffer, input_pos, input_len)
<1>1. /\ input_len = 0 /\ input_len' = 0 /\ input_pos' = input_pos /\ UNCHANGED history
      /\ input_buffer' = [input_buffer EXCEPT ![0] = NUL]
  BY DEF EnterNothing
<1>2. /\ DOMAIN input_buffer = Buffer /\ input_buffer = [i \in Buffer |-> input_buffer[i]]
      /\ input_len \in Buffer /\ input_pos \in 0..input_len
  BY DEF EditInv
<1>3. input_pos = 0
  BY <1>1, <1>2
<1>4. DOMAIN input_buffer' = Buffer /\ input_buffer' = [i \in Buffer |-> input_buffer'[i]]
  BY <1>1, <1>2
<1>5. EditInv'
  BY <1>1, <1>2, <1>3, <1>4 DEF EditInv, history
<1> QED BY <1>1, <1>3, <1>5 DEF Line, Rest

LEMMA StartsEmpty ==
  ASSUME Init
  PROVE  /\ EditInv /\ Line(input_buffer, input_pos) = <<>> /\ Rest(input_buffer, input_pos, input_len) = <<>>
         /\ Past(history_buffer, history_count) = <<>> /\ history_count - history_index = 1
<1>1. /\ input_buffer = [i \in Buffer |-> NUL] /\ input_len = 0 /\ input_pos = 0
      /\ history_buffer = [i \in 0..(SHELL_HISTORY_MAX - 1) |-> <<>>]
      /\ history_count = 0 /\ history_index = -1
  BY DEF Init
<1>2. <<>> \in Seq(Letters) /\ Len(<<>>) = 0
  OBVIOUS
<1>3. EditInv
  BY <1>1, <1>2, BufferFacts DEF EditInv
<1>4. Line(input_buffer, input_pos) = <<>> /\ Rest(input_buffer, input_pos, input_len) = <<>>
  BY <1>1 DEF Line, Rest
<1>5. Past(history_buffer, history_count) = <<>>
  <2>1. (IF 0 < SHELL_HISTORY_MAX THEN 0 ELSE SHELL_HISTORY_MAX) = 0
    <3>1. SHELL_HISTORY_MAX \in Nat \ {0}
      BY ShellAssumption
    <3> QED BY <3>1
  <2> QED BY <1>1, <2>1 DEF Past
<1> QED BY <1>1, <1>3, <1>4, <1>5

-----------------------------------------------------------------------------
(* The line editor.                                                         *)

LEMMA KeyEdits == EditInv /\ [Next]_vars => EditInv'
<1> SUFFICES ASSUME EditInv, [Next]_vars PROVE EditInv'
  OBVIOUS
<1>1. CASE EnterLine
  BY <1>1, EnterRemembers
<1>2. CASE EnterNothing
  BY <1>2, EnterChangesNothing
<1>3. CASE Backspace
  BY <1>3, EraseLine
<1>4. CASE CursorLeft
  BY <1>4, LeftOfLine
<1>5. CASE CursorRight
  BY <1>5, RightOfLine
<1>6. CASE KeyUp
  BY <1>6, KeyUpShows
<1>7. CASE KeyDown
  BY <1>7, KeyDownShows
<1>8. ASSUME NEW c \in Letters, Insert(c) PROVE EditInv'
  BY <1>8, InsertLine
<1>9. CASE UNCHANGED vars
  BY <1>9 DEF vars, line, history, EditInv
<1> QED BY <1>1, <1>2, <1>3, <1>4, <1>5, <1>6, <1>7, <1>8, <1>9 DEF Next, shell_handle_key

LEMMA AlwaysEdits == Spec => []EditInv
<1>1. Init => EditInv
  BY StartsEmpty
<1> QED BY <1>1, KeyEdits, PTL DEF Spec

\* What LineEditor's variables stand for.
LEMMA Mapped ==
  /\ Text(input_pos) = Line(input_buffer, input_pos)
  /\ [k \in 1..Remembered |-> Recalled(history_count - k)] = Past(history_buffer, history_count)
BY LineIsText DEF Remembered, Recalled, Past

LEMMA MappedNext ==
  /\ Text(input_pos)' = Line(input_buffer, input_pos)'
  /\ [k \in 1..Remembered |-> Recalled(history_count - k)]' = Past(history_buffer, history_count)'
BY DEF Text, Line, Remembered, Recalled, Past

LEMMA KeySteps == EditInv /\ [Next]_vars => [Abs!Next]_(Abs!vars)
<1> SUFFICES ASSUME EditInv, [Next]_vars PROVE [Abs!Next]_(Abs!vars)
  OBVIOUS
<1> DEFINE before == Line(input_buffer, input_pos)
           after == Rest(input_buffer, input_pos, input_len)
           past == Past(history_buffer, history_count)
           back == history_count - history_index
<1>1. CASE EnterLine
  <2>1. /\ before \o after # <<>> /\ back' = 0 /\ before' = <<>> /\ after' = <<>>
        /\ past' = SubSeq(<<before \o after>> \o past, 1,
                          IF Len(past) < SHELL_HISTORY_MAX THEN Len(past) + 1 ELSE SHELL_HISTORY_MAX)
    BY <1>1, EnterRemembers
  <2>2. Abs!Enter
    BY <2>1, Mapped, MappedNext DEF Abs!Enter, Abs!Whole, Abs!Show
  <2> QED BY <2>2 DEF Abs!Next
<1>2. CASE EnterNothing
  <2>1. UNCHANGED history /\ before' = before /\ after' = after
    BY <1>2, EnterChangesNothing
  <2>2. past' = past /\ back' = back
    BY <2>1 DEF history
  <2> QED BY <2>1, <2>2, Mapped, MappedNext DEF Abs!vars
<1>3. CASE Backspace
  <2>1. before # <<>> /\ before' = SubSeq(before, 1, Len(before) - 1) /\ after' = after
    BY <1>3, EraseLine
  <2>2. past' = past /\ back' = back
    BY <1>3 DEF Backspace, history
  <2>3. Abs!Erase
    BY <2>1, <2>2, Mapped, MappedNext DEF Abs!Erase
  <2> QED BY <2>3 DEF Abs!Next
<1>4. CASE CursorLeft
  <2>1. /\ before # <<>> /\ before' = SubSeq(before, 1, Len(before) - 1)
        /\ after' = <<before[Len(before)]>> \o after
    BY <1>4, LeftOfLine
  <2>2. past' = past /\ back' = back
    BY <1>4 DEF CursorLeft, history
  <2>3. Abs!Left
    BY <2>1, <2>2, Mapped, MappedNext DEF Abs!Left
  <2> QED BY <2>3 DEF Abs!Next
<1>5. CASE CursorRight
  <2>1. after # <<>> /\ before' = Append(before, Head(after)) /\ after' = Tail(after)
    BY <1>5, RightOfLine
  <2>2. past' = past /\ back' = back
    BY <1>5 DEF CursorRight, history
  <2>3. Abs!Right
    BY <2>1, <2>2, Mapped, MappedNext DEF Abs!Right
  <2> QED BY <2>3 DEF Abs!Next
<1>6. CASE KeyUp
  <2>1. /\ back < Len(past) /\ back' = back + 1 /\ before' = past[back + 1] /\ after' = <<>> /\ past' = past
    BY <1>6, KeyUpShows
  <2>2. Abs!Older
    BY <2>1, Mapped, MappedNext DEF Abs!Older, Abs!Show
  <2> QED BY <2>2 DEF Abs!Next
<1>7. CASE KeyDown
  <2>1. /\ back > 0 /\ back' = back - 1 /\ before' = (IF back - 1 = 0 THEN <<>> ELSE past[back - 1])
        /\ after' = <<>> /\ past' = past
    BY <1>7, KeyDownShows
  <2>2. Abs!Newer
    BY <2>1, Mapped, MappedNext DEF Abs!Newer, Abs!Show
  <2> QED BY <2>2 DEF Abs!Next
<1>8. ASSUME NEW c \in Letters, Insert(c) PROVE Abs!Type(c)
  <2>1. /\ Len(Line(input_buffer, input_len)) < SHELL_INPUT_BUF_SIZE - 1
        /\ before' = Append(before, c) /\ after' = after
    BY <1>8, InsertLine
  <2>2. before \o after = Line(input_buffer, input_len)
    <3>1. input_len \in Buffer /\ input_pos \in 0..input_len /\ \A i \in 0..(input_len - 1) : input_buffer[i] \in Letters
      BY DEF EditInv
    <3>2. input_len \in Nat
      BY <3>1, BufferFacts DEF Buffer
    <3> QED BY <3>1, <3>2, WholeLine
  <2>3. past' = past /\ back' = back
    BY <1>8 DEF Insert, history
  <2> QED BY <2>1, <2>2, <2>3, Mapped, MappedNext DEF Abs!Type, Abs!Whole
<1>9. CASE UNCHANGED vars
  <2>1. before' = before /\ after' = after /\ past' = past /\ back' = back
    BY <1>9 DEF vars, line, history
  <2> QED BY <2>1, Mapped, MappedNext DEF Abs!vars
<1> HIDE DEF before, after, past, back
<1> QED BY <1>1, <1>2, <1>3, <1>4, <1>5, <1>6, <1>7, <1>8, <1>9 DEF Next, shell_handle_key, Abs!Next

\* shell_handle_key edits a line before and after a cursor and remembers the
\* latest lines, newest first: the shifts in the buffer, the copies between it and
\* the ring, and the indices into the ring do just that, for every size.
THEOREM EditorRefines == Spec => ImplementsLineEditor
<1>1. Init => Abs!Init
  BY StartsEmpty, Mapped DEF Abs!Init
<1> QED BY <1>1, AlwaysEdits, KeySteps, PTL DEF Spec, ImplementsLineEditor, Abs!Spec

-----------------------------------------------------------------------------
(* Calls to the terminal, one after the other.                              *)

\* Induction up to a number, from the least one that fails.
LEMMA LeastOf ==
  ASSUME NEW T \in SUBSET Nat, T # {}
  PROVE  \E x \in T : \A y \in T : x <= y
<1> DEFINE R == {ss \in Nat \X Nat : ss[1] < ss[2]}
<1>1. IsWellFoundedOn(R, Nat)
  BY NatLessThanWellFounded DEF OpToRel
<1>2. \A x, y \in Nat : <<y, x>> \in R <=> y < x
  OBVIOUS
<1> HIDE DEF R
<1>3. PICK x \in T : \A y \in T : ~(<<y, x>> \in R)
  BY <1>1, WFMin
<1>4. \A y \in T : x <= y
  <2> SUFFICES ASSUME NEW y \in T PROVE x <= y
    OBVIOUS
  <2>1. ~(y < x)
    BY <1>2, <1>3
  <2> QED BY <2>1
<1> QED BY <1>4

LEMMA UpTo ==
  ASSUME NEW P, NEW n \in Nat, 0 \in P, \A i \in 0..(n - 1) : i \in P => i + 1 \in P
  PROVE  \A i \in 0..n : i \in P
<1> DEFINE T == {i \in 0..n : i \notin P}
<1> SUFFICES ASSUME T # {} PROVE FALSE
  OBVIOUS
<1>1. PICK x \in T : \A y \in T : x <= y
  <2>1. T \in SUBSET Nat
    OBVIOUS
  <2> HIDE DEF T
  <2> QED BY <2>1, LeastOf
<1>2. x \in 0..n /\ x \notin P /\ x # 0
  OBVIOUS
<1>3. x - 1 \in 0..(n - 1) /\ x - 1 \notin T /\ x = (x - 1) + 1
  BY <1>1, <1>2
<1> QED BY <1>2, <1>3


Calls == Glyphs \cup Controls

\* The terminals that Feed goes through.
Through(f, t, calls, n) == f = [k \in 0..n |-> IF k = 0 THEN t ELSE Called(f[k - 1], calls[k])]

LEMMA ThroughExists ==
  ASSUME NEW t, NEW s, NEW n \in Nat
  PROVE  \E f : Through(f, t, s, n)
<1> DEFINE P == {k \in 0..n : \E f : Through(f, t, s, k)}
<1>1. 0 \in P
  <2> DEFINE f == [i \in 0..0 |-> t]
  <2>1. f = [i \in 0..0 |-> IF i = 0 THEN t ELSE Called(f[i - 1], s[i])]
    OBVIOUS
  <2>2. Through(f, t, s, 0)
    BY <2>1 DEF Through
  <2> QED BY <2>2
<1>2. ASSUME NEW k \in 0..(n - 1), k \in P PROVE k + 1 \in P
  <2>1. PICK f : Through(f, t, s, k)
    BY <1>2
  <2> DEFINE g == [i \in 0..(k + 1) |-> IF i <= k THEN f[i] ELSE Called(f[k], s[i])]
  <2>2. g = [i \in 0..(k + 1) |-> IF i = 0 THEN t ELSE Called(g[i - 1], s[i])]
    <3> SUFFICES ASSUME NEW i \in 0..(k + 1)
                 PROVE  g[i] = IF i = 0 THEN t ELSE Called(g[i - 1], s[i])
      OBVIOUS
    <3>1. CASE i <= k
      <4>1. g[i] = f[i] /\ (i # 0 => g[i - 1] = f[i - 1])
        BY <3>1
      <4>2. f[i] = IF i = 0 THEN t ELSE Called(f[i - 1], s[i])
        BY <2>1, <3>1 DEF Through
      <4> QED BY <4>1, <4>2
    <3>2. CASE i = k + 1
      <4>1. ~(i <= k) /\ i # 0 /\ i - 1 = k /\ g[i - 1] = f[k]
        BY <3>2
      <4> QED BY <4>1
    <3> QED BY <3>1, <3>2
  <2>3. Through(g, t, s, k + 1)
    BY <2>2 DEF Through
  <2> QED BY <1>2, <2>3
<1> HIDE DEF P
<1>3. n \in P
  <2>1. \A i \in 0..(n - 1) : i \in P => i + 1 \in P
    BY <1>2
  <2>2. n \in 0..n
    OBVIOUS
  <2> QED BY <1>1, <2>1, <2>2, UpTo
<1> QED BY <1>3 DEF P

LEMMA FeedGoes ==
  ASSUME NEW t, NEW s, Len(s) \in Nat
  PROVE  \E f : /\ f[0] = t /\ Feed(t, s) = f[Len(s)]
                /\ \A k \in 1..Len(s) : f[k] = Called(f[k - 1], s[k])
<1> DEFINE after == CHOOSE f : Through(f, t, s, Len(s))
<1>1. Through(after, t, s, Len(s))
  BY ThroughExists
<1>2. Feed(t, s) = after[Len(s)]
  BY DEF Feed, Through
<1> HIDE DEF after
<1>3. after[0] = t
  <2>1. 0 \in 0..Len(s)
    OBVIOUS
  <2> QED BY <1>1, <2>1 DEF Through
<1>4. ASSUME NEW k \in 1..Len(s) PROVE after[k] = Called(after[k - 1], s[k])
  <2>1. k \in 0..Len(s) /\ k # 0
    OBVIOUS
  <2> QED BY <1>1, <2>1 DEF Through
<1> QED BY <1>2, <1>3, <1>4

LEMMA FeedJoin ==
  ASSUME NEW t, NEW a \in Seq(Calls), NEW b \in Seq(Calls)
  PROVE  a \o b \in Seq(Calls) /\ Feed(t, a \o b) = Feed(Feed(t, a), b)
<1> DEFINE n == Len(a)
           m == Len(b)
           c == a \o b
<1>1. n \in Nat /\ m \in Nat
  OBVIOUS
<1>2. /\ c \in Seq(Calls) /\ Len(c) = n + m
      /\ \A i \in 1..(n + m) : c[i] = IF i <= n THEN a[i] ELSE b[i - n]
  BY ConcatProperties
<1> HIDE DEF n, m, c
<1>3. PICK f : f[0] = t /\ Feed(t, a) = f[n] /\ \A k \in 1..n : f[k] = Called(f[k - 1], a[k])
  BY <1>1, FeedGoes DEF n
<1>4. PICK g : g[0] = f[n] /\ Feed(f[n], b) = g[m] /\ \A k \in 1..m : g[k] = Called(g[k - 1], b[k])
  BY <1>1, FeedGoes DEF m
<1>5. PICK h : h[0] = t /\ Feed(t, c) = h[n + m] /\ \A k \in 1..(n + m) : h[k] = Called(h[k - 1], c[k])
  <2>1. Len(c) \in Nat
    BY <1>1, <1>2
  <2>2. \E h : /\ h[0] = t /\ Feed(t, c) = h[Len(c)]
               /\ \A k \in 1..Len(c) : h[k] = Called(h[k - 1], c[k])
    BY <2>1, FeedGoes
  <2> QED BY <1>2, <2>2
<1> DEFINE P == {k \in 0..n : h[k] = f[k]}
           Q == {k \in 0..m : h[n + k] = g[k]}
<1>6. n \in P
  <2>1. 0 \in P
    BY <1>1, <1>3, <1>5
  <2>2. ASSUME NEW k \in 0..(n - 1), k \in P PROVE k + 1 \in P
    <3>1. k + 1 \in 1..n /\ k + 1 \in 0..n /\ (k + 1) - 1 = k /\ k + 1 \in 1..(n + m) /\ k + 1 <= n
      BY <1>1
    <3>2. h[k + 1] = Called(h[k], a[k + 1]) /\ f[k + 1] = Called(f[k], a[k + 1])
      BY <1>2, <1>3, <1>5, <3>1
    <3> QED BY <2>2, <3>1, <3>2
  <2> HIDE DEF P
  <2>3. n \in 0..n
    BY <1>1
  <2> QED BY <1>1, <2>1, <2>2, <2>3, UpTo
<1>7. m \in Q
  <2>1. 0 \in Q
    BY <1>1, <1>4, <1>6
  <2>2. ASSUME NEW k \in 0..(m - 1), k \in Q PROVE k + 1 \in Q
    <3>1. /\ k + 1 \in 1..m /\ k + 1 \in 0..m /\ (k + 1) - 1 = k /\ n + (k + 1) \in 1..(n + m)
          /\ ~(n + (k + 1) <= n) /\ (n + (k + 1)) - 1 = n + k /\ (n + (k + 1)) - n = k + 1
      BY <1>1
    <3>2. h[n + (k + 1)] = Called(h[n + k], b[k + 1]) /\ g[k + 1] = Called(g[k], b[k + 1])
      BY <1>2, <1>4, <1>5, <3>1
    <3> QED BY <2>2, <3>1, <3>2
  <2> HIDE DEF Q
  <2>3. m \in 0..m
    BY <1>1
  <2> QED BY <1>1, <2>1, <2>2, <2>3, UpTo
<1> QED BY <1>2, <1>3, <1>4, <1>5, <1>7 DEF c

LEMMA FeedOne ==
  ASSUME NEW t, NEW s, Len(s) = 1
  PROVE  Feed(t, s) = Called(t, s[1])
<1>1. Len(s) \in Nat
  OBVIOUS
<1>2. PICK f : /\ f[0] = t /\ Feed(t, s) = f[Len(s)]
               /\ \A k \in 1..Len(s) : f[k] = Called(f[k - 1], s[k])
  BY <1>1, FeedGoes
<1>3. 1 \in 1..Len(s) /\ 1 - 1 = 0
  OBVIOUS
<1> QED BY <1>2, <1>3

LEMMA FeedFew ==
  ASSUME NEW t
  PROVE  Feed(t, <<>>) = t /\ \A c : Feed(t, <<c>>) = Called(t, c)
<1>1. Len(<<>>) = 0
  OBVIOUS
<1>2. Feed(t, <<>>) = t
  BY <1>1, FeedGoes
<1>3. ASSUME NEW c PROVE Feed(t, <<c>>) = Called(t, c)
  <2>1. Len(<<c>>) = 1 /\ <<c>>[1] = c
    OBVIOUS
  <2> QED BY <2>1, FeedOne
<1> QED BY <1>2, <1>3

LEMMA TimesFacts ==
  ASSUME NEW c \in Calls, NEW n \in Nat
  PROVE  /\ Times(c, n) \in Seq(Calls) /\ Len(Times(c, n)) = n
         /\ \A k \in 1..n : Times(c, n)[k] = c
<1>1. Times(c, n) \in [1..n -> Calls]
  BY DEF Times
<1> QED BY <1>1 DEF Times

-----------------------------------------------------------------------------
(* What runs of calls do to the screen.                                     *)

Screen == Terminal(Glyphs)
Start(t) == t.row * term_width

LEMMA ScreenFacts ==
  ASSUME NEW t \in Screen
  PROVE  /\ term_width \in Nat /\ term_width > 0 /\ term_height \in Nat /\ term_height > 0
         /\ t.row \in Nat /\ t.row < term_height /\ t.column \in Nat /\ t.column < term_width
         /\ t.mark \in Int /\ t.cells \in [Cells -> Glyphs]
         /\ Start(t) \in Nat /\ Place(t) = Start(t) + t.column
         /\ \A c \in 0..(term_width - 1) : Start(t) + c \in Cells
         /\ Start(t) + term_width <= term_width * term_height
         /\ Cells = 0..(term_width * term_height - 1) /\ term_width * term_height \in Nat
<1>1. term_width \in Nat /\ term_width > 0 /\ term_height \in Nat /\ term_height > 0
  <2>1. term_width \in Nat \ {0} /\ term_height \in Nat \ {0}
    BY TerminalAssumption
  <2> QED BY <2>1
<1>2. /\ t.row \in 0..(term_height - 1) /\ t.column \in 0..(term_width - 1)
      /\ t.mark \in Int /\ t.cells \in [Cells -> Glyphs]
  BY DEF Screen, Terminal
<1> DEFINE W == term_width
           H == term_height
           r == t.row
           a == Start(t)
<1>3. r \in Nat /\ r + 1 <= H /\ W \in Nat /\ H \in Nat
  BY <1>1, <1>2
<1>4. a = r * W
  BY DEF Start
<1>5. a \in Nat /\ a + W <= W * H
  <2> HIDE DEF W, H, r, a
  <2>1. (r + 1) * W <= H * W
    BY <1>3
  <2>2. (r + 1) * W = r * W + W /\ H * W = W * H /\ r * W \in Nat /\ W * H \in Nat
    BY <1>3
  <2> QED BY <1>3, <1>4, <2>1, <2>2
<1>6. W * H \in Nat
  BY <1>3
<1>7. \A c \in 0..(W - 1) : a + c \in Cells
  <2> HIDE DEF a
  <2> DEFINE n == W * H
  <2>1. Cells = 0..(n - 1)
    BY DEF Cells
  <2>2. a + W <= n /\ n \in Nat
    BY <1>5, <1>6
  <2> HIDE DEF n, W
  <2> QED BY <1>3, <1>5, <2>1, <2>2
<1> HIDE DEF W, H, r, a
<1>8. Place(t) = a + t.column
  BY <1>4 DEF Place, W, r
<1> QED BY <1>1, <1>2, <1>5, <1>6, <1>7, <1>8 DEF W, H, a, Cells

\* A terminal that differs from another in its column and its characters.
Beside(t, u) == u \in Screen /\ u.row = t.row /\ u.mark = t.mark

LEMMA BesideFacts ==
  ASSUME NEW t \in Screen, NEW u, Beside(t, u)
  PROVE  Start(u) = Start(t) /\ Place(u) = Start(t) + u.column /\ u \in Screen
BY ScreenFacts DEF Beside, Start

LEMMA ScreenRecord ==
  ASSUME NEW t \in Screen
  PROVE  /\ t = [row |-> t.row, column |-> t.column, cells |-> t.cells, mark |-> t.mark]
         /\ t.row \in 0..(term_height - 1) /\ t.mark \in Int /\ t.cells \in [Cells -> Glyphs]
         /\ Place(t) \in Cells
<1>1. Place(t) \in Cells
  <2>1. t.column \in 0..(term_width - 1) /\ Place(t) = Start(t) + t.column
    BY ScreenFacts
  <2> QED BY <2>1, ScreenFacts
<1> QED BY <1>1 DEF Screen, Terminal

\* A screen with another column and other characters.
With(t, column, cells) == [row |-> t.row, column |-> column, cells |-> cells, mark |-> t.mark]

LEMMA WithBeside ==
  ASSUME NEW t \in Screen, NEW c \in 0..(term_width - 1), NEW f \in [Cells -> Glyphs]
  PROVE  Beside(t, With(t, c, f)) /\ With(t, c, f).column = c /\ With(t, c, f).cells = f
BY ScreenRecord DEF Beside, With, Screen, Terminal

LEMMA PutHere ==
  ASSUME NEW t \in Screen, NEW c \in Glyphs, t.column + 1 < term_width
  PROVE  LET u == Called(t, c)
         IN /\ Beside(t, u) /\ u.column = t.column + 1
            /\ \A i \in Cells : u.cells[i] = IF i = Place(t) THEN c ELSE t.cells[i]
<1>1. c # "newline" /\ c # "tab" /\ c # "backspace" /\ c # "left" /\ c # "right"
  BY ShellAssumption DEF Controls
<1>2. /\ t.column \in Nat /\ term_width \in Nat
      /\ t.cells \in [Cells -> Glyphs] /\ Place(t) \in Cells
      /\ t = [row |-> t.row, column |-> t.column, cells |-> t.cells, mark |-> t.mark]
  BY ScreenFacts, ScreenRecord
<1> DEFINE f == [t.cells EXCEPT ![Place(t)] = c]
           s == terminal_put_entry(t, c)
<1>3. Called(t, c) = Advance(s, t.column + 1)
  BY <1>1 DEF Called, terminal_putchar
<1>4. s = With(t, t.column, f)
  BY <1>2 DEF terminal_put_entry, With
<1>5. f \in [Cells -> Glyphs] /\ \A i \in Cells : f[i] = IF i = Place(t) THEN c ELSE t.cells[i]
  BY <1>2
<1> HIDE DEF f, s
<1>6. Advance(s, t.column + 1) = With(t, t.column + 1, f)
  BY <1>2, <1>4 DEF Advance, With
<1>7. t.column + 1 \in 0..(term_width - 1)
  BY <1>2
<1> QED BY <1>3, <1>5, <1>6, <1>7, WithBeside

LEMMA LeftHere ==
  ASSUME NEW t \in Screen, t.column > 0
  PROVE  LET u == Called(t, "left")
         IN Beside(t, u) /\ u.column = t.column - 1 /\ u.cells = t.cells
<1>1. /\ t.column \in Nat /\ t.column < term_width /\ term_width \in Nat /\ t.cells \in [Cells -> Glyphs]
      /\ t = [row |-> t.row, column |-> t.column, cells |-> t.cells, mark |-> t.mark]
  BY ScreenFacts, ScreenRecord
<1>2. Called(t, "left") = With(t, t.column - 1, t.cells)
  BY <1>1 DEF Called, terminal_cursor_left, With
<1>3. t.column - 1 \in 0..(term_width - 1)
  BY <1>1
<1> QED BY <1>1, <1>2, <1>3, WithBeside

LEMMA RightHere ==
  ASSUME NEW t \in Screen, t.column + 1 < term_width
  PROVE  LET u == Called(t, "right")
         IN Beside(t, u) /\ u.column = t.column + 1 /\ u.cells = t.cells
<1>1. /\ t.column \in Nat /\ term_width \in Nat /\ t.cells \in [Cells -> Glyphs]
      /\ t = [row |-> t.row, column |-> t.column, cells |-> t.cells, mark |-> t.mark]
  BY ScreenFacts, ScreenRecord
<1>2. Called(t, "right") = With(t, t.column + 1, t.cells)
  BY <1>1 DEF Called, terminal_cursor_right, With
<1>3. t.column + 1 \in 0..(term_width - 1)
  BY <1>1
<1> QED BY <1>1, <1>2, <1>3, WithBeside

LEMMA EraseHere ==
  ASSUME NEW t \in Screen, t.column > 0
  PROVE  LET u == Called(t, "backspace")
         IN /\ Beside(t, u) /\ u.column = t.column - 1
            /\ \A i \in Cells : u.cells[i] = IF i = Place(t) - 1 THEN " " ELSE t.cells[i]
<1>1. /\ t.column \in Nat /\ t.column < term_width /\ term_width \in Nat /\ t.cells \in [Cells -> Glyphs]
      /\ t = [row |-> t.row, column |-> t.column, cells |-> t.cells, mark |-> t.mark]
      /\ Place(t) = Start(t) + t.column /\ Start(t) \in Nat
  BY ScreenFacts, ScreenRecord
<1>2. t.column - 1 \in 0..(term_width - 1)
  BY <1>1
<1> DEFINE s == With(t, t.column - 1, t.cells)
           f == [t.cells EXCEPT ![Place(t) - 1] = " "]
<1>3. Called(t, "backspace") = terminal_put_entry(Back(t), " ")
  BY DEF Called, terminal_putchar
<1>4. Back(t) = s
  BY <1>1 DEF Back, With
<1>5. s.row = t.row /\ s.column = t.column - 1 /\ s.cells = t.cells /\ s.mark = t.mark
  BY DEF With
<1>6. Place(s) = Place(t) - 1
  <2> HIDE DEF s
  <2>1. Place(s) = Start(t) + (t.column - 1)
    BY <1>5 DEF Place, Start
  <2> QED BY <1>1, <2>1
<1>7. terminal_put_entry(s, " ") = With(t, t.column - 1, f)
  <2> DEFINE p == Place(s)
  <2>1. p = Place(t) - 1
    BY <1>6
  <2>2. terminal_put_entry(s, " ") = [s EXCEPT !.cells = [@ EXCEPT ![p] = " "]]
    BY DEF terminal_put_entry
  <2> HIDE DEF p
  <2> QED BY <2>1, <2>2 DEF With
<1>8. Place(t) - 1 \in Cells /\ " " \in Glyphs
  <2>1. Place(t) - 1 = Start(t) + (t.column - 1)
    BY <1>1
  <2> QED BY <1>2, <2>1, ScreenFacts, ShellAssumption
<1>9. f \in [Cells -> Glyphs] /\ \A i \in Cells : f[i] = IF i = Place(t) - 1 THEN " " ELSE t.cells[i]
  BY <1>1, <1>8
<1> HIDE DEF f, s
<1>10. Called(t, "backspace") = With(t, t.column - 1, f)
  BY <1>3, <1>4, <1>7
<1>11. /\ Beside(t, With(t, t.column - 1, f)) /\ With(t, t.column - 1, f).column = t.column - 1
       /\ With(t, t.column - 1, f).cells = f
  BY <1>2, <1>9, WithBeside
<1> QED BY <1>9, <1>10, <1>11

\* What is left on the screen by k of the characters s, by k moves to the left, to the
\* right, and by k backspaces.
Wrote(t, u, s, k) ==
  /\ Beside(t, u) /\ u.column = t.column + k
  /\ \A i \in Cells : u.cells[i] = IF Place(t) <= i /\ i < Place(t) + k THEN s[i - Place(t) + 1] ELSE t.cells[i]
Moved(t, u, k) == Beside(t, u) /\ u.column = t.column + k /\ u.cells = t.cells
Erased(t, u, k) ==
  /\ Beside(t, u) /\ u.column = t.column - k
  /\ \A i \in Cells : u.cells[i] = IF Place(t) - k <= i /\ i < Place(t) THEN " " ELSE t.cells[i]

LEMMA CellsAreNumbers == Cells \subseteq Int
BY TerminalAssumption DEF Cells

LEMMA SelfBeside ==
  ASSUME NEW t \in Screen
  PROVE  Beside(t, t) /\ Moved(t, t, 0) /\ Erased(t, t, 0) /\ \A s : Wrote(t, t, s, 0)
<1>1. t.column \in Nat /\ Place(t) \in Nat
  <2>1. Start(t) \in Nat /\ Place(t) = Start(t) + t.column /\ t.column \in Nat
    BY ScreenFacts
  <2> QED BY <2>1
<1>2. t.column + 0 = t.column /\ t.column - 0 = t.column /\ Place(t) + 0 = Place(t) /\ Place(t) - 0 = Place(t)
  BY <1>1
<1>3. \A i \in Cells : ~(Place(t) <= i /\ i < Place(t))
  BY <1>1, CellsAreNumbers
<1>4. Beside(t, t)
  BY DEF Beside
<1> QED BY <1>2, <1>3, <1>4 DEF Moved, Erased, Wrote

LEMMA WriteOne ==
  ASSUME NEW t \in Screen, NEW u, NEW s, NEW k \in Nat, Wrote(t, u, s, k),
         s[k + 1] \in Glyphs, t.column + k + 1 < term_width
  PROVE  Wrote(t, Called(u, s[k + 1]), s, k + 1)
<1> DEFINE v == Called(u, s[k + 1])
           x == Place(t)
<1>1. Beside(t, u) /\ u \in Screen /\ u.column = t.column + k
  BY DEF Wrote, Beside
<1>2. t.column \in Nat /\ x = Start(t) + t.column /\ Start(t) \in Nat /\ term_width \in Nat
  BY ScreenFacts
<1>3. Place(u) = x + k
  <2>1. Place(u) = Start(t) + u.column
    BY <1>1, BesideFacts
  <2> HIDE DEF x
  <2> QED BY <1>1, <1>2, <2>1
<1>4. /\ Beside(u, v) /\ v.column = u.column + 1
      /\ \A i \in Cells : v.cells[i] = IF i = Place(u) THEN s[k + 1] ELSE u.cells[i]
  <2>1. u.column + 1 < term_width
    BY <1>1, <1>2
  <2> QED BY <1>1, <2>1, PutHere
<1> HIDE DEF v
<1>5. Beside(t, v) /\ v.column = t.column + (k + 1)
  BY <1>1, <1>2, <1>4 DEF Beside
<1>6. ASSUME NEW i \in Cells
      PROVE  v.cells[i] = IF x <= i /\ i < x + (k + 1) THEN s[i - x + 1] ELSE t.cells[i]
  <2>1. u.cells[i] = IF x <= i /\ i < x + k THEN s[i - x + 1] ELSE t.cells[i]
    BY DEF Wrote
  <2>2. x \in Nat /\ i \in Int
    <3> HIDE DEF x
    <3> QED BY <1>2, CellsAreNumbers
  <2> HIDE DEF x
  <2>3. CASE i = x + k
    <3>1. i - x + 1 = k + 1 /\ x <= i /\ i < x + (k + 1)
      BY <2>2, <2>3
    <3> QED BY <1>3, <1>4, <2>3, <3>1
  <2>4. CASE i # x + k
    <3>1. (x <= i /\ i < x + (k + 1)) <=> (x <= i /\ i < x + k)
      BY <2>2, <2>4
    <3> QED BY <1>3, <1>4, <2>1, <2>4, <3>1
  <2> QED BY <2>3, <2>4
<1> QED BY <1>5, <1>6 DEF Wrote, v

LEMMA EraseOne ==
  ASSUME NEW t \in Screen, NEW u, NEW k \in Nat, Erased(t, u, k), k < t.column
  PROVE  Erased(t, Called(u, "backspace"), k + 1)
<1> DEFINE v == Called(u, "backspace")
           x == Place(t)
<1>1. Beside(t, u) /\ u \in Screen /\ u.column = t.column - k
  BY DEF Erased, Beside
<1>2. t.column \in Nat /\ x = Start(t) + t.column /\ Start(t) \in Nat /\ term_width \in Nat
  BY ScreenFacts
<1>3. Place(u) = x - k
  <2>1. Place(u) = Start(t) + u.column
    BY <1>1, BesideFacts
  <2> HIDE DEF x
  <2> QED BY <1>1, <1>2, <2>1
<1>4. /\ Beside(u, v) /\ v.column = u.column - 1
      /\ \A i \in Cells : v.cells[i] = IF i = Place(u) - 1 THEN " " ELSE u.cells[i]
  <2>1. u.column > 0
    BY <1>1, <1>2
  <2> QED BY <1>1, <2>1, EraseHere
<1> HIDE DEF v
<1>5. Beside(t, v) /\ v.column = t.column - (k + 1)
  <2>1. v.column = t.column - (k + 1)
    <3>1. (t.column - k) - 1 = t.column - (k + 1)
      BY <1>2
    <3> QED BY <1>1, <1>4, <3>1
  <2>2. Beside(t, v)
    BY <1>1, <1>4 DEF Beside
  <2> QED BY <2>1, <2>2
<1>6. ASSUME NEW i \in Cells
      PROVE  v.cells[i] = IF x - (k + 1) <= i /\ i < x THEN " " ELSE t.cells[i]
  <2>1. u.cells[i] = IF x - k <= i /\ i < x THEN " " ELSE t.cells[i]
    BY DEF Erased
  <2>2. x \in Nat /\ i \in Int
    <3> HIDE DEF x
    <3> QED BY <1>2, CellsAreNumbers
  <2> HIDE DEF x
  <2>3. CASE i = x - k - 1
    <3>1. x - (k + 1) <= i /\ i < x /\ x - k - 1 = (x - k) - 1
      BY <2>2, <2>3
    <3> QED BY <1>3, <1>4, <2>3, <3>1
  <2>4. CASE i # x - k - 1
    <3>1. /\ (x - (k + 1) <= i /\ i < x) <=> (x - k <= i /\ i < x)
          /\ x - k - 1 = (x - k) - 1
      BY <2>2, <2>4
    <3> QED BY <1>3, <1>4, <2>1, <2>4, <3>1
  <2> QED BY <2>3, <2>4
<1> QED BY <1>5, <1>6 DEF Erased, v

LEMMA WriteMany ==
  ASSUME NEW t \in Screen, NEW s \in Seq(Glyphs), t.column + Len(s) < term_width
  PROVE  Wrote(t, Feed(t, s), s, Len(s))
<1> DEFINE n == Len(s)
<1>1. n \in Nat /\ \A k \in 0..(n - 1) : k + 1 \in 1..n /\ k \in Nat /\ (k + 1) - 1 = k /\ s[k + 1] \in Glyphs
  OBVIOUS
<1>2. PICK f : f[0] = t /\ Feed(t, s) = f[n] /\ \A k \in 1..n : f[k] = Called(f[k - 1], s[k])
  BY <1>1, FeedGoes
<1>3. t.column \in Nat /\ term_width \in Nat
  BY ScreenFacts
<1> DEFINE P == {k \in 0..n : Wrote(t, f[k], s, k)}
<1>4. 0 \in P
  BY <1>1, <1>2, SelfBeside
<1>5. \A k \in 0..(n - 1) : k \in P => k + 1 \in P
  <2> SUFFICES ASSUME NEW k \in 0..(n - 1), Wrote(t, f[k], s, k) PROVE k + 1 \in P
    OBVIOUS
  <2>1. k + 1 \in 0..n /\ f[k + 1] = Called(f[k], s[k + 1])
    BY <1>1, <1>2
  <2>2. t.column + k + 1 < term_width
    BY <1>1, <1>3
  <2>3. k \in Nat /\ s[k + 1] \in Glyphs
    BY <1>1
  <2> HIDE DEF n
  <2> QED BY <2>1, <2>2, <2>3, WriteOne
<1> HIDE DEF P
<1>6. n \in P
  <2>1. n \in 0..n
    BY <1>1
  <2> HIDE DEF n
  <2> QED BY <1>1, <1>4, <1>5, <2>1, UpTo
<1> QED BY <1>2, <1>6 DEF P

LEMMA EraseMany ==
  ASSUME NEW t \in Screen, NEW n \in Nat, n <= t.column
  PROVE  Erased(t, Feed(t, Times("backspace", n)), n)
<1> DEFINE s == Times("backspace", n)
<1>1. Len(s) = n /\ \A k \in 1..n : s[k] = "backspace"
  BY TimesFacts DEF Calls, Controls
<1> HIDE DEF s
<1>2. PICK f : f[0] = t /\ Feed(t, s) = f[n] /\ \A k \in 1..n : f[k] = Called(f[k - 1], s[k])
  <2>1. Len(s) \in Nat
    BY <1>1
  <2>2. \E f : /\ f[0] = t /\ Feed(t, s) = f[Len(s)]
               /\ \A k \in 1..Len(s) : f[k] = Called(f[k - 1], s[k])
    BY <2>1, FeedGoes
  <2> QED BY <1>1, <2>2
<1>3. t.column \in Nat /\ term_width \in Nat
  BY ScreenFacts
<1> DEFINE P == {k \in 0..n : Erased(t, f[k], k)}
<1>4. 0 \in P
  BY <1>1, <1>2, SelfBeside
<1>5. \A k \in 0..(n - 1) : k \in P => k + 1 \in P
  <2> SUFFICES ASSUME NEW k \in 0..(n - 1), Erased(t, f[k], k) PROVE k + 1 \in P
    OBVIOUS
  <2>1. k + 1 \in 0..n /\ f[k + 1] = Called(f[k], "backspace")
    <3>1. k + 1 \in 1..n /\ (k + 1) - 1 = k
      OBVIOUS
    <3> QED BY <1>1, <1>2, <3>1
  <2>2. k < t.column /\ k \in Nat
    BY <1>3
  <2> QED BY <2>1, <2>2, EraseOne
<1> HIDE DEF P
<1>6. n \in P
  <2>1. n \in 0..n
    OBVIOUS
  <2> QED BY <1>4, <1>5, <2>1, UpTo
<1> QED BY <1>2, <1>6 DEF P, s

LEMMA RightMany ==
  ASSUME NEW t \in Screen, NEW n \in Nat, t.column + n < term_width
  PROVE  Moved(t, Feed(t, Times("right", n)), n)
<1> DEFINE s == Times("right", n)
<1>1. Len(s) = n /\ \A k \in 1..n : s[k] = "right"
  BY TimesFacts DEF Calls, Controls
<1> HIDE DEF s
<1>2. PICK f : f[0] = t /\ Feed(t, s) = f[n] /\ \A k \in 1..n : f[k] = Called(f[k - 1], s[k])
  <2>1. Len(s) \in Nat
    BY <1>1
  <2>2. \E f : /\ f[0] = t /\ Feed(t, s) = f[Len(s)]
               /\ \A k \in 1..Len(s) : f[k] = Called(f[k - 1], s[k])
    BY <2>1, FeedGoes
  <2> QED BY <1>1, <2>2
<1>3. t.column \in Nat /\ term_width \in Nat
  BY ScreenFacts
<1> DEFINE P == {k \in 0..n : Moved(t, f[k], k)}
<1>4. 0 \in P
  BY <1>1, <1>2, SelfBeside
<1>5. \A k \in 0..(n - 1) : k \in P => k + 1 \in P
  <2> SUFFICES ASSUME NEW k \in 0..(n - 1), Moved(t, f[k], k) PROVE k + 1 \in P
    OBVIOUS
  <2>1. k + 1 \in 0..n /\ f[k + 1] = Called(f[k], "right")
    <3>1. k + 1 \in 1..n /\ (k + 1) - 1 = k
      OBVIOUS
    <3> QED BY <1>1, <1>2, <3>1
  <2>2. Beside(t, f[k]) /\ f[k] \in Screen /\ f[k].column = t.column + k /\ f[k].cells = t.cells
    BY DEF Moved, Beside
  <2>3. f[k].column + 1 < term_width
    BY <1>3, <2>2
  <2>4. Beside(f[k], f[k + 1]) /\ f[k + 1].column = f[k].column + 1 /\ f[k + 1].cells = f[k].cells
    BY <2>1, <2>2, <2>3, RightHere
  <2>5. Moved(t, f[k + 1], k + 1)
    BY <1>3, <2>2, <2>4 DEF Moved, Beside
  <2> QED BY <2>1, <2>5
<1> HIDE DEF P
<1>6. n \in P
  <2>1. n \in 0..n
    OBVIOUS
  <2> QED BY <1>4, <1>5, <2>1, UpTo
<1> QED BY <1>2, <1>6 DEF P, s

LEMMA LeftMany ==
  ASSUME NEW t \in Screen, NEW n \in Nat, n <= t.column
  PROVE  Moved(t, Feed(t, Times("left", n)), -n)
<1> DEFINE s == Times("left", n)
<1>1. Len(s) = n /\ \A k \in 1..n : s[k] = "left"
  BY TimesFacts DEF Calls, Controls
<1> HIDE DEF s
<1>2. PICK f : f[0] = t /\ Feed(t, s) = f[n] /\ \A k \in 1..n : f[k] = Called(f[k - 1], s[k])
  <2>1. Len(s) \in Nat
    BY <1>1
  <2>2. \E f : /\ f[0] = t /\ Feed(t, s) = f[Len(s)]
               /\ \A k \in 1..Len(s) : f[k] = Called(f[k - 1], s[k])
    BY <2>1, FeedGoes
  <2> QED BY <1>1, <2>2
<1>3. t.column \in Nat /\ term_width \in Nat
  BY ScreenFacts
<1> DEFINE P == {k \in 0..n : Moved(t, f[k], -k)}
<1>4. 0 \in P
  <2>1. Moved(t, t, -0)
    BY SelfBeside
  <2> QED BY <1>2, <2>1
<1>5. \A k \in 0..(n - 1) : k \in P => k + 1 \in P
  <2> SUFFICES ASSUME NEW k \in 0..(n - 1), Moved(t, f[k], -k) PROVE k + 1 \in P
    OBVIOUS
  <2>1. k + 1 \in 0..n /\ f[k + 1] = Called(f[k], "left")
    <3>1. k + 1 \in 1..n /\ (k + 1) - 1 = k
      OBVIOUS
    <3> QED BY <1>1, <1>2, <3>1
  <2>2. Beside(t, f[k]) /\ f[k] \in Screen /\ f[k].column = t.column - k /\ f[k].cells = t.cells
    BY <1>3 DEF Moved, Beside
  <2>3. f[k].column > 0
    BY <1>3, <2>2
  <2>4. Beside(f[k], f[k + 1]) /\ f[k + 1].column = f[k].column - 1 /\ f[k + 1].cells = f[k].cells
    BY <2>1, <2>2, <2>3, LeftHere
  <2>5. Moved(t, f[k + 1], -(k + 1))
    BY <1>3, <2>2, <2>4 DEF Moved, Beside
  <2> QED BY <2>1, <2>5
<1> HIDE DEF P
<1>6. n \in P
  <2>1. n \in 0..n
    OBVIOUS
  <2> QED BY <1>4, <1>5, <2>1, UpTo
<1> QED BY <1>2, <1>6 DEF P, s

-----------------------------------------------------------------------------
(* The line on the screen.                                                  *)

\* Behind the mark stand n characters of the buffer b, and then blanks.
Shows(t, b, n) ==
  \A i \in Cells : t.mark <= i => t.cells[i] = IF i < t.mark + n THEN b[i - t.mark] ELSE " "

\* The mark is behind the prompt, the cursor p characters behind the mark.
Lined(t, p) == t \in Screen /\ t.mark = Start(t) + 2 /\ t.column = p + 2

LEMMA LinedFacts ==
  ASSUME NEW t, NEW p \in Nat, Lined(t, p)
  PROVE  /\ t \in Screen /\ t.mark \in Int /\ t.mark = Start(t) + 2 /\ t.column = p + 2
         /\ Place(t) = t.mark + p /\ t.mark \in Nat /\ p + 2 < term_width /\ term_width \in Nat
<1>1. t \in Screen /\ t.mark = Start(t) + 2 /\ t.column = p + 2
  BY DEF Lined
<1>2. Place(t) = Start(t) + t.column /\ Start(t) \in Nat /\ t.column < term_width /\ term_width \in Nat
  BY <1>1, ScreenFacts
<1> QED BY <1>1, <1>2

\* Calls that stay in the row keep the mark.
LEMMA StillLined ==
  ASSUME NEW t, NEW p \in Nat, Lined(t, p), NEW u, Beside(t, u), NEW q \in Nat, u.column = q + 2
  PROVE  Lined(u, q)
<1>1. t \in Screen /\ t.mark = Start(t) + 2
  BY DEF Lined
<1>2. Start(u) = Start(t) /\ u \in Screen /\ u.mark = t.mark
  BY <1>1, BesideFacts DEF Beside
<1> QED BY <1>1, <1>2 DEF Lined

\* The rest of the line, from the cursor on, is written anew.
LEMMA Rewritten ==
  ASSUME NEW t, NEW p \in Nat, Lined(t, p), NEW n \in Nat, NEW b, NEW d,
         NEW m \in Nat, p <= m, m + 2 < term_width, n <= m,
         Shows(t, b, n), NEW s \in Seq(Glyphs), Len(s) = m - p,
         \A i \in 0..(p - 1) : b[i] = d[i] /\ i < n,
         \A i \in p..(m - 1) : s[i - p + 1] = d[i]
  PROVE  Lined(Feed(t, s), m) /\ Shows(Feed(t, s), d, m)
<1> DEFINE u == Feed(t, s)
           a == t.mark
<1>1. t \in Screen /\ a \in Nat /\ t.column = p + 2 /\ Place(t) = a + p /\ term_width \in Nat
  BY LinedFacts
<1>2. Wrote(t, u, s, m - p)
  <2>1. t.column + Len(s) < term_width
    BY <1>1
  <2> QED BY <1>1, <2>1, WriteMany
<1> HIDE DEF u, a
<1>3. Beside(t, u) /\ u.column = m + 2
  BY <1>1, <1>2 DEF Wrote
<1>4. Lined(u, m)
  BY <1>3, StillLined
<1>5. u.mark = a
  BY <1>3 DEF Beside, a
<1>6. ASSUME NEW i \in Cells, a <= i PROVE u.cells[i] = IF i < a + m THEN d[i - a] ELSE " "
  <2>1. i \in Int
    BY CellsAreNumbers
  <2>2. u.cells[i] = IF a + p <= i /\ i < a + p + (m - p) THEN s[i - (a + p) + 1] ELSE t.cells[i]
    BY <1>1, <1>2 DEF Wrote
  <2>3. t.cells[i] = IF i < a + n THEN b[i - a] ELSE " "
    BY <1>6 DEF Shows, a
  <2>4. CASE i < a + p
    <3>1. i - a \in 0..(p - 1) /\ ~(a + p <= i) /\ i < a + m
      BY <1>1, <1>6, <2>1, <2>4
    <3>2. b[i - a] = d[i - a] /\ i < a + n
      <4>1. b[i - a] = d[i - a] /\ i - a < n
        BY <3>1
      <4> QED BY <1>1, <2>1, <4>1
    <3> QED BY <2>2, <2>3, <3>1, <3>2
  <2>5. CASE a + p <= i /\ i < a + m
    <3>1. i - a \in p..(m - 1) /\ i < a + p + (m - p) /\ i - (a + p) + 1 = (i - a) - p + 1
      BY <1>1, <2>1, <2>5
    <3>2. s[(i - a) - p + 1] = d[i - a]
      BY <3>1
    <3> QED BY <2>2, <2>5, <3>1, <3>2
  <2>6. CASE a + m <= i
    <3>1. ~(i < a + p + (m - p)) /\ ~(i < a + n) /\ ~(i < a + m)
      BY <1>1, <2>1, <2>6
    <3> QED BY <2>2, <2>3, <3>1
  <2>7. i < a + p \/ (a + p <= i /\ i < a + m) \/ a + m <= i
    BY <1>1, <2>1
  <2> QED BY <2>4, <2>5, <2>6, <2>7
<1>7. Shows(u, d, m)
  BY <1>5, <1>6 DEF Shows
<1> QED BY <1>4, <1>7 DEF u

\* Moves along the line.
LEMMA MovedAlong ==
  ASSUME NEW t, NEW p \in Nat, Lined(t, p), NEW k \in Int, p + k \in Nat, NEW u, Moved(t, u, k)
  PROVE  Lined(u, p + k) /\ \A b, n : Shows(t, b, n) => Shows(u, b, n)
<1>1. Beside(t, u) /\ u.column = (p + k) + 2 /\ u.cells = t.cells /\ u.mark = t.mark
  BY LinedFacts DEF Moved, Beside
<1>2. Lined(u, p + k)
  BY <1>1, StillLined
<1>3. ASSUME NEW b, NEW n, Shows(t, b, n) PROVE Shows(u, b, n)
  <2> SUFFICES ASSUME NEW i \in Cells, u.mark <= i
               PROVE  u.cells[i] = IF i < u.mark + n THEN b[i - u.mark] ELSE " "
    BY DEF Shows
  <2>1. t.cells[i] = IF i < t.mark + n THEN b[i - t.mark] ELSE " "
    <3>1. t.mark <= i
      BY <1>1
    <3> QED BY <1>3, <3>1 DEF Shows
  <2> QED BY <1>1, <2>1
<1> QED BY <1>2, <1>3

\* The line is erased from its end.
LEMMA Emptied ==
  ASSUME NEW t, NEW n \in Nat, Lined(t, n), NEW b, Shows(t, b, n)
  PROVE  LET u == Feed(t, Times("backspace", n)) IN Lined(u, 0) /\ \A d : Shows(u, d, 0)
<1> DEFINE u == Feed(t, Times("backspace", n))
           a == t.mark
<1>1. t \in Screen /\ a \in Nat /\ t.column = n + 2 /\ Place(t) = a + n /\ term_width \in Nat
  BY LinedFacts
<1>2. Erased(t, u, n)
  BY <1>1, EraseMany
<1> HIDE DEF u, a
<1>3. Beside(t, u) /\ u.column = 0 + 2
  <2>1. (n + 2) - n = 0 + 2
    OBVIOUS
  <2> QED BY <1>1, <1>2, <2>1 DEF Erased
<1>4. Lined(u, 0)
  BY <1>3, StillLined
<1>5. u.mark = a
  BY <1>3 DEF Beside, a
<1>6. ASSUME NEW i \in Cells, a <= i PROVE u.cells[i] = " " /\ ~(i < a + 0)
  <2>1. i \in Int
    BY CellsAreNumbers
  <2>2. u.cells[i] = IF (a + n) - n <= i /\ i < a + n THEN " " ELSE t.cells[i]
    BY <1>1, <1>2 DEF Erased
  <2>3. t.cells[i] = IF i < a + n THEN b[i - a] ELSE " "
    BY <1>6 DEF Shows, a
  <2>4. (a + n) - n <= i /\ ~(i < a + 0)
    BY <1>1, <1>6, <2>1
  <2> QED BY <2>2, <2>3, <2>4
<1>7. \A d : Shows(u, d, 0)
  BY <1>5, <1>6 DEF Shows
<1> QED BY <1>4, <1>7 DEF u

-----------------------------------------------------------------------------
(* What commands print.                                                     *)

BlankAfter(t) == \A i \in Cells : Place(t) < i => t.cells[i] = " "
Blank(t) == \A i \in Cells : Place(t) <= i => t.cells[i] = " "
Fresh(t) == t \in Screen /\ Blank(t)

LEMMA NextRow ==
  ASSUME NEW t \in Screen, BlankAfter(t)
  PROVE  LET u == terminal_blankline(t) IN Fresh(u) /\ u.column = 0
<1> DEFINE u == terminal_blankline(t)
           W == term_width
           H == term_height
           a == Start(t)
           r == t.row
<1>1. /\ W \in Nat /\ W > 0 /\ H \in Nat /\ H > 0 /\ r \in Nat /\ r < H /\ t.column \in Nat /\ t.column < W
      /\ t.cells \in [Cells -> Glyphs] /\ t.mark \in Int /\ Place(t) = a + t.column /\ a \in Nat
      /\ t = [row |-> t.row, column |-> t.column, cells |-> t.cells, mark |-> t.mark]
  BY ScreenFacts, ScreenRecord
<1>2. a = r * W /\ Cells = 0..(W * H - 1) /\ W * H \in Nat
  BY ScreenFacts DEF Start
<1>3. \A i \in Cells : a + W <= i => t.cells[i] = " "
  <2> SUFFICES ASSUME NEW i \in Cells, a + W <= i PROVE t.cells[i] = " "
    OBVIOUS
  <2>1. i \in Int /\ a \in Nat /\ Place(t) = a + t.column
    BY <1>1, CellsAreNumbers
  <2>2. Place(t) < i
    <3> HIDE DEF a, W
    <3> QED BY <1>1, <2>1
  <2> QED BY <2>2 DEF BlankAfter
<1>5. ASSUME r + 1 >= H PROVE Fresh(u) /\ u.column = 0
  <2> DEFINE g == [i \in Cells |-> IF i + W \in Cells THEN t.cells[i + W] ELSE " "]
             v == [row |-> H - 1, column |-> 0, cells |-> g, mark |-> t.mark - W]
  <2>1. u = v
    BY <1>1, <1>5 DEF terminal_blankline, terminal_scroll
  <2>2. " " \in Glyphs
    BY ShellAssumption
  <2>3. g \in [Cells -> Glyphs]
    BY <1>1, <2>2
  <2>4. v \in Screen
    <3>1. H - 1 \in 0..(H - 1) /\ 0 \in 0..(W - 1) /\ t.mark - W \in Int
      BY <1>1
    <3> HIDE DEF g
    <3> QED BY <2>3, <3>1 DEF Screen, Terminal
  <2>5. Place(v) = (H - 1) * W + 0 /\ v.cells = g /\ v.column = 0
    <3> HIDE DEF g
    <3> QED BY DEF Place
  <2>6. ASSUME NEW i \in Cells, Place(v) <= i PROVE v.cells[i] = " "
    <3>1. ~(i + W \in Cells)
      <4>1. i \in Int /\ (H - 1) * W + 0 <= i
        BY <2>5, <2>6, CellsAreNumbers
      <4> HIDE DEF H, W, v
      <4>2. (H - 1) * W + 0 + W = W * H
        BY <1>1
      <4>3. (H - 1) * W \in Int
        BY <1>1
      <4> DEFINE x == (H - 1) * W
                 y == W * H
      <4> HIDE DEF x, y
      <4>4. y <= i + W
        <5>1. x + 0 + W = y /\ x + 0 <= i /\ x \in Int
          BY <4>1, <4>2, <4>3 DEF x, y
        <5> QED BY <1>1, <4>1, <5>1
      <4>5. Cells = 0..(y - 1) /\ y \in Nat
        BY <1>2 DEF y
      <4> QED BY <1>1, <4>1, <4>4, <4>5
    <3> QED BY <2>5, <3>1
  <2> HIDE DEF v, u
  <2>7. Fresh(v)
    BY <2>4, <2>6 DEF Fresh, Blank
  <2> QED BY <2>1, <2>5, <2>7
<1>6. ASSUME ~(r + 1 >= H) PROVE Fresh(u) /\ u.column = 0
  <2> DEFINE v == [row |-> r + 1, column |-> 0, cells |-> t.cells, mark |-> t.mark]
  <2>1. u = v
    BY <1>1, <1>6 DEF terminal_blankline
  <2>2. v \in Screen
    <3>1. r + 1 \in 0..(H - 1) /\ 0 \in 0..(W - 1)
      BY <1>1, <1>6
    <3> QED BY <1>1, <3>1 DEF Screen, Terminal
  <2>3. Place(v) = (r + 1) * W + 0 /\ v.cells = t.cells /\ v.column = 0
    BY DEF Place
  <2>4. Place(v) = a + W
    <3> HIDE DEF v
    <3>1. (r + 1) * W + 0 = r * W + W
      <4> HIDE DEF r, W
      <4> QED BY <1>1
    <3> HIDE DEF r, W, a
    <3> QED BY <1>2, <2>3, <3>1
  <2> HIDE DEF v, u
  <2>5. Fresh(v)
    BY <1>3, <2>2, <2>3, <2>4 DEF Fresh, Blank
  <2> QED BY <2>1, <2>3, <2>5
<1> HIDE DEF u
<1> QED BY <1>5, <1>6 DEF u

LEMMA AdvanceFresh ==
  ASSUME NEW t \in Screen, BlankAfter(t), NEW c \in Nat, t.column < c
  PROVE  Fresh(Advance(t, c))
<1>1. CASE c >= term_width
  BY <1>1, NextRow DEF Advance
<1>2. CASE ~(c >= term_width)
  <2> DEFINE u == With(t, c, t.cells)
  <2>1. /\ t.column \in Nat /\ term_width \in Nat /\ t.cells \in [Cells -> Glyphs]
        /\ t = [row |-> t.row, column |-> t.column, cells |-> t.cells, mark |-> t.mark]
        /\ Place(t) = Start(t) + t.column /\ Start(t) \in Nat
    BY ScreenFacts, ScreenRecord
  <2>2. Advance(t, c) = u
    BY <1>2, <2>1 DEF Advance, With
  <2>3. Beside(t, u) /\ u.column = c /\ u.cells = t.cells
    <3>1. c \in 0..(term_width - 1)
      BY <1>2, <2>1
    <3> QED BY <2>1, <3>1, WithBeside
  <2> HIDE DEF u
  <2>4. u \in Screen /\ Place(u) = Start(t) + c
    BY <2>3, BesideFacts
  <2>5. ASSUME NEW i \in Cells, Place(u) <= i PROVE u.cells[i] = " "
    <3>1. Place(t) < i
      BY <2>1, <2>4, <2>5, CellsAreNumbers
    <3> QED BY <2>3, <3>1 DEF BlankAfter
  <2> QED BY <2>2, <2>4, <2>5 DEF Fresh, Blank
<1> QED BY <1>1, <1>2

Prints == Glyphs \cup {"newline", "tab"}

LEMMA PrintOne ==
  ASSUME NEW t, Fresh(t), NEW c \in Prints
  PROVE  Fresh(Called(t, c)) /\ (c = "newline" => Called(t, c).column = 0)
<1>1. t \in Screen /\ BlankAfter(t) /\ t.column \in Nat
  <2>1. t \in Screen
    BY DEF Fresh
  <2>2. Place(t) \in Int
    <3>1. Start(t) \in Nat /\ t.column \in Nat /\ Place(t) = Start(t) + t.column
      BY <2>1, ScreenFacts
    <3> QED BY <3>1
  <2>3. \A i \in Cells : Place(t) < i => Place(t) <= i
    BY <2>2, CellsAreNumbers
  <2> QED BY <2>1, <2>3, ScreenFacts DEF Fresh, Blank, BlankAfter
<1>2. CASE c = "newline"
  BY <1>1, <1>2, NextRow DEF Called, terminal_putchar
<1>3. CASE c = "tab"
  <2> DEFINE x == t.column
  <2>1. x + 4 - (x % 4) \in Nat /\ x < x + 4 - (x % 4)
    <3>1. x \in Nat
      BY <1>1
    <3> HIDE DEF x
    <3> QED BY <3>1
  <2>2. Fresh(Advance(t, x + 4 - (x % 4)))
    BY <1>1, <2>1, AdvanceFresh
  <2> QED BY <1>3, <2>2 DEF Called, terminal_putchar, TERMINAL_TAB_SIZE
<1>4. CASE c \in Glyphs
  <2>1. c # "newline" /\ c # "tab" /\ c # "backspace" /\ c # "left" /\ c # "right"
    BY <1>4, ShellAssumption DEF Controls
  <2> DEFINE f == [t.cells EXCEPT ![Place(t)] = c]
             u == With(t, t.column, f)
  <2>2. /\ t.cells \in [Cells -> Glyphs] /\ t.column \in 0..(term_width - 1)
        /\ t = [row |-> t.row, column |-> t.column, cells |-> t.cells, mark |-> t.mark]
    BY <1>1, ScreenRecord DEF Screen, Terminal
  <2>3. Called(t, c) = Advance(terminal_put_entry(t, c), t.column + 1)
    BY <2>1 DEF Called, terminal_putchar
  <2>4. terminal_put_entry(t, c) = u
    BY <2>2 DEF terminal_put_entry, With
  <2>5. f \in [Cells -> Glyphs] /\ \A i \in Cells : i # Place(t) => f[i] = t.cells[i]
    BY <1>4, <2>2
  <2> HIDE DEF f
  <2>6. Beside(t, u) /\ u.column = t.column /\ u.cells = f
    BY <1>1, <2>2, <2>5, WithBeside
  <2> HIDE DEF u
  <2>7. u \in Screen /\ Place(u) = Place(t)
    BY <1>1, <2>6, BesideFacts, ScreenFacts
  <2>8. BlankAfter(u)
    <3> SUFFICES ASSUME NEW i \in Cells, Place(u) < i PROVE u.cells[i] = " "
      BY DEF BlankAfter
    <3>1. Place(t) < i /\ i # Place(t)
      <4>1. Place(t) < i /\ Place(t) \in Int /\ i \in Int
        <5>1. Start(t) \in Nat /\ t.column \in Nat /\ Place(t) = Start(t) + t.column
          BY <1>1, ScreenFacts
        <5>2. Place(t) \in Int
          BY <5>1
        <5> QED BY <2>7, <5>2, CellsAreNumbers
      <4> QED BY <4>1
    <3> QED BY <1>1, <2>5, <2>6, <3>1 DEF BlankAfter
  <2>9. Fresh(Advance(u, t.column + 1))
    <3>1. u.column < t.column + 1 /\ t.column + 1 \in Nat
      BY <1>1, <2>6
    <3> QED BY <2>7, <2>8, <3>1, AdvanceFresh
  <2> QED BY <2>1, <2>3, <2>4, <2>9
<1> QED BY <1>2, <1>3, <1>4 DEF Prints

LEMMA PrintMany ==
  ASSUME NEW t, Fresh(t), NEW s \in Seq(Prints)
  PROVE  /\ Fresh(Feed(t, s))
         /\ (s = <<>> \/ s[Len(s)] = "newline") /\ t.column = 0 => Feed(t, s).column = 0
<1> DEFINE n == Len(s)
<1>1. n \in Nat /\ \A k \in 0..(n - 1) : k + 1 \in 1..n /\ (k + 1) - 1 = k /\ s[k + 1] \in Prints
  OBVIOUS
<1>2. PICK f : f[0] = t /\ Feed(t, s) = f[n] /\ \A k \in 1..n : f[k] = Called(f[k - 1], s[k])
  BY <1>1, FeedGoes
<1> DEFINE P == {k \in 0..n : Fresh(f[k]) /\ (k > 0 /\ s[k] = "newline" => f[k].column = 0)}
<1>3. 0 \in P
  BY <1>1, <1>2
<1>4. \A k \in 0..(n - 1) : k \in P => k + 1 \in P
  <2> SUFFICES ASSUME NEW k \in 0..(n - 1), Fresh(f[k]) PROVE k + 1 \in P
    OBVIOUS
  <2>1. k + 1 \in 0..n /\ f[k + 1] = Called(f[k], s[k + 1]) /\ s[k + 1] \in Prints
    BY <1>1, <1>2
  <2>2. Fresh(f[k + 1]) /\ (s[k + 1] = "newline" => f[k + 1].column = 0)
    BY <2>1, PrintOne
  <2> QED BY <2>1, <2>2
<1> HIDE DEF P
<1>5. n \in P
  <2>1. n \in 0..n
    BY <1>1
  <2> HIDE DEF n
  <2> QED BY <1>1, <1>3, <1>4, <2>1, UpTo
<1>6. Fresh(Feed(t, s))
  BY <1>2, <1>5 DEF P
<1>7. ASSUME s = <<>>, t.column = 0 PROVE Feed(t, s).column = 0
  BY <1>7, FeedFew
<1>8. ASSUME s # <<>>, s[n] = "newline" PROVE Feed(t, s).column = 0
  <2>1. n > 0
    BY <1>1, <1>8
  <2> QED BY <1>2, <1>5, <1>8, <2>1 DEF P
<1> QED BY <1>6, <1>7, <1>8

LEMMA OutputPrinted ==
  ASSUME NEW t, Fresh(t), t.column = 0, NEW out \in Outputs
  PROVE  Fresh(Feed(t, out)) /\ Feed(t, out).column = 0
<1>1. out \in Seq(Prints) /\ (out = <<>> \/ out[Len(out)] = "newline")
  BY OutputAssumption DEF Prints
<1> QED BY <1>1, PrintMany

LEMMA ClearPrinted ==
  ASSUME NEW t, t.mark \in Int
  PROVE  LET u == terminal_clear(t) IN Fresh(u) /\ u.column = 0
<1> DEFINE f == [i \in Cells |-> " "]
           u == terminal_clear(t)
<1>1. f \in [Cells -> Glyphs] /\ \A i \in Cells : f[i] = " "
  BY ShellAssumption
<1> HIDE DEF f
<1>2. u = [row |-> 0, column |-> 0, cells |-> f, mark |-> t.mark]
  BY DEF terminal_clear, f
<1>3. 0 \in 0..(term_height - 1) /\ 0 \in 0..(term_width - 1)
  <2>1. term_width \in Nat \ {0} /\ term_height \in Nat \ {0}
    BY TerminalAssumption
  <2> QED BY <2>1
<1> HIDE DEF u
<1>4. u \in Screen
  BY <1>1, <1>2, <1>3 DEF Screen, Terminal
<1>5. u.cells = f /\ u.column = 0
  BY <1>2
<1> QED BY <1>1, <1>4, <1>5 DEF Fresh, Blank, u

LEMMA Prompted ==
  ASSUME NEW t, Fresh(t), t.column = 0, 2 < term_width
  PROVE  Lined(Prompt(t), 0) /\ \A b : Shows(Prompt(t), b, 0)
<1> DEFINE s == <<"$", " ">>
           p == Feed(t, s)
           u == [p EXCEPT !.mark = Place(p)]
<1>1. s \in Seq(Glyphs) /\ Len(s) = 2
  <2>1. "$" \in Glyphs /\ " " \in Glyphs
    BY ShellAssumption
  <2>2. \A a, b \in Glyphs : <<a, b>> \in Seq(Glyphs) /\ Len(<<a, b>>) = 2
    OBVIOUS
  <2> QED BY <2>1, <2>2
<1>2. t \in Screen /\ term_width \in Nat /\ Place(t) = Start(t) + 0 /\ Start(t) \in Nat
  BY ScreenFacts DEF Fresh
<1>3. Prompt(t) = u
  BY DEF Prompt
<1> HIDE DEF s, p
<1>4. Wrote(t, p, s, 2)
  <2>1. t.column + Len(s) < term_width
    BY <1>1, <1>2
  <2> QED BY <1>1, <1>2, <2>1, WriteMany DEF p
<1>5. Beside(t, p) /\ p.column = 2
  BY <1>2, <1>4 DEF Wrote
<1>6. p \in Screen /\ Start(p) = Start(t) /\ Place(p) = Start(t) + 2
  BY <1>2, <1>5, BesideFacts
<1>7. u \in Screen /\ u.row = p.row /\ u.column = 2 /\ u.cells = p.cells /\ u.mark = Start(t) + 2
  <2>1. Place(p) \in Int
    BY <1>2, <1>6
  <2> QED BY <1>5, <1>6, <2>1 DEF Screen, Terminal
<1> HIDE DEF u
<1>8. Lined(u, 0)
  BY <1>6, <1>7 DEF Lined, Start
<1>9. ASSUME NEW i \in Cells, u.mark <= i PROVE u.cells[i] = " " /\ ~(i < u.mark + 0)
  <2>1. i \in Int
    BY CellsAreNumbers
  <2>2. ~(i < Start(t) + 0 + 2) /\ Start(t) + 0 <= i /\ ~(i < u.mark + 0)
    BY <1>2, <1>7, <1>9, <2>1
  <2>3. p.cells[i] = t.cells[i]
    BY <1>2, <1>4, <2>2 DEF Wrote
  <2> QED BY <1>2, <1>7, <2>2, <2>3 DEF Fresh, Blank
<1>10. \A b : Shows(u, b, 0)
  BY <1>9 DEF Shows
<1> QED BY <1>3, <1>8, <1>10

-----------------------------------------------------------------------------
(* The keys and the screen.                                                 *)

\* The line, behind the prompt, leaves room for the cursor in its row.
LineFits == input_len + 2 < term_width

ScreenInv == Lined(term, input_pos) /\ Shows(term, input_buffer, input_len)

LEMMA CallsAreSeqs ==
  ASSUME NEW s \in Seq(Glyphs)
  PROVE  s \in Seq(Calls)
BY DEF Calls

LEMMA LettersPrint ==
  ASSUME NEW s \in Seq(Letters)
  PROVE  s \in Seq(Glyphs)
<1>1. Letters \subseteq Glyphs
  BY ShellAssumption
<1> QED BY <1>1

LEMMA MovesAreSeqs ==
  ASSUME NEW c \in Controls, NEW n \in Nat
  PROVE  Times(c, n) \in Seq(Calls) /\ <<c>> \in Seq(Calls)
BY TimesFacts DEF Calls

LEMMA EditFacts ==
  ASSUME EditInv
  PROVE  /\ input_len \in Nat /\ input_pos \in Nat /\ input_pos \in 0..input_len /\ input_pos <= input_len
         /\ input_len \in Buffer /\ input_len < SHELL_INPUT_BUF_SIZE /\ SHELL_INPUT_BUF_SIZE \in Nat
         /\ \A i \in 0..(input_len - 1) : input_buffer[i] \in Letters /\ input_buffer[i] \in Glyphs
<1>1. input_len \in Buffer /\ input_pos \in 0..input_len /\ SHELL_INPUT_BUF_SIZE \in Nat
  BY BufferFacts DEF EditInv
<1>2. input_len \in Nat /\ input_len < SHELL_INPUT_BUF_SIZE
  BY <1>1 DEF Buffer
<1>3. input_pos \in Nat /\ input_pos <= input_len
  BY <1>1, <1>2
<1>4. \A i \in 0..(input_len - 1) : input_buffer[i] \in Letters /\ input_buffer[i] \in Glyphs
  BY ShellAssumption DEF EditInv
<1> QED BY <1>1, <1>2, <1>3, <1>4

\* The cursor goes to the end of the line.
LEMMA LineEnd ==
  ASSUME EditInv, ScreenInv, LineFits
  PROVE  LET u == Feed(term, Times("right", input_len - input_pos))
         IN Lined(u, input_len) /\ Shows(u, input_buffer, input_len)
<1> DEFINE n == input_len
           p == input_pos
           k == n - p
           u == Feed(term, Times("right", k))
<1>1. Lined(term, p) /\ Shows(term, input_buffer, n) /\ p \in Nat /\ n \in Nat /\ p <= n /\ n + 2 < term_width
  BY EditFacts DEF ScreenInv, LineFits
<1> HIDE DEF n, p
<1>2. k \in Nat /\ k \in Int /\ p + k = n
  BY <1>1
<1> HIDE DEF k
<1>3. term \in Screen /\ term.column + k < term_width
  <2>1. term \in Screen /\ term.column = p + 2 /\ term_width \in Nat
    BY <1>1, LinedFacts
  <2> QED BY <1>1, <1>2, <2>1
<1>4. Moved(term, u, k)
  BY <1>2, <1>3, RightMany
<1> HIDE DEF u
<1>5. Lined(u, p + k) /\ Shows(u, input_buffer, n)
  <2>1. p + k \in Nat
    BY <1>1, <1>2
  <2> QED BY <1>1, <1>2, <1>4, <2>1, MovedAlong
<1> QED BY <1>2, <1>5 DEF u, k, n, p

LEMMA InsertShows ==
  ASSUME EditInv, EditInv', ScreenInv, LineFits', NEW c \in Letters, Insert(c)
  PROVE  ScreenInv'
<1> DEFINE n == input_len
           p == input_pos
           b == input_buffer
           d == input_buffer'
           s == Rest(d, p, n + 1)
           u == Feed(term, s)
           k == n - p
           e == Times("left", k)
<1>1. /\ Lined(term, p) /\ Shows(term, b, n) /\ p \in Nat /\ n \in Nat /\ p <= n
      /\ n + 1 < SHELL_INPUT_BUF_SIZE /\ SHELL_INPUT_BUF_SIZE \in Nat
  <2>1. n < SHELL_INPUT_BUF_SIZE - 1
    BY DEF Insert, Room
  <2> QED BY <2>1, EditFacts DEF ScreenInv
<1>2. input_len' = n + 1 /\ input_pos' = p + 1
  BY DEF Insert
<1>3. /\ n + 1 + 2 < term_width
      /\ \A i \in 0..n : d[i] \in Letters
  <2>1. input_len' + 2 < term_width
    BY DEF LineFits
  <2>2. \A i \in 0..(input_len' - 1) : d[i] \in Letters
    BY DEF EditInv
  <2>3. (n + 1) - 1 = n
    BY <1>1
  <2> QED BY <1>2, <2>1, <2>2, <2>3
<1>4. \A i \in 0..(p - 1) : b[i] = d[i] /\ i < n
  <2> DEFINE f == [i \in Buffer |-> IF p < i /\ i <= n THEN b[i - 1] ELSE b[i]]
  <2>1. d = [f EXCEPT ![p] = c, ![n + 1] = NUL]
    BY DEF Insert
  <2>2. \A i \in 0..(p - 1) : i \in Buffer /\ i # p /\ i # n + 1 /\ ~(p < i) /\ i < n
    <3> HIDE DEF n, p
    <3> QED BY <1>1 DEF Buffer
  <2>3. \A i \in 0..(p - 1) : f[i] = b[i]
    BY <2>2
  <2>4. \A i \in Buffer : i # p /\ i # n + 1 => d[i] = f[i]
    <3> HIDE DEF f, n, p
    <3>1. DOMAIN f = Buffer
      BY DEF f
    <3> QED BY <2>1, <3>1
  <2> QED BY <2>2, <2>3, <2>4
<1>5. term' = Feed(term, s \o e)
  <2>1. (n + 1) - (p + 1) = k
    BY <1>1
  <2>2. term' = Feed(term, Rest(input_buffer', input_pos, input_len') \o Times("left", input_len' - input_pos'))
    BY DEF Insert
  <2> QED BY <1>2, <2>1, <2>2
<1> HIDE DEF n, p, b, d
<1>6. k \in Nat /\ -k \in Int /\ (n + 1) + (-k) = p + 1
  BY <1>1
<1>7. s \in Seq(Glyphs) /\ Len(s) = (n + 1) - p /\ \A i \in p..((n + 1) - 1) : s[i - p + 1] = d[i]
  <2>1. n + 1 \in Nat /\ p \in 0..(n + 1) /\ (n + 1) - 1 = n
    BY <1>1
  <2>2. \A i \in 0..((n + 1) - 1) : d[i] \in Letters
    BY <1>3, <2>1
  <2>3. s \in Seq(Letters) /\ Len(s) = (n + 1) - p /\ \A i \in 1..((n + 1) - p) : s[i] = d[p + i - 1]
    BY <2>1, <2>2, RestFacts
  <2> HIDE DEF s
  <2>4. ASSUME NEW i \in p..((n + 1) - 1) PROVE s[i - p + 1] = d[i]
    <3>1. i - p + 1 \in 1..((n + 1) - p) /\ p + (i - p + 1) - 1 = i
      BY <1>1
    <3> QED BY <2>3, <3>1
  <2> QED BY <2>3, <2>4, LettersPrint
<1> HIDE DEF s
<1>8. Lined(u, n + 1) /\ Shows(u, d, n + 1)
  <2>1. n + 1 \in Nat /\ p <= n + 1 /\ n <= n + 1
    BY <1>1
  <2> QED BY <1>1, <1>3, <1>4, <1>7, <2>1, Rewritten
<1>9. term' = Feed(u, e)
  <2>1. s \in Seq(Calls) /\ e \in Seq(Calls)
    BY <1>6, <1>7, CallsAreSeqs, MovesAreSeqs DEF Controls
  <2> QED BY <1>5, <2>1, FeedJoin
<1> HIDE DEF u
<1>10. Moved(u, Feed(u, e), -k)
  <2>1. u \in Screen /\ u.column = (n + 1) + 2
    <3>1. n + 1 \in Nat
      BY <1>1
    <3> QED BY <1>8, <3>1, LinedFacts
  <2>2. k <= u.column
    BY <1>1, <2>1
  <2> HIDE DEF k
  <2> QED BY <1>6, <2>1, <2>2, LeftMany
<1> HIDE DEF e, k
<1>11. Lined(term', p + 1) /\ Shows(term', d, n + 1)
  <2>1. n + 1 \in Nat /\ (n + 1) + (-k) \in Nat
    BY <1>1, <1>6
  <2>2. Lined(Feed(u, e), (n + 1) + (-k)) /\ Shows(Feed(u, e), d, n + 1)
    BY <1>6, <1>8, <1>10, <2>1, MovedAlong
  <2> QED BY <1>6, <1>9, <2>2
<1> QED BY <1>2, <1>11 DEF ScreenInv, d, n, p

LEMMA EraseShows ==
  ASSUME EditInv, EditInv', ScreenInv, LineFits, Backspace
  PROVE  ScreenInv'
<1> DEFINE n == input_len
           p == input_pos
           q == p - 1
           m == n - 1
           b == input_buffer
           d == input_buffer'
           r == Rest(d, q, m)
           k == m - q + 1
           e == Times("left", k)
           t == Feed(term, <<"left">>)
           s == r \o <<" ">>
           u == Feed(t, s)
           g == [i \in 0..m |-> IF i < m THEN d[i] ELSE " "]
<1>1. /\ Lined(term, p) /\ Shows(term, b, n) /\ p \in Nat /\ n \in Nat /\ p <= n /\ p > 0
      /\ n < SHELL_INPUT_BUF_SIZE /\ SHELL_INPUT_BUF_SIZE \in Nat /\ n + 2 < term_width
  BY EditFacts DEF ScreenInv, LineFits, Backspace
<1>2. input_len' = m /\ input_pos' = q
  BY DEF Backspace
<1>3. \A i \in 0..(m - 1) : d[i] \in Letters
  BY <1>2 DEF EditInv
<1>4. \A i \in 0..(q - 1) : b[i] = d[i]
  <2>1. d = [i \in Buffer |-> IF p - 1 <= i /\ i < n THEN b[i + 1] ELSE b[i]]
    BY DEF Backspace
  <2>2. \A i \in 0..(q - 1) : i \in Buffer /\ ~(p - 1 <= i)
    <3> HIDE DEF n, p
    <3> QED BY <1>1 DEF Buffer
  <2> HIDE DEF d, p, n
  <2> QED BY <2>1, <2>2
<1>5. term' = Feed(term, ((<<"left">> \o r) \o <<" ">>) \o e)
  BY <1>2 DEF Backspace, LeftAfterErase
<1> HIDE DEF n, p, b, d
<1>6. q \in Nat /\ m \in Nat /\ q <= m /\ m + 1 = n /\ q + 1 = p /\ k \in Nat /\ n + (-k) = q /\ -k \in Int
  BY <1>1
<1> HIDE DEF q, m
<1>7. r \in Seq(Glyphs) /\ Len(r) = m - q /\ \A i \in 1..(m - q) : r[i] = d[q + i - 1]
  <2>1. q \in 0..m
    BY <1>6
  <2>2. r \in Seq(Letters) /\ Len(r) = m - q /\ \A i \in 1..(m - q) : r[i] = d[q + i - 1]
    BY <1>3, <1>6, <2>1, RestFacts
  <2> HIDE DEF r
  <2> QED BY <2>2, LettersPrint
<1> HIDE DEF r
<1>8. <<" ">> \in Seq(Glyphs) /\ Len(<<" ">>) = 1 /\ <<" ">>[1] = " "
  <2>1. " " \in Glyphs
    BY ShellAssumption
  <2>2. \A c \in Glyphs : <<c>> \in Seq(Glyphs) /\ Len(<<c>>) = 1 /\ <<c>>[1] = c
    OBVIOUS
  <2> QED BY <2>1, <2>2
<1>9. s \in Seq(Glyphs) /\ Len(s) = n - q /\ \A i \in q..(n - 1) : s[i - q + 1] = g[i]
  <2> DEFINE x == <<" ">>
  <2>1. x \in Seq(Glyphs) /\ Len(x) = 1 /\ x[1] = " "
    BY <1>8
  <2> HIDE DEF x
  <2>2. /\ r \o x \in Seq(Glyphs) /\ Len(r \o x) = Len(r) + Len(x)
        /\ \A i \in 1..(Len(r) + Len(x)) : (r \o x)[i] = IF i <= Len(r) THEN r[i] ELSE x[i - Len(r)]
    BY <1>7, <2>1, ConcatProperties
  <2>3. Len(r) + Len(x) = n - q
    <3>1. (m - q) + 1 = n - q
      BY <1>1, <1>6
    <3> QED BY <1>7, <2>1, <3>1
  <2>4. ASSUME NEW i \in q..(n - 1) PROVE (r \o x)[i - q + 1] = g[i]
    <3>1. i - q + 1 \in 1..(n - q) /\ i \in 0..m /\ i \in Nat
      BY <1>1, <1>6
    <3>2. (r \o x)[i - q + 1] = IF i - q + 1 <= m - q THEN r[i - q + 1] ELSE x[(i - q + 1) - (m - q)]
      BY <1>7, <2>2, <2>3, <3>1
    <3>3. g[i] = IF i < m THEN d[i] ELSE " "
      BY <3>1
    <3>4. CASE i < m
      <4>1. i - q + 1 \in 1..(m - q) /\ q + (i - q + 1) - 1 = i /\ i - q + 1 <= m - q
        BY <1>6, <3>1, <3>4
      <4> QED BY <1>7, <3>2, <3>3, <3>4, <4>1
    <3>5. CASE ~(i < m)
      <4>1. ~(i - q + 1 <= m - q) /\ (i - q + 1) - (m - q) = 1
        BY <1>6, <3>1, <3>5
      <4> QED BY <2>1, <3>2, <3>3, <3>5, <4>1
    <3> QED BY <3>4, <3>5
  <2> QED BY <2>2, <2>3, <2>4 DEF x
<1>10. Feed(t, s) = Feed(Feed(t, r), <<" ">>) /\ s \in Seq(Calls)
  <2>1. r \in Seq(Calls) /\ <<" ">> \in Seq(Calls)
    BY <1>7, <1>8, CallsAreSeqs
  <2> DEFINE x == <<" ">>
  <2>2. x \in Seq(Calls) /\ r \in Seq(Calls)
    BY <2>1
  <2>3. s = r \o x
    OBVIOUS
  <2> HIDE DEF t, x, s
  <2>4. r \o x \in Seq(Calls) /\ Feed(t, r \o x) = Feed(Feed(t, r), x)
    BY <2>2, FeedJoin
  <2> QED BY <2>3, <2>4 DEF x
<1>11. term' = Feed(u, e)
  <2> DEFINE l == <<"left">>
             x == <<" ">>
  <2>1. l \in Seq(Calls) /\ r \in Seq(Calls) /\ x \in Seq(Calls) /\ e \in Seq(Calls)
    BY <1>6, <1>7, <1>8, CallsAreSeqs, MovesAreSeqs DEF Controls
  <2>2. term' = Feed(term, ((l \o r) \o x) \o e) /\ t = Feed(term, l) /\ u = Feed(Feed(t, r), x)
    BY <1>5, <1>10
  <2> HIDE DEF l, x, t, u, e
  <2>3. l \o r \in Seq(Calls) /\ Feed(term, l \o r) = Feed(t, r)
    BY <2>1, <2>2, FeedJoin
  <2> DEFINE y == l \o r
  <2>4. y \in Seq(Calls) /\ Feed(term, y) = Feed(t, r)
    BY <2>3
  <2> HIDE DEF y
  <2>5. y \o x \in Seq(Calls) /\ Feed(term, y \o x) = u
    BY <2>1, <2>2, <2>4, FeedJoin
  <2> DEFINE z == y \o x
  <2>6. z \in Seq(Calls) /\ Feed(term, z) = u
    BY <2>5
  <2> HIDE DEF z
  <2>7. Feed(term, z \o e) = Feed(u, e)
    BY <2>1, <2>6, FeedJoin
  <2> QED BY <2>2, <2>7 DEF y, z
<1>12. Lined(t, q) /\ Shows(t, b, n)
  <2>1. t = Called(term, "left")
    BY FeedFew
  <2> HIDE DEF t
  <2>2. term \in Screen /\ term.column = p + 2
    BY <1>1, LinedFacts
  <2>3. Beside(term, t) /\ t.column = term.column - 1 /\ t.cells = term.cells
    <3>1. term.column > 0
      BY <1>1, <2>2
    <3> QED BY <2>1, <2>2, <3>1, LeftHere
  <2>4. Moved(term, t, -1)
    <3>1. term.column - 1 = term.column + (-1)
      BY <1>1, <2>2
    <3> QED BY <2>3, <3>1 DEF Moved
  <2>5. p + (-1) = q /\ -1 \in Int
    BY <1>1, <1>6
  <2> QED BY <1>1, <1>6, <2>4, <2>5, MovedAlong
<1> HIDE DEF s, t
<1>13. Lined(u, n) /\ Shows(u, g, n)
  <2>1. \A i \in 0..(q - 1) : b[i] = g[i] /\ i < n
    <3> SUFFICES ASSUME NEW i \in 0..(q - 1) PROVE b[i] = g[i] /\ i < n
      OBVIOUS
    <3>1. i \in 0..m /\ i < m /\ i < n
      BY <1>1, <1>6
    <3> QED BY <1>4, <3>1
  <2> HIDE DEF g
  <2>2. q <= n /\ n <= n
    BY <1>1, <1>6
  <2>3. q \in Nat /\ n \in Nat /\ n + 2 < term_width
    BY <1>1, <1>6
  <2> QED BY <1>9, <1>12, <2>1, <2>2, <2>3, Rewritten
<1> HIDE DEF u
<1>14. Shows(u, d, m)
  <2> SUFFICES ASSUME NEW i \in Cells, u.mark <= i
               PROVE  u.cells[i] = IF i < u.mark + m THEN d[i - u.mark] ELSE " "
    BY DEF Shows
  <2> DEFINE a == u.mark
  <2>1. a \in Int /\ i \in Int
    BY <1>1, <1>13, LinedFacts, CellsAreNumbers
  <2>2. u.cells[i] = IF i < a + n THEN g[i - a] ELSE " "
    BY <1>13 DEF Shows
  <2>3. a <= i
    OBVIOUS
  <2> HIDE DEF a
  <2>4. CASE i < a + n
    <3>1. i - a \in 0..m /\ (i - a < m <=> i < a + m)
      BY <1>1, <1>6, <2>1, <2>3, <2>4
    <3> QED BY <2>2, <2>4, <3>1 DEF a
  <2>5. CASE ~(i < a + n)
    <3>1. ~(i < a + m)
      BY <1>1, <1>6, <2>1, <2>5
    <3> QED BY <2>2, <2>5, <3>1 DEF a
  <2> QED BY <2>4, <2>5
<1> HIDE DEF g
<1>15. Moved(u, Feed(u, e), -k)
  <2>1. u \in Screen /\ u.column = n + 2
    BY <1>1, <1>13, LinedFacts
  <2>2. k <= u.column
    BY <1>1, <1>6, <2>1
  <2> HIDE DEF k
  <2> QED BY <1>6, <2>1, <2>2, LeftMany
<1> HIDE DEF e, k
<1>16. Lined(term', q) /\ Shows(term', d, m)
  <2>1. Lined(Feed(u, e), n + (-k)) /\ Shows(Feed(u, e), d, m)
    BY <1>1, <1>6, <1>13, <1>14, <1>15, MovedAlong
  <2> QED BY <1>6, <1>11, <2>1
<1> QED BY <1>2, <1>16 DEF ScreenInv, d

LEMMA LeftShows ==
  ASSUME EditInv, ScreenInv, CursorLeft
  PROVE  ScreenInv'
<1>1. Lined(term, input_pos) /\ Shows(term, input_buffer, input_len) /\ input_pos \in Nat /\ input_pos > 0
  BY EditFacts DEF ScreenInv, CursorLeft
<1>2. term \in Screen /\ term.column = input_pos + 2
  BY <1>1, LinedFacts
<1>3. term' = Called(term, "left")
  BY DEF CursorLeft, Called
<1>4. Beside(term, term') /\ term'.column = term.column - 1 /\ term'.cells = term.cells
  <2>1. term.column > 0
    BY <1>1, <1>2
  <2> QED BY <1>2, <1>3, <2>1, LeftHere
<1>5. Moved(term, term', -1)
  <2>1. term.column - 1 = term.column + (-1)
    BY <1>1, <1>2
  <2> QED BY <1>4, <2>1 DEF Moved
<1>6. /\ Lined(term', input_pos + (-1)) /\ Shows(term', input_buffer, input_len)
      /\ input_pos + (-1) = input_pos - 1
  <2>1. input_pos + (-1) \in Nat /\ -1 \in Int /\ input_pos + (-1) = input_pos - 1
    BY <1>1
  <2> QED BY <1>1, <1>5, <2>1, MovedAlong
<1>7. input_pos' = input_pos - 1 /\ input_buffer' = input_buffer /\ input_len' = input_len
  BY DEF CursorLeft
<1> QED BY <1>6, <1>7 DEF ScreenInv

LEMMA RightShows ==
  ASSUME EditInv, ScreenInv, LineFits, CursorRight
  PROVE  ScreenInv'
<1>1. /\ Lined(term, input_pos) /\ Shows(term, input_buffer, input_len)
      /\ input_pos \in Nat /\ input_len \in Nat /\ input_pos < input_len /\ input_len + 2 < term_width
  BY EditFacts DEF ScreenInv, CursorRight, LineFits
<1>2. term \in Screen /\ term.column = input_pos + 2 /\ term_width \in Nat
  BY <1>1, LinedFacts
<1>3. term' = Called(term, "right")
  BY DEF CursorRight, Called
<1>4. Beside(term, term') /\ term'.column = term.column + 1 /\ term'.cells = term.cells
  <2>1. term.column + 1 < term_width
    BY <1>1, <1>2
  <2> QED BY <1>2, <1>3, <2>1, RightHere
<1>5. Moved(term, term', 1)
  BY <1>4 DEF Moved
<1>6. Lined(term', input_pos + 1) /\ Shows(term', input_buffer, input_len)
  <2>1. input_pos + 1 \in Nat /\ 1 \in Int
    BY <1>1
  <2> QED BY <1>1, <1>5, <2>1, MovedAlong
<1>7. input_pos' = input_pos + 1 /\ input_buffer' = input_buffer /\ input_len' = input_len
  BY DEF CursorRight
<1> QED BY <1>6, <1>7 DEF ScreenInv

LEMMA SetShows ==
  ASSUME EditInv, ScreenInv, LineFits, LineFits', NEW s \in Seq(Letters), Len(s) \in Buffer,
         shell_set_current_line(s)
  PROVE  ScreenInv'
<1> DEFINE n == input_len
           k == n - input_pos
           b == input_buffer
           d == input_buffer'
           m == Len(s)
           x == Times("right", k)
           y == Times("backspace", n)
           t == Feed(term, x)
           u == Feed(t, y)
<1>1. Lined(t, n) /\ Shows(t, b, n)
  BY LineEnd
<1>2. /\ n \in Nat /\ k \in Nat /\ m \in Nat /\ m + 2 < term_width
      /\ input_len' = m /\ input_pos' = m /\ term' = Feed(term, (x \o y) \o s)
  <2>1. input_len \in Nat /\ input_pos \in Nat /\ input_pos <= input_len
    BY EditFacts
  <2>2. input_len' = m /\ input_pos' = m /\ term' = Feed(term, (x \o y) \o s)
    BY DEF shell_set_current_line, ClearLine
  <2>3. m \in Nat /\ m + 2 < term_width
    BY <2>2 DEF LineFits
  <2>4. n \in Nat /\ k \in Nat
    BY <2>1
  <2> QED BY <2>2, <2>3, <2>4
<1>3. \A i \in 0..(m - 1) : s[i + 1] = d[i]
  <2>1. d = [i \in Buffer |-> IF i < m THEN s[i + 1] ELSE IF i = m THEN NUL ELSE b[i]]
    BY DEF shell_set_current_line, Copied
  <2>2. \A i \in 0..(m - 1) : i \in Buffer /\ i < m
    <3>1. m < SHELL_INPUT_BUF_SIZE /\ SHELL_INPUT_BUF_SIZE \in Nat
      BY BufferFacts DEF Buffer
    <3> HIDE DEF m
    <3> QED BY <1>2, <3>1 DEF Buffer
  <2> HIDE DEF m, d, b
  <2> QED BY <2>1, <2>2
<1> HIDE DEF n, k, b, d, t
<1>4. Lined(u, 0) /\ Shows(u, d, 0)
  BY <1>1, <1>2, Emptied
<1>5. term' = Feed(u, s)
  <2>1. s \in Seq(Calls) /\ x \in Seq(Calls) /\ y \in Seq(Calls)
    BY <1>2, LettersPrint, CallsAreSeqs, MovesAreSeqs DEF Controls
  <2>2. t = Feed(term, x) /\ term' = Feed(term, (x \o y) \o s)
    BY <1>2 DEF t
  <2> HIDE DEF x, y
  <2> DEFINE z == x \o y
  <2>3. z \in Seq(Calls) /\ Feed(term, z) = u
    BY <2>1, <2>2, FeedJoin
  <2>4. term' = Feed(term, z \o s)
    BY <2>2
  <2> HIDE DEF z, u
  <2> QED BY <2>1, <2>3, <2>4, FeedJoin
<1> HIDE DEF u
<1>6. Lined(Feed(u, s), m) /\ Shows(Feed(u, s), d, m)
  <2>1. s \in Seq(Glyphs) /\ 0 <= m /\ Len(s) = m - 0
    BY <1>2, LettersPrint
  <2>2. \A i \in 0..(m - 1) : s[i - 0 + 1] = d[i]
    <3>1. \A i \in 0..(m - 1) : i - 0 + 1 = i + 1
      BY <1>2
    <3> QED BY <1>3, <3>1
  <2>3. \A i \in 0..(0 - 1) : d[i] = d[i] /\ i < 0
    OBVIOUS
  <2> HIDE DEF m
  <2> QED BY <1>2, <1>4, <2>1, <2>2, <2>3, Rewritten
<1> QED BY <1>2, <1>5, <1>6 DEF ScreenInv, d

LEMMA UpShows ==
  ASSUME EditInv, ScreenInv, LineFits, LineFits', KeyUp \/ KeyDown
  PROVE  ScreenInv'
<1>1. history_index \in Int /\ history_count \in Nat
  <2>1. history_count \in Nat /\ Oldest(history_count) \in Int
    <3>1. SHELL_HISTORY_MAX \in Nat \ {0}
      BY ShellAssumption
    <3>2. history_count \in Nat
      BY DEF EditInv
    <3> QED BY <3>1, <3>2 DEF Oldest
  <2> QED BY <2>1 DEF EditInv
<1>2. ASSUME NEW i \in Int PROVE Recalled(i) \in Seq(Letters) /\ Len(Recalled(i)) \in Buffer
  <2>1. i % SHELL_HISTORY_MAX \in 0..(SHELL_HISTORY_MAX - 1)
    <3>1. SHELL_HISTORY_MAX \in Nat \ {0}
      BY ShellAssumption
    <3> QED BY <3>1
  <2> QED BY <2>1 DEF EditInv, Recalled
<1>3. <<>> \in Seq(Letters) /\ Len(<<>>) \in Buffer
  <2>1. Len(<<>>) = 0
    OBVIOUS
  <2> QED BY <2>1, BufferFacts
<1>4. CASE KeyUp
  <2>1. history_index' \in Int /\ shell_set_current_line(Recalled(history_index'))
    BY <1>1, <1>4 DEF KeyUp
  <2> QED BY <1>2, <2>1, SetShows
<1>5. CASE KeyDown
  <2> DEFINE s == IF history_index' = history_count THEN <<>> ELSE Recalled(history_index')
  <2>1. history_index' \in Int /\ shell_set_current_line(s)
    BY <1>1, <1>5 DEF KeyDown
  <2>2. s \in Seq(Letters) /\ Len(s) \in Buffer
    BY <1>2, <1>3, <2>1
  <2> HIDE DEF s
  <2> QED BY <2>1, <2>2, SetShows
<1> QED BY <1>4, <1>5

LEMMA AtEndFresh ==
  ASSUME EditInv, ScreenInv, LineFits
  PROVE  Fresh(AtEnd) /\ AtEnd.column = 0
<1> DEFINE n == input_len
           k == n - input_pos
           x == Times("right", k)
           y == <<"newline">>
           u == Feed(term, x)
<1>1. Lined(u, n) /\ Shows(u, input_buffer, n) /\ n \in Nat /\ k \in Nat
  <2>1. n \in Nat /\ k \in Nat
    BY EditFacts
  <2> QED BY <2>1, LineEnd
<1>2. AtEnd = Called(u, "newline")
  <2>1. x \in Seq(Calls) /\ y \in Seq(Calls)
    <3>1. y \in Seq(Calls)
      BY DEF Calls, Controls
    <3>2. x \in Seq(Calls)
      BY <1>1, MovesAreSeqs DEF Controls
    <3> QED BY <3>1, <3>2
  <2>2. AtEnd = Feed(term, x \o y)
    BY DEF AtEnd
  <2>3. \A v : Feed(v, y) = Called(v, "newline")
    BY FeedFew
  <2> HIDE DEF x, y
  <2> QED BY <2>1, <2>2, <2>3, FeedJoin
<1> HIDE DEF u, n, k
<1>3. u \in Screen /\ u.mark \in Int /\ Place(u) = u.mark + n
  BY <1>1, LinedFacts
<1>4. ASSUME NEW i \in Cells, Place(u) <= i PROVE u.cells[i] = " "
  <2>1. u.mark <= i /\ ~(i < u.mark + n)
    BY <1>1, <1>3, <1>4, CellsAreNumbers
  <2> QED BY <1>1, <2>1 DEF Shows
<1>5. Fresh(u)
  BY <1>3, <1>4 DEF Fresh, Blank
<1>6. "newline" \in Prints
  BY DEF Prints
<1> QED BY <1>2, <1>5, <1>6, PrintOne

LEMMA EnterShows ==
  ASSUME EditInv, ScreenInv, LineFits, EnterLine \/ EnterNothing
  PROVE  ScreenInv'
<1>1. Fresh(AtEnd) /\ AtEnd.column = 0
  BY AtEndFresh
<1>2. 2 < term_width
  <2>1. input_len \in Nat /\ input_len + 2 < term_width /\ term_width \in Nat
    BY EditFacts, TerminalAssumption DEF LineFits
  <2> QED BY <2>1
<1>3. ASSUME NEW t \in Executed(AtEnd) PROVE Fresh(t) /\ t.column = 0
  <2>1. CASE t \in {Feed(AtEnd, out) : out \in Outputs}
    BY <1>1, <2>1, OutputPrinted
  <2>2. CASE t = terminal_clear(AtEnd)
    <3>1. AtEnd.mark \in Int
      BY <1>1, ScreenRecord DEF Fresh
    <3> QED BY <2>2, <3>1, ClearPrinted
  <2> QED BY <2>1, <2>2 DEF Executed
<1>4. /\ \E t : Fresh(t) /\ t.column = 0 /\ term' = Prompt(t)
      /\ input_len' = 0 /\ input_pos' = 0
  <2>1. CASE EnterLine
    BY <1>3, <2>1 DEF EnterLine
  <2>2. CASE EnterNothing
    <3>1. input_pos = 0
      BY <2>2, EditFacts DEF EnterNothing
    <3> QED BY <1>1, <2>2, <3>1 DEF EnterNothing
  <2> QED BY <2>1, <2>2
<1>5. Lined(term', 0) /\ Shows(term', input_buffer', 0)
  BY <1>2, <1>4, Prompted
<1> QED BY <1>4, <1>5 DEF ScreenInv

LEMMA ScreenStarts == Init /\ LineFits => ScreenInv
<1> SUFFICES ASSUME Init, LineFits PROVE ScreenInv
  OBVIOUS
<1>1. input_len = 0 /\ input_pos = 0 /\ 2 < term_width
  BY TerminalAssumption DEF Init, LineFits
<1>2. PICK out \in Outputs : term = Prompt(Feed(terminal_clear([mark |-> 0]), out))
  BY DEF Init
<1> DEFINE t == terminal_clear([mark |-> 0])
<1>3. Fresh(t) /\ t.column = 0
  <2> DEFINE x == [mark |-> 0]
  <2>1. x.mark \in Int
    OBVIOUS
  <2> HIDE DEF x
  <2> QED BY <2>1, ClearPrinted DEF x
<1>4. term = Prompt(Feed(t, out))
  BY <1>2
<1> HIDE DEF t
<1>5. Fresh(Feed(t, out)) /\ Feed(t, out).column = 0
  BY <1>3, OutputPrinted
<1>6. Lined(term, 0) /\ Shows(term, input_buffer, 0)
  BY <1>1, <1>4, <1>5, Prompted
<1> QED BY <1>1, <1>6 DEF ScreenInv

LEMMA KeyShows == EditInv /\ EditInv' /\ LineFits /\ LineFits' /\ ScreenInv /\ [Next]_vars => ScreenInv'
<1> SUFFICES ASSUME EditInv, EditInv', LineFits, LineFits', ScreenInv, [Next]_vars PROVE ScreenInv'
  OBVIOUS
<1>1. CASE EnterLine \/ EnterNothing
  BY <1>1, EnterShows
<1>2. CASE Backspace
  BY <1>2, EraseShows
<1>3. CASE CursorLeft
  BY <1>3, LeftShows
<1>4. CASE CursorRight
  BY <1>4, RightShows
<1>5. CASE KeyUp \/ KeyDown
  BY <1>5, UpShows
<1>6. CASE \E c \in Letters : Insert(c)
  BY <1>6, InsertShows
<1>7. CASE UNCHANGED vars
  BY <1>7 DEF vars, line, ScreenInv
<1> QED BY <1>1, <1>2, <1>3, <1>4, <1>5, <1>6, <1>7 DEF Next, shell_handle_key

LEMMA AlwaysShows == Spec /\ []LineFits => []ScreenInv
<1> QED BY ScreenStarts, KeyShows, AlwaysEdits, PTL DEF Spec

LEMMA ScreenShowsLine == EditInv /\ ScreenInv => LineShown
<1> SUFFICES ASSUME EditInv, ScreenInv, NEW i \in 0..(term_width - 1),
                    term.mark + i < (term.row + 1) * term_width
             PROVE  term.cells[term.mark + i] = IF i < input_len THEN input_buffer[i] ELSE " "
  BY DEF LineShown
<1> DEFINE a == term.mark
           W == term_width
<1>1. /\ term \in Screen /\ a = Start(term) + 2 /\ W \in Nat /\ a \in Nat /\ input_len \in Nat
      /\ Shows(term, input_buffer, input_len)
  BY EditFacts, LinedFacts DEF ScreenInv
<1>2. Start(term) = term.row * W /\ term.row \in Nat /\ Start(term) \in Nat
  BY <1>1, ScreenFacts DEF Start
<1>3. (term.row + 1) * W = Start(term) + W
  <2> DEFINE r == term.row
  <2>1. r \in Nat /\ W \in Nat
    BY <1>1, <1>2
  <2> HIDE DEF r, W
  <2>2. (r + 1) * W = r * W + W
    BY <2>1
  <2> QED BY <1>2, <2>2 DEF r
<1>4. a + i < Start(term) + W
  BY <1>3
<1>5. a + i \in Cells
  <2> DEFINE c == i + 2
  <2>1. c \in 0..(W - 1) /\ Start(term) + c = a + i
    <3> HIDE DEF a
    <3> QED BY <1>1, <1>2, <1>4
  <2> HIDE DEF c, a, W
  <2>2. c \in 0..(term_width - 1)
    BY <2>1 DEF W
  <2>3. Start(term) + c \in Cells
    BY <1>1, <2>2, ScreenFacts
  <2> QED BY <2>1, <2>3
<1>6. a <= a + i /\ (a + i < a + input_len <=> i < input_len) /\ (a + i) - a = i
  <2> HIDE DEF a
  <2> QED BY <1>1
<1>7. term.cells[a + i] = IF a + i < a + input_len THEN input_buffer[(a + i) - a] ELSE " "
  BY <1>1, <1>5, <1>6 DEF Shows
<1> QED BY <1>6, <1>7

LEMMA ScreenShowsCursor == EditInv /\ ScreenInv => CursorAtInsertion
BY EditFacts, LinedFacts DEF ScreenInv, CursorAtInsertion

\* As long as the line leaves room for the cursor in its row, the screen shows the line
\* behind the prompt and nothing else in that row: what shell_handle_key puts, moves over
\* and erases one character at a time amounts to the line in its buffer, after any number
\* of keys, commands and scrolls, on a screen of any size.
THEOREM LineOnScreen == Spec /\ []LineFits => []LineShown
<1> QED BY AlwaysShows, AlwaysEdits, ScreenShowsLine, PTL

\* And the visible cursor stands where input_pos says that the next character goes.
THEOREM CursorOnScreen == Spec /\ []LineFits => []CursorAtInsertion
<1> QED BY AlwaysShows, AlwaysEdits, ScreenShowsCursor, PTL

\* A screen that is wider than the input buffer has room for every line.
THEOREM WideScreen ==
  ASSUME SHELL_INPUT_BUF_SIZE + 1 < term_width
  PROVE  Spec => [](LineShown /\ CursorAtInsertion)
<1>1. EditInv => LineFits
  <2> SUFFICES ASSUME EditInv PROVE LineFits
    OBVIOUS
  <2>1. /\ input_len \in Nat /\ input_len < SHELL_INPUT_BUF_SIZE /\ SHELL_INPUT_BUF_SIZE \in Nat
        /\ term_width \in Nat
    BY EditFacts, TerminalAssumption
  <2> QED BY <2>1 DEF LineFits
<1>2. Spec => []LineFits
  BY <1>1, AlwaysEdits, PTL
<1> QED BY <1>2, LineOnScreen, CursorOnScreen, PTL

=============================================================================
