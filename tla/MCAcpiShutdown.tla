--------------------------- MODULE MCAcpiShutdown ---------------------------
(***************************************************************************)
(* Tables as a compiler writes them, in every encoding of the length and   *)
(* the integers, tables that end too early, and all short byte strings     *)
(* behind the name.                                                        *)
(***************************************************************************)
EXTENDS AcpiShutdown

Zeros(n) == [k \in 1..n |-> 0]
Found == Append(NAME, PACKAGE)

\* An integer in the encoding whose opcode is given
Encode(v, opcode) ==
  CASE opcode = 0 -> <<v>>
    [] opcode = 10 -> <<10, v>>
    [] opcode = 11 -> <<11, v, 0>>
    [] opcode = 12 -> <<12, v, 0, 0, 0>>
    [] opcode = 14 -> <<14, v>> \o Zeros(7)

\* A length field with the given number of bytes that follow
EncodeLength(body, follow) ==
  LET n == body + 1 + follow
  IN IF follow = 0 THEN <<n>>
     ELSE <<64 * follow + (n % 16)>> \o [k \in 1..follow |-> IF k = 1 THEN n \div 16 ELSE 0]
Package(body, follow) == Found \o EncodeLength(Len(body), follow) \o body

Values == {<<v, 0>> : v \in {0, 1}} \cup {<<v, c>> : v \in {5, 7}, c \in {10, 11, 12, 14}}
Bodies == {[bytes |-> <<n>> \o Encode(a[1], a[2]) \o Encode(b[1], b[2]) \o rest, a |-> a[1], b |-> b[1]]
             : n \in {2, 4}, a \in Values, b \in Values, rest \in {<<>>, <<0, 0>>, Zeros(60)}}

\* What may stand before it: nothing of the name, part of it, a reference to it, a
\* package that cannot be used.
Before == {<<>>, <<95>>, <<95, 83, 53>>, NAME, Found, NAME \o <<8>>, Package(<<1, 1>>, 0),
           Package(<<2, 1, 10>>, 0), Package(<<2, 11, 1, 1>>, 0), Package(<<2, 9>>, 0), Package(<<2, 255, 1>>, 1),
           Package(<<>>, 1), Found \o <<3, 2, 1>>}
After == {<<>>, <<95, 83>>, NAME}

Written ==
  {[aml |-> before \o Package(body.bytes, follow) \o after, known |-> TRUE, written |-> <<body.a, body.b>>]
     : before \in {<<>>, <<95, 83, 53>>}, body \in {x \in Bodies : Len(x.bytes) < 60}, follow \in 0..3, after \in {<<>>, NAME}}
  \cup {[aml |-> before \o Package(body.bytes, 1), known |-> TRUE, written |-> <<body.a, body.b>>]
     : before \in Before, body \in {x \in Bodies : x.a = 5 /\ Len(x.bytes) > 60}}

Small == CHOOSE x \in Bodies : Len(x.bytes) = 5
Without ==
  {[aml |-> before \o after, known |-> TRUE, written |-> <<>>] : before \in Before \ {Found}, after \in After}
Cut ==
  {[aml |-> SubSeq(Package(Small.bytes, follow), 1, n), known |-> TRUE, written |-> <<>>] : follow \in 0..3, n \in 0..10}

Byte5 == {0, 2, 5, 7, 10, 12, 14, 64, 255}
Short ==
  {[aml |-> Found \o bytes, known |-> FALSE, written |-> <<>>] : bytes \in UNION {[1..n -> Byte5] : n \in 0..3}}

At(t, a, b) == [aml |-> t.aml, known |-> t.known, written |-> t.written, pm1a |-> a, pm1b |-> b]
MCTables ==
  {At(t, 4, 0) : t \in Written \cup Short} \cup {At(t, 4, 6) : t \in Written \cup Without \cup Cut}
    \cup {At([aml |-> Package(Small.bytes, 0), known |-> TRUE, written |-> <<Small.a, Small.b>>], p[1], p[2])
             : p \in {<<99, 0>>, <<0, 99>>, <<98, 98>>}}
=============================================================================
