---------------------------- MODULE AcpiShutdown ----------------------------
(***************************************************************************)
(* acpi_shutdown (src/src/kernel/acpi/shutdown.c): the search of the DSDT  *)
(* for the package _S5_, whose first two integers are the values that turn *)
(* the machine off when they are written to its power-management ports.    *)
(*                                                                         *)
(* The bytes are the firmware's.  A position at which the name stands is   *)
(* tried in steps: the length of the package, the number of its elements,  *)
(* the two integers; whatever is wrong with them, the search goes on.      *)
(***************************************************************************)
EXTENDS Integers, Sequences

CONSTANTS
  Tables,      \* [aml, known, written, pm1a, pm1b]: the bytes, whether it is
               \* known what they hold and what, and the ports' addresses
  UINT16_MAX

ASSUME ShutdownAssumption ==
  /\ \A t \in Tables : t.aml \in Seq(0..255) /\ t.pm1a \in Nat /\ t.pm1b \in Nat
  /\ UINT16_MAX \in Nat

PACKAGE == 18
NAME == <<95, 83, 53, 95>>
ACPI_SLP_EN == 8192

-----------------------------------------------------------------------------
(* AML, as a compiler writes it.                                            *)

\* A package's length n, itself included, with the bytes that follow the first:
\* they hold what is above the low four bits.  The bits r are reserved.
FieldUnit == <<16, 4096, 1048576>>
Fits(n, follow) == IF follow = 0 THEN n < 64 ELSE n \div FieldUnit[follow] < 256
LengthField(n, follow, r) ==
  IF follow = 0 THEN <<n>>
  ELSE [k \in 1..(follow + 1) |->
          IF k = 1 THEN 64 * follow + 16 * r + (n % 16) ELSE (n \div FieldUnit[k - 1]) % 256]

\* Every way to write the integer v
Encodings(v) ==
  {<<w>> : w \in {v} \cap {0, 1}}
    \cup {<<10, v>>, <<11, v, 0>>, <<12, v, 0, 0, 0>>, <<14, v, 0, 0, 0, 0, 0, 0, 0>>}

Stands(bytes, aml, o) ==
  o + Len(bytes) <= Len(aml) /\ \A k \in 1..Len(bytes) : aml[o + k] = bytes[k]

\* The package _S5_ with at least two elements, of which the first are a pair of vs
PackageStands(vs, aml, o) ==
  /\ Stands(NAME, aml, o) /\ Stands(<<PACKAGE>>, aml, o + 4)
  /\ \E follow \in 0..3, n \in 0..(Len(aml) - (o + 5)) :
       /\ Fits(n, follow) /\ \E r \in 0..3 : Stands(LengthField(n, follow, r), aml, o + 5)
       /\ \E count \in 2..255 : Stands(<<count>>, aml, o + 6 + follow)
       /\ \E v \in vs : \E x \in Encodings(v[1]) :
            /\ Stands(x, aml, o + 7 + follow)
            /\ \E y \in Encodings(v[2]) :
                 /\ Stands(y, aml, o + 7 + follow + Len(x))
                 /\ 2 + follow + Len(x) + Len(y) <= n

\* The first package holds what was written, or there is none.
WrittenIn(t) ==
  LET pairs == (0..7) \X (0..7)
  IN IF t.written = <<>> THEN \A o \in 0..Len(t.aml) : ~PackageStands(pairs, t.aml, o)
     ELSE /\ t.written \in pairs
          /\ \E o \in 0..Len(t.aml) :
               /\ PackageStands({t.written}, t.aml, o)
               /\ \A p \in 0..(o - 1) : ~PackageStands(pairs, t.aml, p)

ASSUME AmlWriterAssumption == \A t \in Tables : t.known => WrittenIn(t)

VARIABLES
  table,
  i,             \* where the name is looked for
  aml_offset,    \* offset of aml_find_s5
  package_end,
  values,        \* slp_typa and slp_typb, as far as they were read
  read,          \* ghost: bytes from the start up to the last one looked at
  sent,          \* what was written to the ports
  pc

shutdownVars == <<table, i, aml_offset, package_end, values, read, sent, pc>>

aml_len == Len(table.aml)
\* Past the end lies whatever follows the table.
Byte(o) == IF o < aml_len THEN table.aml[o + 1] ELSE 0
Reads(upto) == read' = IF upto > read THEN upto ELSE read

ShutdownInit ==
  /\ table \in Tables
  /\ i = 0 /\ aml_offset = 0 /\ package_end = 0 /\ values = <<>> /\ read = 0 /\ sent = {}
  /\ pc = "start"

Start ==
  /\ pc = "start" /\ table.pm1a <= UINT16_MAX /\ table.pm1b <= UINT16_MAX
  /\ pc' = "search"
  /\ UNCHANGED <<table, i, aml_offset, package_end, values, read, sent>>

InvalidPort ==
  /\ pc = "start" /\ (table.pm1a > UINT16_MAX \/ table.pm1b > UINT16_MAX)
  /\ pc' = "halted"
  /\ UNCHANGED <<table, i, aml_offset, package_end, values, read, sent>>

-----------------------------------------------------------------------------
(* aml_find_s5.                                                             *)

Room == i <= aml_len /\ aml_len - i >= 5
IsPackage == (\A k \in 1..4 : Byte(i + k - 1) = NAME[k]) /\ Byte(i + 4) = PACKAGE

\* continue, in the search
Continue ==
  /\ i' = i + 1 /\ values' = <<>> /\ pc' = "search"
  /\ UNCHANGED <<table, aml_offset, package_end, sent>>

PassByte == pc = "search" /\ Room /\ ~IsPackage /\ Reads(i + 5) /\ Continue

FindName ==
  /\ pc = "search" /\ Room /\ IsPackage
  /\ Reads(i + 5) /\ aml_offset' = i + 5 /\ pc' = "length"
  /\ UNCHANGED <<table, i, package_end, values, sent>>

NotFound ==
  /\ pc = "search" /\ ~Room
  /\ pc' = "halted"
  /\ UNCHANGED <<table, i, aml_offset, package_end, values, read, sent>>

\* aml_read_package_length: the two high bits of the first byte count the bytes
\* that follow it, each of them above the bits before.
FollowBytes == Byte(aml_offset) \div 64
\* Wrong variant: the low bits of the first byte are overwritten.
WholeBytes == <<1, 256, 65536>>
Shift == <<16, 4096, 1048576>>
Following(k) == IF k <= FollowBytes THEN Byte(aml_offset + k) * Shift[k] ELSE 0
PackageLength ==
  IF FollowBytes = 0 THEN Byte(aml_offset) % 64
  ELSE (Byte(aml_offset) % 16) + Following(1) + Following(2) + Following(3)
Encoded == 1 + FollowBytes

\* Wrong variant: the package is not compared with the table.
LongEnough == PackageLength >= Encoded
LengthOk == PackageLength >= Encoded /\ PackageLength <= aml_len - aml_offset

Truncated ==
  /\ pc = "length" /\ aml_offset + FollowBytes >= aml_len
  /\ Reads(aml_len) /\ Continue

BadLength ==
  /\ pc = "length" /\ aml_offset + FollowBytes < aml_len
  /\ ~LengthOk \/ PackageLength = Encoded
  /\ Reads(aml_offset + Encoded) /\ Continue

ReadLength ==
  /\ pc = "length" /\ aml_offset + FollowBytes < aml_len
  /\ LengthOk /\ PackageLength > Encoded
  /\ package_end' = aml_offset + PackageLength /\ aml_offset' = aml_offset + Encoded
  /\ Reads(aml_offset + Encoded) /\ pc' = "count"
  /\ UNCHANGED <<table, i, values, sent>>

TooFew == pc = "count" /\ Byte(aml_offset) < 2 /\ Reads(aml_offset + 1) /\ Continue

ReadCount ==
  /\ pc = "count" /\ Byte(aml_offset) >= 2
  /\ Reads(aml_offset + 1) /\ aml_offset' = aml_offset + 1 /\ pc' = "integers"
  /\ UNCHANGED <<table, i, package_end, values, sent>>

\* aml_read_integer: bytes that follow the opcode, and the value if it fits the
\* three bits there are for it.
Opcodes == {0, 1, 10, 11, 12, 14, 255}
IntegerSize == CASE Byte(aml_offset) = 10 -> 1 [] Byte(aml_offset) = 11 -> 2
                 [] Byte(aml_offset) = 12 -> 4 [] Byte(aml_offset) = 14 -> 8 [] OTHER -> 0
SmallInteger ==
  /\ Byte(aml_offset) # 255
  /\ IntegerSize > 0 => Byte(aml_offset + 1) <= 7 /\ \A k \in 2..IntegerSize : Byte(aml_offset + k) = 0
Integer == IF IntegerSize = 0 THEN Byte(aml_offset) ELSE Byte(aml_offset + 1)

IntegerInPackage ==
  aml_offset < package_end /\ Byte(aml_offset) \in Opcodes /\ IntegerSize <= package_end - (aml_offset + 1)

BadInteger ==
  /\ pc = "integers" /\ ~(IntegerInPackage /\ SmallInteger)
  /\ Reads(IF aml_offset >= package_end THEN read
           ELSE IF IntegerInPackage THEN aml_offset + 1 + IntegerSize ELSE aml_offset + 1)
  /\ Continue

ReadInteger ==
  /\ pc = "integers" /\ IntegerInPackage /\ SmallInteger
  /\ Reads(aml_offset + 1 + IntegerSize)
  /\ aml_offset' = aml_offset + 1 + IntegerSize /\ values' = Append(values, Integer)
  /\ pc' = IF Len(values) = 1 THEN "sleep" ELSE "integers"
  /\ UNCHANGED <<table, i, package_end, sent>>

\* The machine goes off here, and if it does not it stays halted.
Sleep ==
  /\ pc = "sleep"
  /\ sent' = {<<"a", values[1] * 1024 + ACPI_SLP_EN>>}
               \cup (IF table.pm1b = 0 THEN {} ELSE {<<"b", values[2] * 1024 + ACPI_SLP_EN>>})
  /\ pc' = "halted"
  /\ UNCHANGED <<table, i, aml_offset, package_end, values, read>>

Halted == pc = "halted" /\ UNCHANGED shutdownVars

ShutdownNext ==
  \/ Start \/ InvalidPort
  \/ PassByte \/ FindName \/ NotFound
  \/ Truncated \/ BadLength \/ ReadLength \/ TooFew \/ ReadCount \/ BadInteger \/ ReadInteger
  \/ Sleep \/ Halted

ShutdownSpec == ShutdownInit /\ [][ShutdownNext]_shutdownVars

-----------------------------------------------------------------------------
(* Properties.                                                              *)

\* The variables keep their types, which says that no byte is read past the end
\* of the table, nor an integer past the end of its package, whatever lengths
\* the bytes make.
ShutdownTypeInv ==
  /\ i \in 0..aml_len /\ read \in 0..aml_len /\ package_end \in 0..aml_len
  /\ pc \in {"count", "integers", "sleep"} => aml_offset \in 0..package_end
  /\ values \in Seq(0..7) /\ Len(values) <= 2
  /\ pc \in {"start", "search", "length", "count", "integers", "sleep", "halted"}

\* Where the table holds a package as the firmware's compiler writes it, with the
\* values in any of their encodings and behind anything that only looks like the
\* package, shutting down sends exactly these values, to the ports there are;
\* where it holds none, nothing is sent.
SleepsAsWritten ==
  (pc = "halted" /\ table.known) =>
    sent = IF table.written = <<>> \/ table.pm1a > UINT16_MAX \/ table.pm1b > UINT16_MAX THEN {}
           ELSE {<<"a", table.written[1] * 1024 + 8192>>}
                  \cup (IF table.pm1b = 0 THEN {} ELSE {<<"b", table.written[2] * 1024 + 8192>>})

=============================================================================
