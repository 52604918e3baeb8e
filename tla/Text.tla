-------------------------------- MODULE Text --------------------------------
(***************************************************************************)
(* Strings and printed text: src/src/libkern/string.c and stdio.  A        *)
(* string of C is a string of TLA+, without its NUL, and a pointer into it *)
(* is what is left of it from there.                                       *)
(***************************************************************************)
EXTENDS Integers, Sequences

CONSTANTS
  INT_MAX,
  PRINT_BUF_SIZE

ASSUME TextAssumption == INT_MAX \in Nat \ {0} /\ PRINT_BUF_SIZE \in Nat \ {0}

Char(s, n) == SubSeq(s, n, n)
From(s, n) == SubSeq(s, n, Len(s))
Chars(s) == {Char(s, n) : n \in 1..Len(s)}

\* A string is the sequence of its characters: a part of a part is a part.
IsText(s) ==
  /\ Len(s) \in Nat
  /\ \A a \in 1..(Len(s) + 1) : \A b \in (a - 1)..Len(s) :
       LET part == SubSeq(s, a, b)
       IN /\ Len(part) = b - a + 1 /\ (b < a => part = "")
          /\ \A c \in 1..(Len(part) + 1) : \A d \in (c - 1)..Len(part) :
               SubSeq(part, c, d) = SubSeq(s, a + c - 1, a + d - 1)
  /\ SubSeq(s, 1, Len(s)) = s

\* How many characters s begins with that are of a kind.
Span(s, kind(_)) ==
  CHOOSE n \in 0..Len(s) :
    /\ \A k \in 1..n : kind(Char(s, k))
    /\ n < Len(s) => ~kind(Char(s, n + 1))

IsBlank(c) == c = " "
IsVisible(c) == c # " "
SkipBlanks(s) == From(s, Span(s, IsBlank) + 1)

\* strtok for a string and the delimiter " ": the first word.
strtok(s) == LET word == SkipBlanks(s) IN SubSeq(word, 1, Span(word, IsVisible))

-----------------------------------------------------------------------------
(* Numbers.                                                                 *)

DIGITS == "0123456789abcdefghijklmnopqrstuvwxyz"
IsDigit(c) == c \in Chars(SubSeq(DIGITS, 1, 10))
DigitValue(c) == CHOOSE d \in 0..9 : Char(DIGITS, d + 1) = c

\* The number that decimal digits stand for.
Value(s) ==
  LET upto[n \in 0..Len(s)] == IF n = 0 THEN 0 ELSE 10 * upto[n - 1] + DigitValue(Char(s, n))
  IN upto[Len(s)]

\* Its values: an int that overflows may come out as any.
atoi(s) ==
  LET t == SkipBlanks(s)
      signed == t # "" /\ Char(t, 1) \in {"-", "+"}
      sign == IF signed /\ Char(t, 1) = "-" THEN -1 ELSE 1
      digits == IF signed THEN From(t, 2) ELSE t
      value == Value(SubSeq(digits, 1, Span(digits, IsDigit)))
  IN IF value <= INT_MAX THEN {sign * value} ELSE (-INT_MAX - 1)..INT_MAX

Numeral(val, base) ==
  LET digits[v \in Nat] ==
        IF v < base THEN Char(DIGITS, v + 1) ELSE digits[v \div base] \o Char(DIGITS, (v % base) + 1)
  IN digits[val]

\* Wrong variant: numbers are not padded.
NotPadded(missing, zpad) == ""
\* Zeros up to the width, which is at most 32.
Padding(missing, zpad) ==
  IF zpad THEN SubSeq("00000000000000000000000000000000", 1, missing) ELSE ""

uvalue_to_str(val, base, min_w, zpad) ==
  LET numeral == Numeral(val, base) IN Padding(min_w - Len(numeral), zpad) \o numeral

-----------------------------------------------------------------------------
(* Formats.                                                                 *)

Base == [d |-> 10, i |-> 10, u |-> 10, x |-> 16, o |-> 8, b |-> 2]

\* What the format says from its n-th character on, with the arguments from the k-th
\* on; write says it for what follows.  A width counts only with a zero before it, and
\* "%" at the end stands for itself.
Formatted(fmt, args, write, n, k) ==
  IF n > Len(fmt) THEN ""
  ELSE IF Char(fmt, n) # "%" \/ n = Len(fmt) THEN Char(fmt, n) \o write[n + 1][k]
  ELSE LET zpad == Char(fmt, n + 1) = "0"
           flags == n + (IF zpad THEN 2 ELSE 1)
           width == Span(From(fmt, flags), IsDigit)
           min_w == Value(SubSeq(fmt, flags, flags + width - 1))
           modifier == flags + width
           conversion == IF Char(fmt, modifier) = "l" THEN modifier + 1 ELSE modifier
           letter == Char(fmt, conversion)
           number(val, base) ==
             IF val < 0 THEN "-" \o uvalue_to_str(-val, base, min_w, zpad) ELSE uvalue_to_str(val, base, min_w, zpad)
       IN CASE letter \in DOMAIN Base -> number(args[k], Base[letter]) \o write[conversion + 1][k + 1]
            [] letter = "p" -> "0x" \o uvalue_to_str(args[k], 16, 8, TRUE) \o write[conversion + 1][k + 1]
            [] letter \in {"c", "s"} -> args[k] \o write[conversion + 1][k + 1]
            [] letter = "%" -> "%" \o write[conversion + 1][k]
            [] OTHER -> "%" \o letter \o write[conversion + 1][k]

\* kvsnprintf without %f: what it would write in a buffer of any size.
kvsnprintf(fmt, args) ==
  LET write[n \in Nat \ {0}] == [k \in Nat \ {0} |-> Formatted(fmt, args, write, n, k)] IN write[1][1]

\* kvprintf prints as many characters as the text has, whatever fitted: then
\* a NUL comes, and what lies behind the buffer.
Kept(text) == SubSeq(text, 1, PRINT_BUF_SIZE - 1)
Printed(text) == IF Len(text) < PRINT_BUF_SIZE THEN text ELSE Kept(text) \o "<beyond the buffer>"
kprintf(fmt, args) == Printed(kvsnprintf(fmt, args))

-----------------------------------------------------------------------------
(* What the proofs need to know of strings.                                 *)

ASSUME StringsAssumption ==
  /\ \A s \in {"", "\n", "%s\n", DIGITS, SubSeq(DIGITS, 1, 10)} : IsText(s)
  /\ Len("") = 0 /\ Len("\n") = 1 /\ Len("%s\n") = 3 /\ Len(DIGITS) = 36
  /\ Char("%s\n", 1) = "%" /\ Char("%s\n", 2) = "s" /\ Char("%s\n", 3) = "\n"
  /\ \A s \in {"", "\n"} : s \o "" = s /\ "" \o s = s
  /\ \A c \in {" ", "-", "+", "s"} : ~IsDigit(c)

=============================================================================
