------------------------------- MODULE MCCpio -------------------------------
(***************************************************************************)
(* Archives of up to two entries of up to five bytes, as cpio writes them, *)
(* every cut of them, and every one of a few ways to garble a header; one  *)
(* boot passes a module too many.                                          *)
(***************************************************************************)
EXTENDS Cpio, FiniteSets

\* What cpio writes: <<name, namesize, filesize>>, each entry padded.
Files == {"bin/init.bin", "other"} \X {2, 5} \X {0, 5}
Trailer == <<"TRAILER!!!", 4, 0>>

RECURSIVE At(_, _)
At(es, i) ==
  IF i = 1 THEN 0
  ELSE Padded(Padded(At(es, i - 1) + HEADER_SIZE + es[i - 1][2]) + es[i - 1][3])

Write(files) ==
  LET es == Append(files, Trailer)
      at(i) == At(es, i)
  IN [size |-> at(Len(es)) + Padded(HEADER_SIZE + 4),
      headers |-> [o \in {at(i) : i \in DOMAIN es} |->
                     LET e == es[CHOOSE i \in DOMAIN es : at(i) = o]
                     IN [name |-> e[1], namesize |-> e[2], filesize |-> e[3]]],
      written |-> {[name |-> files[i][1], at |-> at(i), len |-> files[i][3],
                    start |-> Padded(at(i) + HEADER_SIZE + files[i][2])] : i \in DOMAIN files},
      state |-> "whole"]

Whole == {Write(files) : files \in {<<>>} \cup {<<f>> : f \in Files} \cup (Files \X Files)}
Unique(a) == Cardinality({w \in a.written : w.name = "bin/init.bin"}) <= 1
Cut == {[a EXCEPT !.size = n, !.state = "cut"] : a \in Whole, n \in 1..8}
         \cup {[a EXCEPT !.size = a.size - n, !.state = "cut"] : a \in Whole, n \in {1, 4, 11}}
         \cup {[a EXCEPT !.size = a.size - n, !.state = "cut"] : a \in {w \in Whole : w.size > 13}, n \in {12, 13}}
Wrong == {[name |-> "malformed"], [name |-> "TRAILER!!!"], [namesize |-> 0], [namesize |-> 9], [namesize |-> UsizeMax],
          [filesize |-> 3], [filesize |-> UsizeMax], [filesize |-> UsizeMax - 7], [filesize |-> UsizeMax - 20]}
Garbled ==
  UNION {{[a EXCEPT !.headers[o] = [f \in DOMAIN @ |-> IF f \in DOMAIN w THEN w[f] ELSE @[f]],
                    !.state = "garbled"] : o \in DOMAIN a.headers, w \in Wrong} : a \in Whole}
NoHeaders == {[a EXCEPT !.headers = <<>>, !.state = "garbled"] : a \in Whole}

Initramfs(a) == [initramfs |-> TRUE, archive |-> a]
Other == [initramfs |-> FALSE, archive |-> Write(<<>>)]
One == {Initramfs(a) : a \in {w \in Whole : Unique(w)} \cup Cut \cup Garbled \cup NoHeaders
                             \cup {[Write(<<>>) EXCEPT !.size = 0, !.state = "garbled"],
                                   [Write(<<>>) EXCEPT !.size = UsizeMax - 3, !.state = "garbled"]}}
Twice == {[a EXCEPT !.state = "garbled"] : a \in {w \in Whole : ~Unique(w)}}
MCBootModules ==
  {<<>>, <<Other>>} \cup {<<m>> : m \in One} \cup {<<Initramfs(a), Other>> : a \in Twice}
    \cup {<<Initramfs(Write(<<<<"bin/init.bin", 5, 5>>>>)), Initramfs(Write(<<>>))>>,
           <<Initramfs(Write(<<>>)), Other, Other>>}
=============================================================================
