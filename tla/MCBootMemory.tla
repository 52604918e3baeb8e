---------------------------- MODULE MCBootMemory ----------------------------
(***************************************************************************)
(* Pages of nine words, and a machine for each way the boot can go.        *)
(***************************************************************************)
EXTENDS BootMemory, Sequences

\* A word of memory nobody wrote looks like a user's page.
MCGarbage == [i \in Index |-> Small(1, TRUE)]

At(frame, offset) == frame * N + offset

\* The firmware's tables are <<address, words>>.
Read(ts) ==
  [p \in UNION {t[1]..(t[1] + Len(t[2]) - 1) : t \in ts} |->
     LET t == CHOOSE t \in ts : p \in t[1]..(t[1] + Len(t[2]) - 1) IN t[2][p - t[1] + 1]]

\* Four frames of them: the root table, another table, the FADT over the end of
\* a page, the DSDT.
RootAt == At(16, 0)
OtherAt == At(17, 0)
FadtAt == At(17, 7)
DsdtAt == At(18, 2)
Tables(pointers, fadtLength, signature, dsdtLength) ==
  Read({<<RootAt, <<8, HEADER + Len(pointers)>> \o pointers>>, <<OtherAt, <<7, HEADER>>>>,
        <<FadtAt, <<FACP, fadtLength, DsdtAt>>>>, <<DsdtAt, <<signature, dsdtLength>>>>})
Usual == Tables(<<OtherAt, FadtAt>>, FADT, DSDT, 10)
Roms ==
  {Tables(ps, FADT, DSDT, 10)
     : ps \in {<<FadtAt>>, <<OtherAt, OtherAt, OtherAt, FadtAt>>, <<0, FRAMES * N, FadtAt>>,
               <<OtherAt>>, <<>>, <<FadtAt, OtherAt>>}}
    \cup {Tables(<<FadtAt>>, n, DSDT, 10) : n \in {0, 2, 4, 300}}
    \cup {Tables(<<FadtAt>>, FADT, s, n) : s \in {5, DSDT}, n \in {1, 2, 60, 80, 100, 120, 300}}
    \cup {[Usual EXCEPT ![RootAt + 1] = n] : n \in {0, 2, 50}}

Plain ==
  [total |-> 24, used |-> (0..3) \cup (16..19), rom |-> Usual, is_xsdt |-> FALSE, root |-> RootAt,
   framebuffer |-> <<At(28, 0), 20>>, has_init |-> TRUE, init |-> 9]

\* Framebuffers that need more than the window has below the directory's mapping
MCLargeFramebuffers == {[Plain EXCEPT !.framebuffer = <<At(28, 0), n>>] : n \in {81, 100, 162}}

\* Framebuffers that do not
MCMachines ==
  {[Plain EXCEPT !.rom = r, !.has_init = (n > 0), !.init = n] : r \in Roms, n \in {0, 9}}
    \cup {[Plain EXCEPT !.rom = Tables(ps, FADT, DSDT, 10), !.is_xsdt = TRUE]
            : ps \in {<<FadtAt, 0>>, <<OtherAt, 0, FadtAt, 0>>, <<FadtAt>>, <<FRAMES * N, 0, FadtAt, 0>>}}
    \cup {[Plain EXCEPT !.root = a] : a \in {0, RootAt + 1, FRAMES * N + 1, FRAMES * N - 1}}
    \cup {[Plain EXCEPT !.framebuffer = f]
            : f \in {<<0, 8>>, <<At(28, 0), 0>>, <<At(28, 5), 76>>, <<At(28, 5), 158>>, <<At(49, 0), 10>>}}
    \cup {[Plain EXCEPT !.used = @ \cup u, !.init = n]
            : u \in {{}, {7}, {4, 7, 10}, {5, 8, 11, 14}, 10..15, 7..15, {5, 8, 11, 14, 21}},
              n \in {0, 1, 9, 27, 37, 81, 153, 154}}
    \* firmware that reports its tables as free memory
    \cup {[Plain EXCEPT !.used = 0..3, !.init = n] : n \in {9, 45, 63, 80, 100}}
    \cup {[Plain EXCEPT !.used = 0..3, !.rom = Tables(<<FadtAt>>, FADT, DSDT, n)] : n \in {30, 60}}

=============================================================================
