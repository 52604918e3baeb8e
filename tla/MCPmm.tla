------------------------------- MODULE MCPmm -------------------------------
(***************************************************************************)
(* Ten frames of four bytes.  The reports: RAM with a hole, its ends       *)
(* within frames, and a reserved range that overlaps it; RAM in two        *)
(* pieces, with modules; and the ones that stop the kernel.                *)
(***************************************************************************)
EXTENDS Pmm

Range(base, length, available) == [base |-> base, length |-> length, available |-> available]
Report(mmap, kernel_end, structures, modules) ==
  [mmap |-> mmap, map_readable |-> TRUE, kernel_end |-> kernel_end,
   structures |-> structures, modules |-> modules, modules_readable |-> TRUE]

Overlap == Report({Range(0, 38, TRUE), Range(25, 2, FALSE), Range(38, 30, FALSE), Range(7, 0, FALSE)},
                  6, {<<30, 1>>, <<60, 4>>}, {})
Pieces == Report({Range(0, 14, TRUE), Range(17, 23, TRUE)}, 4,
                 {<<4, 0>>}, {<<22, 25>>, <<26, 26>>})
Plain == Report({Range(0, 90, TRUE)}, 0, {}, {<<5, 6>>})
Tiny == Report({Range(0, 3, TRUE)}, 0, {}, {})
MCBoots ==
  {Overlap, Pieces, Plain, Tiny,
   Report({}, 4, {}, {}),
   Report({Range(8, 85, TRUE)}, 4, {}, {}),
   Report({Range(0, 40, TRUE)}, 4, {}, {<<9, 8>>}),
   [Plain EXCEPT !.map_readable = FALSE],
   [Plain EXCEPT !.modules_readable = FALSE]}

MCRequests == {<<0, 4>>, <<5, 4>>, <<8, 8>>, <<12, 4>>, <<9, 12>>, <<36, 4>>, <<37, 4>>, <<4, 2>>, <<4, 6>>}
MCDevices == {<<21, 2>>, <<12, 0>>, <<35, 60>>, <<40, 4>>}
=============================================================================
