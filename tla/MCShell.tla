------------------------------ MODULE MCShell ------------------------------
(***************************************************************************)
(* Lines of up to three letters, two of them remembered.  The wide screen  *)
(* has room for a line in a row, the narrow one has not.                   *)
(***************************************************************************)
EXTENDS Shell

MCOutputs == {<<>>, <<"tab", "b", "newline">>}
=============================================================================
