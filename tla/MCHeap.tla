------------------------------- MODULE MCHeap -------------------------------
(***************************************************************************)
(* A 10-bit machine: an arena of 12 units of 16 bytes whose start and end  *)
(* are misaligned, and one too small to be a heap.                         *)
(***************************************************************************)
EXTENDS Heap

MCExtents == { <<24, 200>>, <<24, 39>>, <<0, 200>>, <<900, 200>> }
MCSizes == { 0, 1, 17, 33, 48, 80, 992, 993, 994, 1020 }
MCPtrs == { 0, 24, 999 } \cup { 16 * i : i \in 2..14 } \cup { 56 }
=============================================================================
