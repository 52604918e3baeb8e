---------------------------- MODULE MCInputPath ----------------------------
(***************************************************************************)
(* An endpoint of two slots: the ring goes round and can overflow.  The    *)
(* codes of the keys go from one byte to two.  The program makes a call    *)
(* before it exits; its message may be one the shell takes for a key or    *)
(* one it refuses.  A second spans the halves of the tick count, and the   *)
(* clock may go on to the next second while the uptime is computed.        *)
(***************************************************************************)
EXTENDS InputPath

MCPayload == <<7, 7, 7>>
=============================================================================
