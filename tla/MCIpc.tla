------------------------------- MODULE MCIpc -------------------------------
(***************************************************************************)
(* Two endpoints of two slots each, messages of none or two bytes: an      *)
(* empty message put where a longer one was leaves its bytes behind, and   *)
(* the receiver gets them with it.  The identifiers include 0 and one past *)
(* the table; the lengths, one too long.                                   *)
(***************************************************************************)
EXTENDS Ipc

MCIds == 0..3
MCSenders == { 7 }
MCBuffers == { NULL, <<5, 6>> }
MCLengths == { 0, 2, 3 }
=============================================================================
