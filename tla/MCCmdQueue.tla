------------------------------ MODULE MCCmdQueue ------------------------------
(* Two commands of clients, one of them with a callback, and the           *)
(* configuration share a ring of two.                                      *)
EXTENDS CmdQueue

CONSTANTS c1, c2, cfg, map

MCCmd      == {c1, c2}
MCCallback == {c1, cfg, map}
=============================================================================
