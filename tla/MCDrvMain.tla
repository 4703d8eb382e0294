----------------------------- MODULE MCDrvMain -----------------------------
(* DrvMain with two users.                                                 *)
EXTENDS DrvMain

CONSTANTS u1, u2

MCTimers == {"guard", "fail"}
MCUsers  == {u1, u2}
=============================================================================
