---------------------------- MODULE MCTxHwQueue ----------------------------
(* A small firmware: 9 Tx blocks of which one is its own, 2 descriptors.   *)
(* A best effort packet takes 3 blocks and a voice packet 4 (the smallest  *)
(* packets take 3), so that both kinds of shortage, of blocks and of       *)
(* descriptors, occur; best effort has a minimum above its packet, and is  *)
(* to be released when it is stopped; voice has one below its packet, and  *)
(* may starve; background and video have none.  The counters count modulo  *)
(* 9 and 3, the narrowest that can count the pool, and wrap after 3        *)
(* packets.                                                                *)
EXTENDS TxHwQueue

MCThresh == [q \in AC |-> CASE q = QOS_AC_BE -> 4
                             [] q = QOS_AC_VO -> 2
                             [] OTHER -> 0]

MCTraffic == {[tid |-> 0, length |-> 100], [tid |-> 7, length |-> 250]}
=============================================================================
