---------------------------- MODULE MCTxDataQueue ----------------------------
(* Two ACs, the second downgraded to the first when it is not admitted.    *)
(* The first one paces its packets, the second does not, as VO.            *)
EXTENDS TxDataQueue

MCMaxSize == [q \in 0..1 |-> 2]
MCThresh  == [q \in 0..1 |-> IF q = 0 THEN 2 ELSE 1]
MCOrder   == <<0, 1>>
=============================================================================
