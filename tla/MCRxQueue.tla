------------------------------ MODULE MCRxQueue ------------------------------
(* Two TIDs; the numbers of the first pass the end of the number space.    *)
EXTENDS RxQueue

CONSTANTS t1, t2

MCTid   == {t1, t2}
MCFirst == [t \in MCTid |-> IF t = t1 THEN 11 ELSE 0]
MCLast  == [t \in MCTid |-> IF t = t1 THEN 14 ELSE 0]
=============================================================================
