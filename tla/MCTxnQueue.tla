----------------------------- MODULE MCTxnQueue -----------------------------
(* An aggregation of a and b, or b alone, of low priority, and h of high.  *)
EXTENDS TxnQueue

CONSTANTS a, b, h

MCPrio       == [t \in Txn |-> IF t = h THEN 0 ELSE 1]
MCAggregated == {a}
=============================================================================
