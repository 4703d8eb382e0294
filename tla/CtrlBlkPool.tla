---------------------------- MODULE CtrlBlkPool ----------------------------
(***************************************************************************)
(* What the owners of Tx control blocks rely on: a block is free, with the *)
(* driver's queues, or with the firmware, and has one owner at a time.  It *)
(* is given only to who asks, when it is free; the firmware gets it from   *)
(* the queues; and whoever has it gives it back.                           *)
(***************************************************************************)
CONSTANT CtrlBlk
VARIABLE use

Init == use = [b \in CtrlBlk |-> "free"]

Alloc(b) == use[b] = "free" /\ use' = [use EXCEPT ![b] = "queued"]
Send(b)  == use[b] = "queued" /\ use' = [use EXCEPT ![b] = "fw"]

(* Several are given back at once when queues are cleared, and after a     *)
(* recovery; those of the queues and those of the firmware never together. *)
Free(blks) ==
    /\ \E owner \in {"queued", "fw"} : \A b \in blks : use[b] = owner
    /\ use' = [b \in CtrlBlk |-> IF b \in blks THEN "free" ELSE use[b]]

Next ==
    \/ \E b \in CtrlBlk : Alloc(b) \/ Send(b)
    \/ \E blks \in SUBSET CtrlBlk : Free(blks)

Spec == Init /\ [][Next]_use
=============================================================================
