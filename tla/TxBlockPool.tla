----------------------------- MODULE TxBlockPool -----------------------------
(***************************************************************************)
(* What the Tx-HW-queue module of the WL1271 driver promises its callers,  *)
(* without the counters it keeps the promise with.  The firmware owns one  *)
(* pool of Tx memory blocks and one pool of packet descriptors.  Every     *)
(* access category (AC) is guaranteed a minimum of blocks; what is left is *)
(* shared.  A packet is granted exactly when, afterwards, every AC could   *)
(* still be given its minimum.  A refused AC is busy until blocks that     *)
(* come back from the firmware make room for the packet that was refused.  *)
(*                                                                         *)
(* TxHwQueue implements this specification.                                *)
(***************************************************************************)
EXTENDS Integers

CONSTANTS
    Total,           \* blocks the driver may hand to the firmware
    Thresh,          \* [AC -> Nat]: blocks guaranteed to each AC
    MaxPkts,         \* packet descriptors of the firmware
    Demand           \* records of ac and blks: the packets that may be offered

VARIABLES
    held,            \* [AC -> Nat]: blocks granted and not yet given back
    pkts,            \* packets granted and not yet reported done
    busy,            \* the ACs that wait for blocks
    want             \* [AC -> Nat]: the blocks each AC was last stopped for

vars == <<held, pkts, busy, want>>

AC == 0..3

Sum(f) == f[0] + f[1] + f[2] + f[3]

(* The blocks that are spoken for: what an AC holds, or its minimum.       *)
Claim(f) == [q \in AC |-> IF f[q] > Thresh[q] THEN f[q] ELSE Thresh[q]]

After(q, n) == [held EXCEPT ![q] = @ + n]

Fits(q, n) == Sum(Claim(After(q, n))) <= Total
Room(q, n) == pkts < MaxPkts /\ Fits(q, n)

Stop(q, n) ==
    /\ busy' = busy \cup {q}
    /\ want' = [want EXCEPT ![q] = n]

Init ==
    /\ held = [q \in AC |-> 0]
    /\ pkts = 0
    /\ busy = {}
    /\ want = [q \in AC |-> 0]

(* An AC is stopped ahead of time when its next packet would not fit.      *)
Grant(q, n) ==
    /\ Room(q, n)
    /\ held' = After(q, n)
    /\ pkts' = pkts + 1
    /\ IF Fits(q, n)' THEN UNCHANGED <<busy, want>> ELSE Stop(q, n)

Refuse(q, n) ==
    /\ ~Room(q, n)
    /\ Stop(q, n)
    /\ UNCHANGED <<held, pkts>>

(* Blocks and descriptors come back; exactly the ACs that now have room    *)
(* for the packet they were stopped for are released.                      *)
Return ==
    /\ held' \in [AC -> Nat] /\ \A q \in AC : held'[q] <= held[q]
    /\ pkts' \in 0..pkts
    /\ busy' = {q \in busy : ~Room(q, want[q])'}
    /\ UNCHANGED want

Reset ==
    /\ held' = [q \in AC |-> 0]
    /\ pkts' = 0
    /\ busy' = {}
    /\ want' = [q \in AC |-> 0]

Next ==
    \/ \E d \in Demand : Grant(d.ac, d.blks) \/ Refuse(d.ac, d.blks)
    \/ Return
    \/ Reset

Spec == Init /\ [][Next]_vars
=============================================================================
