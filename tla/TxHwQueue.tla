------------------------------ MODULE TxHwQueue ------------------------------
(***************************************************************************)
(* TWD/Data_Service/txHwQueue.c: how the driver accounts for the Tx memory *)
(* blocks and packet descriptors of the firmware.                          *)
(*                                                                         *)
(* The firmware never tells the driver how many blocks are free.  It keeps *)
(* one accumulating counter of freed blocks per queue and one of finished  *)
(* packets, and the driver subtracts them from counters of its own.  The   *)
(* counters wrap (32 and 8 bits), and the firmware status they come from   *)
(* is read by DMA some time before it is processed, so packets may be      *)
(* allocated and blocks freed between the two.                             *)
(*                                                                         *)
(* Unsigned arithmetic is kept: Add and Sub are modulo the counter width,  *)
(* so an underflow in the code is an enormous number here as well.         *)
(***************************************************************************)
EXTENDS Integers

CONSTANTS
    NumTxBlocks,             \* pDmaParams->NumTxBlocks, given by the firmware
    TxBlocksThresholdPerAc,  \* the configured minimum of each AC
    NumTxDescriptors,        \* NUM_TX_DESCRIPTORS
    BlkMod,                  \* 2^32, the width of the block counters
    DescMod,                 \* 2^8, the width of the packet counters
    Traffic,                 \* the packets offered: records of tid and length
    FwFreeSizes              \* the amounts in which the firmware frees blocks

VARIABLES
    uNumTotalBlksFree,
    uNumTotalBlksReserved,
    uNumUsedDescriptors,
    uFwTxResultsCntr,
    uDrvTxPacketsCntr,
    uNumBlksUsed,            \* the fields of aTxHwQueueInfo, each by AC
    uNumBlksReserved,
    uAllocatedBlksCntr,
    uFwFreedBlksCntr,
    uNumBlksCausedBusy,
    bQueueBusy,
    fwFreedBlks,             \* the firmware's own counters
    fwTxResults,
    fwStatus                 \* the FwStatus read and not yet processed

totals == <<uNumTotalBlksFree, uNumTotalBlksReserved>>
descs  == <<uNumUsedDescriptors, uFwTxResultsCntr, uDrvTxPacketsCntr>>
blocks == <<uNumBlksUsed, uNumBlksReserved, uAllocatedBlksCntr, uFwFreedBlksCntr>>
stops  == <<uNumBlksCausedBusy, bQueueBusy>>
fw     == <<fwFreedBlks, fwTxResults>>
vars   == <<totals, descs, blocks, stops, fw, fwStatus>>

-----------------------------------------------------------------------------
(* Access categories and the mapping of 802.1d tags to them.               *)
QOS_AC_BE == 0
QOS_AC_BK == 1
QOS_AC_VI == 2
QOS_AC_VO == 3

AC  == 0..3
Tid == 0..7

WMEQosTagToAC(tid) ==
    IF tid \in {0, 3} THEN QOS_AC_BE
    ELSE IF tid \in {1, 2} THEN QOS_AC_BK
    ELSE IF tid \in {4, 5} THEN QOS_AC_VI
    ELSE QOS_AC_VO

Sum(f) == f[QOS_AC_BE] + f[QOS_AC_BK] + f[QOS_AC_VI] + f[QOS_AC_VO]

uNumTotalBlks == NumTxBlocks - 1      \* one block stays free for the firmware

Thresh == TxBlocksThresholdPerAc

(* The header comment of txHwQueue_SetHwInfo asks that the minima leave    *)
(* room; nothing in the code enforces it.                                  *)
ASSUME ConfigAssumption ==
    /\ NumTxBlocks \in Nat \ {0} /\ NumTxBlocks <= BlkMod
    /\ BlkMod \in Nat
    /\ Thresh \in [AC -> Nat] /\ Sum(Thresh) <= uNumTotalBlks
    /\ NumTxDescriptors \in Nat /\ NumTxDescriptors < DescMod
    /\ DescMod \in Nat
    /\ Traffic \subseteq [tid : Tid, length : Nat]
    /\ FwFreeSizes \subseteq Nat \ {0}

-----------------------------------------------------------------------------
(* Arithmetic of the counters, for operands below the modulus.             *)
AddMod(a, b, m) == IF a + b < m THEN a + b ELSE a + b - m
SubMod(a, b, m) == IF b <= a THEN a - b ELSE a - b + m

Add32(a, b) == AddMod(a, b, BlkMod)
Sub32(a, b) == SubMod(a, b, BlkMod)
AddAllButLast32(a, f) == Add32(Add32(Add32(a, f[0]), f[1]), f[2])   \* mutant
AddAll32(a, f) == Add32(Add32(Add32(Add32(a, f[0]), f[1]), f[2]), f[3])

(* Blocks of 252 bytes that a packet is assumed to need.                   *)
MAX_HEADER_SIZE      == 48
BLKS_HW_ALLOC_SPARE  == 2
BLK_SIZE             == 252

NumBlksToAlloc(length) ==
    LET rough    == (length + 20) \div 256
        excluded == 4 * rough + ((length + 20) % 256) + MAX_HEADER_SIZE - 14
    IN  rough + (IF excluded > BLK_SIZE THEN 2 ELSE 1) + BLKS_HW_ALLOC_SPARE

(* Blocks available to queue q: the free ones the others have no claim on. *)
(* Two mutants first: one packet too many, and no use of its own reserve.  *)
CheckOneTooMany(q) ==
    IF uNumUsedDescriptors <= NumTxDescriptors
    THEN Sub32(uNumTotalBlksFree, Sub32(uNumTotalBlksReserved, uNumBlksReserved[q]))
    ELSE 0

CheckWithoutOwnReserve(q) ==
    IF uNumUsedDescriptors < NumTxDescriptors
    THEN Sub32(uNumTotalBlksFree, uNumTotalBlksReserved) ELSE 0

CheckResources(q) ==
    IF uNumUsedDescriptors < NumTxDescriptors
    THEN Sub32(uNumTotalBlksFree, Sub32(uNumTotalBlksReserved, uNumBlksReserved[q]))
    ELSE 0

NoStatus == [read |-> FALSE, blks |-> [q \in AC |-> 0], results |-> 0]

-----------------------------------------------------------------------------
Init ==
    /\ uNumTotalBlksFree = uNumTotalBlks
    /\ uNumTotalBlksReserved = Sum(Thresh)
    /\ uNumUsedDescriptors = 0
    /\ uFwTxResultsCntr = 0
    /\ uDrvTxPacketsCntr = 0
    /\ uNumBlksUsed = [q \in AC |-> 0]
    /\ uNumBlksReserved = Thresh
    /\ uAllocatedBlksCntr = [q \in AC |-> 0]
    /\ uFwFreedBlksCntr = [q \in AC |-> 0]
    /\ uNumBlksCausedBusy = [q \in AC |-> 0]
    /\ bQueueBusy = [q \in AC |-> FALSE]
    /\ fwFreedBlks = [q \in AC |-> 0]
    /\ fwTxResults = 0
    /\ fwStatus = NoStatus

(* Recovery: the firmware is loaded again and txHwQueue_SetHwInfo restarts *)
(* the module.  No status read before the reset survives it.               *)
SetHwInfo ==
    /\ uNumTotalBlksFree' = uNumTotalBlks
    /\ uNumTotalBlksReserved' = Sum(Thresh)
    /\ uNumUsedDescriptors' = 0
    /\ uFwTxResultsCntr' = 0
    /\ uDrvTxPacketsCntr' = 0
    /\ uNumBlksUsed' = [q \in AC |-> 0]
    /\ uNumBlksReserved' = Thresh
    /\ uAllocatedBlksCntr' = [q \in AC |-> 0]
    /\ uFwFreedBlksCntr' = [q \in AC |-> 0]
    /\ uNumBlksCausedBusy' = [q \in AC |-> 0]
    /\ bQueueBusy' = [q \in AC |-> FALSE]
    /\ fwFreedBlks' = [q \in AC |-> 0]
    /\ fwTxResults' = 0
    /\ fwStatus' = NoStatus

-----------------------------------------------------------------------------
(* txHwQueue_AllocResources: refuse the packet and stop its queue ...      *)
StopQueue(q, n) ==
    /\ uNumBlksCausedBusy' = [uNumBlksCausedBusy EXCEPT ![q] = n]
    /\ bQueueBusy' = [bQueueBusy EXCEPT ![q] = TRUE]

AllocStopCurrent(q, n) ==
    /\ n > CheckResources(q)
    /\ StopQueue(q, n)
    /\ UNCHANGED <<totals, descs, blocks, fw, fwStatus>>

(* ... or take the blocks, first from the queue's own reservation, and     *)
(* stop the queue if another packet like this one would not fit.           *)
TakeAllFromReserve(q, n) == n      \* mutant

TakenFromReserve(q, n) ==
    IF n > uNumBlksReserved[q] THEN uNumBlksReserved[q] ELSE n

AllocGranted(q, n) ==
    /\ n <= CheckResources(q)
    /\ uNumUsedDescriptors' = uNumUsedDescriptors + 1
    /\ uDrvTxPacketsCntr' = AddMod(uDrvTxPacketsCntr, 1, DescMod)
    /\ uAllocatedBlksCntr' = [uAllocatedBlksCntr EXCEPT ![q] = Add32(@, n)]
    /\ uNumBlksReserved' =
          [uNumBlksReserved EXCEPT ![q] = @ - TakenFromReserve(q, n)]
    /\ uNumTotalBlksReserved' = Sub32(uNumTotalBlksReserved, TakenFromReserve(q, n))
    /\ uNumTotalBlksFree' = Sub32(uNumTotalBlksFree, n)
    /\ uNumBlksUsed' = [uNumBlksUsed EXCEPT ![q] = Add32(@, n)]
    /\ IF 2 * n > CheckResources(q) THEN StopQueue(q, n) ELSE UNCHANGED stops
    /\ UNCHANGED <<uFwTxResultsCntr, uFwFreedBlksCntr, fw, fwStatus>>

AllocResources(tid, length) ==
    LET q == WMEQosTagToAC(tid)
        n == NumBlksToAlloc(length)
    IN  AllocStopCurrent(q, n) \/ AllocGranted(q, n)

-----------------------------------------------------------------------------
(* txHwQueue_UpdateFreeResources, on the status read before.  A queue      *)
(* whose freed-blocks counter did not move is left alone.                  *)
Moved(q)     == fwStatus.blks[q] # uFwFreedBlksCntr[q]
NewUsed(q)   == IF Moved(q) THEN Sub32(uAllocatedBlksCntr[q], fwStatus.blks[q])
                            ELSE uNumBlksUsed[q]
ToFree(q)    == Sub32(uNumBlksUsed[q], NewUsed(q))
Below(q)     == Moved(q) /\ NewUsed(q) < Thresh[q]
NewReserve(q) == IF Below(q) THEN Thresh[q] - NewUsed(q) ELSE uNumBlksReserved[q]
ReserveAllMissing(q) == IF Below(q) THEN NewReserve(q) ELSE 0      \* mutant
ToReserve(q) == IF ~Below(q) THEN 0
                ELSE IF ToFree(q) > NewReserve(q) THEN NewReserve(q) ELSE ToFree(q)

UpdateFreeBlocks ==
    /\ uFwFreedBlksCntr' = fwStatus.blks
    /\ uNumTotalBlksFree' = AddAll32(uNumTotalBlksFree, [q \in AC |-> ToFree(q)])
    /\ uNumBlksUsed' = [q \in AC |-> NewUsed(q)]
    /\ uNumBlksReserved' = [q \in AC |-> NewReserve(q)]
    /\ uNumTotalBlksReserved' =
          AddAll32(uNumTotalBlksReserved, [q \in AC |-> ToReserve(q)])

NewUsedDescriptors ==
    IF fwStatus.results = uFwTxResultsCntr THEN uNumUsedDescriptors
    ELSE IF fwStatus.results <= uDrvTxPacketsCntr
    THEN uDrvTxPacketsCntr - fwStatus.results
    ELSE DescMod - (fwStatus.results - uDrvTxPacketsCntr)

UpdateDescriptors ==
    /\ uFwTxResultsCntr' = fwStatus.results
    /\ uNumUsedDescriptors' = NewUsedDescriptors

(* The queues reported to the upper layer as no longer busy.  The mutants: *)
(* a queue must have more than it needs, or have freed blocks itself.      *)
BackpressureIfMore == {q \in AC : bQueueBusy[q] /\ uNumBlksCausedBusy[q] < CheckResources(q)'}
BackpressureIfMoved ==
    {q \in AC : bQueueBusy[q] /\ Moved(q) /\ uNumBlksCausedBusy[q] <= CheckResources(q)'}

Backpressure == {q \in AC : bQueueBusy[q] /\ uNumBlksCausedBusy[q] <= CheckResources(q)'}

UpdateFreeResources ==
    /\ fwStatus.read
    /\ UpdateDescriptors
    /\ UpdateFreeBlocks
    /\ bQueueBusy' = [q \in AC |-> bQueueBusy[q] /\ q \notin Backpressure]
    /\ fwStatus' = NoStatus
    /\ UNCHANGED <<uDrvTxPacketsCntr, uAllocatedBlksCntr, uNumBlksCausedBusy, fw>>

-----------------------------------------------------------------------------
(* The firmware: it frees blocks and finishes packets it was given, in any *)
(* order and amount, and the driver reads its status.                      *)
FwHeldBlks(q) == Sub32(uAllocatedBlksCntr[q], fwFreedBlks[q])
FwHeldPkts    == SubMod(uDrvTxPacketsCntr, fwTxResults, DescMod)

FwFreeBlks(q) ==
    /\ \E n \in FwFreeSizes :
          /\ n <= FwHeldBlks(q)
          /\ fwFreedBlks' = [fwFreedBlks EXCEPT ![q] = Add32(@, n)]
    /\ UNCHANGED <<totals, descs, blocks, stops, fwTxResults, fwStatus>>

FwTxResult ==
    /\ FwHeldPkts > 0
    /\ fwTxResults' = AddMod(fwTxResults, 1, DescMod)
    /\ UNCHANGED <<totals, descs, blocks, stops, fwFreedBlks, fwStatus>>

ReadFwStatus ==
    /\ ~fwStatus.read
    /\ fwFreedBlks # uFwFreedBlksCntr \/ fwTxResults # uFwTxResultsCntr
    /\ fwStatus' = [read |-> TRUE, blks |-> fwFreedBlks, results |-> fwTxResults]
    /\ UNCHANGED <<totals, descs, blocks, stops, fw>>

-----------------------------------------------------------------------------
Next ==
    \/ \E p \in Traffic : AllocResources(p.tid, p.length)
    \/ UpdateFreeResources
    \/ \E q \in AC : FwFreeBlks(q)
    \/ FwTxResult
    \/ ReadFwStatus
    \/ SetHwInfo

Spec == Init /\ [][Next]_vars

(* The firmware finishes what it was given, its interrupts are served.     *)
Fairness ==
    /\ \A q \in AC : WF_vars(FwFreeBlks(q))
    /\ WF_vars(FwTxResult)
    /\ WF_vars(ReadFwStatus)
    /\ WF_vars(UpdateFreeResources)

FairSpec == Spec /\ Fairness
-----------------------------------------------------------------------------
(* Types: every counter stays below its width.                             *)
TypeOK ==
    /\ uNumTotalBlksFree \in 0..BlkMod-1
    /\ uNumTotalBlksReserved \in 0..BlkMod-1
    /\ uNumUsedDescriptors \in Nat
    /\ uFwTxResultsCntr \in 0..DescMod-1
    /\ uDrvTxPacketsCntr \in 0..DescMod-1
    /\ uNumBlksUsed \in [AC -> 0..BlkMod-1]
    /\ uNumBlksReserved \in [AC -> 0..BlkMod-1]
    /\ uAllocatedBlksCntr \in [AC -> 0..BlkMod-1]
    /\ uFwFreedBlksCntr \in [AC -> 0..BlkMod-1]
    /\ uNumBlksCausedBusy \in [AC -> Nat]
    /\ bQueueBusy \in [AC -> BOOLEAN]
    /\ fwFreedBlks \in [AC -> 0..BlkMod-1]
    /\ fwTxResults \in 0..DescMod-1
    /\ fwStatus \in [read : BOOLEAN, blks : [AC -> 0..BlkMod-1], results : 0..DescMod-1]

(* No block is lost or counted twice, whatever was allocated between the   *)
(* read of a status and its processing and however the counters wrapped:   *)
(* the free blocks and the used ones always make up the pool.              *)
BlocksConserved == uNumTotalBlksFree + Sum(uNumBlksUsed) = uNumTotalBlks

(* The incrementally kept reservation is what its definition says: what a  *)
(* queue still lacks to its minimum; and the total is the sum.             *)
Lacking(q) == IF uNumBlksUsed[q] < Thresh[q] THEN Thresh[q] - uNumBlksUsed[q] ELSE 0

ReservationExact ==
    /\ \A q \in AC : uNumBlksReserved[q] = Lacking(q)
    /\ uNumTotalBlksReserved = Sum(uNumBlksReserved)

(* The firmware is never given more blocks or packets than it has: the     *)
(* driver's view may lag behind the firmware's, only on the safe side.     *)
FwNeverOvercommitted ==
    /\ \A q \in AC : FwHeldBlks(q) <= uNumBlksUsed[q]
    /\ Sum([q \in AC |-> FwHeldBlks(q)]) <= uNumTotalBlks
    /\ FwHeldPkts <= uNumUsedDescriptors
    /\ uNumUsedDescriptors <= NumTxDescriptors

(* The strengthening that makes these inductive.  Seen from the driver's   *)
(* allocation counter, the firmware's counter, the status read from it and *)
(* the counter of the last processed status come in this order round the   *)
(* circle of counter values; and the reserved blocks are really free.      *)
SeenHeldBlks(q) == Sub32(uAllocatedBlksCntr[q], fwStatus.blks[q])
SeenHeldPkts    == SubMod(uDrvTxPacketsCntr, fwStatus.results, DescMod)

BlkCountersOrdered ==
    \A q \in AC :
        /\ uNumBlksUsed[q] = Sub32(uAllocatedBlksCntr[q], uFwFreedBlksCntr[q])
        /\ FwHeldBlks(q) <= uNumBlksUsed[q]
        /\ fwStatus.read => /\ FwHeldBlks(q) <= SeenHeldBlks(q)
                            /\ SeenHeldBlks(q) <= uNumBlksUsed[q]

PktCountersOrdered ==
    /\ uNumUsedDescriptors = SubMod(uDrvTxPacketsCntr, uFwTxResultsCntr, DescMod)
    /\ uNumUsedDescriptors <= NumTxDescriptors
    /\ FwHeldPkts <= uNumUsedDescriptors
    /\ fwStatus.read => /\ FwHeldPkts <= SeenHeldPkts
                        /\ SeenHeldPkts <= uNumUsedDescriptors

ReservedAreFree == uNumTotalBlksReserved <= uNumTotalBlksFree

IndInv ==
    /\ TypeOK
    /\ BlocksConserved
    /\ ReservationExact
    /\ BlkCountersOrdered
    /\ PktCountersOrdered
    /\ ReservedAreFree

(* "The minimal number of Tx blocks guaranteed for each queue": while a    *)
(* descriptor is left, no traffic of the other queues can make the driver  *)
(* refuse a queue the blocks up to its minimum.                            *)
GuaranteedMinimum ==
    uNumUsedDescriptors < NumTxDescriptors =>
        \A q \in AC : CheckResources(q) >= Lacking(q)

(* A stopped queue is not forgotten: it can stay busy for ever only if     *)
(* packets are allocated on it for ever, provided its packets fit into its *)
(* minimum (a queue with a lower minimum may be starved by the others).    *)
AllocOn(q) == \E p \in Traffic : WMEQosTagToAC(p.tid) = q /\ AllocResources(p.tid, p.length)

FitsMinimum(q) ==
    \A p \in Traffic : WMEQosTagToAC(p.tid) = q => NumBlksToAlloc(p.length) <= Thresh[q]

BusyQueueReleased ==
    \A q \in AC : FitsMinimum(q) =>
        ((<>[] bQueueBusy[q]) => ([]<> <<AllocOn(q)>>_vars))

(* The accounting implements the pool of TxBlockPool: a packet is granted  *)
(* exactly when every queue could still get its minimum afterwards, and a  *)
(* status update releases exactly the queues that have room again.         *)
Pool == INSTANCE TxBlockPool WITH
    Total   <- uNumTotalBlks,
    MaxPkts <- NumTxDescriptors,
    Demand  <- {[ac |-> WMEQosTagToAC(p.tid), blks |-> NumBlksToAlloc(p.length)] : p \in Traffic},
    held    <- uNumBlksUsed,
    pkts    <- uNumUsedDescriptors,
    busy    <- {q \in AC : bQueueBusy[q]},
    want    <- uNumBlksCausedBusy

ImplementsPool == Pool!Spec
=============================================================================
