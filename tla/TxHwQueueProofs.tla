--------------------------- MODULE TxHwQueueProofs ---------------------------
(***************************************************************************)
(* The block and descriptor accounting of TxHwQueue, proved for every pool *)
(* size, every set of minima that fits into it, every traffic and every    *)
(* width of the counters that can count the pool.                          *)
(***************************************************************************)
EXTENDS TxHwQueue, TLAPS

-----------------------------------------------------------------------------
(* Counters that wrap.                                                     *)

(* A sum or difference of counters is a counter.                           *)
LEMMA ModClosed ==
    ASSUME NEW m \in Nat, NEW a \in 0..m-1, NEW b \in 0..m-1
    PROVE  AddMod(a, b, m) \in 0..m-1 /\ SubMod(a, b, m) \in 0..m-1
BY DEF AddMod, SubMod

(* Advancing the first of two counters widens the distance between them.   *)
LEMMA SubAfterAdvance ==
    ASSUME NEW m \in Nat, NEW a \in 0..m-1, NEW b \in 0..m-1, NEW n \in 0..m-1,
           SubMod(a, b, m) + n < m
    PROVE  SubMod(AddMod(a, n, m), b, m) = SubMod(a, b, m) + n
BY DEF AddMod, SubMod

(* Advancing the second one, up to the first, narrows it.                  *)
LEMMA SubAfterCatchUp ==
    ASSUME NEW m \in Nat, NEW a \in 0..m-1, NEW b \in 0..m-1, NEW n \in 0..m-1,
           n <= SubMod(a, b, m)
    PROVE  SubMod(a, AddMod(b, n, m), m) = SubMod(a, b, m) - n
BY DEF AddMod, SubMod

-----------------------------------------------------------------------------
(* Sums over the four access categories.                                   *)
LEMMA SumType ==
    ASSUME NEW f \in [AC -> Nat]
    PROVE  Sum(f) \in Nat /\ \A q \in AC : f[q] <= Sum(f)
BY DEF Sum, AC, QOS_AC_BE, QOS_AC_BK, QOS_AC_VI, QOS_AC_VO

LEMMA SumExcept ==
    ASSUME NEW f \in [AC -> Nat], NEW q \in AC, NEW v \in Nat
    PROVE  Sum([f EXCEPT ![q] = v]) = Sum(f) - f[q] + v
<1>1. CASE q = 0
  BY <1>1 DEF Sum, AC, QOS_AC_BE, QOS_AC_BK, QOS_AC_VI, QOS_AC_VO
<1>2. CASE q = 1
  BY <1>2 DEF Sum, AC, QOS_AC_BE, QOS_AC_BK, QOS_AC_VI, QOS_AC_VO
<1>3. CASE q = 2
  BY <1>3 DEF Sum, AC, QOS_AC_BE, QOS_AC_BK, QOS_AC_VI, QOS_AC_VO
<1>4. CASE q = 3
  BY <1>4 DEF Sum, AC, QOS_AC_BE, QOS_AC_BK, QOS_AC_VI, QOS_AC_VO
<1>. QED  BY <1>1, <1>2, <1>3, <1>4 DEF AC

(* The loop over the queues adds up their amounts while nothing overflows. *)
LEMMA AddAllIsSum ==
    ASSUME NEW a \in Nat, NEW f \in [AC -> Nat], a + Sum(f) < BlkMod
    PROVE  AddAll32(a, f) = a + Sum(f)
BY ConfigAssumption
   DEF AddAll32, Add32, AddMod, Sum, AC, QOS_AC_BE, QOS_AC_BK, QOS_AC_VI, QOS_AC_VO
(* The parameters, as the steps below use them.                            *)
LEMMA Parameters ==
    /\ uNumTotalBlks \in Nat /\ uNumTotalBlks < BlkMod
    /\ Thresh \in [AC -> Nat] /\ Sum(Thresh) \in Nat /\ Sum(Thresh) <= uNumTotalBlks
    /\ BlkMod \in Nat /\ DescMod \in Nat \ {0} /\ NumTxDescriptors \in Nat
    /\ NumTxDescriptors < DescMod
<1>1. /\ NumTxBlocks \in Nat \ {0} /\ NumTxBlocks <= BlkMod
      /\ BlkMod \in Nat
      /\ Thresh \in [AC -> Nat] /\ Sum(Thresh) <= uNumTotalBlks
      /\ NumTxDescriptors \in Nat /\ NumTxDescriptors < DescMod
      /\ DescMod \in Nat
  BY ConfigAssumption DEF ConfigAssumption
<1>. QED  BY <1>1, SumType DEF uNumTotalBlks

-----------------------------------------------------------------------------
(* What a packet needs.                                                    *)

(* The bytes a packet of this length takes in the firmware: the length,    *)
(* 20 bytes more and the largest header, less the Ethernet header.         *)
BytesInFw(length) == length + 20 + MAX_HEADER_SIZE - 14

(* Dividing by 256 "to save CPU" and correcting with one or two blocks     *)
(* gives exactly the 252-byte blocks that the packet needs, for every      *)
(* length up to 13803 bytes, far above any 802.11 frame.                   *)
THEOREM BlockEstimateExact ==
    ASSUME NEW length \in Nat, length + 20 < 54 * 256
    PROVE  LET n == NumBlksToAlloc(length) - BLKS_HW_ALLOC_SPARE
           IN  BLK_SIZE * (n - 1) < BytesInFw(length) /\ BytesInFw(length) <= BLK_SIZE * n
BY DEF NumBlksToAlloc, BytesInFw, BLKS_HW_ALLOC_SPARE, BLK_SIZE, MAX_HEADER_SIZE

LEMMA DemandPositive ==
    ASSUME NEW length \in Nat
    PROVE  NumBlksToAlloc(length) \in Nat \ {0}
BY DEF NumBlksToAlloc, BLKS_HW_ALLOC_SPARE, BLK_SIZE, MAX_HEADER_SIZE

LEMMA DemandType ==
    ASSUME NEW p \in Traffic
    PROVE  WMEQosTagToAC(p.tid) \in AC /\ NumBlksToAlloc(p.length) \in Nat \ {0}
<1>1. Traffic \subseteq [tid : Tid, length : Nat]
  BY ConfigAssumption DEF ConfigAssumption
<1>2. p \in [tid : Tid, length : Nat]
  BY <1>1
<1>3. p.length \in Nat
  BY <1>2
<1>4. WMEQosTagToAC(p.tid) \in AC
  BY DEF WMEQosTagToAC, AC, QOS_AC_BE, QOS_AC_BK, QOS_AC_VI, QOS_AC_VO
<1>. QED  BY <1>3, <1>4, DemandPositive

-----------------------------------------------------------------------------
(* Consequences of the invariant that several steps use.                   *)

(* What a queue uses, lacks and holds fits into the counters.              *)
LEMMA Bounds ==
    ASSUME IndInv
    PROVE  /\ uNumTotalBlks \in Nat /\ uNumTotalBlks < BlkMod
           /\ uNumBlksUsed \in [AC -> Nat] /\ uNumBlksReserved \in [AC -> Nat]
           /\ uNumTotalBlksFree <= uNumTotalBlks
           /\ \A q \in AC : /\ uNumBlksUsed[q] <= uNumTotalBlks
                             /\ uNumBlksReserved[q] <= uNumTotalBlksReserved
                             /\ uNumBlksUsed[q] + uNumTotalBlksFree <= uNumTotalBlks
<1>1. uNumTotalBlks \in Nat /\ uNumTotalBlks < BlkMod /\ BlkMod \in Nat
  BY Parameters
<1>2. uNumBlksUsed \in [AC -> Nat] /\ uNumBlksReserved \in [AC -> Nat]
  BY <1>1 DEF IndInv, TypeOK
<1>3. /\ Sum(uNumBlksUsed) \in Nat /\ \A q \in AC : uNumBlksUsed[q] <= Sum(uNumBlksUsed)
      /\ \A q \in AC : uNumBlksReserved[q] <= Sum(uNumBlksReserved)
  BY <1>2, SumType
<1>4. uNumTotalBlksFree \in Nat /\ uNumTotalBlksFree + Sum(uNumBlksUsed) = uNumTotalBlks
  BY <1>1 DEF IndInv, TypeOK, BlocksConserved
<1>. QED  BY <1>1, <1>2, <1>3, <1>4 DEF IndInv, ReservationExact

(* The available blocks never underflow: they are the free ones less what  *)
(* the other queues have reserved.                                         *)
LEMMA Available ==
    ASSUME IndInv, NEW q \in AC
    PROVE  CheckResources(q) =
             IF uNumUsedDescriptors < NumTxDescriptors
             THEN uNumTotalBlksFree - (uNumTotalBlksReserved - uNumBlksReserved[q])
             ELSE 0
<1>1. /\ uNumTotalBlksFree \in Nat /\ uNumTotalBlksReserved \in Nat
      /\ uNumBlksReserved[q] \in Nat
      /\ uNumBlksReserved[q] <= uNumTotalBlksReserved
      /\ uNumTotalBlksReserved <= uNumTotalBlksFree
  BY Bounds, Parameters DEF IndInv, TypeOK, ReservedAreFree
<1>. QED  BY <1>1 DEF CheckResources, Sub32, SubMod

-----------------------------------------------------------------------------
(* The invariant holds initially and after a recovery.                     *)
LEMMA InitInv == Init => IndInv
<1>. SUFFICES ASSUME Init PROVE IndInv
  OBVIOUS
<1>0. /\ uNumTotalBlks \in Nat /\ uNumTotalBlks < BlkMod
      /\ Thresh \in [AC -> Nat] /\ Sum(Thresh) \in Nat /\ Sum(Thresh) <= uNumTotalBlks
      /\ BlkMod \in Nat /\ DescMod \in Nat \ {0} /\ NumTxDescriptors \in Nat
  BY Parameters
<1>1. TypeOK
  <2>1. \A q \in AC : Thresh[q] \in 0..BlkMod-1
    BY <1>0, SumType
  <2>2. uNumTotalBlksFree \in 0..BlkMod-1 /\ uNumTotalBlksReserved \in 0..BlkMod-1
    BY <1>0 DEF Init
  <2>3. uNumBlksReserved \in [AC -> 0..BlkMod-1]
    BY <1>0, <2>1 DEF Init
  <2>4. 0 \in 0..BlkMod-1 /\ 0 \in 0..DescMod-1
    BY <1>0
  <2>. QED  BY <2>2, <2>3, <2>4 DEF TypeOK, Init, NoStatus
<1>2. BlocksConserved
  <2>1. Sum(uNumBlksUsed) = 0
    BY DEF Init, Sum, AC, QOS_AC_BE, QOS_AC_BK, QOS_AC_VI, QOS_AC_VO
  <2>. QED  BY <1>0, <2>1 DEF Init, BlocksConserved
<1>3. ReservationExact
  <2>1. \A q \in AC : uNumBlksUsed[q] = 0 /\ Thresh[q] \in Nat
    BY <1>0 DEF Init
  <2>2. \A q \in AC : Lacking(q) = Thresh[q]
    BY <2>1 DEF Lacking
  <2>. QED  BY <2>2 DEF Init, ReservationExact
<1>4. BlkCountersOrdered
  BY DEF Init, NoStatus, BlkCountersOrdered, FwHeldBlks, Sub32, SubMod
<1>5. PktCountersOrdered
  BY <1>0 DEF Init, NoStatus, PktCountersOrdered, FwHeldPkts, SubMod
<1>6. ReservedAreFree
  BY <1>0 DEF Init, ReservedAreFree
<1>. QED  BY <1>1, <1>2, <1>3, <1>4, <1>5, <1>6 DEF IndInv

(* A refused packet changes no counter.                                    *)
LEMMA StopCurrentInv ==
    ASSUME IndInv, NEW q \in AC, NEW n \in Nat \ {0}, AllocStopCurrent(q, n)
    PROVE  IndInv'
<1>. USE DEF IndInv, AllocStopCurrent, StopQueue, totals, descs, blocks, fw
<1>1. TypeOK'
  BY DEF TypeOK
<1>2. BlocksConserved' /\ ReservationExact' /\ ReservedAreFree'
  BY DEF BlocksConserved, ReservationExact, ReservedAreFree, Lacking
<1>3. BlkCountersOrdered' /\ PktCountersOrdered'
  BY DEF BlkCountersOrdered, PktCountersOrdered, FwHeldBlks, SeenHeldBlks, FwHeldPkts,
         SeenHeldPkts
<1>. QED  BY <1>1, <1>2, <1>3

(* A granted packet takes the same blocks from the free ones as it adds to *)
(* its queue's, and no more from the reserve than the queue has there.     *)
LEMMA GrantedInv ==
    ASSUME IndInv, NEW q \in AC, NEW n \in Nat \ {0}, AllocGranted(q, n)
    PROVE  IndInv'
<1>. DEFINE r == TakenFromReserve(q, n)
<1>1. /\ uNumUsedDescriptors < NumTxDescriptors
      /\ n <= uNumTotalBlksFree - (uNumTotalBlksReserved - uNumBlksReserved[q])
      /\ uNumUsedDescriptors \in Nat
      /\ uNumTotalBlksFree \in Nat /\ uNumTotalBlksReserved \in Nat
  <2>1. n <= CheckResources(q)
    BY DEF AllocGranted
  <2>. QED  BY <2>1, Available, Parameters DEF IndInv, TypeOK
<1>2. /\ r \in Nat /\ r <= n /\ r <= uNumBlksReserved[q]
      /\ uNumBlksReserved[q] \in Nat /\ uNumBlksReserved[q] <= uNumTotalBlksReserved
      /\ uNumTotalBlksReserved <= uNumTotalBlksFree
      /\ n > r => r = uNumBlksReserved[q]
  BY Bounds DEF TakenFromReserve, IndInv, ReservedAreFree
<1>3. n <= uNumTotalBlksFree /\ uNumTotalBlksFree - n < BlkMod
  BY <1>1, <1>2, Bounds, Parameters
<1>4. /\ uNumTotalBlksFree' = uNumTotalBlksFree - n
      /\ uNumTotalBlksReserved' = uNumTotalBlksReserved - r
  BY <1>1, <1>2, <1>3 DEF AllocGranted, Sub32, SubMod
<1>5. /\ uNumBlksUsed[q] \in Nat /\ uNumBlksUsed[q] + n <= uNumTotalBlks
      /\ uNumBlksUsed[q] + n < BlkMod /\ n < BlkMod
  BY <1>1, <1>3, Bounds, Parameters
<1>6. /\ uNumBlksUsed' = [uNumBlksUsed EXCEPT ![q] = uNumBlksUsed[q] + n]
      /\ uNumBlksReserved' = [uNumBlksReserved EXCEPT ![q] = uNumBlksReserved[q] - r]
      /\ uNumUsedDescriptors' = uNumUsedDescriptors + 1
  BY <1>5 DEF AllocGranted, Add32, AddMod
<1>7. uNumBlksUsed \in [AC -> Nat] /\ uNumBlksReserved \in [AC -> Nat]
  BY Bounds
<1>8. BlocksConserved'
  <2>1. Sum([uNumBlksUsed EXCEPT ![q] = uNumBlksUsed[q] + n])
          = Sum(uNumBlksUsed) - uNumBlksUsed[q] + (uNumBlksUsed[q] + n)
    <3>1. uNumBlksUsed[q] + n \in Nat
      BY <1>5
    <3>. QED  BY <1>7, <3>1, SumExcept, Zenon
  <2>2. Sum(uNumBlksUsed) \in Nat
    BY <1>7, SumType
  <2>. QED  BY <1>1, <1>4, <1>5, <1>6, <2>1, <2>2 DEF IndInv, BlocksConserved
<1>9. ReservationExact'
  <2>1. Sum([uNumBlksReserved EXCEPT ![q] = uNumBlksReserved[q] - r])
          = Sum(uNumBlksReserved) - uNumBlksReserved[q] + (uNumBlksReserved[q] - r)
    <3>1. uNumBlksReserved[q] - r \in Nat
      BY <1>2
    <3>. QED  BY <1>7, <3>1, SumExcept, Zenon
  <2>0. Sum(uNumBlksReserved) \in Nat
    BY <1>7, SumType
  <2>2. uNumTotalBlksReserved' = Sum(uNumBlksReserved')
    BY <1>2, <1>4, <1>6, <2>0, <2>1 DEF IndInv, ReservationExact
  <2>3. ASSUME NEW p \in AC PROVE uNumBlksReserved'[p] = Lacking(p)'
    <3>1. uNumBlksReserved[p] = Lacking(p) /\ Thresh[p] \in Nat
      BY Parameters DEF IndInv, ReservationExact
    <3>2. CASE p = q
      BY <1>2, <1>5, <1>6, <1>7, <3>1, <3>2 DEF Lacking
    <3>3. CASE p # q
      BY <1>6, <1>7, <3>1, <3>3 DEF Lacking
    <3>. QED  BY <3>2, <3>3
  <2>. QED  BY <2>2, <2>3 DEF ReservationExact
<1>10. uAllocatedBlksCntr[q] \in 0..BlkMod-1 /\ n \in 0..BlkMod-1
  BY <1>5, Parameters DEF IndInv, TypeOK
<1>11. uAllocatedBlksCntr' = [uAllocatedBlksCntr EXCEPT ![q] = AddMod(@, n, BlkMod)]
  BY DEF AllocGranted, Add32
<1>12. BlkCountersOrdered'
  <2>. SUFFICES ASSUME NEW p \in AC
                PROVE  /\ uNumBlksUsed'[p] = (Sub32(uAllocatedBlksCntr[p], uFwFreedBlksCntr[p]))'
                       /\ FwHeldBlks(p)' <= uNumBlksUsed'[p]
                       /\ fwStatus'.read => /\ FwHeldBlks(p)' <= SeenHeldBlks(p)'
                                            /\ SeenHeldBlks(p)' <= uNumBlksUsed'[p]
    BY DEF BlkCountersOrdered
  <2>1. UNCHANGED <<uFwFreedBlksCntr, fwFreedBlks, fwStatus>>
    BY DEF AllocGranted, fw
  <2>2. /\ uNumBlksUsed[p] = Sub32(uAllocatedBlksCntr[p], uFwFreedBlksCntr[p])
        /\ FwHeldBlks(p) <= uNumBlksUsed[p]
        /\ fwStatus.read => /\ FwHeldBlks(p) <= SeenHeldBlks(p)
                            /\ SeenHeldBlks(p) <= uNumBlksUsed[p]
    BY DEF IndInv, BlkCountersOrdered
  <2>3. /\ uFwFreedBlksCntr[p] \in 0..BlkMod-1 /\ fwFreedBlks[p] \in 0..BlkMod-1
        /\ fwStatus.blks[p] \in 0..BlkMod-1 /\ uAllocatedBlksCntr[p] \in 0..BlkMod-1
        /\ uAllocatedBlksCntr \in [AC -> 0..BlkMod-1]
    BY DEF IndInv, TypeOK
  <2>4. CASE p # q
    BY <1>6, <1>7, <1>11, <2>1, <2>2, <2>3, <2>4 DEF FwHeldBlks, SeenHeldBlks
  <2>5. CASE p = q
    <3>1. uAllocatedBlksCntr'[q] = AddMod(uAllocatedBlksCntr[q], n, BlkMod)
      BY <1>11, <2>3
    <3>2. uNumBlksUsed'[q] = uNumBlksUsed[q] + n
      BY <1>6, <1>7
    <3>3. ASSUME NEW b \in 0..BlkMod-1, Sub32(uAllocatedBlksCntr[q], b) <= uNumBlksUsed[q]
          PROVE  Sub32(uAllocatedBlksCntr'[q], b) = Sub32(uAllocatedBlksCntr[q], b) + n
      <4>1. SubMod(uAllocatedBlksCntr[q], b, BlkMod) \in 0..BlkMod-1
        BY <1>10, <3>3, Parameters, ModClosed
      <4>. QED  BY <1>5, <1>10, <3>1, <3>3, <4>1, Parameters, SubAfterAdvance DEF Sub32
    <3>4. /\ FwHeldBlks(q) \in Nat
          /\ SeenHeldBlks(q) \in Nat
      BY <1>10, <2>3, <2>5, Parameters, ModClosed DEF FwHeldBlks, SeenHeldBlks, Sub32
    <3>5. /\ FwHeldBlks(q)' = FwHeldBlks(q) + n
          /\ fwStatus.read => SeenHeldBlks(q)' = SeenHeldBlks(q) + n
      BY <2>1, <2>2, <2>3, <2>5, <3>3 DEF FwHeldBlks, SeenHeldBlks
    <3>6. (Sub32(uAllocatedBlksCntr[q], uFwFreedBlksCntr[q]))' = uNumBlksUsed[q] + n
      BY <1>5, <2>1, <2>2, <2>3, <2>5, <3>3
    <3>. QED  BY <1>5, <2>1, <2>2, <2>5, <3>2, <3>4, <3>5, <3>6
  <2>. QED  BY <2>4, <2>5
<1>13. PktCountersOrdered'
  <2>1. /\ UNCHANGED <<uFwTxResultsCntr, fwTxResults, fwStatus>>
        /\ uDrvTxPacketsCntr' = AddMod(uDrvTxPacketsCntr, 1, DescMod)
    BY DEF AllocGranted, fw
  <2>2. /\ uFwTxResultsCntr \in 0..DescMod-1 /\ fwTxResults \in 0..DescMod-1
        /\ uDrvTxPacketsCntr \in 0..DescMod-1 /\ fwStatus.results \in 0..DescMod-1
        /\ 1 \in 0..DescMod-1 /\ uNumUsedDescriptors + 1 < DescMod
    BY <1>1, Parameters DEF IndInv, TypeOK
  <2>3. ASSUME NEW b \in 0..DescMod-1,
               SubMod(uDrvTxPacketsCntr, b, DescMod) <= uNumUsedDescriptors
        PROVE  SubMod(uDrvTxPacketsCntr', b, DescMod) = SubMod(uDrvTxPacketsCntr, b, DescMod) + 1
    <3>1. SubMod(uDrvTxPacketsCntr, b, DescMod) \in 0..DescMod-1
      BY <2>2, <2>3, Parameters, ModClosed
    <3>2. SubMod(uDrvTxPacketsCntr, b, DescMod) + 1 < DescMod
      BY <1>1, <2>2, <2>3, <3>1, Parameters
    <3>3. DescMod \in Nat /\ uDrvTxPacketsCntr \in 0..DescMod-1 /\ 1 \in 0..DescMod-1
      BY <2>2, Parameters
    <3>4. SubMod(AddMod(uDrvTxPacketsCntr, 1, DescMod), b, DescMod)
            = SubMod(uDrvTxPacketsCntr, b, DescMod) + 1
      BY <2>3, <3>2, <3>3, SubAfterAdvance, SMT
    <3>. QED  BY <2>1, <3>4
  <2>4. FwHeldPkts \in Nat /\ SeenHeldPkts \in Nat
    <3>1. DescMod \in Nat
      BY Parameters
    <3>2. /\ SubMod(uDrvTxPacketsCntr, fwTxResults, DescMod) \in 0..DescMod-1
          /\ SubMod(uDrvTxPacketsCntr, fwStatus.results, DescMod) \in 0..DescMod-1
      BY <2>2, <3>1, ModClosed
    <3>. QED  BY <3>1, <3>2 DEF FwHeldPkts, SeenHeldPkts
  <2>. QED  BY <1>1, <1>6, <2>1, <2>2, <2>3, <2>4, Parameters
            DEF IndInv, PktCountersOrdered, FwHeldPkts, SeenHeldPkts
<1>14. ReservedAreFree'
  BY <1>1, <1>2, <1>4 DEF ReservedAreFree
<1>15. TypeOK'
  <2>1. uNumTotalBlksFree' \in 0..BlkMod-1 /\ uNumTotalBlksReserved' \in 0..BlkMod-1
    BY <1>1, <1>2, <1>3, <1>4, Bounds, Parameters
  <2>2. uNumUsedDescriptors' \in Nat /\ uDrvTxPacketsCntr' \in 0..DescMod-1
    BY <1>1, <1>6, Parameters DEF AllocGranted, AddMod, IndInv, TypeOK
  <2>3. uNumBlksUsed' \in [AC -> 0..BlkMod-1] /\ uNumBlksReserved' \in [AC -> 0..BlkMod-1]
    <3>1. uNumBlksUsed[q] + n \in 0..BlkMod-1 /\ uNumBlksReserved[q] - r \in 0..BlkMod-1
      BY <1>2, <1>5, Parameters DEF IndInv, TypeOK
    <3>. QED  BY <1>6, <3>1 DEF IndInv, TypeOK
  <2>4. uAllocatedBlksCntr' \in [AC -> 0..BlkMod-1]
    <3>1. AddMod(uAllocatedBlksCntr[q], n, BlkMod) \in 0..BlkMod-1
      BY <1>10, Parameters, ModClosed
    <3>. QED  BY <1>11, <3>1 DEF IndInv, TypeOK
  <2>5. uNumBlksCausedBusy' \in [AC -> Nat] /\ bQueueBusy' \in [AC -> BOOLEAN]
    BY DEF AllocGranted, StopQueue, stops, IndInv, TypeOK
  <2>6. UNCHANGED <<uFwTxResultsCntr, uFwFreedBlksCntr, fwFreedBlks, fwTxResults, fwStatus>>
    BY DEF AllocGranted, fw
  <2>. QED  BY <2>1, <2>2, <2>3, <2>4, <2>5, <2>6 DEF IndInv, TypeOK
<1>. QED  BY <1>8, <1>9, <1>12, <1>13, <1>14, <1>15 DEF IndInv

(* What a status update computes for one queue: the blocks in use are      *)
(* those the status left with the firmware, and the reserve grows by no    *)
(* more than is freed, to exactly what the queue then lacks.               *)
LEMMA UpdateOneQueue ==
    ASSUME IndInv, fwStatus.read, NEW q \in AC
    PROVE  /\ NewUsed(q) = SeenHeldBlks(q)
           /\ NewUsed(q) \in Nat /\ NewUsed(q) <= uNumBlksUsed[q]
           /\ ToFree(q) = uNumBlksUsed[q] - NewUsed(q) /\ ToFree(q) \in Nat
           /\ NewReserve(q) = (IF NewUsed(q) < Thresh[q] THEN Thresh[q] - NewUsed(q) ELSE 0)
           /\ ToReserve(q) = NewReserve(q) - uNumBlksReserved[q]
           /\ ToReserve(q) \in Nat /\ ToReserve(q) <= ToFree(q)
<1>1. /\ uNumBlksUsed[q] = Sub32(uAllocatedBlksCntr[q], uFwFreedBlksCntr[q])
      /\ SeenHeldBlks(q) <= uNumBlksUsed[q]
      /\ uNumBlksReserved[q] = Lacking(q)
      /\ uNumBlksUsed[q] \in Nat /\ Thresh[q] \in Nat
  BY Bounds, Parameters DEF IndInv, BlkCountersOrdered, ReservationExact
<1>2. SeenHeldBlks(q) \in 0..BlkMod-1 /\ BlkMod \in Nat
  <2>1. /\ BlkMod \in Nat
        /\ uAllocatedBlksCntr[q] \in 0..BlkMod-1 /\ fwStatus.blks[q] \in 0..BlkMod-1
    BY Parameters DEF IndInv, TypeOK
  <2>. QED  BY <2>1, ModClosed DEF SeenHeldBlks, Sub32
<1>3. NewUsed(q) = SeenHeldBlks(q)
  BY <1>1 DEF NewUsed, Moved, SeenHeldBlks
<1>4. NewUsed(q) \in Nat /\ NewUsed(q) <= uNumBlksUsed[q]
  BY <1>1, <1>2, <1>3
<1>5. ToFree(q) = uNumBlksUsed[q] - NewUsed(q) /\ ToFree(q) \in Nat
  BY <1>1, <1>4 DEF ToFree, Sub32, SubMod
<1>6. ~Moved(q) => NewUsed(q) = uNumBlksUsed[q]
  BY DEF NewUsed
<1>7. NewReserve(q) = (IF NewUsed(q) < Thresh[q] THEN Thresh[q] - NewUsed(q) ELSE 0)
  BY <1>1, <1>4, <1>6 DEF NewReserve, Below, Lacking
<1>8. ToReserve(q) = NewReserve(q) - uNumBlksReserved[q]
  BY <1>1, <1>4, <1>5, <1>6, <1>7 DEF ToReserve, Below, Lacking
<1>9. ToReserve(q) \in Nat /\ ToReserve(q) <= ToFree(q)
  BY <1>1, <1>4, <1>5, <1>7, <1>8 DEF Lacking
<1>. QED  BY <1>3, <1>4, <1>5, <1>7, <1>8, <1>9

(* The same for the totals.                                                *)
LEMMA UpdateTotals ==
    ASSUME IndInv, UpdateFreeResources
    PROVE  /\ \A q \in AC : uNumBlksUsed'[q] = NewUsed(q) /\ uNumBlksReserved'[q] = NewReserve(q)
           /\ uNumBlksUsed' \in [AC -> Nat] /\ uNumBlksReserved' \in [AC -> Nat]
           /\ uNumTotalBlksFree' + Sum(uNumBlksUsed') = uNumTotalBlks
           /\ uNumTotalBlksReserved' = Sum(uNumBlksReserved')
           /\ uNumTotalBlksFree' \in Nat /\ uNumTotalBlksReserved' \in Nat
           /\ uNumTotalBlksReserved' <= uNumTotalBlksFree'
<1>. DEFINE tf == [q \in AC |-> ToFree(q)]
            tr == [q \in AC |-> ToReserve(q)]
<1>1. fwStatus.read
  BY DEF UpdateFreeResources
<1>2. \A q \in AC : uNumBlksUsed'[q] = NewUsed(q) /\ uNumBlksReserved'[q] = NewReserve(q)
  BY DEF UpdateFreeResources, UpdateFreeBlocks
<1>3. \A q \in AC : NewUsed(q) \in Nat /\ NewReserve(q) \in Nat
  BY <1>1, UpdateOneQueue, Parameters
<1>4. uNumBlksUsed' \in [AC -> Nat] /\ uNumBlksReserved' \in [AC -> Nat]
  BY <1>3 DEF UpdateFreeResources, UpdateFreeBlocks
<1>5. /\ uNumBlksUsed \in [AC -> Nat] /\ uNumBlksReserved \in [AC -> Nat]
      /\ tf \in [AC -> Nat] /\ tr \in [AC -> Nat]
  BY <1>1, Bounds, UpdateOneQueue
<1>6. \A q \in AC : /\ tf[q] = uNumBlksUsed[q] - uNumBlksUsed'[q]
                    /\ tr[q] = uNumBlksReserved'[q] - uNumBlksReserved[q]
                    /\ tr[q] <= tf[q]
  BY <1>1, <1>2, UpdateOneQueue
<1>. HIDE DEF tf, tr
<1>7. /\ Sum(tf) = Sum(uNumBlksUsed) - Sum(uNumBlksUsed')
      /\ Sum(tr) = Sum(uNumBlksReserved') - Sum(uNumBlksReserved)
      /\ Sum(tr) <= Sum(tf)
      /\ Sum(tf) \in Nat /\ Sum(tr) \in Nat
  BY <1>4, <1>5, <1>6 DEF Sum, AC, QOS_AC_BE, QOS_AC_BK, QOS_AC_VI, QOS_AC_VO
<1>8. /\ Sum(uNumBlksUsed) \in Nat /\ Sum(uNumBlksUsed') \in Nat
      /\ Sum(uNumBlksReserved) \in Nat /\ Sum(uNumBlksReserved') \in Nat
  BY <1>4, <1>5, SumType
<1>9. /\ uNumTotalBlksFree + Sum(uNumBlksUsed) = uNumTotalBlks
      /\ uNumTotalBlksReserved = Sum(uNumBlksReserved)
      /\ uNumTotalBlksReserved <= uNumTotalBlksFree
      /\ uNumTotalBlksFree \in Nat /\ uNumTotalBlksReserved \in Nat
      /\ uNumTotalBlks < BlkMod /\ uNumTotalBlks \in Nat /\ BlkMod \in Nat
  BY Parameters DEF IndInv, TypeOK, BlocksConserved, ReservationExact, ReservedAreFree
<1>10. /\ uNumTotalBlksFree' = AddAll32(uNumTotalBlksFree, tf)
       /\ uNumTotalBlksReserved' = AddAll32(uNumTotalBlksReserved, tr)
  BY DEF UpdateFreeResources, UpdateFreeBlocks, tf, tr
<1>11. /\ uNumTotalBlksFree + Sum(tf) < BlkMod
       /\ uNumTotalBlksReserved + Sum(tr) < BlkMod
  BY <1>7, <1>8, <1>9
<1>12. uNumTotalBlksFree' = uNumTotalBlksFree + Sum(tf)
  BY <1>5, <1>9, <1>10, <1>11, AddAllIsSum
<1>13. uNumTotalBlksReserved' = uNumTotalBlksReserved + Sum(tr)
  BY <1>5, <1>9, <1>10, <1>11, AddAllIsSum
<1>. QED  BY <1>2, <1>4, <1>7, <1>8, <1>9, <1>12, <1>13

(* Descriptors: the case split on the wrapped counter computes the same    *)
(* difference as the blocks' subtraction.                                  *)
LEMMA UpdateDescs ==
    ASSUME IndInv, fwStatus.read
    PROVE  NewUsedDescriptors = SeenHeldPkts /\ SeenHeldPkts \in Nat
<1>1. /\ DescMod \in Nat
      /\ uDrvTxPacketsCntr \in 0..DescMod-1 /\ fwStatus.results \in 0..DescMod-1
      /\ uNumUsedDescriptors = SubMod(uDrvTxPacketsCntr, uFwTxResultsCntr, DescMod)
  BY Parameters DEF IndInv, TypeOK, PktCountersOrdered
<1>. QED  BY <1>1 DEF NewUsedDescriptors, SeenHeldPkts, SubMod

LEMMA UpdateInv ==
    ASSUME IndInv, UpdateFreeResources
    PROVE  IndInv'
<1>0. fwStatus.read /\ fwStatus' = NoStatus
  BY DEF UpdateFreeResources
<1>1. BlocksConserved' /\ ReservedAreFree'
  BY UpdateTotals DEF BlocksConserved, ReservedAreFree
<1>2. ReservationExact'
  <2>1. \A q \in AC : uNumBlksReserved'[q] = Lacking(q)'
    BY <1>0, UpdateTotals, UpdateOneQueue DEF Lacking
  <2>. QED  BY <2>1, UpdateTotals DEF ReservationExact
<1>3. BlkCountersOrdered'
  <2>1. ~fwStatus'.read
    BY <1>0 DEF NoStatus
  <2>. SUFFICES ASSUME NEW q \in AC
                PROVE  /\ uNumBlksUsed'[q] = (Sub32(uAllocatedBlksCntr[q], uFwFreedBlksCntr[q]))'
                       /\ FwHeldBlks(q)' <= uNumBlksUsed'[q]
    BY <2>1 DEF BlkCountersOrdered
  <2>2. uNumBlksUsed'[q] = SeenHeldBlks(q)
    BY <1>0, UpdateTotals, UpdateOneQueue
  <2>3. /\ uFwFreedBlksCntr' = fwStatus.blks
        /\ UNCHANGED <<uAllocatedBlksCntr, fwFreedBlks>>
    BY DEF UpdateFreeResources, UpdateFreeBlocks, fw
  <2>4. FwHeldBlks(q) <= SeenHeldBlks(q)
    BY <1>0 DEF IndInv, BlkCountersOrdered
  <2>. QED  BY <2>2, <2>3, <2>4 DEF SeenHeldBlks, FwHeldBlks
<1>4. PktCountersOrdered'
  <2>1. ~fwStatus'.read
    BY <1>0 DEF NoStatus
  <2>2. uNumUsedDescriptors' = SeenHeldPkts /\ SeenHeldPkts \in Nat
    BY <1>0, UpdateDescs DEF UpdateFreeResources, UpdateDescriptors
  <2>3. uFwTxResultsCntr' = fwStatus.results /\ UNCHANGED <<uDrvTxPacketsCntr, fwTxResults>>
    BY DEF UpdateFreeResources, UpdateDescriptors, fw
  <2>4. /\ FwHeldPkts <= SeenHeldPkts /\ SeenHeldPkts <= uNumUsedDescriptors
        /\ uNumUsedDescriptors <= NumTxDescriptors
        /\ uNumUsedDescriptors \in Nat /\ NumTxDescriptors \in Nat
    BY <1>0, Parameters DEF IndInv, TypeOK, PktCountersOrdered
  <2>. QED  BY <2>1, <2>2, <2>3, <2>4 DEF PktCountersOrdered, FwHeldPkts, SeenHeldPkts
<1>5. TypeOK'
  <2>1. /\ uNumTotalBlksFree' \in 0..BlkMod-1 /\ uNumTotalBlksReserved' \in 0..BlkMod-1
        /\ uNumBlksUsed' \in [AC -> 0..BlkMod-1]
        /\ uNumBlksReserved' \in [AC -> 0..BlkMod-1]
    <3>1. Sum(uNumBlksUsed') \in Nat /\ \A q \in AC : uNumBlksUsed'[q] <= Sum(uNumBlksUsed')
      BY UpdateTotals, SumType
    <3>2. \A q \in AC : uNumBlksReserved'[q] <= Sum(uNumBlksReserved')
      BY UpdateTotals, SumType
    <3>. QED  BY <3>1, <3>2, UpdateTotals, Parameters
  <2>2. uNumUsedDescriptors' \in Nat
    BY <1>0, UpdateDescs DEF UpdateFreeResources, UpdateDescriptors
  <2>3. /\ uFwTxResultsCntr' \in 0..DescMod-1
        /\ uFwFreedBlksCntr' \in [AC -> 0..BlkMod-1]
        /\ bQueueBusy' \in [AC -> BOOLEAN]
    BY DEF UpdateFreeResources, UpdateDescriptors, UpdateFreeBlocks, IndInv, TypeOK
  <2>4. fwStatus' \in [read : BOOLEAN, blks : [AC -> 0..BlkMod-1], results : 0..DescMod-1]
    BY <1>0, Parameters DEF NoStatus
  <2>5. UNCHANGED <<uDrvTxPacketsCntr, uAllocatedBlksCntr, uNumBlksCausedBusy,
                    fwFreedBlks, fwTxResults>>
    BY DEF UpdateFreeResources, fw
  <2>. QED  BY <2>1, <2>2, <2>3, <2>4, <2>5 DEF IndInv, TypeOK
<1>. QED  BY <1>1, <1>2, <1>3, <1>4, <1>5 DEF IndInv

-----------------------------------------------------------------------------
(* The firmware may free blocks at any time: the status read before, and   *)
(* what the driver believes, are then on the safe side.                    *)
LEMMA FwFreeBlksInv ==
    ASSUME IndInv, NEW q \in AC, FwFreeBlks(q)
    PROVE  IndInv'
<1>1. PICK n \in FwFreeSizes :
          /\ n <= FwHeldBlks(q)
          /\ fwFreedBlks' = [fwFreedBlks EXCEPT ![q] = Add32(fwFreedBlks[q], n)]
  BY DEF FwFreeBlks
<1>2. UNCHANGED <<totals, descs, blocks, stops, fwTxResults, fwStatus>>
  BY DEF FwFreeBlks
<1>3. /\ BlkMod \in Nat /\ n \in Nat
      /\ uAllocatedBlksCntr[q] \in 0..BlkMod-1 /\ fwFreedBlks[q] \in 0..BlkMod-1
      /\ fwFreedBlks \in [AC -> 0..BlkMod-1]
  BY Parameters, ConfigAssumption DEF ConfigAssumption, IndInv, TypeOK
<1>4. FwHeldBlks(q) \in 0..BlkMod-1
  BY <1>3, ModClosed DEF FwHeldBlks, Sub32
<1>5. n \in 0..BlkMod-1
  BY <1>1, <1>3, <1>4
<1>6. Add32(fwFreedBlks[q], n) \in 0..BlkMod-1
  BY <1>3, <1>5, ModClosed DEF Add32
<1>7. FwHeldBlks(q)' = FwHeldBlks(q) - n
  <2>1. SubMod(uAllocatedBlksCntr[q], AddMod(fwFreedBlks[q], n, BlkMod), BlkMod)
          = SubMod(uAllocatedBlksCntr[q], fwFreedBlks[q], BlkMod) - n
    <3>1. n <= SubMod(uAllocatedBlksCntr[q], fwFreedBlks[q], BlkMod)
      BY <1>1 DEF FwHeldBlks, Sub32
    <3>. QED  BY <1>3, <1>5, <3>1, SubAfterCatchUp
  <2>2. fwFreedBlks'[q] = AddMod(fwFreedBlks[q], n, BlkMod)
    BY <1>1, <1>3 DEF Add32
  <2>. QED  BY <1>2, <2>1, <2>2 DEF FwHeldBlks, Sub32, blocks
<1>8. \A p \in AC : p # q => FwHeldBlks(p)' = FwHeldBlks(p)
  BY <1>1, <1>2, <1>3 DEF FwHeldBlks, blocks
<1>9. BlkCountersOrdered'
  <2>. SUFFICES ASSUME NEW p \in AC
                PROVE  /\ uNumBlksUsed[p] = Sub32(uAllocatedBlksCntr[p], uFwFreedBlksCntr[p])
                       /\ FwHeldBlks(p)' <= uNumBlksUsed[p]
                       /\ fwStatus.read => /\ FwHeldBlks(p)' <= SeenHeldBlks(p)
                                           /\ SeenHeldBlks(p) <= uNumBlksUsed[p]
    BY <1>2 DEF BlkCountersOrdered, SeenHeldBlks, blocks
  <2>1. /\ uNumBlksUsed[p] = Sub32(uAllocatedBlksCntr[p], uFwFreedBlksCntr[p])
        /\ FwHeldBlks(p) <= uNumBlksUsed[p]
        /\ fwStatus.read => /\ FwHeldBlks(p) <= SeenHeldBlks(p)
                            /\ SeenHeldBlks(p) <= uNumBlksUsed[p]
        /\ uNumBlksUsed[p] \in Nat
    BY Bounds DEF IndInv, BlkCountersOrdered
  <2>2. SeenHeldBlks(p) \in 0..BlkMod-1
    <3>1. uAllocatedBlksCntr[p] \in 0..BlkMod-1 /\ fwStatus.blks[p] \in 0..BlkMod-1
      BY DEF IndInv, TypeOK
    <3>. QED  BY <1>3, <3>1, ModClosed DEF SeenHeldBlks, Sub32
  <2>3. CASE p = q
    BY <1>3, <1>4, <1>7, <2>1, <2>2, <2>3
  <2>4. CASE p # q
    BY <1>8, <2>1, <2>4
  <2>. QED  BY <2>3, <2>4
<1>10. TypeOK'
  BY <1>1, <1>2, <1>3, <1>6 DEF IndInv, TypeOK, totals, descs, blocks, stops
<1>11. BlocksConserved' /\ ReservationExact' /\ ReservedAreFree' /\ PktCountersOrdered'
  BY <1>2 DEF IndInv, BlocksConserved, ReservationExact, Lacking, ReservedAreFree,
              PktCountersOrdered, FwHeldPkts, SeenHeldPkts, totals, descs, blocks
<1>. QED  BY <1>9, <1>10, <1>11 DEF IndInv

(* The same for finished packets.                                          *)
LEMMA FwTxResultInv ==
    ASSUME IndInv, FwTxResult
    PROVE  IndInv'
<1>1. /\ FwHeldPkts > 0
      /\ fwTxResults' = AddMod(fwTxResults, 1, DescMod)
      /\ UNCHANGED <<totals, descs, blocks, stops, fwFreedBlks, fwStatus>>
  BY DEF FwTxResult
<1>2. /\ DescMod \in Nat \ {0} /\ uDrvTxPacketsCntr \in 0..DescMod-1
      /\ fwTxResults \in 0..DescMod-1 /\ fwStatus.results \in 0..DescMod-1
      /\ uNumUsedDescriptors \in Nat
  BY Parameters DEF IndInv, TypeOK
<1>3. FwHeldPkts \in 0..DescMod-1 /\ SeenHeldPkts \in 0..DescMod-1
  BY <1>2, ModClosed DEF FwHeldPkts, SeenHeldPkts
<1>4. 1 \in 0..DescMod-1
  BY <1>1, <1>2, <1>3
<1>5. FwHeldPkts' = FwHeldPkts - 1
  <2>1. 1 <= SubMod(uDrvTxPacketsCntr, fwTxResults, DescMod)
    BY <1>1, <1>3 DEF FwHeldPkts
  <2>2. DescMod \in Nat
    BY <1>2
  <2>3. SubMod(uDrvTxPacketsCntr, AddMod(fwTxResults, 1, DescMod), DescMod)
          = SubMod(uDrvTxPacketsCntr, fwTxResults, DescMod) - 1
    BY <1>2, <1>4, <2>1, <2>2, SubAfterCatchUp
  <2>. QED  BY <1>1, <2>3 DEF FwHeldPkts, descs
<1>6. PktCountersOrdered'
  BY <1>1, <1>2, <1>3, <1>5 DEF IndInv, PktCountersOrdered, SeenHeldPkts, descs
<1>7. fwTxResults' \in 0..DescMod-1
  BY <1>1, <1>2, <1>4, ModClosed
<1>8. TypeOK'
  BY <1>1, <1>7 DEF IndInv, TypeOK, totals, descs, blocks, stops
<1>9. BlocksConserved' /\ ReservationExact' /\ ReservedAreFree' /\ BlkCountersOrdered'
  BY <1>1 DEF IndInv, BlocksConserved, ReservationExact, Lacking, ReservedAreFree,
              BlkCountersOrdered, FwHeldBlks, SeenHeldBlks, totals, blocks
<1>. QED  BY <1>6, <1>8, <1>9 DEF IndInv

LEMMA ReadFwStatusInv ==
    ASSUME IndInv, ReadFwStatus
    PROVE  IndInv'
<1>1. /\ fwStatus' = [read |-> TRUE, blks |-> fwFreedBlks, results |-> fwTxResults]
      /\ UNCHANGED <<totals, descs, blocks, stops, fw>>
  BY DEF ReadFwStatus
<1>2. /\ \A q \in AC : SeenHeldBlks(q)' = FwHeldBlks(q) /\ FwHeldBlks(q)' = FwHeldBlks(q)
      /\ SeenHeldPkts' = FwHeldPkts /\ FwHeldPkts' = FwHeldPkts
  BY <1>1 DEF SeenHeldBlks, FwHeldBlks, SeenHeldPkts, FwHeldPkts, descs, blocks, fw
<1>3. /\ \A q \in AC : FwHeldBlks(q) \in Nat
      /\ FwHeldPkts \in Nat
  <2>1. \A q \in AC : uAllocatedBlksCntr[q] \in 0..BlkMod-1 /\ fwFreedBlks[q] \in 0..BlkMod-1
    BY DEF IndInv, TypeOK
  <2>2. uDrvTxPacketsCntr \in 0..DescMod-1 /\ fwTxResults \in 0..DescMod-1
    BY DEF IndInv, TypeOK
  <2>3. BlkMod \in Nat /\ DescMod \in Nat
    BY Parameters
  <2>4. \A q \in AC : FwHeldBlks(q) \in 0..BlkMod-1
    BY <2>1, <2>3, ModClosed DEF FwHeldBlks, Sub32
  <2>5. FwHeldPkts \in 0..DescMod-1
    BY <2>2, <2>3, ModClosed DEF FwHeldPkts
  <2>. QED  BY <2>3, <2>4, <2>5
<1>4. BlkCountersOrdered'
  <2>1. \A q \in AC : /\ uNumBlksUsed[q] = Sub32(uAllocatedBlksCntr[q], uFwFreedBlksCntr[q])
                      /\ FwHeldBlks(q) <= uNumBlksUsed[q]
    BY DEF IndInv, BlkCountersOrdered
  <2>. QED  BY <1>1, <1>2, <1>3, <2>1 DEF BlkCountersOrdered, blocks
<1>5. PktCountersOrdered'
  <2>1. /\ uNumUsedDescriptors = SubMod(uDrvTxPacketsCntr, uFwTxResultsCntr, DescMod)
        /\ uNumUsedDescriptors <= NumTxDescriptors
        /\ FwHeldPkts <= uNumUsedDescriptors
    BY DEF IndInv, PktCountersOrdered
  <2>. QED  BY <1>1, <1>2, <1>3, <2>1 DEF PktCountersOrdered, descs
<1>6. fwStatus' \in [read : BOOLEAN, blks : [AC -> 0..BlkMod-1], results : 0..DescMod-1]
  BY <1>1 DEF IndInv, TypeOK
<1>7. TypeOK'
  BY <1>1, <1>6 DEF IndInv, TypeOK, totals, descs, blocks, stops, fw
<1>8. BlocksConserved' /\ ReservationExact' /\ ReservedAreFree'
  BY <1>1 DEF IndInv, BlocksConserved, ReservationExact, Lacking, ReservedAreFree,
              totals, blocks
<1>. QED  BY <1>4, <1>5, <1>7, <1>8 DEF IndInv

-----------------------------------------------------------------------------
LEMMA NextInv ==
    ASSUME IndInv, [Next]_vars
    PROVE  IndInv'
<1>1. ASSUME NEW p \in Traffic, AllocResources(p.tid, p.length)
      PROVE  IndInv'
  <2>. DEFINE q == WMEQosTagToAC(p.tid)
              n == NumBlksToAlloc(p.length)
  <2>1. q \in AC /\ n \in Nat \ {0}
    BY DemandType
  <2>2. AllocStopCurrent(q, n) \/ AllocGranted(q, n)
    BY <1>1 DEF AllocResources
  <2>. HIDE DEF q, n
  <2>. QED  BY <2>1, <2>2, StopCurrentInv, GrantedInv
<1>2. CASE UpdateFreeResources
  BY <1>2, UpdateInv
<1>3. ASSUME NEW q \in AC, FwFreeBlks(q) PROVE IndInv'
  BY <1>3, FwFreeBlksInv
<1>4. CASE FwTxResult
  BY <1>4, FwTxResultInv
<1>5. CASE ReadFwStatus
  BY <1>5, ReadFwStatusInv
<1>6. CASE SetHwInfo
  <2>1. Init'
    BY <1>6 DEF SetHwInfo, Init
  <2>2. (Init => IndInv)'
    BY InitInv, PTL
  <2>. QED  BY <2>1, <2>2
<1>7. CASE UNCHANGED vars
  BY <1>7 DEF vars, totals, descs, blocks, stops, fw, IndInv, TypeOK, BlocksConserved,
              ReservationExact, Lacking, ReservedAreFree, BlkCountersOrdered,
              PktCountersOrdered, FwHeldBlks, SeenHeldBlks, FwHeldPkts, SeenHeldPkts
<1>. QED  BY <1>1, <1>2, <1>3, <1>4, <1>5, <1>6, <1>7 DEF Next

(* The accounting invariant holds in every behaviour.                      *)
THEOREM Accounting == Spec => []IndInv
<1>1. Init => IndInv
  BY InitInv
<1>2. IndInv /\ [Next]_vars => IndInv'
  BY NextInv
<1>. QED  BY <1>1, <1>2, PTL DEF Spec

(* Every counter of the module keeps its width, through wrap-arounds and   *)
(* recoveries.                                                             *)
THEOREM TypeCorrect == Spec => []TypeOK
<1>1. IndInv => TypeOK
  BY DEF IndInv
<1>. QED  BY <1>1, Accounting, PTL

(* No Tx block is lost or counted twice by AllocResources and              *)
(* UpdateFreeResources, for any pool and any traffic.                      *)
THEOREM Conservation == Spec => []BlocksConserved
<1>1. IndInv => BlocksConserved
  BY DEF IndInv
<1>. QED  BY <1>1, Accounting, PTL

(* The reservation the two functions update step by step is what each      *)
(* queue lacks to its minimum.                                             *)
THEOREM Reservation == Spec => []ReservationExact
<1>1. IndInv => ReservationExact
  BY DEF IndInv
<1>. QED  BY <1>1, Accounting, PTL

(* The driver never gives the firmware more blocks or packets than it has. *)
THEOREM NoOvercommitment == Spec => []FwNeverOvercommitted
<1>1. IndInv => FwNeverOvercommitted
  <2>. SUFFICES ASSUME IndInv PROVE FwNeverOvercommitted
    OBVIOUS
  <2>. DEFINE h == [q \in AC |-> FwHeldBlks(q)]
  <2>1. \A q \in AC : FwHeldBlks(q) <= uNumBlksUsed[q]
    BY DEF IndInv, BlkCountersOrdered
  <2>2. h \in [AC -> Nat]
    <3>1. \A q \in AC : uAllocatedBlksCntr[q] \in 0..BlkMod-1 /\ fwFreedBlks[q] \in 0..BlkMod-1
      BY DEF IndInv, TypeOK
    <3>2. BlkMod \in Nat
      BY Parameters
    <3>3. \A q \in AC : FwHeldBlks(q) \in 0..BlkMod-1
      BY <3>1, <3>2, ModClosed DEF FwHeldBlks, Sub32
    <3>. QED  BY <3>2, <3>3
  <2>3. \A q \in AC : h[q] <= uNumBlksUsed[q]
    BY <2>1
  <2>. HIDE DEF h
  <2>4. uNumBlksUsed \in [AC -> Nat]
    BY Bounds
  <2>5. Sum(h) <= Sum(uNumBlksUsed) /\ Sum(h) \in Nat
    BY <2>2, <2>3, <2>4 DEF Sum, AC, QOS_AC_BE, QOS_AC_BK, QOS_AC_VI, QOS_AC_VO
  <2>6. /\ uNumTotalBlksFree \in Nat /\ uNumTotalBlks \in Nat /\ Sum(uNumBlksUsed) \in Nat
        /\ uNumTotalBlksFree + Sum(uNumBlksUsed) = uNumTotalBlks
    BY <2>4, SumType, Parameters DEF IndInv, TypeOK, BlocksConserved
  <2>7. Sum(h) <= uNumTotalBlks
    BY <2>5, <2>6
  <2>. QED  BY <2>1, <2>7 DEF h, IndInv, PktCountersOrdered, FwNeverOvercommitted
<1>. QED  BY <1>1, Accounting, PTL

(* While a descriptor is left, every queue can get the blocks up to its    *)
(* configured minimum, whatever the others do.                             *)
THEOREM MinimumIsGuaranteed == Spec => []GuaranteedMinimum
<1>1. IndInv => GuaranteedMinimum
  <2>. SUFFICES ASSUME IndInv, uNumUsedDescriptors < NumTxDescriptors, NEW q \in AC
                PROVE  CheckResources(q) >= Lacking(q)
    BY DEF GuaranteedMinimum
  <2>1. CheckResources(q) = uNumTotalBlksFree - (uNumTotalBlksReserved - uNumBlksReserved[q])
    BY Available
  <2>2. /\ uNumBlksReserved[q] = Lacking(q) /\ uNumBlksReserved[q] \in Nat
        /\ uNumTotalBlksReserved <= uNumTotalBlksFree
        /\ uNumTotalBlksFree \in Nat /\ uNumTotalBlksReserved \in Nat
    BY Bounds, Parameters DEF IndInv, TypeOK, ReservationExact, ReservedAreFree
  <2>. QED  BY <2>1, <2>2
<1>. QED  BY <1>1, Accounting, PTL

-----------------------------------------------------------------------------
(* The refinement of TxBlockPool.                                          *)

(* A queue is only ever stopped for a packet that needs blocks.            *)
BusyForBlks == \A q \in AC : bQueueBusy[q] => uNumBlksCausedBusy[q] > 0

LEMMA BusyForBlksStep ==
    ASSUME IndInv, BusyForBlks, [Next]_vars
    PROVE  BusyForBlks'
<1>1. ASSUME NEW p \in Traffic, AllocResources(p.tid, p.length)
      PROVE  BusyForBlks'
  <2>. DEFINE q == WMEQosTagToAC(p.tid)
              n == NumBlksToAlloc(p.length)
  <2>1. q \in AC /\ n \in Nat \ {0}
    BY DemandType
  <2>2. StopQueue(q, n) \/ UNCHANGED stops
    BY <1>1 DEF AllocResources, AllocStopCurrent, AllocGranted
  <2>. HIDE DEF q, n
  <2>3. uNumBlksCausedBusy \in [AC -> Nat] /\ bQueueBusy \in [AC -> BOOLEAN]
    BY DEF IndInv, TypeOK
  <2>. QED  BY <2>1, <2>2, <2>3 DEF StopQueue, stops, BusyForBlks
<1>2. CASE UpdateFreeResources
  BY <1>2 DEF UpdateFreeResources, BusyForBlks, IndInv, TypeOK
<1>3. CASE SetHwInfo
  BY <1>3 DEF SetHwInfo, BusyForBlks
<1>4. (\E q \in AC : FwFreeBlks(q)) \/ FwTxResult \/ ReadFwStatus \/ UNCHANGED vars
        => UNCHANGED stops
  BY DEF FwFreeBlks, FwTxResult, ReadFwStatus, vars
<1>. QED  BY <1>1, <1>2, <1>3, <1>4 DEF Next, BusyForBlks, stops

(* The blocks another packet may take, in the terms of TxBlockPool: what   *)
(* is free and not reserved for others is what no claim of theirs covers.  *)
Unclaimed(q) == uNumTotalBlksFree - (uNumTotalBlksReserved - uNumBlksReserved[q])

RoomIsAvailable ==
    \A q \in AC : \A n \in Nat :
        /\ Pool!Fits(q, n) <=> n <= Unclaimed(q)
        /\ n > 0 => (Pool!Room(q, n) <=> n <= CheckResources(q))

LEMMA RoomIsAvailability == IndInv => RoomIsAvailable
<1>. SUFFICES ASSUME IndInv, NEW q \in AC, NEW n \in Nat
              PROVE  /\ Pool!Fits(q, n) <=> n <= Unclaimed(q)
                     /\ n > 0 => (Pool!Room(q, n) <=> n <= CheckResources(q))
  BY DEF RoomIsAvailable
<1>. DEFINE c == Pool!Claim(uNumBlksUsed)
            v == IF uNumBlksUsed[q] + n > Thresh[q] THEN uNumBlksUsed[q] + n ELSE Thresh[q]
<1>1. /\ uNumBlksUsed \in [AC -> Nat] /\ uNumBlksReserved \in [AC -> Nat]
      /\ Thresh \in [AC -> Nat]
      /\ \A p \in AC : uNumBlksReserved[p] = Lacking(p)
  BY Bounds, Parameters DEF IndInv, ReservationExact
<1>2. Pool!AC = AC
  BY DEF Pool!AC, AC
<1>3. c \in [AC -> Nat] /\ \A p \in AC : c[p] = uNumBlksUsed[p] + uNumBlksReserved[p]
  BY <1>1, <1>2 DEF Pool!Claim, Lacking, Thresh
<1>4. Pool!Claim(Pool!After(q, n)) = [c EXCEPT ![q] = v]
  BY <1>1, <1>2 DEF Pool!Claim, Pool!After, Thresh
<1>5. v \in Nat
  BY <1>1
<1>. HIDE DEF c
<1>6. Sum(c) = Sum(uNumBlksUsed) + Sum(uNumBlksReserved)
  BY <1>1, <1>3 DEF Sum, AC, QOS_AC_BE, QOS_AC_BK, QOS_AC_VI, QOS_AC_VO
<1>7. Sum([c EXCEPT ![q] = v]) = Sum(c) - c[q] + v
  <2>. HIDE DEF v
  <2>. QED  BY <1>3, <1>5, SumExcept, Zenon
<1>8. Pool!Fits(q, n) <=> Sum(c) - c[q] + v <= uNumTotalBlks
  BY <1>4, <1>7 DEF Pool!Fits, Pool!Sum, Sum, QOS_AC_BE, QOS_AC_BK, QOS_AC_VI, QOS_AC_VO
<1>9. /\ uNumTotalBlksFree + Sum(uNumBlksUsed) = uNumTotalBlks
      /\ uNumTotalBlksReserved = Sum(uNumBlksReserved)
      /\ uNumTotalBlksReserved <= uNumTotalBlksFree
      /\ uNumTotalBlksFree \in Nat /\ uNumTotalBlksReserved \in Nat /\ uNumTotalBlks \in Nat
      /\ Sum(uNumBlksUsed) \in Nat
  BY <1>1, SumType, Parameters
     DEF IndInv, TypeOK, BlocksConserved, ReservationExact, ReservedAreFree
<1>10. /\ uNumBlksReserved[q] = (IF uNumBlksUsed[q] < Thresh[q]
                                 THEN Thresh[q] - uNumBlksUsed[q] ELSE 0)
       /\ uNumBlksUsed[q] \in Nat /\ Thresh[q] \in Nat
       /\ c[q] = uNumBlksUsed[q] + uNumBlksReserved[q]
  BY <1>1, <1>3 DEF Lacking
<1>11. Pool!Fits(q, n) <=> n <= Unclaimed(q)
  BY <1>6, <1>8, <1>9, <1>10 DEF Unclaimed
<1>12. n > 0 => (Pool!Room(q, n) <=> n <= CheckResources(q))
  BY <1>11, Available DEF Pool!Room, Unclaimed
<1>. QED  BY <1>11, <1>12

LEMMA GrantedImplements ==
    ASSUME IndInv, NEW q \in AC, NEW n \in Nat \ {0}, AllocGranted(q, n)
    PROVE  Pool!Grant(q, n)
<1>1. IndInv'
  BY GrantedInv
<1>2. Pool!Room(q, n)
  <2>1. n <= CheckResources(q)
    BY DEF AllocGranted
  <2>. QED  BY <2>1, RoomIsAvailability DEF RoomIsAvailable
<1>. DEFINE avail == uNumTotalBlksFree - (uNumTotalBlksReserved - uNumBlksReserved[q])
            r == TakenFromReserve(q, n)
<1>3. /\ uNumUsedDescriptors < NumTxDescriptors /\ n <= avail /\ CheckResources(q) = avail
      /\ uNumTotalBlksFree \in Nat /\ uNumTotalBlksReserved \in Nat
      /\ uNumBlksReserved[q] \in Nat /\ r \in Nat /\ r <= uNumBlksReserved[q] /\ r <= n
      /\ uNumBlksReserved[q] <= uNumTotalBlksReserved
      /\ uNumTotalBlksReserved <= uNumTotalBlksFree
      /\ uNumBlksUsed[q] + uNumTotalBlksFree <= uNumTotalBlks /\ uNumBlksUsed[q] \in Nat
      /\ uNumTotalBlks < BlkMod /\ BlkMod \in Nat /\ uNumTotalBlks \in Nat
  <2>1. n <= CheckResources(q)
    BY DEF AllocGranted
  <2>2. uNumTotalBlksFree \in Nat /\ uNumTotalBlksReserved \in Nat /\ uNumUsedDescriptors \in Nat
    BY Parameters DEF IndInv, TypeOK
  <2>3. n <= avail /\ CheckResources(q) = avail /\ uNumUsedDescriptors < NumTxDescriptors
    BY <2>1, <2>2, Available, Parameters
  <2>4. uNumTotalBlksReserved <= uNumTotalBlksFree
    BY DEF IndInv, ReservedAreFree
  <2>5. /\ uNumBlksReserved[q] \in Nat /\ uNumBlksReserved[q] <= uNumTotalBlksReserved
        /\ uNumBlksUsed[q] \in Nat /\ uNumBlksUsed[q] + uNumTotalBlksFree <= uNumTotalBlks
    BY Bounds
  <2>6. r \in Nat /\ r <= uNumBlksReserved[q] /\ r <= n
    BY <2>5 DEF TakenFromReserve
  <2>. HIDE DEF avail, r
  <2>. QED  BY <2>2, <2>3, <2>4, <2>5, <2>6, Parameters
<1>4. /\ uNumTotalBlksFree' = uNumTotalBlksFree - n
      /\ uNumTotalBlksReserved' = uNumTotalBlksReserved - r
      /\ uNumBlksReserved'[q] = uNumBlksReserved[q] - r
      /\ uNumBlksUsed' = [uNumBlksUsed EXCEPT ![q] = uNumBlksUsed[q] + n]
      /\ uNumUsedDescriptors' = uNumUsedDescriptors + 1
  <2>. HIDE DEF avail
  <2>1. /\ uNumTotalBlksFree' = Sub32(uNumTotalBlksFree, n)
        /\ uNumTotalBlksReserved' = Sub32(uNumTotalBlksReserved, r)
        /\ uNumBlksReserved' = [uNumBlksReserved EXCEPT ![q] = uNumBlksReserved[q] - r]
        /\ uNumBlksUsed' = [uNumBlksUsed EXCEPT ![q] = Add32(uNumBlksUsed[q], n)]
        /\ uNumUsedDescriptors' = uNumUsedDescriptors + 1
    BY DEF AllocGranted
  <2>. HIDE DEF r
  <2>2. n <= uNumTotalBlksFree
    BY <1>3 DEF avail
  <2>3. Sub32(uNumTotalBlksFree, n) = uNumTotalBlksFree - n
    BY <1>3, <2>2 DEF Sub32, SubMod
  <2>4. Sub32(uNumTotalBlksReserved, r) = uNumTotalBlksReserved - r
    BY <1>3 DEF Sub32, SubMod
  <2>5. Add32(uNumBlksUsed[q], n) = uNumBlksUsed[q] + n
    BY <1>3, <2>2 DEF Add32, AddMod
  <2>. QED  BY <2>1, <2>3, <2>4, <2>5, Bounds
<1>5. RoomIsAvailable'
  BY <1>1, RoomIsAvailability, PTL
<1>6. Pool!Fits(q, n)' <=> 2 * n <= CheckResources(q)
  <2>1. Pool!Fits(q, n)' <=> n <= Unclaimed(q)'
    BY <1>5 DEF RoomIsAvailable
  <2>. HIDE DEF r
  <2>. QED  BY <1>3, <1>4, <2>1 DEF Unclaimed
<1>8. IF Pool!Fits(q, n)' THEN UNCHANGED stops ELSE StopQueue(q, n)
  BY <1>3, <1>6 DEF AllocGranted
<1>9. StopQueue(q, n) => Pool!Stop(q, n)
  BY DEF StopQueue, Pool!Stop, IndInv, TypeOK
<1>. QED  BY <1>2, <1>4, <1>8, <1>9 DEF Pool!Grant, Pool!After, stops

LEMMA UpdateImplements ==
    ASSUME IndInv, BusyForBlks, UpdateFreeResources
    PROVE  Pool!Return
<1>1. IndInv' /\ fwStatus.read
  BY UpdateInv DEF UpdateFreeResources
<1>2. /\ uNumBlksUsed' \in [AC -> Nat]
      /\ \A q \in AC : uNumBlksUsed'[q] <= uNumBlksUsed[q]
  BY <1>1, UpdateTotals, UpdateOneQueue
<1>3. uNumUsedDescriptors' \in 0..uNumUsedDescriptors
  <2>1. uNumUsedDescriptors' = SeenHeldPkts /\ SeenHeldPkts \in Nat
    BY <1>1, UpdateDescs DEF UpdateFreeResources, UpdateDescriptors
  <2>2. SeenHeldPkts <= uNumUsedDescriptors /\ uNumUsedDescriptors \in Nat
    BY <1>1 DEF IndInv, PktCountersOrdered, TypeOK
  <2>. QED  BY <2>1, <2>2
<1>4. RoomIsAvailable'
  BY <1>1, RoomIsAvailability, PTL
<1>5. /\ bQueueBusy' = [q \in AC |-> bQueueBusy[q] /\ q \notin Backpressure]
      /\ UNCHANGED uNumBlksCausedBusy
      /\ uNumBlksCausedBusy \in [AC -> Nat] /\ bQueueBusy \in [AC -> BOOLEAN]
  BY DEF UpdateFreeResources, IndInv, TypeOK
<1>6. ASSUME NEW q \in AC, bQueueBusy[q]
      PROVE  q \in Backpressure <=> Pool!Room(q, uNumBlksCausedBusy[q])'
  <2>1. uNumBlksCausedBusy[q] \in Nat /\ uNumBlksCausedBusy[q] > 0
    BY <1>5, <1>6 DEF BusyForBlks
  <2>2. Pool!Room(q, uNumBlksCausedBusy[q])' <=> uNumBlksCausedBusy[q] <= CheckResources(q)'
    BY <1>4, <1>5, <2>1 DEF RoomIsAvailable
  <2>. QED  BY <1>6, <2>2 DEF Backpressure
<1>7. {q \in AC : bQueueBusy'[q]}
        = {q \in {p \in AC : bQueueBusy[p]} : ~Pool!Room(q, uNumBlksCausedBusy[q])'}
  BY <1>5, <1>6
<1>. QED  BY <1>2, <1>3, <1>5, <1>7 DEF Pool!Return, Pool!AC, AC

LEMMA StepImplements ==
    ASSUME IndInv, BusyForBlks, [Next]_vars
    PROVE  [Pool!Next]_(Pool!vars)
<1>1. ASSUME NEW p \in Traffic, AllocResources(p.tid, p.length)
      PROVE  Pool!Next
  <2>. DEFINE q == WMEQosTagToAC(p.tid)
              n == NumBlksToAlloc(p.length)
              d == [ac |-> q, blks |-> n]
  <2>1. q \in AC /\ n \in Nat \ {0}
    BY DemandType
  <2>2. AllocStopCurrent(q, n) \/ AllocGranted(q, n)
    BY <1>1 DEF AllocResources
  <2>3. d \in {[ac |-> WMEQosTagToAC(t.tid), blks |-> NumBlksToAlloc(t.length)] : t \in Traffic}
    OBVIOUS
  <2>4. d.ac = q /\ d.blks = n
    OBVIOUS
  <2>. HIDE DEF q, n
  <2>5. ASSUME AllocStopCurrent(q, n) PROVE Pool!Refuse(q, n)
    <3>1. ~Pool!Room(q, n)
      <4>1. CheckResources(q) \in Int
        BY <2>1, Available, Bounds, Parameters DEF IndInv, TypeOK
      <4>2. ~(n <= CheckResources(q))
        BY <2>1, <2>5, <4>1 DEF AllocStopCurrent
      <4>. QED  BY <2>1, <4>2, RoomIsAvailability DEF RoomIsAvailable
    <3>2. Pool!Stop(q, n)
      BY <2>1, <2>5 DEF AllocStopCurrent, StopQueue, Pool!Stop, IndInv, TypeOK
    <3>. QED  BY <2>5, <3>1, <3>2 DEF Pool!Refuse, AllocStopCurrent, descs, blocks
  <2>6. Pool!Grant(q, n) \/ Pool!Refuse(q, n)
    BY <2>1, <2>2, <2>5, GrantedImplements
  <2>. QED  BY <2>3, <2>4, <2>6 DEF Pool!Next
<1>2. CASE UpdateFreeResources
  BY <1>2, UpdateImplements DEF Pool!Next
<1>3. CASE SetHwInfo
  BY <1>3 DEF SetHwInfo, Pool!Next, Pool!Reset, Pool!AC, AC
<1>4. (\E q \in AC : FwFreeBlks(q)) \/ FwTxResult \/ ReadFwStatus \/ UNCHANGED vars
        => UNCHANGED Pool!vars
  BY DEF FwFreeBlks, FwTxResult, ReadFwStatus, vars, descs, blocks, stops, Pool!vars
<1>. QED  BY <1>1, <1>2, <1>3, <1>4 DEF Next

(* The counters of txHwQueue.c implement the pool: allocation succeeds     *)
(* exactly when every queue could still get its minimum afterwards, and a  *)
(* status update releases exactly the stopped queues that have room again. *)
THEOREM Refinement == Spec => ImplementsPool
<1>1. Init => BusyForBlks
  BY DEF Init, BusyForBlks
<1>2. IndInv /\ BusyForBlks /\ [Next]_vars => BusyForBlks'
  BY BusyForBlksStep
<1>3. Init => Pool!Init
  BY DEF Init, Pool!Init, Pool!AC, AC
<1>4. IndInv /\ BusyForBlks /\ [Next]_vars => [Pool!Next]_(Pool!vars)
  BY StepImplements
<1>. QED  BY <1>1, <1>2, <1>3, <1>4, Accounting, PTL DEF Spec, ImplementsPool, Pool!Spec
=============================================================================
