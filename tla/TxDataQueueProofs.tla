-------------------------- MODULE TxDataQueueProofs --------------------------
(***************************************************************************)
(* The busy flags of the data queues, proved for every number of queues,   *)
(* every size and threshold, every order of the ACs and any traffic.       *)
(***************************************************************************)
EXTENDS TxDataQueue, WellFoundedInduction, TLAPS

-----------------------------------------------------------------------------
(* The mapping of the ACs is a function into the ACs: the loop over the    *)
(* lower ACs finds the highest of those that may be used.                  *)
LEMMA HighestExists ==
    ASSUME NEW n \in Nat, NEW S \in SUBSET (1..n), S # {}
    PROVE  \E i \in S : \A j \in S : j <= i
<1>. DEFINE T == {n - i : i \in S}
<1>1. \A i \in S : i \in 1..n /\ n - i \in Nat
  OBVIOUS
<1>2. T \subseteq Nat
  BY <1>1
<1>3. T # {}
  OBVIOUS
<1>4. \A i \in S : n - i \in T
  OBVIOUS
<1>5. \A k \in T : \E i \in S : k = n - i
  OBVIOUS
<1>. HIDE DEF T
<1>6. PICK m \in T : \A k \in T : ~(<<k, m>> \in OpToRel(<, Nat))
  BY <1>2, <1>3, NatLessThanWellFounded, WFMin
<1>7. \A k \in T : ~(k < m)
  BY <1>2, <1>6 DEF OpToRel
<1>8. PICK i \in S : m = n - i
  BY <1>5
<1>9. ASSUME NEW j \in S PROVE j <= i
  <2>1. ~(n - j < n - i)
    BY <1>4, <1>7, <1>8
  <2>. QED  BY <1>1, <2>1
<1>. QED  BY <1>9

LEMMA HighestIsAnAc ==
    ASSUME NEW idx \in 1..uNumQueues, NEW lower \in SUBSET (1..idx), lower # {}
    PROVE  priorityOrderedAc[CHOOSE i \in lower : \A j \in lower : j <= i] \in Queue
<1>. DEFINE best == CHOOSE i \in lower : \A j \in lower : j <= i
<1>1. uNumQueues \in Nat /\ idx \in Nat
  BY QueueAssumption
<1>2. \E i \in lower : \A j \in lower : j <= i
  BY <1>1, HighestExists
<1>3. best \in lower
  BY <1>2
<1>. HIDE DEF best
<1>4. best \in 1..uNumQueues
  BY <1>1, <1>3
<1>5. priorityOrderedAc \in Seq(Queue) /\ Len(priorityOrderedAc) = uNumQueues
  BY QueueAssumption
<1>6. priorityOrderedAc[best] \in Queue
  BY <1>4, <1>5
<1>. QED  BY <1>6 DEF best

LEMMA MappingType ==
    ASSUME NEW required, NEW admitted
    PROVE  HighestAdmittedAc(required, admitted) \in [Queue -> Queue]
<1>. DEFINE Idx(ac) == CHOOSE i \in 1..uNumQueues : priorityOrderedAc[i] = ac
            Lower(ac) == {i \in 1..Idx(ac) : priorityOrderedAc[i] \notin required}
            Best(ac) == priorityOrderedAc[CHOOSE i \in Lower(ac) : \A j \in Lower(ac) : j <= i]
<1>1. 0 \in Queue
  BY QueueAssumption DEF Queue
<1>2. ASSUME NEW ac \in Queue PROVE Idx(ac) \in 1..uNumQueues
  <2>1. \E i \in 1..uNumQueues : priorityOrderedAc[i] = ac
    BY QueueAssumption
  <2>. QED  BY <2>1
<1>3. \A ac : Lower(ac) \in SUBSET (1..Idx(ac))
  OBVIOUS
<1>4. HighestAdmittedAc(required, admitted)
        = [ac \in Queue |-> IF ac \in admitted THEN ac ELSE IF Lower(ac) = {} THEN 0 ELSE Best(ac)]
  BY DEF HighestAdmittedAc
<1>. HIDE DEF Idx, Lower
<1>5. ASSUME NEW ac \in Queue, Lower(ac) # {} PROVE Best(ac) \in Queue
  BY <1>2, <1>3, <1>5, HighestIsAnAc
<1>. HIDE DEF Best
<1>. QED  BY <1>1, <1>4, <1>5

-----------------------------------------------------------------------------
(* What Next leaves to prove when an action touches neither the queues nor *)
(* the flags is left to the provers; the rest is split by action.          *)
LEMMA Constants ==
    /\ uNumQueues \in Nat \ {0} /\ Queue = 0..(uNumQueues - 1) /\ 0 \in Queue
    /\ aQueueMaxSize \in [Queue -> Nat \ {0}] /\ aTxSendPaceThresh \in [Queue -> Nat \ {0}]
    /\ NumTxDescriptors \in Nat \ {0} /\ bStopNetStackTx \in BOOLEAN
BY QueueAssumption DEF Queue

LEMMA Zero ==
    /\ 0 \in Queue /\ 0 \in 0..uNumQueues /\ NumTxDescriptors \in 0..NumTxDescriptors
    /\ \A q \in Queue : 0 <= aQueueMaxSize[q]
BY Constants

LEMMA Numbers ==
    /\ uNumQueues \in Nat
    /\ \A q \in Queue : q \in Nat /\ q < uNumQueues
BY Constants

(* A busy queue waits for the hardware.                                    *)
LEMMA NoneBusy ==
    ASSUME IndInv, hwBusy = {}
    PROVE  \A q \in Queue : ~aQueueBusy[q]
BY DEF IndInv, BusyHasWaker

LEMMA InitInv == Init => IndInv
<1>1. ASSUME Init PROVE TypeOK
  <2>1. size \in [Queue -> Nat] /\ \A q \in Queue : size[q] <= aQueueMaxSize[q]
    BY <1>1, Zero DEF Init
  <2>. QED  BY <1>1, <2>1, Zero DEF Init, TypeOK
<1>2. Init => BusyHasWaker
  BY DEF Init, BusyHasWaker
<1>3. Init => PacketsSeen
  BY DEF Init, PacketsSeen
<1>. QED  BY <1>1, <1>2, <1>3 DEF IndInv

LEMMA InsertPacketInv ==
    ASSUME IndInv, NEW q \in Queue, InsertPacket(q)
    PROVE  IndInv'
<1>. DEFINE n    == Enqueued(q)
            wake == Wake(n, q)
            stop == bStopNetStackTx /\ n = aQueueMaxSize[q]
<1>1. /\ size' = [size EXCEPT ![q] = n]
      /\ timer' = CASE wake = "now" -> FALSE [] wake = "later" -> TRUE [] wake = "no" -> timer
      /\ aNetStackQueueStopped' = [aNetStackQueueStopped EXCEPT ![q] = @ \/ stop]
      /\ extPc' = IF stop THEN "scheduleAndStop" ELSE IF wake = "now" THEN "schedule" ELSE "idle"
      /\ extPc = "idle"
      /\ UNCHANGED <<headAc, schvars, acvars, netStopped, pending, bDataPortEnable, highestAdmittedAc>>
  BY DEF InsertPacket
<1>2. /\ size[q] \in Nat /\ n \in Nat /\ n <= aQueueMaxSize[q]
      /\ n = 1 \/ size[q] > 0
  <2>1. aQueueMaxSize[q] \in Nat \ {0} /\ size[q] \in Nat /\ size[q] <= aQueueMaxSize[q]
    BY Constants DEF IndInv, TypeOK
  <2>. QED  BY <2>1 DEF Enqueued
<1>3. /\ wake \in {"now", "later", "no"}
      /\ wake = "no" => aQueueBusy[q] \/ n # 1
  BY <1>2, Constants DEF Wake
<1>. HIDE DEF n, wake
<1>4. TypeOK'
  <2>1. size' \in [Queue -> Nat] /\ \A p \in Queue : size'[p] <= aQueueMaxSize[p]
    BY <1>1, <1>2 DEF IndInv, TypeOK
  <2>2. timer' \in BOOLEAN
    BY <1>1, <1>3 DEF IndInv, TypeOK
  <2>3. aNetStackQueueStopped' \in [Queue -> BOOLEAN]
    BY <1>1 DEF IndInv, TypeOK
  <2>. QED  BY <1>1, <2>1, <2>2, <2>3 DEF IndInv, TypeOK, schvars, acvars, hwvars
<1>5. BusyHasWaker'
  BY <1>1 DEF IndInv, BusyHasWaker, acvars, schvars
<1>6. PacketsSeen'
  <2>1. UNCHANGED <<hwBusy, aQueueBusy, pc, uLastQueId, uIdleIterationsCount, pending, bDataPortEnable>>
    BY <1>1 DEF acvars, schvars
  <2>2. Asked => Asked'
    BY <1>1, <1>3, <2>1 DEF Asked
  <2>3. \A p \in Queue : Ahead(p) => Ahead(p)'
    BY <2>1 DEF Ahead, Seen, Distance
  <2>4. ASSUME hwBusy = {}, size[q] = 0 PROVE Asked'
    BY <1>1, <1>2, <1>3, <2>4, NoneBusy DEF Asked
  <2>5. \A p \in Queue : p # q => size'[p] = size[p]
    BY <1>1 DEF IndInv, TypeOK
  <2>. QED  BY <1>2, <2>1, <2>2, <2>3, <2>4, <2>5 DEF IndInv, PacketsSeen
<1>. QED  BY <1>4, <1>5, <1>6 DEF IndInv

LEMMA RequestScheduleInv ==
    ASSUME IndInv, RequestSchedule
    PROVE  IndInv'
<1>1. TypeOK'
  BY Zero DEF IndInv, TypeOK, RequestSchedule, qvars, schvars, hwvars, acvars, netvars, askvars
<1>2. BusyHasWaker'
  BY DEF IndInv, TypeOK, BusyHasWaker, RequestSchedule, qvars, schvars, hwvars, acvars, netvars, askvars
<1>3. PacketsSeen'
  BY Constants DEF IndInv, TypeOK, BusyHasWaker, PacketsSeen, Asked, Ahead, Seen, Distance, RequestSchedule, qvars, schvars, hwvars, acvars, netvars, askvars
<1>. QED  BY <1>1, <1>2, <1>3 DEF IndInv

LEMMA StopTxInv ==
    ASSUME IndInv, StopTx
    PROVE  IndInv'
<1>1. TypeOK'
  BY Zero DEF IndInv, TypeOK, StopTx, qvars, schvars, hwvars, acvars, netvars, askvars
<1>2. BusyHasWaker'
  BY DEF IndInv, TypeOK, BusyHasWaker, StopTx, qvars, schvars, hwvars, acvars, netvars, askvars
<1>3. PacketsSeen'
  BY Constants DEF IndInv, TypeOK, BusyHasWaker, PacketsSeen, Asked, Ahead, Seen, Distance, StopTx, qvars, schvars, hwvars, acvars, netvars, askvars
<1>. QED  BY <1>1, <1>2, <1>3 DEF IndInv

LEMMA RunInv ==
    ASSUME IndInv, Run
    PROVE  IndInv'
<1>1. TypeOK'
  BY Zero DEF IndInv, TypeOK, Run, CallScheduler, Idle, qvars, schvars, hwvars, acvars, netvars, askvars
<1>2. BusyHasWaker'
  BY DEF IndInv, TypeOK, BusyHasWaker, Run, CallScheduler, Idle, qvars, schvars, hwvars, acvars, netvars, askvars
<1>3. PacketsSeen'
  BY Constants DEF IndInv, TypeOK, BusyHasWaker, PacketsSeen, Asked, Ahead, Seen, Distance, Run, CallScheduler, Idle, qvars, schvars, hwvars, acvars, netvars, askvars
<1>. QED  BY <1>1, <1>2, <1>3 DEF IndInv

LEMMA TxSendPaceTimeoutInv ==
    ASSUME IndInv, TxSendPaceTimeout
    PROVE  IndInv'
<1>1. TypeOK'
  BY Zero DEF IndInv, TypeOK, TxSendPaceTimeout, CallScheduler, Idle, qvars, schvars, hwvars, acvars, netvars, askvars
<1>2. BusyHasWaker'
  BY DEF IndInv, TypeOK, BusyHasWaker, TxSendPaceTimeout, CallScheduler, Idle, qvars, schvars, hwvars, acvars, netvars, askvars
<1>3. PacketsSeen'
  BY Constants DEF IndInv, TypeOK, BusyHasWaker, PacketsSeen, Asked, Ahead, Seen, Distance, TxSendPaceTimeout, CallScheduler, Idle, qvars, schvars, hwvars, acvars, netvars, askvars
<1>. QED  BY <1>1, <1>2, <1>3 DEF IndInv

(* A round that ends with the port open has seen every queue.              *)
LEMMA DistanceBound ==
    ASSUME TypeOK, NEW q \in Queue
    PROVE  Distance(q) \in Nat /\ Distance(q) < uNumQueues
BY Numbers DEF TypeOK, Distance

LEMMA ReturnInv ==
    ASSUME IndInv, Return
    PROVE  IndInv'
<1>1. TypeOK'
  BY Zero DEF IndInv, TypeOK, Return, qvars, schvars, hwvars, acvars, netvars, askvars
<1>2. BusyHasWaker'
  BY DEF IndInv, TypeOK, BusyHasWaker, Return, acvars
<1>3. PacketsSeen'
  <2>1. bDataPortEnable => \A q \in Queue : ~Ahead(q)
    <3>1. \A q \in Queue : Distance(q) \in Nat /\ Distance(q) < uNumQueues
      BY DistanceBound DEF IndInv
    <3>2. uIdleIterationsCount \in Nat /\ uNumQueues \in Nat
      BY Numbers DEF IndInv, TypeOK
    <3>3. bDataPortEnable => uIdleIterationsCount >= uNumQueues
      BY DEF Return
    <3>. QED  BY <3>1, <3>2, <3>3 DEF Return, Ahead, Seen
  <2>2. /\ pc' = "idle" /\ Asked' = Asked
        /\ UNCHANGED <<bDataPortEnable, hwBusy, size>>
    BY DEF Return, Asked, acvars, askvars, qvars
  <2>. QED  BY <2>1, <2>2 DEF IndInv, PacketsSeen
<1>. QED  BY <1>1, <1>2, <1>3 DEF IndInv

(* The queue that is visited joins those of the round; the others that it  *)
(* has seen are one further behind.                                        *)
LEMMA VisitInv ==
    ASSUME IndInv, Visit
    PROVE  IndInv'
<1>. DEFINE q == NextQueue(uLastQueId)
<1>1. /\ uLastQueId' = q /\ uIdleIterationsCount' = uIdleIterationsCount + 1
      /\ pc = "visit" /\ uIdleIterationsCount < uNumQueues
      /\ UNCHANGED <<acvars, netvars, askvars, bDataPortEnable, highestAdmittedAc, extPc>>
      /\ \/ aQueueBusy[q] /\ UNCHANGED <<qvars, pc, inHandAc>>
         \/ size[q] = 0 /\ pc' = "empty" /\ UNCHANGED <<qvars, inHandAc>>
         \/ /\ size[q] > 0 /\ pc' = "xmit"
            /\ size' = [size EXCEPT ![q] = @ - 1] /\ headAc' = [headAc EXCEPT ![q] = q]
            /\ inHandAc' = highestAdmittedAc[headAc[q]]
  BY DEF Visit
<1>2. q \in Queue /\ uIdleIterationsCount' \in 0..uNumQueues
  BY <1>1, Constants DEF NextQueue, IndInv, TypeOK
<1>3. \A p \in Queue : p # q => Distance(p)' = Distance(p) + 1
  <2>1. uLastQueId \in Nat /\ uLastQueId < uNumQueues
    BY Numbers DEF IndInv, TypeOK
  <2>2. SUFFICES ASSUME NEW p \in Queue, p # q
                 PROVE  Distance(p)' = Distance(p) + 1
    OBVIOUS
  <2>3. p \in Nat /\ p < uNumQueues /\ uNumQueues \in Nat
    BY Numbers
  <2>. QED  BY <1>1, <2>1, <2>2, <2>3 DEF NextQueue, Distance
<1>. HIDE DEF q
<1>4. TypeOK'
  <2>1. size' \in [Queue -> Nat] /\ \A p \in Queue : size'[p] <= aQueueMaxSize[p]
    <3>. aQueueMaxSize \in [Queue -> Nat]
      BY Constants
    <3>. QED  BY <1>1, <1>2 DEF IndInv, TypeOK, qvars
  <2>2. headAc' \in [Queue -> Queue] /\ inHandAc' \in Queue
    BY <1>1, <1>2 DEF IndInv, TypeOK, qvars
  <2>3. pc' \in {"visit", "empty", "xmit"}
    BY <1>1
  <2>. QED  BY <1>1, <1>2, <2>1, <2>2, <2>3 DEF IndInv, TypeOK, acvars, hwvars, netvars, askvars
<1>5. BusyHasWaker'
  BY <1>1 DEF IndInv, BusyHasWaker, acvars
<1>6. PacketsSeen'
  <2>1. pc' \in {"visit", "empty", "xmit"} /\ Asked' = Asked /\ UNCHANGED <<bDataPortEnable, hwBusy>>
    BY <1>1 DEF Asked, acvars, askvars
  <2>2. ASSUME hwBusy = {}, pc' # "xmit" PROVE size' = size /\ pc' = "empty" /\ size[q] = 0
    BY <1>1, <1>2, <2>2, NoneBusy DEF qvars
  <2>3. ASSUME NEW p \in Queue, p # q, ~Seen(p) PROVE ~Seen(p)'
    BY <1>1, <1>3, <2>3, DistanceBound DEF Seen, IndInv, TypeOK
  <2>4. SUFFICES ASSUME bDataPortEnable, hwBusy = {}, pc' # "xmit", NEW p \in Queue, size[p] > 0
                 PROVE  Asked \/ Ahead(p)'
    BY <2>1, <2>2 DEF PacketsSeen, Ahead
  <2>5. p # q
    BY <1>2, <2>2, <2>4 DEF IndInv, TypeOK
  <2>6. Asked \/ ~Seen(p)
    BY <1>1, <2>4 DEF IndInv, PacketsSeen, Ahead
  <2>. QED  BY <2>2, <2>3, <2>4, <2>5, <2>6 DEF Ahead
<1>. QED  BY <1>4, <1>5, <1>6 DEF IndInv

LEMMA EmptyInv ==
    ASSUME IndInv, Empty
    PROVE  IndInv'
<1>1. TypeOK'
  BY Zero DEF IndInv, TypeOK, Empty, qvars, schvars, hwvars, acvars, netvars, askvars
<1>2. BusyHasWaker'
  BY DEF IndInv, TypeOK, BusyHasWaker, Empty, qvars, schvars, hwvars, acvars, netvars, askvars
<1>3. PacketsSeen'
  BY Constants DEF IndInv, TypeOK, BusyHasWaker, PacketsSeen, Asked, Ahead, Seen, Distance, Empty, qvars, schvars, hwvars, acvars, netvars, askvars
<1>. QED  BY <1>1, <1>2, <1>3 DEF IndInv

LEMMA ResumeTxInv ==
    ASSUME IndInv, ResumeTx
    PROVE  IndInv'
<1>1. TypeOK'
  BY Zero DEF IndInv, TypeOK, ResumeTx, qvars, schvars, hwvars, acvars, netvars, askvars
<1>2. BusyHasWaker'
  BY DEF IndInv, TypeOK, BusyHasWaker, ResumeTx, qvars, schvars, hwvars, acvars, netvars, askvars
<1>3. PacketsSeen'
  BY Constants DEF IndInv, TypeOK, BusyHasWaker, PacketsSeen, Asked, Ahead, Seen, Distance, ResumeTx, qvars, schvars, hwvars, acvars, netvars, askvars
<1>. QED  BY <1>1, <1>2, <1>3 DEF IndInv

LEMMA RequeueInv ==
    ASSUME IndInv, Requeue
    PROVE  IndInv'
<1>1. TypeOK'
  <2>1. size' \in [Queue -> Nat] /\ \A q \in Queue : size'[q] <= aQueueMaxSize[q]
    <3>. aQueueMaxSize \in [Queue -> Nat]
      BY Constants
    <3>. QED  BY DEF IndInv, TypeOK, Requeue, qvars
  <2>2. headAc' \in [Queue -> Queue] /\ pc' \in {"visit", "drop"}
    BY DEF IndInv, TypeOK, Requeue, qvars
  <2>. QED  BY <2>1, <2>2 DEF IndInv, TypeOK, Requeue, hwvars, acvars, netvars, askvars
<1>2. BusyHasWaker'
  BY DEF IndInv, TypeOK, BusyHasWaker, Requeue, qvars, schvars, hwvars, acvars, netvars, askvars
<1>3. PacketsSeen'
  BY Constants DEF IndInv, TypeOK, BusyHasWaker, PacketsSeen, Asked, Ahead, Seen, Distance, Requeue, qvars, schvars, hwvars, acvars, netvars, askvars
<1>. QED  BY <1>1, <1>2, <1>3 DEF IndInv

LEMMA FreePacketInv ==
    ASSUME IndInv, FreePacket
    PROVE  IndInv'
<1>1. TypeOK'
  BY Zero DEF IndInv, TypeOK, FreePacket, qvars, schvars, hwvars, acvars, netvars, askvars
<1>2. BusyHasWaker'
  BY DEF IndInv, TypeOK, BusyHasWaker, FreePacket, qvars, schvars, hwvars, acvars, netvars, askvars
<1>3. PacketsSeen'
  BY Constants DEF IndInv, TypeOK, BusyHasWaker, PacketsSeen, Asked, Ahead, Seen, Distance, FreePacket, qvars, schvars, hwvars, acvars, netvars, askvars
<1>. QED  BY <1>1, <1>2, <1>3 DEF IndInv

LEMMA XmitDataInv ==
    ASSUME IndInv, XmitData
    PROVE  IndInv'
<1>1. TypeOK'
  <2>1. descriptors' \in 0..NumTxDescriptors /\ canSend' \subseteq Queue
    <3>1. TakeResources
      BY DEF XmitData
    <3>. QED  BY <3>1, Constants DEF IndInv, TypeOK, TakeResources
  <2>2. busyAcBitmap' \subseteq Queue /\ hwBusy' \subseteq Queue /\ aQueueBusy' \in [Queue -> BOOLEAN]
    <3>1. inHandAc \in Queue /\ busyAcBitmap \subseteq Queue /\ hwBusy \subseteq Queue
          /\ aQueueBusy \in [Queue -> BOOLEAN]
      BY DEF IndInv, TypeOK
    <3>2. \/ UNCHANGED <<busyAcBitmap, aQueueBusy, hwBusy>>
          \/ /\ busyAcBitmap' = busyAcBitmap \cup {inHandAc}
             /\ hwBusy' = hwBusy \cup {inHandAc}
             /\ aQueueBusy' = [q \in Queue |-> q \in MappedTo(inHandAc)]
      BY DEF XmitData, StopQueue, SetBusy
    <3>3. [q \in Queue |-> q \in MappedTo(inHandAc)] \in [Queue -> BOOLEAN]
      OBVIOUS
    <3>. HIDE DEF MappedTo
    <3>. QED  BY <3>1, <3>2, <3>3
  <2>. QED  BY <2>1, <2>2, Zero DEF IndInv, TypeOK, XmitData, qvars, netvars, askvars
<1>2. BusyHasWaker'
  BY DEF IndInv, TypeOK, BusyHasWaker, XmitData, TakeResources, StopQueue, SetBusy, MappedTo, qvars, schvars, hwvars, acvars, netvars, askvars
<1>3. PacketsSeen'
  BY Constants DEF IndInv, TypeOK, BusyHasWaker, PacketsSeen, Asked, Ahead, Seen, Distance, XmitData, TakeResources, StopQueue, SetBusy, MappedTo, qvars, schvars, hwvars, acvars, netvars, askvars
<1>. QED  BY <1>1, <1>2, <1>3 DEF IndInv

LEMMA XmitDataBusyInv ==
    ASSUME IndInv, XmitDataBusy
    PROVE  IndInv'
<1>1. TypeOK'
  BY Zero DEF IndInv, TypeOK, XmitDataBusy, StopQueue, SetBusy, MappedTo, qvars, schvars, hwvars, acvars, netvars, askvars
<1>2. BusyHasWaker'
  BY DEF IndInv, TypeOK, BusyHasWaker, XmitDataBusy, StopQueue, SetBusy, MappedTo, qvars, schvars, hwvars, acvars, netvars, askvars
<1>3. PacketsSeen'
  BY Constants DEF IndInv, TypeOK, BusyHasWaker, PacketsSeen, Asked, Ahead, Seen, Distance, XmitDataBusy, StopQueue, SetBusy, MappedTo, qvars, schvars, hwvars, acvars, netvars, askvars
<1>. QED  BY <1>1, <1>2, <1>3 DEF IndInv

LEMMA TxCompleteInv ==
    ASSUME IndInv, NEW freed \in SUBSET Queue, TxComplete(freed)
    PROVE  IndInv'
<1>1. /\ freed \subseteq hwBusy /\ pc = "idle"
      /\ descriptors' \in 1..NumTxDescriptors /\ canSend' \in SUBSET Queue
      /\ hwBusy' = hwBusy \ freed /\ busyAcBitmap' = busyAcBitmap \ freed
      /\ UNCHANGED <<highestAdmittedAc, qvars, netvars, askvars, bDataPortEnable, extPc>>
  BY DEF TxComplete, Idle
<1>2. CASE freed = {}
  <2>1. UNCHANGED <<aQueueBusy, schvars, hwBusy, busyAcBitmap>>
    BY <1>1, <1>2 DEF TxComplete
  <2>2. TypeOK'
    BY <1>1, <2>1 DEF IndInv, TypeOK, schvars, qvars, netvars, askvars
  <2>3. BusyHasWaker'
    BY <1>1, <2>1 DEF IndInv, BusyHasWaker
  <2>4. PacketsSeen'
    BY <1>1, <2>1 DEF IndInv, PacketsSeen, Asked, Ahead, Seen, Distance, schvars, qvars, askvars
  <2>. QED  BY <2>2, <2>3, <2>4 DEF IndInv
<1>3. CASE freed # {}
  <2>1. /\ aQueueBusy' = [q \in Queue |-> q \in {p \in Queue : highestAdmittedAc'[p] \in busyAcBitmap'}]
        /\ pc' = "visit" /\ uIdleIterationsCount' = 0 /\ UNCHANGED <<uLastQueId, inHandAc>>
    BY <1>3 DEF TxComplete, UpdateBusyMap, SetBusy, CallScheduler
  <2>2. TypeOK'
    BY <1>1, <2>1, Zero DEF IndInv, TypeOK, qvars, netvars, askvars
  <2>3. BusyHasWaker'
    BY <1>1, <2>1 DEF IndInv, BusyHasWaker
  <2>4. PacketsSeen'
    <3>1. \A q \in Queue : Ahead(q)'
      BY <2>1, <2>2, Numbers DEF Ahead, Seen, Distance, TypeOK
    <3>. QED  BY <2>1, <3>1 DEF PacketsSeen
  <2>. QED  BY <2>2, <2>3, <2>4 DEF IndInv
<1>. QED  BY <1>2, <1>3

LEMMA UpdateQueuesMappingInv ==
    ASSUME IndInv, NEW required, NEW admitted, UpdateQueuesMapping(required, admitted)
    PROVE  IndInv'
<1>1. TypeOK'
  BY Zero, MappingType DEF IndInv, TypeOK, UpdateQueuesMapping, UpdateBusyMap, SetBusy, CallScheduler, Idle, qvars, schvars, hwvars, acvars, netvars, askvars
<1>2. BusyHasWaker'
  BY DEF IndInv, TypeOK, BusyHasWaker, UpdateQueuesMapping, UpdateBusyMap, SetBusy, CallScheduler, Idle, qvars, schvars, hwvars, acvars, netvars, askvars
<1>3. PacketsSeen'
  BY Constants DEF IndInv, TypeOK, BusyHasWaker, PacketsSeen, Asked, Ahead, Seen, Distance, UpdateQueuesMapping, UpdateBusyMap, SetBusy, CallScheduler, Idle, qvars, schvars, hwvars, acvars, netvars, askvars
<1>. QED  BY <1>1, <1>2, <1>3 DEF IndInv

LEMMA WakeAllInv ==
    ASSUME IndInv, WakeAll
    PROVE  IndInv'
<1>1. TypeOK'
  BY Zero DEF IndInv, TypeOK, WakeAll, CallScheduler, Idle, qvars, schvars, hwvars, acvars, netvars, askvars
<1>2. BusyHasWaker'
  BY DEF IndInv, TypeOK, BusyHasWaker, WakeAll, CallScheduler, Idle, qvars, schvars, hwvars, acvars, netvars, askvars
<1>3. PacketsSeen'
  BY Constants DEF IndInv, TypeOK, BusyHasWaker, PacketsSeen, Asked, Ahead, Seen, Distance, WakeAll, CallScheduler, Idle, qvars, schvars, hwvars, acvars, netvars, askvars
<1>. QED  BY <1>1, <1>2, <1>3 DEF IndInv

LEMMA StopAllInv ==
    ASSUME IndInv, StopAll
    PROVE  IndInv'
<1>1. TypeOK'
  BY Zero DEF IndInv, TypeOK, StopAll, qvars, schvars, hwvars, acvars, netvars, askvars
<1>2. BusyHasWaker'
  BY DEF IndInv, TypeOK, BusyHasWaker, StopAll, qvars, schvars, hwvars, acvars, netvars, askvars
<1>3. PacketsSeen'
  BY Constants DEF IndInv, TypeOK, BusyHasWaker, PacketsSeen, Asked, Ahead, Seen, Distance, StopAll, qvars, schvars, hwvars, acvars, netvars, askvars
<1>. QED  BY <1>1, <1>2, <1>3 DEF IndInv

LEMMA ClearQueuesInv ==
    ASSUME IndInv, ClearQueues
    PROVE  IndInv'
<1>1. TypeOK'
  BY Zero DEF IndInv, TypeOK, ClearQueues, qvars, schvars, hwvars, acvars, netvars, askvars
<1>2. BusyHasWaker'
  BY DEF IndInv, TypeOK, BusyHasWaker, ClearQueues, qvars, schvars, hwvars, acvars, netvars, askvars
<1>3. PacketsSeen'
  BY Constants DEF IndInv, TypeOK, BusyHasWaker, PacketsSeen, Asked, Ahead, Seen, Distance, ClearQueues, qvars, schvars, hwvars, acvars, netvars, askvars
<1>. QED  BY <1>1, <1>2, <1>3 DEF IndInv

LEMMA NotifyFwResetInv ==
    ASSUME IndInv, NotifyFwReset
    PROVE  IndInv'
<1>1. TypeOK'
  BY Zero DEF IndInv, TypeOK, NotifyFwReset, UpdateBusyMap, SetBusy, CallScheduler, Idle, qvars, schvars, hwvars, acvars, netvars, askvars
<1>2. BusyHasWaker'
  BY DEF IndInv, TypeOK, BusyHasWaker, NotifyFwReset, UpdateBusyMap, SetBusy, CallScheduler, Idle, qvars, schvars, hwvars, acvars, netvars, askvars
<1>3. PacketsSeen'
  BY Constants DEF IndInv, TypeOK, BusyHasWaker, PacketsSeen, Asked, Ahead, Seen, Distance, NotifyFwReset, UpdateBusyMap, SetBusy, CallScheduler, Idle, qvars, schvars, hwvars, acvars, netvars, askvars
<1>. QED  BY <1>1, <1>2, <1>3 DEF IndInv

LEMMA StepInv == IndInv /\ [Next]_vars => IndInv'
<1>. SUFFICES ASSUME IndInv, [Next]_vars PROVE IndInv'
  OBVIOUS
<1>1. CASE Scheduler
  BY <1>1, ReturnInv, VisitInv, EmptyInv, ResumeTxInv, RequeueInv, FreePacketInv DEF Scheduler
<1>2. CASE Traffic
  BY <1>1, <1>2, InsertPacketInv, RequestScheduleInv, StopTxInv, RunInv, TxSendPaceTimeoutInv,
     XmitDataInv, XmitDataBusyInv, TxCompleteInv, WakeAllInv, StopAllInv DEF Traffic
<1>3. CASE \E required, admitted \in SUBSET Queue : UpdateQueuesMapping(required, admitted)
  BY <1>3, UpdateQueuesMappingInv
<1>4. CASE UNCHANGED vars
  BY <1>4 DEF IndInv, TypeOK, BusyHasWaker, PacketsSeen, Asked, Ahead, Seen, Distance,
              vars, qvars, schvars, acvars, hwvars, netvars, askvars
<1>. QED  BY <1>2, <1>3, <1>4, ClearQueuesInv, NotifyFwResetInv DEF Next

-----------------------------------------------------------------------------
(* Types, busy flags and the scheduler's rounds, in every behaviour of the *)
(* network stack, the scheduler, the hardware queue and the admission.     *)
THEOREM Queues == Spec => []IndInv
BY InitInv, StepInv, PTL DEF Spec

(* A queue is marked busy only for an AC that TxHwQueue will report,       *)
(* although the mapping of ACs to queues changes under its flags.          *)
THEOREM BusyQueuesAreReported == Spec => []BusyHasWaker
<1>1. IndInv => BusyHasWaker
  BY DEF IndInv
<1>. QED  BY <1>1, Queues, PTL

(* Packets never wait for nothing: whatever the thresholds, the sizes and  *)
(* the order in which the network stack inserts, the scheduler leaves, the *)
(* hardware refuses and the port opens.                                    *)
THEOREM NoPacketIsForgotten == Spec => []NothingForgotten
<1>1. IndInv => NothingForgotten
  BY DEF IndInv, PacketsSeen, NothingForgotten, Asked, Ahead, Idle
<1>. QED  BY <1>1, Queues, PTL
=============================================================================
