----------------------------- MODULE TxDataQueue -----------------------------
(***************************************************************************)
(* stad/src/Data_link/txDataQueue.c with the part of txCtrl.c that maps    *)
(* ACs to queues and keeps the backpressure: one queue of data packets for *)
(* each AC, filled by the network stack and emptied, round robin, by the   *)
(* scheduler in the driver's task.                                         *)
(*                                                                         *)
(* The network stack inserts one packet at a time (it holds its own Tx     *)
(* lock) and preempts the driver's task anywhere outside the critical      *)
(* sections; both are cut into steps there.  Packets of a queue are alike, *)
(* so a queue is its length.  The two TIDs of a queue belong to the same   *)
(* AC, so bitmaps of TIDs are sets of queues, and queue and AC numbers are *)
(* the same.  Time is not modelled: a running timer may expire.            *)
(***************************************************************************)
EXTENDS Naturals, Sequences

CONSTANTS
    uNumQueues,          \* also the number of ACs
    aQueueMaxSize,
    aTxSendPaceThresh,
    bStopNetStackTx,
    priorityOrderedAc,   \* a sequence of all ACs, the lowest first
    NumTxDescriptors,    \* NUM_TX_DESCRIPTORS
    SMP                  \* os_protectLock is a spinlock; else interrupts are disabled

Queue == 0..uNumQueues-1

ASSUME QueueAssumption ==
    /\ uNumQueues \in Nat \ {0}
    /\ aQueueMaxSize \in [Queue -> Nat \ {0}]
    /\ aTxSendPaceThresh \in [Queue -> Nat \ {0}]
    /\ bStopNetStackTx \in BOOLEAN /\ SMP \in BOOLEAN
    /\ NumTxDescriptors \in Nat \ {0}
    /\ priorityOrderedAc \in Seq(Queue) /\ Len(priorityOrderedAc) = uNumQueues
    /\ \A q \in Queue : \E i \in 1..uNumQueues : priorityOrderedAc[i] = q

VARIABLES
    size,                  \* que_Size of aQueues
    headAc,                \* AC of the TID in the first packet of each queue
    aQueueBusy, aNetStackQueueStopped, bDataPortEnable,
    uLastQueId, uIdleIterationsCount,   \* of the scheduler
    pc, inHandAc,          \* the scheduler's place, and the AC of its packet
    busyAcBitmap, highestAdmittedAc,    \* of txCtrl
    hwBusy,                \* the ACs that TxHwQueue will report when they have room
    descriptors, canSend,  \* what TxHwQueue has: free descriptors, ACs with room
    pending, timer,        \* the request to the context engine, hTxSendPaceTimer
    extPc, netStopped      \* the network stack

qvars   == <<size, headAc>>
schvars == <<uLastQueId, uIdleIterationsCount, pc, inHandAc>>
hwvars  == <<descriptors, canSend>>
acvars  == <<busyAcBitmap, aQueueBusy, hwBusy, hwvars>>
netvars == <<aNetStackQueueStopped, netStopped>>
askvars == <<pending, timer>>
vars == <<qvars, schvars, acvars, netvars, askvars, bDataPortEnable, highestAdmittedAc, extPc>>

Idle == pc = "idle"

Init ==
    /\ size = [q \in Queue |-> 0]
    /\ headAc = [q \in Queue |-> q]
    /\ aQueueBusy = [q \in Queue |-> FALSE]
    /\ aNetStackQueueStopped = [q \in Queue |-> FALSE]
    /\ bDataPortEnable = FALSE
    /\ uLastQueId = 0 /\ uIdleIterationsCount = 0 /\ pc = "idle" /\ inHandAc = 0
    /\ busyAcBitmap = {} /\ hwBusy = {} /\ descriptors = NumTxDescriptors /\ canSend = Queue
    /\ highestAdmittedAc = [q \in Queue |-> q]
    /\ pending = FALSE /\ timer = FALSE
    /\ extPc = "idle" /\ netStopped = FALSE

-----------------------------------------------------------------------------
(* txDataQ_InsertPacket, up to the end of its critical section: enqueue,   *)
(* and decide whether to run the scheduler now (its threshold has been     *)
(* reached, or the queue is full) or when the timer expires, and whether   *)
(* to stop the network stack.  A packet that finds its queue full is       *)
(* dropped.                                                                *)
WakeAtThresh(n, q) ==     \* mutant
    IF n = aTxSendPaceThresh[q] /\ ~aQueueBusy[q] THEN "now" ELSE "no"
Wake(n, q) ==
    CASE aQueueBusy[q]            -> "no"
      [] n = aTxSendPaceThresh[q] -> "now"
      [] n < aTxSendPaceThresh[q] -> "later"
      [] OTHER                    -> "no"

EnqueueAlways(q) == size[q] + 1      \* mutant
Enqueued(q) == IF size[q] < aQueueMaxSize[q] THEN size[q] + 1 ELSE size[q]

InsertPacket(q) ==
    /\ extPc = "idle" /\ ~netStopped
    /\ pc # "drop"
    /\ LET n    == Enqueued(q)
           wake == Wake(n, q)
           stop == bStopNetStackTx /\ n = aQueueMaxSize[q]
       IN  /\ size' = [size EXCEPT ![q] = n]
           /\ timer' = CASE wake = "now"   -> FALSE
                         [] wake = "later" -> TRUE
                         [] wake = "no"    -> timer
           /\ aNetStackQueueStopped' = [aNetStackQueueStopped EXCEPT ![q] = @ \/ stop]
           /\ extPc' = IF stop THEN "scheduleAndStop" ELSE IF wake = "now" THEN "schedule" ELSE "idle"
    /\ UNCHANGED <<headAc, schvars, acvars, netStopped, pending, bDataPortEnable, highestAdmittedAc>>

(* The rest of it, outside the critical section.                           *)
RequestSchedule ==
    /\ extPc \in {"schedule", "scheduleAndStop"}
    /\ pending' = TRUE
    /\ extPc' = IF extPc = "schedule" THEN "idle" ELSE "stop"
    /\ UNCHANGED <<qvars, schvars, acvars, netvars, timer, bDataPortEnable, highestAdmittedAc>>

StopTx ==
    /\ extPc = "stop"
    /\ netStopped' = TRUE
    /\ extPc' = "idle"
    /\ UNCHANGED <<qvars, schvars, acvars, aNetStackQueueStopped, askvars, bDataPortEnable, highestAdmittedAc>>

-----------------------------------------------------------------------------
(* txDataQ_RunScheduler, called by the context engine, by the timer, and   *)
(* at the end of UpdateBusyMap and WakeAll.                                *)
CallScheduler == pc' = "visit" /\ uIdleIterationsCount' = 0 /\ UNCHANGED <<uLastQueId, inHandAc>>

Run ==
    /\ Idle /\ pending
    /\ pending' = FALSE
    /\ CallScheduler
    /\ UNCHANGED <<qvars, acvars, netvars, timer, bDataPortEnable, highestAdmittedAc, extPc>>

TxSendPaceTimeout ==
    /\ Idle /\ timer
    /\ timer' = FALSE
    /\ CallScheduler
    /\ UNCHANGED <<qvars, acvars, netvars, pending, bDataPortEnable, highestAdmittedAc, extPc>>

(* One turn of its loop: stop when all queues have been idle, else go on   *)
(* with the next queue and take its first packet.  SELECT_AC_FOR_TID gives *)
(* a packet the AC that may carry it.                                      *)
SameQueue(q) == q             \* mutant
NextQueue(q) == IF q + 1 = uNumQueues THEN 0 ELSE q + 1

Return ==
    /\ pc = "visit"
    /\ ~bDataPortEnable \/ uIdleIterationsCount >= uNumQueues
    /\ pc' = "idle"
    /\ UNCHANGED <<qvars, uLastQueId, uIdleIterationsCount, inHandAc, acvars, netvars, askvars,
                   bDataPortEnable, highestAdmittedAc, extPc>>

Visit ==
    /\ pc = "visit"
    /\ bDataPortEnable /\ uIdleIterationsCount < uNumQueues
    /\ uLastQueId' = NextQueue(uLastQueId)
    /\ uIdleIterationsCount' = uIdleIterationsCount + 1
    /\ LET q == uLastQueId'
       IN  \/ /\ aQueueBusy[q]
              /\ UNCHANGED <<qvars, pc, inHandAc>>
           \/ /\ ~aQueueBusy[q] /\ size[q] = 0
              /\ pc' = "empty"
              /\ UNCHANGED <<qvars, inHandAc>>
           \/ /\ ~aQueueBusy[q] /\ size[q] > 0
              /\ size' = [size EXCEPT ![q] = @ - 1]
              /\ headAc' = [headAc EXCEPT ![q] = q]
              /\ inHandAc' = highestAdmittedAc[headAc[q]]
              /\ pc' = "xmit"
    /\ UNCHANGED <<acvars, netvars, askvars, bDataPortEnable, highestAdmittedAc, extPc>>

(* The queue was empty: the network stack, if it was stopped for this      *)
(* queue, may go on.                                                       *)
Empty ==
    /\ pc = "empty"
    /\ LET stopped == bStopNetStackTx /\ aNetStackQueueStopped[uLastQueId]
       IN  /\ aNetStackQueueStopped' = [aNetStackQueueStopped EXCEPT ![uLastQueId] = @ /\ ~stopped]
           /\ pc' = IF stopped THEN "resume" ELSE "visit"
    /\ UNCHANGED <<qvars, uLastQueId, uIdleIterationsCount, inHandAc, acvars, netStopped, askvars,
                   bDataPortEnable, highestAdmittedAc, extPc>>

ResumeTx ==
    /\ pc = "resume"
    /\ netStopped' = FALSE
    /\ pc' = "visit"
    /\ UNCHANGED <<qvars, uLastQueId, uIdleIterationsCount, inHandAc, acvars, aNetStackQueueStopped,
                   askvars, bDataPortEnable, highestAdmittedAc, extPc>>

(* admittedAcToTidMap, and txDataQ_StopQueue: the flags of all queues are  *)
(* written, not only those of the queues that are to stop.                 *)
MappedTo(ac) == {q \in Queue : highestAdmittedAc[q] = ac}
SetBusy(queues) == aQueueBusy' = [q \in Queue |-> q \in queues]
StopQueue(ac) == SetBusy(MappedTo(ac))

(* TxHwQueue, as TxHwQueue.tla has it: a packet takes a descriptor and     *)
(* memory blocks, which the ACs share; an AC without room is to stop; and  *)
(* a packet is not refused while its AC has room for any packet.           *)
TakeResources ==
    /\ descriptors > 0
    /\ descriptors' = descriptors - 1
    /\ canSend' \in SUBSET canSend
    /\ descriptors' = 0 => canSend' = {}

(* txCtrl_XmitData: the packet goes to the transfer layer, and is sent or, *)
(* if that fails, freed; its AC may have to stop after it ...              *)
XmitData ==
    /\ pc = "xmit"
    /\ TakeResources
    /\ IF inHandAc \in canSend'
       THEN UNCHANGED <<busyAcBitmap, aQueueBusy, hwBusy>>
       ELSE /\ busyAcBitmap' = busyAcBitmap \cup {inHandAc}
            /\ hwBusy' = hwBusy \cup {inHandAc}
            /\ StopQueue(inHandAc)
    /\ uIdleIterationsCount' = 0
    /\ pc' = "visit"
    /\ UNCHANGED <<qvars, uLastQueId, inHandAc, netvars, askvars, bDataPortEnable, highestAdmittedAc, extPc>>

(* ... or TxHwQueue refuses the packet.                                    *)
XmitDataBusy ==
    /\ pc = "xmit"
    /\ inHandAc \notin canSend
    /\ hwBusy' = hwBusy \cup {inHandAc}
    /\ StopQueue(inHandAc)
    /\ pc' = "requeue"
    /\ UNCHANGED <<qvars, uLastQueId, uIdleIterationsCount, inHandAc, busyAcBitmap, hwvars, netvars, askvars,
                   bDataPortEnable, highestAdmittedAc, extPc>>

(* The refused packet returns to its queue, in a critical section, or, if  *)
(* new packets have filled it, is dropped, still in the critical section:  *)
(* txCtrlBlk_Free enters it a second time.                                 *)
Requeue ==
    /\ pc = "requeue"
    /\ IF size[uLastQueId] < aQueueMaxSize[uLastQueId]
       THEN /\ size' = [size EXCEPT ![uLastQueId] = @ + 1]
            /\ headAc' = [headAc EXCEPT ![uLastQueId] = inHandAc]
            /\ pc' = "visit"
       ELSE UNCHANGED qvars /\ pc' = "drop"
    /\ UNCHANGED <<uLastQueId, uIdleIterationsCount, inHandAc, acvars, netvars, askvars,
                   bDataPortEnable, highestAdmittedAc, extPc>>

FreePacket ==
    /\ pc = "drop" /\ ~SMP
    /\ pc' = "visit"
    /\ UNCHANGED <<qvars, uLastQueId, uIdleIterationsCount, inHandAc, acvars, netvars, askvars,
                   bDataPortEnable, highestAdmittedAc, extPc>>

-----------------------------------------------------------------------------
(* The end of txCtrl_UpdateBackpressure, and txDataQ_UpdateBusyMap: the    *)
(* queues mapped to busy ACs are busy, and the scheduler runs.             *)
KeepBusyMap == CallScheduler /\ UNCHANGED aQueueBusy    \* mutant
UpdateBusyMap ==
    /\ SetBusy({q \in Queue : highestAdmittedAc'[q] \in busyAcBitmap'})
    /\ CallScheduler

(* The firmware is done with packets and TxHwQueue reports the busy ACs    *)
(* that have room again.                                                   *)
TxComplete(freed) ==
    /\ Idle /\ freed \subseteq hwBusy
    /\ descriptors' \in 1..NumTxDescriptors /\ descriptors' >= descriptors
    /\ canSend' \in SUBSET Queue /\ canSend \cup freed \subseteq canSend'
    /\ hwBusy' = hwBusy \ freed
    /\ busyAcBitmap' = busyAcBitmap \ freed
    /\ UNCHANGED highestAdmittedAc
    /\ IF freed = {} THEN UNCHANGED <<aQueueBusy, schvars>> ELSE UpdateBusyMap
    /\ UNCHANGED <<qvars, netvars, askvars, bDataPortEnable, extPc>>

(* txCtrl_UpdateQueuesMapping, when the admission of the ACs changes.      *)
HighestAdmittedAc(required, admitted) ==
    [ac \in Queue |->
        IF ac \in admitted THEN ac
        ELSE LET idx   == CHOOSE i \in 1..uNumQueues : priorityOrderedAc[i] = ac
                 lower == {i \in 1..idx : priorityOrderedAc[i] \notin required}
             IN  IF lower = {} THEN 0
                 ELSE priorityOrderedAc[CHOOSE i \in lower : \A j \in lower : j <= i]]

UpdateQueuesMapping(required, admitted) ==
    /\ Idle
    /\ highestAdmittedAc' = HighestAdmittedAc(required, admitted)
    /\ UNCHANGED <<busyAcBitmap, hwBusy, hwvars>>
    /\ UpdateBusyMap
    /\ UNCHANGED <<qvars, netvars, askvars, bDataPortEnable, extPc>>

(* Calls from txPort and DrvMain; the latter after the port was disabled.  *)
WakeAll ==
    /\ Idle /\ ~bDataPortEnable
    /\ bDataPortEnable' = TRUE
    /\ CallScheduler
    /\ UNCHANGED <<qvars, acvars, netvars, askvars, highestAdmittedAc, extPc>>

StopAll ==
    /\ Idle /\ bDataPortEnable
    /\ bDataPortEnable' = FALSE
    /\ UNCHANGED <<qvars, schvars, acvars, netvars, askvars, highestAdmittedAc, extPc>>

ClearQueues ==
    /\ Idle /\ ~bDataPortEnable
    /\ size' = [q \in Queue |-> 0] /\ headAc' = [q \in Queue |-> q]
    /\ UNCHANGED <<schvars, acvars, netvars, askvars, bDataPortEnable, highestAdmittedAc, extPc>>

(* TxHwQueue restarts after a recovery; txCtrl_NotifyFwReset follows.      *)
NotifyFwReset ==
    /\ Idle /\ ~bDataPortEnable
    /\ hwBusy' = {} /\ busyAcBitmap' = {}
    /\ descriptors' = NumTxDescriptors /\ canSend' = Queue
    /\ UNCHANGED highestAdmittedAc
    /\ UpdateBusyMap
    /\ UNCHANGED <<qvars, netvars, askvars, bDataPortEnable, extPc>>

-----------------------------------------------------------------------------
Scheduler == Return \/ Visit \/ Empty \/ ResumeTx \/ Requeue \/ FreePacket

Traffic ==
    \/ \E q \in Queue : InsertPacket(q)
    \/ RequestSchedule \/ StopTx
    \/ Run \/ TxSendPaceTimeout
    \/ Scheduler
    \/ XmitData \/ XmitDataBusy
    \/ \E freed \in SUBSET Queue : TxComplete(freed)
    \/ WakeAll \/ StopAll

Next ==
    \/ Traffic
    \/ \E required, admitted \in SUBSET Queue : UpdateQueuesMapping(required, admitted)
    \/ ClearQueues \/ NotifyFwReset

Spec == Init /\ [][Next]_vars

(* Both contexts go on; the driver's task serves its clients and timers in *)
(* turn; and TxHwQueue reports every AC that waits (BusyQueueReleased      *)
(* there).                                                                 *)
Fairness ==
    /\ WF_vars(RequestSchedule) /\ WF_vars(StopTx)
    /\ WF_vars(Scheduler) /\ WF_vars(XmitData \/ XmitDataBusy)
    /\ SF_vars(Run) /\ SF_vars(TxSendPaceTimeout)
    /\ \A ac \in Queue : SF_vars(\E freed \in SUBSET Queue : ac \in freed /\ TxComplete(freed))

FairSpec == Spec /\ Fairness
-----------------------------------------------------------------------------
TypeOK ==
    /\ size \in [Queue -> Nat] /\ \A q \in Queue : size[q] <= aQueueMaxSize[q]
    /\ headAc \in [Queue -> Queue] /\ highestAdmittedAc \in [Queue -> Queue]
    /\ aQueueBusy \in [Queue -> BOOLEAN] /\ aNetStackQueueStopped \in [Queue -> BOOLEAN]
    /\ bDataPortEnable \in BOOLEAN /\ netStopped \in BOOLEAN
    /\ pending \in BOOLEAN /\ timer \in BOOLEAN
    /\ uLastQueId \in Queue /\ uIdleIterationsCount \in 0..uNumQueues /\ inHandAc \in Queue
    /\ pc \in {"idle", "visit", "empty", "resume", "xmit", "requeue", "drop"}
    /\ busyAcBitmap \subseteq Queue /\ hwBusy \subseteq Queue
    /\ descriptors \in 0..NumTxDescriptors /\ canSend \subseteq Queue
    /\ extPc \in {"idle", "schedule", "scheduleAndStop", "stop"}

(* A busy queue waits for an AC that TxHwQueue is bound to report, however *)
(* the mapping of the ACs changes meanwhile.                               *)
BusyHasWaker ==
    /\ busyAcBitmap \subseteq hwBusy
    /\ \A q \in Queue : aQueueBusy[q] => highestAdmittedAc[q] \in hwBusy

(* What NothingForgotten needs to be inductive.  In a round of the         *)
(* scheduler the queues that were idle in turn are the last ones up to     *)
(* uLastQueId.  While no AC waits for the hardware, a queue with packets   *)
(* is still ahead of the scheduler, or it has been asked for anew.         *)
Distance(q) == IF q <= uLastQueId THEN uLastQueId - q ELSE uLastQueId + uNumQueues - q
Seen(q)     == Distance(q) < uIdleIterationsCount

Asked == pending \/ timer \/ extPc \in {"schedule", "scheduleAndStop"}

Ahead(q) == pc = "xmit" \/ (pc \in {"visit", "empty", "resume"} /\ ~Seen(q))

PacketsSeen ==
    /\ pc \in {"requeue", "drop"} => hwBusy # {}
    /\ bDataPortEnable /\ hwBusy = {} =>
          \A q \in Queue : size[q] > 0 => Asked \/ Ahead(q)

IndInv == TypeOK /\ BusyHasWaker /\ PacketsSeen

(* No packet is forgotten: when both contexts rest and the data queues     *)
(* have the Tx path, either every packet waits for the hardware, or the    *)
(* scheduler has been asked for, or the timer will call it.                *)
NothingForgotten ==
    Idle /\ extPc = "idle" /\ bDataPortEnable /\ (\E q \in Queue : size[q] > 0)
        => pending \/ timer \/ hwBusy # {}

(* No queue starves: as long as a queue holds packets and the port is      *)
(* open, they are offered to the hardware again and again.                 *)
Offered(q) == pc = "xmit" /\ uLastQueId = q
Holds(q)   == size[q] > 0 \/ (uLastQueId = q /\ pc \in {"xmit", "requeue"})

EveryQueueOffered ==
    \A q \in Queue : <>[](Holds(q) /\ bDataPortEnable) => []<>Offered(q)
=============================================================================
