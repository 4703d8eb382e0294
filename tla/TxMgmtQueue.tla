----------------------------- MODULE TxMgmtQueue -----------------------------
(***************************************************************************)
(* stad/src/Data_link/txMgmtQueue.c with txPort.c: the two queues for      *)
(* management and EAPOL packets, the state machine that decides which      *)
(* packets the connection permits, and the port that switches the Tx path  *)
(* between these queues and the data queues.                               *)
(*                                                                         *)
(* Everything runs in the driver's task except the insertion of EAPOL      *)
(* packets by the network stack, which preempts it anywhere outside the    *)
(* critical sections.  A handler of the driver's task is therefore cut     *)
(* into steps at its critical sections; "work" is what it has left to do,  *)
(* innermost call first.  The state machine and the port update are one    *)
(* step: they share nothing with the network stack but the queue sizes.    *)
(***************************************************************************)
EXTENDS Naturals, Sequences, FiniteSets

CONSTANTS
    CtrlBlk,            \* the Tx control blocks of the packets
    NoBlk,
    Depth               \* MGMT_QUEUES_DEPTH

ASSUME DepthAssumption == Depth \in Nat \ {0} /\ IsFiniteSet(CtrlBlk) /\ NoBlk \notin CtrlBlk

VARIABLES
    eSmState, eTxConnState,
    aQueues, aQueueBusy, aQueueEnabledBySM,
    bMgmtPortEnable,    \* also mgmtQueueEnabled of txPort: always set together
    queuesMuxState, txSuspended, dataQueueEnabled,
    busyAcBitmap,       \* txCtrl's bit of the AC that serves the management TID
    hwBusy,             \* TxHwQueue will report this AC when it has room again
    free, atFw,         \* control blocks in their pool, and with the firmware
    work, inHand, inQueue,  \* the driver's task: calls, packet and queue at hand
    extPc, pending      \* the network stack, and the request to the context engine

qvars    == <<aQueues, inHand, inQueue>>
smvars   == <<eSmState, aQueueEnabledBySM>>
portvars == <<queuesMuxState, txSuspended, dataQueueEnabled, bMgmtPortEnable>>
busyvars == <<aQueueBusy, busyAcBitmap, hwBusy>>
blkvars  == <<free, atFw>>
extvars  == <<extPc, pending>>
vars == <<qvars, smvars, portvars, busyvars, blkvars, extvars, eTxConnState, work>>

QueueType == {"MGMT", "EAPOL"}
SmState   == {"CLOSE", "MGMT", "EAPOL", "OPEN_MGMT", "OPEN_DATA"}
ConnState == {"CLOSE", "MGMT", "EAPOL", "OPEN"}

NoQueues    == [q \in QueueType |-> FALSE]
OnlyMgmt    == [q \in QueueType |-> q = "MGMT"]
BothQueues  == [q \in QueueType |-> TRUE]

AllEmpty == \A q \in QueueType : aQueues[q] = <<>>
Idle     == work = <<>>

Init ==
    /\ eSmState = "CLOSE" /\ eTxConnState = "CLOSE"
    /\ aQueues = [q \in QueueType |-> <<>>]
    /\ aQueueBusy = FALSE
    /\ aQueueEnabledBySM = NoQueues
    /\ bMgmtPortEnable = TRUE /\ dataQueueEnabled = FALSE
    /\ queuesMuxState = "MGMT" /\ txSuspended = FALSE
    /\ busyAcBitmap = FALSE /\ hwBusy = FALSE
    /\ free = CtrlBlk /\ atFw = {}
    /\ work = <<>> /\ inHand = NoBlk /\ inQueue = "MGMT"
    /\ extPc = "idle" /\ pending = FALSE

-----------------------------------------------------------------------------
(* updateQueuesStates of txPort: stop what the mux or a suspension takes   *)
(* the Tx path from, wake what it gives it to.  Waking the management      *)
(* queues (txMgmtQ_WakeAll) goes on with runSchedulerNotFromSm.            *)
PortUpdate(mux, suspended, rest) ==
    /\ queuesMuxState' = mux
    /\ txSuspended' = suspended
    /\ bMgmtPortEnable' = (~suspended /\ mux = "MGMT")
    /\ dataQueueEnabled' = (~suspended /\ mux = "DATA")
    /\ work' = IF bMgmtPortEnable' /\ ~bMgmtPortEnable
               THEN <<"notFromSm">> \o rest ELSE rest

EnableMgmt(rest)   == PortUpdate("MGMT", txSuspended, rest)
EnableData(rest)   == PortUpdate("DATA", txSuspended, rest)
RunScheduler(rest) == work' = <<"scheduler">> \o rest /\ UNCHANGED portvars
NoAction(rest)     == work' = rest /\ UNCHANGED portvars

(* mgmtQueuesSM: the next state, the queues it enables, and the action.    *)
SmTo(state, enabled) == eSmState' = state /\ aQueueEnabledBySM' = enabled
SmStays              == UNCHANGED smvars

SmCloseOnly(rest) == SmTo("CLOSE", NoQueues) /\ NoAction(rest)     \* mutant
SmClose(rest) ==
    /\ SmTo("CLOSE", NoQueues)
    /\ IF eSmState = "OPEN_DATA" THEN EnableMgmt(rest) ELSE NoAction(rest)

SmMgmtBoth(rest) == SmTo("MGMT", BothQueues) /\ RunScheduler(rest)   \* mutant
SmMgmt(rest) ==
    /\ SmTo("MGMT", OnlyMgmt)
    /\ IF eSmState = "OPEN_DATA" THEN EnableMgmt(rest) ELSE RunScheduler(rest)

SmEapol(rest) ==
    /\ SmTo("EAPOL", BothQueues)
    /\ RunScheduler(rest)

SmOpen(rest) ==
    IF AllEmpty
    THEN SmTo("OPEN_DATA", NoQueues) /\ EnableData(rest)
    ELSE SmTo("OPEN_MGMT", aQueueEnabledBySM) /\ NoAction(rest)

SmQueuesEmpty(rest) ==
    IF eSmState = "OPEN_MGMT"
    THEN SmTo("OPEN_DATA", NoQueues) /\ EnableData(rest)
    ELSE SmStays /\ NoAction(rest)

SmQueuesNotEmptyIfOpen(rest) ==     \* mutant
    IF eSmState = "OPEN_DATA" THEN SmTo("OPEN_MGMT", BothQueues) /\ EnableMgmt(rest)
                              ELSE SmStays /\ NoAction(rest)
SmQueuesNotEmpty(rest) ==
    CASE eSmState = "OPEN_DATA"         -> SmTo("OPEN_MGMT", BothQueues) /\ EnableMgmt(rest)
      [] eSmState \in {"MGMT", "EAPOL"} -> SmStays /\ RunScheduler(rest)
      [] OTHER                          -> SmStays /\ NoAction(rest)

-----------------------------------------------------------------------------
(* runSchedulerNotFromSm, and what it does when the scheduler returns.     *)
RunSchedulerNotFromSm ==
    /\ ~Idle /\ Head(work) = "notFromSm"
    /\ work' = IF AllEmpty THEN Tail(work) ELSE <<"scheduler", "recheck">> \o Tail(work)
    /\ UNCHANGED <<qvars, smvars, portvars, busyvars, blkvars, extvars, eTxConnState>>

Recheck ==
    /\ ~Idle /\ Head(work) = "recheck"
    /\ IF AllEmpty THEN SmQueuesEmpty(Tail(work))
                   ELSE SmStays /\ NoAction(Tail(work))
    /\ UNCHANGED <<qvars, busyvars, blkvars, extvars, eTxConnState>>

(* runScheduler: a packet from the highest queue that may send one.  The   *)
(* loop visits the queues in order; each is read in its critical section.  *)
(* A call starts with the management queue.                                *)
Visit ==
    /\ ~Idle /\ Head(work) \in {"scheduler", "next"}
    /\ LET q == IF Head(work) = "scheduler" THEN "MGMT" ELSE "EAPOL"
           may == ~aQueueBusy /\ aQueueEnabledBySM[q] /\ aQueues[q] # <<>>
       IN  \/ /\ ~bMgmtPortEnable
              /\ work' = Tail(work)
              /\ UNCHANGED qvars
           \/ /\ bMgmtPortEnable /\ may
              /\ inHand' = Head(aQueues[q]) /\ inQueue' = q
              /\ aQueues' = [aQueues EXCEPT ![q] = Tail(@)]
              /\ work' = <<"xmit">> \o Tail(work)
           \/ /\ bMgmtPortEnable /\ ~may
              /\ work' = IF q = "MGMT" THEN <<"next">> \o Tail(work) ELSE Tail(work)
              /\ UNCHANGED qvars
    /\ UNCHANGED <<smvars, portvars, busyvars, blkvars, extvars, eTxConnState>>

(* txCtrl_XmitMgmt: the hardware queue takes the packet, and may be busy   *)
(* after it ...                                                            *)
StopNext ==
    \/ UNCHANGED busyvars
    \/ aQueueBusy' = TRUE /\ busyAcBitmap' = TRUE /\ hwBusy' = TRUE

Xmitted ==
    /\ work' = <<"scheduler">> \o Tail(work)
    /\ inHand' = NoBlk
    /\ UNCHANGED <<aQueues, inQueue>>

XmitMgmt ==
    /\ ~Idle /\ Head(work) = "xmit"
    /\ StopNext
    /\ atFw' = atFw \cup {inHand}
    /\ Xmitted
    /\ UNCHANGED <<smvars, portvars, free, extvars, eTxConnState>>

(* ... or the transfer fails and the packet is freed ...                   *)
XmitMgmtErrorAsBusy ==      \* mutant
    /\ ~Idle /\ Head(work) = "xmit"
    /\ StopNext
    /\ free' = free \cup {inHand}
    /\ work' = <<"requeue">> \o Tail(work)
    /\ UNCHANGED <<qvars, smvars, portvars, atFw, extvars, eTxConnState>>
XmitMgmtError ==
    /\ ~Idle /\ Head(work) = "xmit"
    /\ StopNext
    /\ free' = free \cup {inHand}
    /\ Xmitted
    /\ UNCHANGED <<smvars, portvars, atFw, extvars, eTxConnState>>

(* ... or the hardware queue refuses the packet and is stopped.            *)
XmitMgmtBusy ==
    /\ ~Idle /\ Head(work) = "xmit"
    /\ aQueueBusy' = TRUE /\ hwBusy' = TRUE
    /\ work' = <<"requeue">> \o Tail(work)
    /\ UNCHANGED <<qvars, smvars, portvars, busyAcBitmap, blkvars, extvars, eTxConnState>>

(* The refused packet goes back to the front of its queue, if that is not  *)
(* full by now; if it is, nobody has the packet any more.                  *)
PutLast(s, b)  == Append(s, b)      \* mutant
PutFirst(s, b) == <<b>> \o s

Requeue ==
    /\ ~Idle /\ Head(work) = "requeue"
    /\ aQueues' = IF Len(aQueues[inQueue]) < Depth
                  THEN [aQueues EXCEPT ![inQueue] = PutFirst(@, inHand)]
                  ELSE aQueues
    /\ inHand' = NoBlk
    /\ work' = IF inQueue = "MGMT" THEN <<"next">> \o Tail(work) ELSE Tail(work)
    /\ UNCHANGED <<inQueue, smvars, portvars, busyvars, blkvars, extvars, eTxConnState>>

-----------------------------------------------------------------------------
(* txMgmtQ_Xmit in the driver's task, for a management packet, ...         *)
EnqueueAlways(q, b) ==      \* mutant
    /\ b \in free
    /\ aQueues' = [aQueues EXCEPT ![q] = Append(@, b)]
    /\ free' = free \ {b}
Enqueue(q, b) ==
    /\ b \in free /\ Len(aQueues[q]) < Depth
    /\ aQueues' = [aQueues EXCEPT ![q] = Append(@, b)]
    /\ free' = free \ {b}

Xmit(b) ==
    /\ Idle
    /\ Enqueue("MGMT", b)
    /\ IF Len(aQueues'["MGMT"]) = 1 THEN SmQueuesNotEmpty(<<>>) ELSE SmStays /\ NoAction(<<>>)
    /\ UNCHANGED <<inHand, inQueue, busyvars, atFw, extvars, eTxConnState>>

(* ... and by the network stack, for an EAPOL packet: if the queue was     *)
(* empty the driver's task is asked to handle it.  A packet that finds its *)
(* queue full is dropped and changes nothing here.                         *)
XmitExternal(b) ==
    /\ extPc = "idle"
    /\ Enqueue("EAPOL", b)
    /\ extPc' = IF Len(aQueues'["EAPOL"]) = 1 THEN "schedule" ELSE "idle"
    /\ UNCHANGED <<inHand, inQueue, smvars, portvars, busyvars, atFw, pending, eTxConnState, work>>

RequestSchedule ==
    /\ extPc = "schedule"
    /\ pending' = TRUE
    /\ extPc' = "idle"
    /\ UNCHANGED <<qvars, smvars, portvars, busyvars, blkvars, eTxConnState, work>>

QueuesNotEmpty ==
    /\ Idle /\ pending
    /\ pending' = FALSE
    /\ SmQueuesNotEmpty(<<>>)
    /\ UNCHANGED <<qvars, busyvars, blkvars, extPc, eTxConnState>>

(* txMgmtQ_SetConnState, in the order in which the infrastructure and IBSS *)
(* connection state machines call it.                                      *)
ConnMoves ==
    [CLOSE |-> {"CLOSE", "MGMT", "EAPOL"}, MGMT |-> {"CLOSE", "MGMT", "EAPOL"},
     EAPOL |-> {"CLOSE", "MGMT", "OPEN"},  OPEN |-> {"CLOSE", "MGMT"}]

SetConnState(s) ==
    /\ Idle
    /\ s \in ConnMoves[eTxConnState]
    /\ eTxConnState' = s
    /\ CASE s = "CLOSE" -> SmClose(<<>>)
         [] s = "MGMT"  -> SmMgmt(<<>>)
         [] s = "EAPOL" -> SmEapol(<<>>)
         [] s = "OPEN"  -> SmOpen(<<>>)
    /\ UNCHANGED <<qvars, busyvars, blkvars, extvars>>

-----------------------------------------------------------------------------
(* txCtrl_UpdateBackpressure, for a freed AC: this one, or another one, in *)
(* which case the queues are busy as far as txCtrl remembers.              *)
UpdateBackpressure(freed) ==
    /\ Idle
    /\ freed => hwBusy
    /\ hwBusy' = (hwBusy /\ ~freed)
    /\ busyAcBitmap' = (busyAcBitmap /\ ~freed)
    /\ aQueueBusy' = busyAcBitmap'
    /\ work' = <<"notFromSm">>
    /\ UNCHANGED <<qvars, smvars, portvars, blkvars, extvars, eTxConnState>>

(* Data packets on the same AC may exhaust it too.                         *)
DataBusy ==
    /\ Idle /\ dataQueueEnabled
    /\ hwBusy' = TRUE /\ busyAcBitmap' \in {busyAcBitmap, TRUE}
    /\ UNCHANGED <<qvars, smvars, portvars, blkvars, extvars, aQueueBusy, eTxConnState, work>>

TxComplete(b) ==
    /\ Idle /\ b \in atFw
    /\ atFw' = atFw \ {b} /\ free' = free \cup {b}
    /\ UNCHANGED <<qvars, smvars, portvars, busyvars, extvars, eTxConnState, work>>

(* DrvMain: stop and enable activities; between them, after a recovery,    *)
(* txCtrl_NotifyFwReset on a TxHwQueue that has been restarted, and after  *)
(* a stop (the connection is down then) txMgmtQ_ClearQueues.               *)
SuspendTx ==
    /\ Idle /\ ~txSuspended
    /\ PortUpdate(queuesMuxState, TRUE, <<>>)
    /\ UNCHANGED <<qvars, smvars, busyvars, blkvars, extvars, eTxConnState>>

ResumeTx ==
    /\ Idle /\ txSuspended
    /\ PortUpdate(queuesMuxState, FALSE, <<>>)
    /\ UNCHANGED <<qvars, smvars, busyvars, blkvars, extvars, eTxConnState>>

KeepBusyFlags == UNCHANGED aQueueBusy     \* mutant
ClearBusyFlags == aQueueBusy' = FALSE

NotifyFwReset ==
    /\ Idle /\ txSuspended
    /\ hwBusy' = FALSE /\ busyAcBitmap' = FALSE
    /\ ClearBusyFlags
    /\ atFw' = {} /\ free' = free \cup atFw
    /\ work' = <<"notFromSm">>
    /\ UNCHANGED <<qvars, smvars, portvars, extvars, eTxConnState>>

ClearQueues ==
    /\ Idle /\ txSuspended /\ eTxConnState = "CLOSE"
    /\ free' = free \cup UNION {{aQueues[q][i] : i \in 1..Len(aQueues[q])} : q \in QueueType}
    /\ aQueues' = [q \in QueueType |-> <<>>]
    /\ UNCHANGED <<inHand, inQueue, smvars, portvars, busyvars, atFw, extvars, eTxConnState, work>>

-----------------------------------------------------------------------------
Scheduling == RunSchedulerNotFromSm \/ Recheck \/ Visit \/ Requeue

Next ==
    \/ Scheduling
    \/ XmitMgmt \/ XmitMgmtError \/ XmitMgmtBusy
    \/ \E b \in CtrlBlk : Xmit(b) \/ XmitExternal(b) \/ TxComplete(b)
    \/ RequestSchedule \/ QueuesNotEmpty
    \/ \E s \in ConnState : SetConnState(s)
    \/ \E freed \in BOOLEAN : UpdateBackpressure(freed)
    \/ DataBusy
    \/ SuspendTx \/ ResumeTx \/ NotifyFwReset \/ ClearQueues

Spec == Init /\ [][Next]_vars

(* The driver's task and the network stack go on.  The driver's task is    *)
(* free again and again, and then serves its pending clients in turn; the  *)
(* hardware queue reports room (BusyQueueReleased of TxHwQueue); and       *)
(* packets offered to it again and again are taken at last.                *)
Fairness ==
    /\ WF_vars(Scheduling)
    /\ WF_vars(XmitMgmt \/ XmitMgmtError \/ XmitMgmtBusy)
    /\ SF_vars(XmitMgmt)
    /\ WF_vars(RequestSchedule)
    /\ SF_vars(QueuesNotEmpty)
    /\ SF_vars(UpdateBackpressure(TRUE))

FairSpec == Spec /\ Fairness
-----------------------------------------------------------------------------
(* The calls in progress: one, or the scheduler on behalf of               *)
(* runSchedulerNotFromSm, which goes on after it.                          *)
InScheduler == {"scheduler", "next", "xmit", "requeue"}
WorkStack ==
    {<<>>} \cup {<<c>> : c \in InScheduler \cup {"notFromSm", "recheck"}}
           \cup {<<c, "recheck">> : c \in InScheduler}

TypeOK ==
    /\ eSmState \in SmState /\ eTxConnState \in ConnState
    /\ aQueues \in [QueueType -> Seq(CtrlBlk)] /\ \A q \in QueueType : Len(aQueues[q]) <= Depth
    /\ aQueueBusy \in BOOLEAN /\ busyAcBitmap \in BOOLEAN /\ hwBusy \in BOOLEAN
    /\ aQueueEnabledBySM \in [QueueType -> BOOLEAN]
    /\ queuesMuxState \in {"MGMT", "DATA"}
    /\ bMgmtPortEnable \in BOOLEAN /\ txSuspended \in BOOLEAN
    /\ dataQueueEnabled \in BOOLEAN /\ pending \in BOOLEAN
    /\ free \subseteq CtrlBlk /\ atFw \subseteq CtrlBlk
    /\ work \in WorkStack
    /\ inHand \in CtrlBlk \cup {NoBlk} /\ inQueue \in QueueType
    /\ extPc \in {"idle", "schedule"}

(* Data packets may use the Tx path only while the connection is open, the *)
(* state machine has given it to them and no management packet is being    *)
(* sent; and when the driver's task rests, the port agrees with the state  *)
(* machine about who has the Tx path.                                      *)
PortFollowsSm ==
    /\ dataQueueEnabled => /\ eTxConnState = "OPEN" /\ eSmState = "OPEN_DATA"
                           /\ inHand = NoBlk /\ ~bMgmtPortEnable
    /\ Idle /\ ~txSuspended =>
          /\ dataQueueEnabled <=> eSmState = "OPEN_DATA"
          /\ bMgmtPortEnable <=> eSmState # "OPEN_DATA"

(* A packet is handed to the hardware only when the connection permits its *)
(* kind: none while it is closed, no EAPOL before association.             *)
OnlyPermittedSent ==
    inHand # NoBlk =>
        eTxConnState \in (IF inQueue = "MGMT" THEN {"MGMT", "EAPOL", "OPEN"} ELSE {"EAPOL", "OPEN"})

(* No wakeup is lost: the queues are busy only while TxHwQueue is bound to *)
(* report their AC, across STOP_NEXT, STOP_CURRENT, reports of other ACs   *)
(* and recoveries.                                                         *)
BusyHasWaker == aQueueBusy \/ busyAcBitmap => hwBusy

(* A control block has one owner at most: pool, firmware, the driver's     *)
(* hand, or one place of one queue.                                        *)
Places(b) ==
    Cardinality({p \in QueueType \X (1..Depth) :
                    LET s == aQueues[p[1]] IN p[2] <= Len(s) /\ s[p[2]] = b})
    + (IF b \in free THEN 1 ELSE 0) + (IF b \in atFw THEN 1 ELSE 0) + (IF b = inHand THEN 1 ELSE 0)

OneOwner == \A b \in CtrlBlk : Places(b) <= 1

(* What holds of the queues, the port and the state machine in every state.*)
Inv == TypeOK /\ PortFollowsSm /\ OneOwner

(* The packets of a queue leave it in the order they came, though refused  *)
(* ones return to it.                                                      *)
Line(q) == (IF inHand # NoBlk /\ inQueue = q THEN <<inHand>> ELSE <<>>) \o aQueues[q]

FirstComeFirstServed ==
    [][\A q \in QueueType :
          \/ Line(q)' = Line(q) \/ Line(q)' = <<>>
          \/ Line(q) # <<>> /\ Line(q)' = Tail(Line(q))
          \/ \E b \in CtrlBlk : Line(q)' = Append(Line(q), b)]_vars

(* Until the connection is open, a packet that may be sent is not left     *)
(* waiting: while one waits, packets are sent.                             *)
Waiting(q, conns) == eTxConnState \in conns /\ ~txSuspended /\ aQueues[q] # <<>>

PermittedPacketsProgress ==
    /\ <>[]Waiting("MGMT", {"MGMT", "EAPOL"}) => []<><<XmitMgmt>>_vars
    /\ <>[]Waiting("EAPOL", {"EAPOL"}) => []<><<XmitMgmt>>_vars
=============================================================================
