------------------------------- MODULE TxnQueue -------------------------------
(***************************************************************************)
(* Txn/TxnQueue.c on top of Txn/SdioBusDrv.c: the queues of bus            *)
(* transactions and the scheduler that hands them, one at a time, to the   *)
(* bus driver.  Only the WLAN function is ever opened, so there is one     *)
(* function.  The build is the one with asynchronous transactions          *)
(* (PROPRIETARY_SDIO) and with TI_DBG.                                     *)
(*                                                                         *)
(* Two contexts call the scheduler: the driver's task ("drv") and TxnDone  *)
(* ("ext"), where the SDIO driver reports asynchronous completions.  They  *)
(* preempt each other anywhere outside the critical sections, and the      *)
(* handlers are cut into steps there.  The scheduler is never reentered,   *)
(* so its local variables exist once.                                      *)
(***************************************************************************)
EXTENDS Naturals, Sequences, FiniteSets

CONSTANTS
    Txn,             \* the regular transactions
    Elp,             \* the single-step ones: the writes to the ELP register
    prio,            \* priority of each regular transaction, 0 is high
    Aggregated,      \* those with TXN_AGGREGATE_ON
    None,
    MaxRestarts,     \* how often the client calls txnQ_Restart
    MaxFailedStarts  \* how often starting the second part of a transaction fails

Prio == {0, 1}

ASSUME TxnAssumption ==
    /\ prio \in [Txn -> Prio] /\ Aggregated \subseteq Txn
    /\ Txn \cap Elp = {} /\ None \notin Txn \cup Elp \cup Prio
    /\ MaxRestarts \in Nat /\ MaxFailedStarts \in Nat

VARIABLES
    eState, aTxnQueues, pSingleStep,                 \* of the WLAN function
    hTxnDoneQueue, pCurrTxn, bSchedulerPend, pAggregQueue,
    sched,           \* the scheduler: where it is, in which context, its local variables
    eCurrTxnStatus, uTxnLength,  \* of the bus driver; what an aggregation has put into its buffer
    inFlight, partsLeft,         \* the transaction being transferred, and its parts to come
    pc,              \* where the two contexts are, and the transactions at hand
    issued,          \* the transactions the client waits for
    inTurn,          \* those of the aggregation that the client is issuing
    aggregate,       \* for a transaction that ends an aggregation, the rest of it
    restarts, failedStarts       \* so far

txnqvars == <<eState, aTxnQueues, pSingleStep, hTxnDoneQueue, pCurrTxn, bSchedulerPend, pAggregQueue>>
busvars  == <<eCurrTxnStatus, uTxnLength, inFlight, partsLeft, failedStarts>>
cltvars  == <<issued, inTurn, aggregate, restarts>>
vars     == <<txnqvars, sched, busvars, pc, cltvars>>

bSchedulerBusy == sched.at # "off"
SchedulerOff   == [at |-> "off", ctx |-> "drv", input |-> None, txn |-> None, rc |-> "PENDING"]

Init ==
    /\ eState = "STOPPED" /\ aTxnQueues = [p \in Prio |-> << >>] /\ pSingleStep = None
    /\ hTxnDoneQueue = << >> /\ pCurrTxn = None /\ bSchedulerPend = FALSE /\ pAggregQueue = None
    /\ sched = SchedulerOff
    /\ eCurrTxnStatus = "COMPLETE" /\ uTxnLength = << >> /\ inFlight = None /\ partsLeft = 0
    /\ pc = [drv |-> "idle", ext |-> "idle", input |-> None, done |-> None]
    /\ issued = {} /\ inTurn = << >> /\ aggregate = [t \in Txn |-> << >>]
    /\ restarts = 0 /\ failedStarts = 0

-----------------------------------------------------------------------------
(* txnQ_SelectTxn: within an aggregation only its queue counts; else a     *)
(* single step goes first, even if the function is stopped, and then the   *)
(* queues by priority.                                                     *)
CloseAggregation(t) == pAggregQueue' = IF t \in Aggregated THEN pAggregQueue ELSE None

SelectFromQueue(p) ==
    LET t == Head(aTxnQueues[p])
    IN  /\ aTxnQueues' = [aTxnQueues EXCEPT ![p] = Tail(@)]
        /\ sched' = [sched EXCEPT !.at = "transact", !.txn = t]

SelectNothing == sched' = [sched EXCEPT !.at = "drain"] /\ UNCHANGED <<aTxnQueues, pSingleStep, pAggregQueue>>

Waiting == {p \in Prio : aTxnQueues[p] # << >>}

SelectByPriority ==      \* mutant: the aggregation does not keep its queue
    \/ /\ pSingleStep # None
       /\ sched' = [sched EXCEPT !.at = "transact", !.txn = pSingleStep]
       /\ pSingleStep' = None
       /\ UNCHANGED <<aTxnQueues, pAggregQueue>>
    \/ /\ pSingleStep = None /\ eState = "RUNNING" /\ Waiting # {}
       /\ SelectFromQueue(IF 0 \in Waiting THEN 0 ELSE 1)
       /\ UNCHANGED <<pSingleStep, pAggregQueue>>
    \/ pSingleStep = None /\ (eState # "RUNNING" \/ Waiting = {}) /\ SelectNothing

SelectTxn ==
    \/ /\ pAggregQueue # None /\ pAggregQueue \in Waiting
       /\ SelectFromQueue(pAggregQueue)
       /\ CloseAggregation(sched'.txn)
       /\ UNCHANGED pSingleStep
    \/ pAggregQueue # None /\ pAggregQueue \notin Waiting /\ SelectNothing
    \/ /\ pAggregQueue = None /\ pSingleStep # None
       /\ sched' = [sched EXCEPT !.at = "transact", !.txn = pSingleStep]
       /\ pSingleStep' = None
       /\ UNCHANGED <<aTxnQueues, pAggregQueue>>
    \/ /\ pAggregQueue = None /\ pSingleStep = None /\ eState = "RUNNING" /\ Waiting # {}
       /\ LET p == IF 0 \in Waiting THEN 0 ELSE 1
          IN  /\ SelectFromQueue(p)
              /\ pAggregQueue' = IF sched'.txn \in Aggregated THEN p ELSE None
       /\ UNCHANGED pSingleStep
    \/ /\ pAggregQueue = None /\ pSingleStep = None
       /\ eState # "RUNNING" \/ Waiting = {}
       /\ SelectNothing

-----------------------------------------------------------------------------
(* txnQ_RunScheduler in context c, and its return.  A client's call has    *)
(* the transaction of the call as input.                                   *)
IgnoreCall == UNCHANGED bSchedulerPend     \* mutant
PendCall   == bSchedulerPend' = TRUE

Returned(c) == IF c = "drv" THEN [pc EXCEPT !.drv = "idle", !.input = None] ELSE [pc EXCEPT !.ext = "idle"]

CallBusy(c) ==
    /\ pc[c] = "call" /\ bSchedulerBusy
    /\ PendCall
    /\ pc' = Returned(c)
    /\ UNCHANGED <<eState, aTxnQueues, pSingleStep, hTxnDoneQueue, pCurrTxn, pAggregQueue, sched, busvars, cltvars>>

Call(c) ==
    /\ pc[c] = "call" /\ ~bSchedulerBusy
    /\ sched' = [at |-> "check", ctx |-> c, input |-> IF c = "drv" THEN pc.input ELSE None,
                 txn |-> None, rc |-> "PENDING"]
    /\ pc' = [pc EXCEPT ![c] = "sched"]
    /\ UNCHANGED <<txnqvars, busvars, cltvars>>

LeaveAnyway == sched.at = "leave"      \* mutant: calls that came meanwhile are not looked for
MayLeave    == sched.at = "leave" /\ ~bSchedulerPend

Leave ==
    /\ MayLeave
    /\ sched' = SchedulerOff
    /\ pc' = Returned(sched.ctx)
    /\ issued' = IF sched.rc # "PENDING" THEN issued \ {pc.input} ELSE issued
    /\ UNCHANGED <<txnqvars, busvars, inTurn, aggregate, restarts>>

RunAgain ==
    /\ sched.at = "leave" /\ bSchedulerPend
    /\ bSchedulerPend' = FALSE
    /\ sched' = [sched EXCEPT !.at = "check", !.input = None, !.txn = None]
    /\ UNCHANGED <<eState, aTxnQueues, pSingleStep, hTxnDoneQueue, pCurrTxn, pAggregQueue, busvars, pc, cltvars>>

(* txnQ_Scheduler: nothing to do while a transaction is in progress ...    *)
CheckNothing == "select"       \* mutant
AfterCheck == IF pCurrTxn # None THEN "leave" ELSE "select"

Check ==
    /\ sched.at = "check"
    /\ sched' = [sched EXCEPT !.at = AfterCheck]
    /\ UNCHANGED <<txnqvars, busvars, pc, cltvars>>

Select ==
    /\ sched.at = "select"
    /\ SelectTxn
    /\ UNCHANGED <<eState, hTxnDoneQueue, pCurrTxn, bSchedulerPend, busvars, pc, cltvars>>

(* ... else send one after the other.  busDrv_Transact copies the data     *)
(* into the DMA buffer, behind what an aggregation left there, and, unless *)
(* the aggregation goes on, sends it in at most two parts: the remainder,  *)
(* and the blocks, whose transfer is always asynchronous.  A single step   *)
(* is synchronous.                                                         *)
Transact ==
    /\ sched.at = "transact"
    /\ pCurrTxn' = sched.txn
    /\ uTxnLength' = IF sched.txn \in Aggregated THEN Append(uTxnLength, sched.txn) ELSE << >>
    /\ \/ /\ eCurrTxnStatus' \in IF sched.txn \in Aggregated THEN {"COMPLETE"} ELSE {"COMPLETE", "ERROR"}
          /\ sched' = [sched EXCEPT !.at = "status"]
          /\ UNCHANGED <<partsLeft, inFlight>>
       \/ /\ sched.txn \in Txn \ Aggregated
          /\ eCurrTxnStatus' = "PENDING" /\ inFlight' = sched.txn /\ partsLeft' \in {0, 1}
          /\ sched' = [sched EXCEPT !.at = "status"]
    /\ UNCHANGED <<eState, aTxnQueues, pSingleStep, hTxnDoneQueue, bSchedulerPend, pAggregQueue, pc, failedStarts, cltvars>>

(* busDrv_Transact returns eCurrTxnStatus, as it is by now.                *)
ReportEveryTxn == TRUE       \* mutant
NotTheInputTxn == sched.txn # sched.input

Status ==
    /\ sched.at = "status"
    /\ IF eCurrTxnStatus = "PENDING"
       THEN /\ sched' = [sched EXCEPT !.at = "drain", !.txn = None]
            /\ UNCHANGED <<pCurrTxn, hTxnDoneQueue>>
       ELSE /\ pCurrTxn' = None
            /\ hTxnDoneQueue' = IF NotTheInputTxn THEN Append(hTxnDoneQueue, sched.txn) ELSE hTxnDoneQueue
            /\ sched' = [sched EXCEPT !.at = "select", !.txn = None,
                                      !.rc = IF sched.txn = sched.input THEN eCurrTxnStatus ELSE @]
    /\ UNCHANGED <<eState, aTxnQueues, pSingleStep, bSchedulerPend, pAggregQueue, busvars, pc, cltvars>>

(* Then call back for the completed ones.                                  *)
Drain ==
    /\ sched.at = "drain"
    /\ IF hTxnDoneQueue = << >>
       THEN /\ sched' = [sched EXCEPT !.at = "leave"]
            /\ UNCHANGED <<hTxnDoneQueue, issued>>
       ELSE /\ hTxnDoneQueue' = Tail(hTxnDoneQueue)
            /\ issued' = issued \ {Head(hTxnDoneQueue)}
            /\ UNCHANGED sched
    /\ UNCHANGED <<eState, aTxnQueues, pSingleStep, pCurrTxn, bSchedulerPend, pAggregQueue, busvars, pc, inTurn, aggregate, restarts>>

-----------------------------------------------------------------------------
(* busDrv_TxnDoneCb: a part is done.  It has failed, or it was the last    *)
(* one, or the next one is sent, or could not be.                          *)
PartDone ==
    /\ inFlight # None /\ pc.ext = "idle"
    /\ \/ /\ inFlight' = None /\ partsLeft' = 0
          /\ pc' = [pc EXCEPT !.ext = "txnDone", !.done = inFlight]
          /\ UNCHANGED <<eCurrTxnStatus, failedStarts>>
       \/ /\ partsLeft > 0
          /\ partsLeft' = partsLeft - 1
          /\ eCurrTxnStatus' = "PENDING"
          /\ UNCHANGED <<pc, inFlight, failedStarts>>
       \/ /\ partsLeft > 0 /\ failedStarts < MaxFailedStarts
          /\ failedStarts' = failedStarts + 1
          /\ eCurrTxnStatus' = "ERROR"
          /\ inFlight' = None /\ partsLeft' = 0
          /\ pc' = [pc EXCEPT !.ext = "txnDone", !.done = inFlight]
    /\ UNCHANGED <<txnqvars, sched, uTxnLength, cltvars>>

(* txnQ_TxnDoneCb: the transaction goes to the TxnDone queue, or, if a     *)
(* restart waits for it, the queues are cleared and the client is told;    *)
(* then the bus is free and the scheduler runs.                            *)
TxnDoneCb ==
    /\ pc.ext = "txnDone" /\ eState # "RESTART"
    /\ hTxnDoneQueue' = Append(hTxnDoneQueue, pc.done)
    /\ pc' = [pc EXCEPT !.ext = "free", !.done = None]
    /\ UNCHANGED <<eState, aTxnQueues, pSingleStep, pCurrTxn, bSchedulerPend, pAggregQueue, sched, busvars, cltvars>>

(* txnQ_ClearQueues drops what is queued; nobody is called back for it.    *)
ClearQueues ==
    /\ pSingleStep' = None
    /\ aTxnQueues' = [p \in Prio |-> << >>]
    /\ eState' = "RUNNING"
    /\ issued' = {}
    /\ UNCHANGED <<hTxnDoneQueue, pCurrTxn, bSchedulerPend, pAggregQueue, inTurn, aggregate>>

RestartDone ==
    /\ pc.ext = "txnDone" /\ eState = "RESTART"
    /\ ClearQueues
    /\ pc' = [pc EXCEPT !.ext = "free", !.done = None, !.drv = "idle"]
    /\ UNCHANGED <<sched, busvars, restarts>>

BusFree ==
    /\ pc.ext = "free"
    /\ pCurrTxn' = None
    /\ pc' = [pc EXCEPT !.ext = "call"]
    /\ UNCHANGED <<eState, aTxnQueues, pSingleStep, hTxnDoneQueue, bSchedulerPend, pAggregQueue, sched, busvars, cltvars>>

-----------------------------------------------------------------------------
(* The client's calls, in the driver's task.  It issues an aggregation in  *)
(* one go, to one queue, but may wake the chip or let it sleep meanwhile.  *)
ClientCalls(input) == pc' = [pc EXCEPT !.drv = "call", !.input = input]

(* txnQ_Transact.                                                          *)
TransactRegular(t) ==
    /\ pc.drv = "idle" /\ t \notin issued
    /\ \A i \in 1..Len(inTurn) : inTurn[i] # t /\ prio[inTurn[i]] = prio[t]
    /\ aTxnQueues' = [aTxnQueues EXCEPT ![prio[t]] = Append(@, t)]
    /\ issued' = issued \cup {t}
    /\ inTurn' = IF t \in Aggregated THEN Append(inTurn, t) ELSE << >>
    /\ aggregate' = [aggregate EXCEPT ![t] = inTurn]
    /\ ClientCalls(t)
    /\ UNCHANGED <<eState, pSingleStep, hTxnDoneQueue, pCurrTxn, bSchedulerPend, pAggregQueue, sched, busvars, restarts>>

(* A single step that still waits is forgotten.                            *)
TransactSingleStep(t) ==
    /\ pc.drv = "idle" /\ t \notin issued
    /\ pSingleStep' = t
    /\ issued' = (issued \ {pSingleStep}) \cup {t}
    /\ ClientCalls(t)
    /\ UNCHANGED <<eState, aTxnQueues, hTxnDoneQueue, pCurrTxn, bSchedulerPend, pAggregQueue, sched, busvars,
                   inTurn, aggregate, restarts>>

Run ==
    /\ pc.drv = "idle" /\ eState = "STOPPED"
    /\ eState' = "RUNNING"
    /\ ClientCalls(None)
    /\ UNCHANGED <<aTxnQueues, pSingleStep, hTxnDoneQueue, pCurrTxn, bSchedulerPend, pAggregQueue, sched, busvars, cltvars>>

Stop ==
    /\ pc.drv = "idle" /\ eState = "RUNNING"
    /\ eState' = "STOPPED"
    /\ UNCHANGED <<aTxnQueues, pSingleStep, hTxnDoneQueue, pCurrTxn, bSchedulerPend, pAggregQueue, sched, busvars, pc, cltvars>>

(* txnQ_Restart: at once, or when the current transaction is done.         *)
Restart ==
    /\ restarts < MaxRestarts /\ pc.drv = "idle" /\ inTurn = << >>
    /\ IF pCurrTxn = None
       THEN ClearQueues /\ UNCHANGED pc
       ELSE /\ eState' = "RESTART"
            /\ pc' = [pc EXCEPT !.drv = "restart"]
            /\ UNCHANGED <<aTxnQueues, pSingleStep, hTxnDoneQueue, pCurrTxn, bSchedulerPend, pAggregQueue,
                           issued, inTurn, aggregate>>
    /\ restarts' = restarts + 1
    /\ UNCHANGED <<sched, busvars>>

(* twIf_PendRestratTimeout: the client's guard timer ends the wait, even   *)
(* with a transaction on the bus.                                          *)
RestartTimeout ==
    /\ pc.drv = "restart"
    /\ ClearQueues
    /\ pc' = [pc EXCEPT !.drv = "idle"]
    /\ UNCHANGED <<sched, busvars, restarts>>

-----------------------------------------------------------------------------
Scheduler == RunAgain \/ Leave \/ Check \/ Select \/ Transact \/ Status \/ Drain
TxnDone   == TxnDoneCb \/ RestartDone \/ BusFree

Next ==
    \/ \E c \in {"drv", "ext"} : CallBusy(c) \/ Call(c)
    \/ Scheduler
    \/ PartDone
    \/ TxnDone
    \/ \E t \in Txn : TransactRegular(t)
    \/ \E t \in Elp : TransactSingleStep(t)
    \/ Run \/ Stop \/ Restart \/ RestartTimeout

Spec == Init /\ [][Next]_vars

(* Both contexts go on, the bus answers, and the client ends what it has   *)
(* begun to aggregate, whatever single steps it takes in between.          *)
Fairness ==
    /\ WF_vars(Scheduler) /\ WF_vars(PartDone) /\ WF_vars(TxnDone)
    /\ \A c \in {"drv", "ext"} : WF_vars(CallBusy(c) \/ Call(c))
    /\ SF_vars(inTurn # << >> /\ \E t \in Txn : TransactRegular(t))

FairSpec == Spec /\ Fairness
-----------------------------------------------------------------------------
AnyTxn == Txn \cup Elp \cup {None}

SchedType ==
    [at : {"off", "check", "select", "transact", "status", "drain", "leave"},
     ctx : {"drv", "ext"}, input : AnyTxn, txn : AnyTxn, rc : {"COMPLETE", "PENDING", "ERROR"}]

PcType ==
    [drv : {"idle", "call", "sched", "restart"},
     ext : {"idle", "txnDone", "free", "call", "sched"}, input : AnyTxn, done : AnyTxn]

TypeOK ==
    /\ eState \in {"STOPPED", "RUNNING", "RESTART"}
    /\ aTxnQueues \in [Prio -> Seq(Txn)] /\ hTxnDoneQueue \in Seq(Txn \cup Elp)
    /\ pSingleStep \in Elp \cup {None} /\ pCurrTxn \in AnyTxn /\ pAggregQueue \in Prio \cup {None}
    /\ bSchedulerPend \in BOOLEAN /\ (bSchedulerPend => bSchedulerBusy)
    /\ sched \in SchedType /\ pc \in PcType
    /\ eCurrTxnStatus \in {"COMPLETE", "PENDING", "ERROR"} /\ partsLeft \in {0, 1}
    /\ inFlight \in Txn \cup {None} /\ uTxnLength \in Seq(Aggregated)
    /\ restarts \in 0..MaxRestarts /\ failedStarts \in 0..MaxFailedStarts
    /\ issued \subseteq Txn \cup Elp /\ inTurn \in Seq(Aggregated) /\ aggregate \in [Txn -> Seq(Aggregated)]

(* "It's assumed that this function is called only when idle (i.e.         *)
(* previous Txn is done)" (busDrv_Transact).                               *)
CalledWhenIdle == sched.at = "transact" => inFlight = None /\ pc.ext \notin {"txnDone", "free"}

(* A transaction is neither lost nor duplicated: one that the client waits *)
(* for is in exactly one place, and any other is nowhere.                  *)
Places(t) ==
    LET queued(s) == Cardinality({i \in 1..Len(s) : s[i] = t})
        one(holds) == IF holds THEN 1 ELSE 0
    IN  queued(aTxnQueues[0]) + queued(aTxnQueues[1]) + queued(hTxnDoneQueue)
        + one(sched.txn = t /\ ~(sched.at = "status" /\ eCurrTxnStatus = "PENDING"))
        + one(pSingleStep = t)
        + one(inFlight = t)
        + one(pc.done = t)
        + one(pc.input = t /\ bSchedulerBusy /\ sched.rc # "PENDING")

InOnePlace == \A t \in Txn \cup Elp : Places(t) = IF t \in issued THEN 1 ELSE 0

(* A restart makes a stale or a second copy of a transaction possible, but *)
(* never loses one that the client has issued since, as long as no part of *)
(* a transaction has failed to start.                                      *)
NothingLost == failedStarts = 0 => \A t \in issued : Places(t) > 0

(* The bus never idles over waiting work: when the scheduler is off, a     *)
(* context is about to call it if there is something to send or to report, *)
(* and if the bus is taken, its transaction is being carried out.          *)
Selectable ==
    IF pAggregQueue # None THEN pAggregQueue \in Waiting
    ELSE pSingleStep # None \/ (eState = "RUNNING" /\ Waiting # {})

NoLostWakeup ==
    ~bSchedulerBusy =>
        /\ pCurrTxn = None /\ Selectable => "call" \in {pc.drv, pc.ext}
        /\ hTxnDoneQueue # << >> => pc.ext \in {"free", "call"} \/ pc.drv = "call"
        /\ pCurrTxn # None => inFlight # None \/ pc.ext \in {"txnDone", "free"}

(* What holds of the scheduler in every state, whichever context calls it. *)
Inv == TypeOK /\ CalledWhenIdle /\ NoLostWakeup

(* What goes over the bus is an aggregation as the client issued it:       *)
(* nothing comes between its packets, and nothing is left over from an     *)
(* earlier one.                                                            *)
AggregateSentWhole ==
    /\ sched.at = "transact" /\ sched.txn \in Txn \ Aggregated => uTxnLength = aggregate[sched.txn]
    /\ sched.at = "transact" /\ sched.txn \in Elp => uTxnLength = << >>

(* While the function runs, every transaction is completed, unless more    *)
(* urgent ones, single steps first and then by priority, keep coming.      *)
MoreUrgent(t) == IF t \in Elp THEN {} ELSE Elp \cup {u \in Txn : prio[u] < prio[t]}

EveryTxnCompletes ==
    \A t \in Txn \cup Elp :
        /\ <>[](eState = "RUNNING")
        /\ <>[][issued' \cap MoreUrgent(t) \subseteq issued]_issued
        => (t \in issued ~> t \notin issued)
=============================================================================
