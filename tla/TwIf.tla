-------------------------------- MODULE TwIf --------------------------------
(***************************************************************************)
(* TWD/TwIf/TwIf.c between its clients and the queues of bus transactions, *)
(* with TWD/FW_Transfer/FwEvent.c, which reads the firmware's interrupts   *)
(* through it.  TwIf counts who needs the chip awake, lets it sleep when   *)
(* nobody does and wakes it up for a transaction; completions pass from    *)
(* the bus to the driver's task through its TxnDone queue; a restart waits *)
(* for the transaction on the bus or for a guard timer.                    *)
(*                                                                         *)
(* The queues and the scheduler of TxnQueue are taken by what they promise *)
(* there: one transaction at a time, single steps first, nothing regular   *)
(* while stopped.  The driver's task is cut into steps wherever another    *)
(* context may matter.  A transaction is [txn, cb, fresh]: with a callback *)
(* or without, and not fresh once the driver was restarted after it was    *)
(* sent.                                                                   *)
(***************************************************************************)
EXTENDS Naturals, Sequences, FiniteSets

CONSTANTS
    Requests,        \* the clients' transactions, each with a callback or without
    Events,          \* of the firmware, each with a handler that reads from the chip
    None,
    MaxHolders,      \* clients that keep the chip awake at the same time
    MaxErrors        \* transactions that fail, and restarts of a driver that has not failed

Txn == {"status"} \cup Events \cup Requests
BusEntry == [txn : Txn, cb : BOOLEAN, fresh : BOOLEAN]

ASSUME TwIfAssumption ==
    /\ {"status", "hw"} \cap (Events \cup Requests) = {} /\ Events \cap Requests = {}
    /\ IsFiniteSet(Events) /\ IsFiniteSet(Requests)
    /\ None \notin BusEntry /\ None \notin {"AWAKE", "SLEEP"}
    /\ {MaxHolders, MaxErrors} \subseteq Nat

VARIABLES
    eState, uAwakeReqCount, uPendingTxnCount, hTxnDoneQueue, bTxnDoneInRecovery,
    twifPending,                       \* the context engine is to call TwIf
    guardTicking, guardQueued,         \* the guard timer runs; its expiry waits for the driver's task
    txnQState, queue, pSingleStep,     \* of TxnQueue
    onBus, busDone,                    \* its current transaction; it was reported but not yet cleared
    reported,                          \* its TxnDone queue
    elp, waking, intr, irq,            \* of the chip: ELP register, waking up, interrupt status, interrupt
    eSmState, bIntrPending, uNumPendHndlrs, uEventVector, uEventMask, todo,    \* of FwEvent
    pc, ret,                           \* where the driver's task is, and where it returns to
    holders, phase,                    \* clients that hold the chip awake; phase of the driver
    failed, errors,          \* a failure was reported; so far
    late, elpLost                      \* a remainder of an earlier life came; a write to ELP failed

twifvars == <<eState, uAwakeReqCount, uPendingTxnCount, hTxnDoneQueue, bTxnDoneInRecovery, twifPending>>
guardvars == <<guardTicking, guardQueued>>
quevars  == <<txnQState, queue, pSingleStep>>
busvars  == <<onBus, busDone, reported>>
chipvars == <<elp, waking, intr, irq>>
fwvars   == <<eSmState, bIntrPending, uNumPendHndlrs, uEventVector, uEventMask, todo>>
taskvars == <<pc, ret>>
drvvars  == <<holders, phase>>
errvars  == <<failed, errors, late, elpLost>>
vars == <<twifvars, guardvars, quevars, busvars, chipvars, fwvars, taskvars, drvvars, errvars>>

Up == phase \in {"boot", "config", "run"}

(* A bound: a life of the driver that a remainder of an earlier one came   *)
(* into is not followed further.                                           *)
Followed == ~(late /\ Up)

Entry(t, cb) == [txn |-> t, cb |-> cb, fresh |-> TRUE]
Old(e)   == [e EXCEPT !.fresh = FALSE]
OldAll(s) == [i \in 1..Len(s) |-> Old(s[i])]

Init ==
    /\ eState = "SLEEP" /\ uAwakeReqCount = 0 /\ uPendingTxnCount = 0 /\ hTxnDoneQueue = << >>
    /\ bTxnDoneInRecovery = FALSE /\ twifPending = FALSE
    /\ guardTicking = FALSE /\ guardQueued = FALSE
    /\ txnQState = "RUNNING" /\ queue = << >> /\ pSingleStep = None
    /\ onBus = None /\ busDone = FALSE /\ reported = << >>
    /\ elp = "AWAKE" /\ waking = FALSE /\ intr = {} /\ irq = FALSE
    /\ eSmState = "IDLE" /\ bIntrPending = FALSE /\ uNumPendHndlrs = 0 /\ uEventVector = {} /\ uEventMask = {}
    /\ todo = {}
    /\ pc = "idle" /\ ret = "idle"
    /\ holders = 0 /\ phase = "off"
    /\ failed = FALSE /\ errors = 0 /\ late = FALSE /\ elpLost = FALSE

-----------------------------------------------------------------------------
(* txnQ_Transact of a write to ELP: done at once, or when the scheduler    *)
(* comes to it; one that still waits is overwritten.  Its status is not    *)
(* looked at.  The chip interrupts when it has woken up; one that has an    *)
(* event to report is awake and has interrupted by itself.                 *)
Written(v) == elp' = v /\ waking' = (v = "AWAKE" /\ intr = {})

WriteElpReg(v) ==
    \/ onBus = None /\ Written(v) /\ pSingleStep' = None
    \/ pSingleStep' = v /\ UNCHANGED <<elp, waking>>

(* twIf_HandleSmEvent; the TxnQueue it leaves running, stopped or alone.   *)
SmStart ==
    IF eState = "SLEEP"
    THEN eState' = "WAIT_HW" /\ WriteElpReg("AWAKE") /\ UNCHANGED txnQState
    ELSE UNCHANGED <<eState, txnQState, pSingleStep, elp, waking>>

RunOnlyFromSleep == IF eState = "SLEEP" THEN "RUNNING" ELSE txnQState      \* mutant
RunOnceAwake     == IF eState = "AWAKE" THEN txnQState ELSE "RUNNING"

SmHwAvailable ==
    /\ eState' = "AWAKE"
    /\ txnQState' = RunOnceAwake
    /\ IF eState = "SLEEP" THEN WriteElpReg("AWAKE") ELSE UNCHANGED <<pSingleStep, elp, waking>>

StopNothing == UNCHANGED txnQState                                         \* mutant
StopTxnQ    == txnQState' = "STOPPED"

SmSleep ==
    IF eState = "AWAKE"
    THEN eState' = "SLEEP" /\ StopTxnQ /\ WriteElpReg("SLEEP")
    ELSE UNCHANGED <<eState, txnQState, pSingleStep, elp, waking>>

SleepIfUnused(awake, pending) ==
    IF awake = 0 /\ pending = 0 THEN SmSleep ELSE UNCHANGED <<eState, txnQState, pSingleStep, elp, waking>>

(* twIf_SendTransaction: the transaction waits for the bus or is on its    *)
(* way, or it was completed at once, for better or worse; one that is      *)
(* still linked in a TxnDone queue is refused.  FwEvent's read goes before *)
(* the others.                                                             *)
Linked(t) == \E i \in 1..Len(hTxnDoneQueue) : hTxnDoneQueue[i].txn = t
LinkedBelow(t) == \E i \in 1..Len(reported) : reported[i].txn = t
Refused(e) == Linked(e.txn) \/ LinkedBelow(e.txn)
Read == Entry("status", TRUE)
BusIdle == txnQState = "RUNNING" /\ onBus = None /\ pSingleStep = None /\ queue = << >>

SendPending(e) ==
    /\ ~Refused(e)
    /\ queue' = IF e = Read THEN <<e>> \o queue ELSE Append(queue, e)
    /\ uPendingTxnCount' = uPendingTxnCount + 1
    /\ SmStart
    /\ UNCHANGED <<failed, errors>>

SendComplete(e) ==
    /\ ~Refused(e) /\ BusIdle
    /\ SleepIfUnused(uAwakeReqCount, uPendingTxnCount)
    /\ UNCHANGED <<queue, uPendingTxnCount, failed, errors>>

SendError(e) ==
    /\ Refused(e) \/ (BusIdle /\ errors < MaxErrors)
    /\ errors' = IF Refused(e) THEN errors ELSE errors + 1
    /\ failed' = TRUE
    /\ SleepIfUnused(uAwakeReqCount, uPendingTxnCount)
    /\ UNCHANGED <<queue, uPendingTxnCount>>

-----------------------------------------------------------------------------
(* The clients' calls, by themselves or from a callback.                   *)
TaskFree == pc \in {"idle", "check"}

Entries == {queue[i] : i \in 1..Len(queue)} \cup {reported[i] : i \in 1..Len(reported)}
           \cup {hTxnDoneQueue[i] : i \in 1..Len(hTxnDoneQueue)}
           \cup (IF onBus = None \/ busDone THEN {} ELSE {onBus})
Outstanding == {e.txn : e \in {x \in Entries : x.fresh}}

ClientSends(t, cb) ==
    /\ Followed /\ Up /\ TaskFree /\ ~failed /\ t \notin Outstanding
    /\ LET e == Entry(t, cb) IN SendPending(e) \/ SendComplete(e) \/ SendError(e)
    /\ UNCHANGED <<uAwakeReqCount, hTxnDoneQueue, bTxnDoneInRecovery, twifPending, guardvars, busvars, intr, irq,
                   fwvars, taskvars, drvvars, late, elpLost>>

Awake == uAwakeReqCount' = uAwakeReqCount + 1

KeepCount == uAwakeReqCount                                                \* mutant
LessOne   == IF uAwakeReqCount > 0 THEN uAwakeReqCount - 1 ELSE 0

Sleep ==
    /\ uAwakeReqCount' = LessOne
    /\ SleepIfUnused(uAwakeReqCount', uPendingTxnCount)

ClientAwake ==
    /\ Followed /\ Up /\ TaskFree /\ holders < MaxHolders
    /\ holders' = holders + 1
    /\ Awake
    /\ UNCHANGED <<eState, uPendingTxnCount, hTxnDoneQueue, bTxnDoneInRecovery, twifPending, guardvars, quevars,
                   busvars, chipvars, fwvars, taskvars, phase, errvars>>

ClientSleep ==
    /\ Followed /\ Up /\ TaskFree /\ holders > 0
    /\ holders' = holders - 1
    /\ Sleep
    /\ UNCHANGED <<uPendingTxnCount, hTxnDoneQueue, bTxnDoneInRecovery, twifPending, guardvars, queue,
                   busvars, intr, irq, fwvars, taskvars, phase, errvars>>

-----------------------------------------------------------------------------
(* TxnQueue's scheduler, in whatever context: a single step is synchronous *)
(* and may fail, a regular transaction is carried out at once or goes on   *)
(* the bus.                                                                *)
Fails == errors < MaxErrors /\ errors' = errors + 1

(* The read of the firmware status takes and clears what is interrupting.  *)
Transferred(e) ==
    IF e = Read
    THEN uEventVector' = intr \ {"hw"} /\ intr' = {}
    ELSE UNCHANGED <<uEventVector, intr>>

SendElp ==
    /\ Followed /\ pSingleStep # None /\ onBus = None
    /\ pSingleStep' = None
    /\ \/ Written(pSingleStep) /\ UNCHANGED <<errors, elpLost>>
       \/ Fails /\ elpLost' = TRUE /\ UNCHANGED <<elp, waking>>
    /\ UNCHANGED <<twifvars, guardvars, txnQState, queue, busvars, intr, irq, fwvars, taskvars, drvvars, failed, late>>

Report(e, status) ==
    reported' = IF LinkedBelow(e.txn) THEN reported
                ELSE Append(reported, [txn |-> e.txn, cb |-> e.cb, fresh |-> e.fresh, status |-> status])

SendNext ==
    /\ Followed /\ pSingleStep = None /\ txnQState = "RUNNING" /\ onBus = None /\ queue # << >>
    /\ queue' = Tail(queue)
    /\ LET e == Head(queue)
       IN  \/ onBus' = e /\ UNCHANGED <<reported, errors, uEventVector, intr>>
           \/ Report(e, "OK") /\ Transferred(e) /\ UNCHANGED <<onBus, errors>>
           \/ Report(e, "ERROR") /\ Fails /\ UNCHANGED <<onBus, uEventVector, intr>>
    /\ UNCHANGED <<twifvars, guardvars, txnQState, pSingleStep, busDone, elp, waking, irq, eSmState, bIntrPending,
                   uNumPendHndlrs, uEventMask, todo, taskvars, drvvars, failed, late, elpLost>>

(* txnQ_ClearQueues and txnQ_TxnDoneCb: the transaction is reported, or    *)
(* ends a restart; then the bus is free.                                   *)
ClearQueues == txnQState' = "RUNNING" /\ queue' = << >> /\ pSingleStep' = None

BusDone ==
    /\ Followed /\ onBus # None /\ ~busDone /\ txnQState # "RESTART"
    /\ busDone' = TRUE
    /\ \/ Report(onBus, "OK") /\ Transferred(onBus) /\ UNCHANGED errors
       \/ Report(onBus, "ERROR") /\ Fails /\ UNCHANGED <<uEventVector, intr>>
    /\ late' = (late \/ ~onBus.fresh)
    /\ UNCHANGED <<twifvars, guardvars, quevars, onBus, elp, waking, irq, eSmState, bIntrPending,
                   uNumPendHndlrs, uEventMask, todo, taskvars, drvvars, failed, elpLost>>

RestartDone ==
    /\ Followed /\ onBus # None /\ ~busDone /\ txnQState = "RESTART"
    /\ busDone' = TRUE
    /\ ClearQueues
    /\ bTxnDoneInRecovery' = TRUE /\ twifPending' = TRUE
    /\ UNCHANGED <<eState, uAwakeReqCount, uPendingTxnCount, hTxnDoneQueue, guardvars, onBus, reported, chipvars,
                   fwvars, taskvars, drvvars, errvars>>

BusFree ==
    /\ Followed /\ busDone /\ busDone' = FALSE /\ onBus' = None
    /\ UNCHANGED <<twifvars, guardvars, quevars, reported, chipvars, fwvars, taskvars, drvvars, errvars>>

(* twIf_TxnDoneCb.                                                         *)
Less(n) == IF n > 0 THEN n - 1 ELSE n

TxnDoneCb ==
    /\ Followed /\ reported # << >>
    /\ reported' = Tail(reported)
    /\ LET e == Head(reported)
       IN  IF ~e.cb
           THEN uPendingTxnCount' = Less(uPendingTxnCount) /\ UNCHANGED hTxnDoneQueue
           ELSE /\ hTxnDoneQueue' = IF Linked(e.txn) THEN hTxnDoneQueue ELSE Append(hTxnDoneQueue, e)
                /\ UNCHANGED uPendingTxnCount
    /\ twifPending' = TRUE
    /\ late' = (late \/ ~Head(reported).fresh)
    /\ UNCHANGED <<eState, uAwakeReqCount, bTxnDoneInRecovery, guardvars, quevars, onBus, busDone, chipvars, fwvars,
                   taskvars, drvvars, failed, errors, elpLost>>

-----------------------------------------------------------------------------
(* TWD_StopComplete: the driver goes on to power off the chip.             *)
RecoveryCb == phase' = IF phase = "stopping" THEN "off" ELSE phase

HandleRecovery ==
    /\ Followed /\ pc = "idle" /\ twifPending /\ bTxnDoneInRecovery
    /\ twifPending' = FALSE /\ bTxnDoneInRecovery' = FALSE
    /\ guardTicking' = FALSE
    /\ RecoveryCb
    /\ late' = (late \/ Up)
    /\ UNCHANGED <<eState, uAwakeReqCount, uPendingTxnCount, hTxnDoneQueue, guardQueued, quevars, busvars, chipvars,
                   fwvars, taskvars, holders, failed, errors, elpLost>>

HandleTxnDone ==
    /\ Followed /\ pc = "idle" /\ twifPending /\ ~bTxnDoneInRecovery
    /\ twifPending' = FALSE
    /\ pc' = "done"
    /\ UNCHANGED <<eState, uAwakeReqCount, uPendingTxnCount, hTxnDoneQueue, bTxnDoneInRecovery, guardvars, quevars,
                   busvars, chipvars, fwvars, ret, drvvars, errvars>>

(* The loop of twIf_HandleTxnDone: the callback of a client may make calls *)
(* of its own, FwEvent's go on with its state machine.                     *)
ThenCheck == pc' = "check" /\ UNCHANGED <<uNumPendHndlrs, ret>>

CountDown ==
    /\ uNumPendHndlrs' = uNumPendHndlrs - 1
    /\ IF uNumPendHndlrs = 1 THEN pc' = "fw" /\ ret' = "check" ELSE pc' = "check" /\ UNCHANGED ret

CompletedUnchecked == CountDown                                            \* mutant
HandlerCompleted ==
    IF uNumPendHndlrs = 0 \/ eSmState # "WAIT_HANDLE_COMPLT"
    THEN ThenCheck
    ELSE CountDown

Dequeue ==
    /\ Followed /\ pc = "done" /\ hTxnDoneQueue # << >>
    /\ hTxnDoneQueue' = Tail(hTxnDoneQueue)
    /\ uPendingTxnCount' = Less(uPendingTxnCount)
    /\ LET e == Head(hTxnDoneQueue)
       IN  /\ failed' = (failed \/ e.status = "ERROR")
           /\ CASE e.status = "ERROR"  -> pc' = "idle" /\ UNCHANGED <<uNumPendHndlrs, ret>>
                [] e.status = "OK" /\ e.txn = "status" -> pc' = "fw" /\ ret' = "check" /\ UNCHANGED uNumPendHndlrs
                [] e.status = "OK" /\ e.txn \in Events -> HandlerCompleted
                [] e.status = "OK" /\ e.txn \in Requests -> ThenCheck
    /\ UNCHANGED <<eState, uAwakeReqCount, bTxnDoneInRecovery, twifPending, guardvars, quevars, busvars, chipvars,
                   eSmState, bIntrPending, uEventVector, uEventMask, todo, drvvars, errors, late, elpLost>>

CheckSleep ==
    /\ Followed /\ (pc = "check" \/ (pc = "done" /\ hTxnDoneQueue = << >>))
    /\ pc' = IF pc = "check" THEN "done" ELSE "idle"
    /\ SleepIfUnused(uAwakeReqCount, uPendingTxnCount)
    /\ UNCHANGED <<uAwakeReqCount, uPendingTxnCount, hTxnDoneQueue, bTxnDoneInRecovery, twifPending, guardvars, queue,
                   busvars, intr, irq, fwvars, ret, drvvars, errvars>>

-----------------------------------------------------------------------------
(* FwEvent: fwEvent_NewEvent, when the context engine serves the interrupt. *)
ForgetPending == UNCHANGED bIntrPending                                    \* mutant
KeepPending   == bIntrPending' = TRUE

NewEvent ==
    /\ Followed /\ pc = "idle" /\ irq /\ phase \in {"config", "run"}
    /\ irq' = FALSE
    /\ IF eSmState = "IDLE"
       THEN pc' = "fw" /\ ret' = "idle" /\ UNCHANGED bIntrPending
       ELSE KeepPending /\ UNCHANGED taskvars
    /\ UNCHANGED <<twifvars, guardvars, quevars, busvars, elp, waking, intr, eSmState, uNumPendHndlrs, uEventVector,
                   uEventMask, todo, drvvars, errvars>>

(* fwEvent_StateMachine: the chip is awake since it interrupted, and the   *)
(* interrupt status is read.                                               *)
FwIdle ==
    /\ Followed /\ pc = "fw" /\ eSmState = "IDLE"
    /\ Awake
    /\ SmHwAvailable
    /\ pc' = "fwRead"
    /\ UNCHANGED <<uPendingTxnCount, hTxnDoneQueue, bTxnDoneInRecovery, twifPending, guardvars, queue, busvars,
                   intr, irq, fwvars, ret, drvvars, errvars>>

(* fwEvent_Stop.                                                           *)
FwStop ==
    /\ eSmState' = "IDLE" /\ bIntrPending' = FALSE /\ uNumPendHndlrs' = 0
    /\ uEventMask' = {} /\ uEventVector' = {} /\ todo' = {}

StayAsItIs == UNCHANGED eSmState                                           \* mutant
AwaitInfo  == eSmState' = "WAIT_INTR_INFO"

FwRead ==
    /\ Followed /\ pc = "fwRead"
    /\ \/ /\ SendPending(Read)
          /\ AwaitInfo /\ pc' = ret
          /\ UNCHANGED <<bIntrPending, uNumPendHndlrs, uEventVector, uEventMask, todo, intr>>
       \/ /\ SendComplete(Read)
          /\ Transferred(Read)
          /\ AwaitInfo /\ pc' = "fw"
          /\ UNCHANGED <<bIntrPending, uNumPendHndlrs, uEventMask, todo>>
       \/ SendError(Read) /\ FwStop /\ pc' = ret /\ UNCHANGED intr
    /\ UNCHANGED <<uAwakeReqCount, hTxnDoneQueue, bTxnDoneInRecovery, twifPending, guardvars, busvars, irq, ret,
                   drvvars, late, elpLost>>

(* fwEvent_CallHandlers, one handler after the other.                      *)
FwHandleEvents ==
    /\ Followed /\ pc = "fw" /\ eSmState = "WAIT_INTR_INFO"
    /\ todo' = uEventVector \cap uEventMask /\ uEventVector' = {}
    /\ uNumPendHndlrs' = 0
    /\ pc' = "handlers"
    /\ UNCHANGED <<twifvars, guardvars, quevars, busvars, chipvars, eSmState, bIntrPending, uEventMask, ret,
                   drvvars, errvars>>

FwHandler(e) ==
    /\ Followed /\ pc = "handlers" /\ e \in todo
    /\ todo' = todo \ {e}
    /\ \/ SendPending(Entry(e, TRUE)) /\ uNumPendHndlrs' = uNumPendHndlrs + 1
       \/ (SendComplete(Entry(e, TRUE)) \/ SendError(Entry(e, TRUE))) /\ UNCHANGED uNumPendHndlrs
    /\ UNCHANGED <<uAwakeReqCount, hTxnDoneQueue, bTxnDoneInRecovery, twifPending, guardvars, busvars, intr, irq,
                   eSmState, bIntrPending, uEventVector, uEventMask, taskvars, drvvars, late, elpLost>>

FwHandled ==
    /\ Followed /\ pc = "handlers" /\ todo = {}
    /\ eSmState' = "WAIT_HANDLE_COMPLT"
    /\ pc' = IF uNumPendHndlrs = 0 THEN "fw" ELSE ret
    /\ UNCHANGED <<twifvars, guardvars, quevars, busvars, chipvars, bIntrPending, uNumPendHndlrs, uEventVector,
                   uEventMask, todo, ret, drvvars, errvars>>

FwReadAgain ==
    /\ Followed /\ pc = "fw" /\ eSmState = "WAIT_HANDLE_COMPLT" /\ bIntrPending
    /\ bIntrPending' = FALSE
    /\ SmHwAvailable
    /\ pc' = "fwRead"
    /\ UNCHANGED <<uAwakeReqCount, uPendingTxnCount, hTxnDoneQueue, bTxnDoneInRecovery, twifPending, guardvars, queue,
                   busvars, intr, irq, eSmState, uNumPendHndlrs, uEventVector, uEventMask, todo, ret, drvvars, errvars>>

FwFinished ==
    /\ Followed /\ pc = "fw" /\ eSmState = "WAIT_HANDLE_COMPLT" /\ ~bIntrPending
    /\ Sleep
    /\ eSmState' = "IDLE"
    /\ pc' = ret
    /\ UNCHANGED <<uPendingTxnCount, hTxnDoneQueue, bTxnDoneInRecovery, twifPending, guardvars, queue, busvars,
                   intr, irq, bIntrPending, uNumPendHndlrs, uEventVector, uEventMask, todo, ret, drvvars, errvars>>

-----------------------------------------------------------------------------
(* The chip: it wakes up when ELP asks for it, and its firmware has events. *)
(* Either is an edge of its interrupt unless the line is up already: it is *)
(* until the status is read.                                               *)
Raises(e) == intr' = intr \cup {e} /\ irq' = (irq \/ intr = {})

ChipWakes ==
    /\ Followed /\ waking /\ waking' = FALSE
    /\ Raises("hw")
    /\ UNCHANGED <<twifvars, guardvars, quevars, busvars, elp, fwvars, taskvars, drvvars, errvars>>

ChipRaises(e) ==
    /\ Followed /\ phase \in {"config", "run"} /\ e \notin intr
    /\ Raises(e) /\ waking' = FALSE
    /\ UNCHANGED <<twifvars, guardvars, quevars, busvars, elp, fwvars, taskvars, drvvars, errvars>>

-----------------------------------------------------------------------------
(* TWD_Stop: fwEvent_Stop and twIf_Restart, on a stop or for a recovery.   *)
KeepCounts == UNCHANGED uPendingTxnCount                                   \* mutant
ResetCount == uPendingTxnCount' = 0

StartGuard   == guardTicking' = TRUE

Restart ==
    /\ Followed /\ Up /\ TaskFree
    /\ IF failed THEN UNCHANGED errors ELSE Fails
    /\ FwStop
    /\ eState' = "SLEEP" /\ uAwakeReqCount' = 0 /\ ResetCount /\ hTxnDoneQueue' = << >>
    /\ holders' = 0
    /\ IF onBus = None
       THEN ClearQueues /\ phase' = "off" /\ UNCHANGED <<guardTicking, onBus>>
       ELSE /\ txnQState' = "RESTART" /\ onBus' = Old(onBus) /\ queue' = OldAll(queue)
            /\ StartGuard
            /\ phase' = "stopping" /\ UNCHANGED pSingleStep
    /\ reported' = OldAll(reported)
    /\ failed' = FALSE /\ elpLost' = FALSE /\ late' = (bTxnDoneInRecovery \/ guardQueued)
    /\ UNCHANGED <<bTxnDoneInRecovery, twifPending, guardQueued, busDone, chipvars, taskvars>>

(* The guard timer: its expiry is served by the driver's task unless the   *)
(* driver is operational by then.                                          *)
GuardExpires ==
    /\ Followed /\ guardTicking /\ guardTicking' = FALSE
    /\ guardQueued' = (phase # "run")
    /\ UNCHANGED <<twifvars, quevars, busvars, chipvars, fwvars, taskvars, drvvars, errvars>>

PendRestartTimeout ==
    /\ Followed /\ pc = "idle" /\ guardQueued /\ guardQueued' = FALSE
    /\ ClearQueues
    /\ RecoveryCb
    /\ late' = (late \/ Up)
    /\ UNCHANGED <<twifvars, guardTicking, busvars, chipvars, fwvars, taskvars, holders,
                   failed, errors, elpLost>>

(* The phases of the driver: TWD_InitHw once the chip is powered again,    *)
(* TWD_EnableInterrupts for the configuration, TWD_EnableExternalEvents.   *)
(* An interrupt of the last life that still waits to be served finds       *)
(* nothing when the configuration begins: it is left out.                  *)
InitHw ==
    /\ phase = "off" /\ pc = "idle"
    /\ phase' = "boot"
    /\ Awake
    /\ eState' = "AWAKE" /\ txnQState' = "RUNNING"
    /\ pSingleStep' = None /\ elp' = "AWAKE" /\ waking' = FALSE
    /\ intr' = {} /\ irq' = FALSE
    /\ UNCHANGED <<uPendingTxnCount, hTxnDoneQueue, bTxnDoneInRecovery, twifPending, guardvars, queue, busvars, fwvars,
                   taskvars, holders, errvars>>

EnableInterrupts ==
    /\ Followed /\ phase = "boot" /\ TaskFree /\ ~failed
    /\ phase' = "config" /\ uEventMask' = Events
    /\ UNCHANGED <<twifvars, guardvars, quevars, busvars, chipvars, eSmState, bIntrPending, uNumPendHndlrs,
                   uEventVector, todo, taskvars, holders, errvars>>

EnableExternalEvents ==
    /\ Followed /\ phase = "config" /\ TaskFree /\ ~failed
    /\ phase' = "run" /\ guardQueued' = FALSE
    /\ Sleep
    /\ UNCHANGED <<uPendingTxnCount, hTxnDoneQueue, bTxnDoneInRecovery, twifPending, guardTicking, queue, busvars,
                   intr, irq, fwvars, taskvars, holders, errvars>>

-----------------------------------------------------------------------------
FwEvent == FwIdle \/ FwRead \/ FwHandleEvents \/ (\E e \in Events : FwHandler(e)) \/ FwHandled
           \/ FwReadAgain \/ FwFinished
TwIfTask == HandleRecovery \/ HandleTxnDone \/ Dequeue \/ CheckSleep
Bus == SendElp \/ SendNext \/ BusDone \/ RestartDone \/ BusFree
Boot == InitHw \/ EnableInterrupts \/ EnableExternalEvents

Next ==
    \/ \E t \in Requests, cb \in BOOLEAN : ClientSends(t, cb)
    \/ ClientAwake \/ ClientSleep
    \/ Bus \/ TxnDoneCb
    \/ TwIfTask \/ NewEvent \/ FwEvent
    \/ ChipWakes \/ (\E e \in Events : ChipRaises(e))
    \/ Restart \/ GuardExpires \/ PendRestartTimeout \/ Boot

Spec == Init /\ [][Next]_vars

(* The bus and the chip answer, the driver's task serves whoever asked for  *)
(* it, a failure leads to a restart and the driver boots.  Clients and the  *)
(* firmware need do nothing, but no client sends from callback to callback  *)
(* for ever: what the task is called for comes to its end.                  *)
FairSpec ==
    /\ Spec
    /\ WF_vars(Bus) /\ WF_vars(TxnDoneCb) /\ WF_vars(ChipWakes)
    /\ SF_vars(HandleRecovery \/ HandleTxnDone) /\ SF_vars(NewEvent) /\ []<>(pc = "idle")
    /\ SF_vars((failed /\ Restart) \/ GuardExpires \/ PendRestartTimeout \/ Boot)

-----------------------------------------------------------------------------
DoneEntry == [txn : Txn, cb : BOOLEAN, fresh : BOOLEAN, status : {"OK", "ERROR"}]

TypeOK ==
    /\ eState \in {"AWAKE", "SLEEP", "WAIT_HW"} /\ txnQState \in {"RUNNING", "STOPPED", "RESTART"}
    /\ uAwakeReqCount \in Nat /\ (failed \/ uAwakeReqCount <= MaxHolders + 2)
    /\ uPendingTxnCount \in Nat /\ (late \/ uPendingTxnCount <= Cardinality(Txn))
    /\ queue \in Seq(BusEntry) /\ onBus \in BusEntry \cup {None} /\ busDone \in BOOLEAN
    /\ reported \in Seq(DoneEntry) /\ hTxnDoneQueue \in Seq(DoneEntry)
    /\ pSingleStep \in {"AWAKE", "SLEEP", None} /\ elp \in {"AWAKE", "SLEEP"}
    /\ eSmState \in {"IDLE", "WAIT_INTR_INFO", "WAIT_HANDLE_COMPLT"} /\ uNumPendHndlrs \in 0..Cardinality(Events)
    /\ intr \subseteq Events \cup {"hw"} /\ {uEventVector, uEventMask, todo} \subseteq SUBSET Events
    /\ {bTxnDoneInRecovery, twifPending, guardTicking, guardQueued, waking, irq, bIntrPending, failed, late, elpLost}
           \subseteq BOOLEAN
    /\ pc \in {"idle", "done", "check", "fw", "fwRead", "handlers"} /\ ret \in {"idle", "check"}
    /\ phase \in {"off", "boot", "config", "run", "stopping"} /\ holders \in 0..MaxHolders
    /\ errors \in 0..MaxErrors

(* What is pending is counted exactly, at whichever of the five places the *)
(* transaction is and whichever context moved it, as long as no completion *)
(* of an earlier life of the driver is taken for one of this.               *)
PendingCountExact == ~late => uPendingTxnCount = Cardinality(Outstanding)

(* A chip that is needed is kept awake, and one that is not is released:   *)
(* the requests counted are those of the clients, the boot and FwEvent.    *)
FwBusy == eSmState # "IDLE" \/ pc = "fwRead"
One(b) == IF b THEN 1 ELSE 0
AwakeCountExact ==
    ~failed => uAwakeReqCount = holders + One(phase \in {"boot", "config"}) + One(FwBusy)

(* "HW is awake and Txn-Queue is running", "Waiting for HW to wake up,     *)
(* Txn-Queue is stopped": between the state machine, the queues and the    *)
(* chip; and what waits in a stopped queue has asked for the wake-up, and  *)
(* the wake-up is under way.                                               *)
WakeUpUnderWay ==
    Up /\ ~late =>
        /\ (txnQState = "STOPPED") = (eState # "AWAKE")
        /\ queue # << >> /\ txnQState = "STOPPED" => eState = "WAIT_HW"
        /\ eState = "WAIT_HW" => pSingleStep = "AWAKE" \/ waking \/ irq \/ pc = "fw" \/ elpLost

(* What holds of the counts, the chip and the queues in every state.       *)
Inv == TypeOK /\ PendingCountExact /\ AwakeCountExact /\ WakeUpUnderWay

Excused == elpLost \/ late

(* A transaction is on the bus only when ELP keeps the chip awake and it    *)
(* has woken up.                                                           *)
BusNeedsAwake ==
    onBus # None /\ onBus.fresh /\ ~busDone /\ ~Excused => elp = "AWAKE" /\ ~waking

(* The interrupt status is clear on read: it is not read again before the  *)
(* handlers of what was read before were called.                           *)
NoEventOverwritten ==
    [][Up /\ intr \ intr' # {} /\ ~late' => uEventVector = {}]_vars

(* Every transaction is completed, and its client told, or the driver is   *)
(* restarted.                                                              *)
EveryTxnCompletes ==
    \A t \in Requests : (t \in Outstanding) ~> (t \notin Outstanding \/ Excused)

(* Every event of the firmware is read and handled, or the driver is       *)
(* restarted, be the chip asleep, awake or on its way.                     *)
EveryEventHandled ==
    \A e \in Events : (phase = "run" /\ e \in intr) ~> (e \notin intr \/ Excused)

(* When nobody needs the chip any more, ELP lets it sleep.                 *)
Unused == /\ phase = "run" /\ ~failed /\ ~Excused
          /\ Outstanding = {} /\ holders = 0 /\ ~FwBusy /\ ~irq /\ ~waking
ChipSleeps == Unused ~> (~Unused \/ elp = "SLEEP")
=============================================================================
