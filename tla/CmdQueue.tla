------------------------------- MODULE CmdQueue -------------------------------
(***************************************************************************)
(* TWD/Ctrl/CmdQueue.c on TWD/FW_Transfer/CmdMBox.c: the ring of commands  *)
(* to the firmware and the mailbox that carries one at a time, with the    *)
(* mailbox timer, the health monitor that turns a timeout into a recovery, *)
(* and as much of DrvMain as decides when the mailbox is enabled, reset    *)
(* and configured again.  The stop of the bus and the download of the      *)
(* firmware are one step each.  The build checks for a full ring (TI_DBG), *)
(* and recovery and all its triggers are enabled.                          *)
(*                                                                         *)
(* All of it runs in the driver's task, cut where the code calls back      *)
(* (commands may be sent from within callbacks) and where it waits; timers *)
(* expire in a context of their own.                                       *)
(***************************************************************************)
EXTENDS Timer, FiniteSets

CONSTANTS
    Cmd,          \* the commands of the clients
    ConfigCmd,    \* a command of the configuration sequence (aCmdIniSeq)
    MemoryMapCmd, \* its last one, __itr_memory_map
    Callback,     \* the commands with a callback of their own
    None,
    Depth,                       \* CMDQUEUE_QUEUE_DEPTH
    MAX_NUM_OF_RECOVERY_TRIGGERS

Sequence == {ConfigCmd, MemoryMapCmd}
AnyCmd   == Cmd \cup Sequence

ASSUME CmdAssumption ==
    /\ Cmd \cap Sequence = {} /\ ConfigCmd # MemoryMapCmd /\ None \notin AnyCmd
    /\ Callback \subseteq AnyCmd /\ Sequence \subseteq Callback
    /\ Depth \in Nat \ {0} /\ MAX_NUM_OF_RECOVERY_TRIGGERS \in Nat \ {0}
    /\ Timers = {"mbox", "fail"}

VARIABLES
    aCmdQueue, head, tail, uNumberOfCommandInQueue,
    state, bAwake, bErrorFlag, bMboxEnabled,
    aRecoveryQueue, uCbIndex,
    mbox, bCmdInProgress,        \* CmdMbox: the command written last
    uAwakeReqCount,              \* the command queue's share of TwIf's count
    fw,                          \* the command in the firmware
    failureEvent,                \* of the health monitor: a failure is being handled
    eSmState, bRecovery, uNumOfRecoveryAttempts, eLastAction,   \* of DrvMain
    pc, inHand                   \* where the driver's task is; the command being called back

ringvars == <<aCmdQueue, head, tail, uNumberOfCommandInQueue>>
mboxvars == <<mbox, bCmdInProgress, fw>>
drvvars  == <<eSmState, bRecovery, uNumOfRecoveryAttempts, eLastAction>>
recvars  == <<aRecoveryQueue, uCbIndex>>
vars == <<ringvars, state, bAwake, bErrorFlag, bMboxEnabled, recvars, mboxvars,
          uAwakeReqCount, failureEvent, drvvars, pc, inHand, timervars>>

Init ==
    /\ aCmdQueue = [i \in 0..(Depth - 1) |-> None]
    /\ head = 0 /\ tail = 0 /\ uNumberOfCommandInQueue = 0
    /\ state = "IDLE" /\ bAwake = FALSE /\ bErrorFlag = FALSE /\ bMboxEnabled = FALSE
    /\ aRecoveryQueue = << >> /\ uCbIndex = 0
    /\ mbox = None /\ bCmdInProgress = FALSE /\ uAwakeReqCount = 0 /\ fw = "idle"
    /\ failureEvent = FALSE
    /\ eSmState = "INIT" /\ bRecovery = FALSE /\ uNumOfRecoveryAttempts = 0 /\ eLastAction = "START"
    /\ pc = "idle" /\ inHand = None
    /\ TimerInit

-----------------------------------------------------------------------------
(* cmdQueue_SM, event RUN: in state IDLE, wake the chip unless it is kept  *)
(* awake already, and send the command.  cmdMbox_SendCommand refuses it    *)
(* while another one is in progress.                                       *)
SendMbox(c) ==
    IF bCmdInProgress
    THEN UNCHANGED <<mboxvars, timervars>>
    ELSE /\ mbox' = c /\ bCmdInProgress' = TRUE /\ fw' = "executing"
         /\ StartTimer("mbox")
         /\ UNCHANGED <<bOperState, quevars>>

SmRun(c) ==
    /\ state' = "WAIT_FOR_COMPLETION"
    /\ bAwake' = TRUE
    /\ uAwakeReqCount' = IF bAwake THEN uAwakeReqCount ELSE uAwakeReqCount + 1
    /\ SendMbox(c)

(* cmdQueue_SendCommand: refused while the error flag is set or the ring   *)
(* is full; ignored while the mailbox is disabled.                         *)
NextIndexTooFar(i) == IF i = Depth THEN 0 ELSE i + 1        \* mutant
NextIndex(i) == IF i + 1 = Depth THEN 0 ELSE i + 1

PushEvenIfFull == ~bErrorFlag /\ bMboxEnabled               \* mutant
MayPush == ~bErrorFlag /\ bMboxEnabled /\ uNumberOfCommandInQueue < Depth

(* The state machine ignores RUN from within a callback.                   *)
RunIfFirst == uNumberOfCommandInQueue = 0                    \* mutant
RunNow     == uNumberOfCommandInQueue = 0 /\ state = "IDLE"

Push(c) ==
    /\ aCmdQueue' = [aCmdQueue EXCEPT ![tail] = c]
    /\ tail' = NextIndex(tail)
    /\ uNumberOfCommandInQueue' = uNumberOfCommandInQueue + 1
    /\ UNCHANGED head
    /\ IF RunNow
       THEN SmRun(c)
       ELSE UNCHANGED <<state, bAwake, uAwakeReqCount, mboxvars, timervars>>

(* A client's command stands for one request, so that answers can be told  *)
(* apart: it is sent again when it has been answered or given up.          *)
Queued == {aCmdQueue[(head + i) % Depth] : i \in 0..(uNumberOfCommandInQueue - 1)}
Saved  == {aRecoveryQueue[i] : i \in (uCbIndex + 1)..Len(aRecoveryQueue)}

SendCommand(c) ==
    /\ pc \in {"idle", "callback", "sequence", "reconfig"} /\ MayPush
    /\ c \notin Queued \cup Saved \cup {inHand}
    /\ Push(c)
    /\ UNCHANGED <<bErrorFlag, bMboxEnabled, recvars, failureEvent, drvvars, pc, inHand>>

(* The firmware answers, late or never.                                    *)
FwAnswers ==
    /\ fw = "executing" /\ fw' = "answered"
    /\ UNCHANGED <<ringvars, state, bAwake, bErrorFlag, bMboxEnabled, recvars, mbox, bCmdInProgress,
                   uAwakeReqCount, failureEvent, drvvars, pc, inHand, timervars>>

(* cmdMbox_CommandComplete, called by FwEvent: stop the timer and read the *)
(* answer, synchronously or not.                                           *)
CommandComplete ==
    /\ pc = "idle" /\ fw = "answered"
    /\ StopTimer("mbox")
    /\ fw' = "read" /\ pc' \in {"idle", "complete"}
    /\ UNCHANGED <<ringvars, state, bAwake, bErrorFlag, bMboxEnabled, recvars, mbox, bCmdInProgress,
                   uAwakeReqCount, failureEvent, drvvars, inHand, bOperState, quevars>>

(* cmdMbox_TransferComplete; cmdQueue_SM, event COMPLETE: the command      *)
(* leaves the ring before its callback, or the generic one, is called.     *)
TransferComplete(cmdStatus) ==
    /\ pc \in {"idle", "complete"} /\ fw = "read" /\ state = "WAIT_FOR_COMPLETION"
    /\ fw' = "idle" /\ bCmdInProgress' = FALSE
    /\ inHand' = aCmdQueue[head]
    /\ head' = NextIndex(head)
    /\ uNumberOfCommandInQueue' = uNumberOfCommandInQueue - 1
    /\ bErrorFlag' = (cmdStatus = "error")
    /\ pc' = CASE inHand' = ConfigCmd -> "sequence" [] inHand' = MemoryMapCmd -> "reconfig" [] OTHER -> "callback"
    /\ UNCHANGED <<aCmdQueue, tail, state, bAwake, bMboxEnabled, recvars, mbox, uAwakeReqCount,
                   failureEvent, drvvars, timervars>>

(* ... and afterwards: the next command, or let the chip sleep.            *)
SleepIfAwake == uAwakeReqCount' = uAwakeReqCount - 1 /\ bAwake' = FALSE

MoreThanOneQueued == uNumberOfCommandInQueue > 1             \* mutant
MoreQueued        == uNumberOfCommandInQueue > 0

CallbackReturns ==
    /\ pc = "callback"
    /\ pc' = "idle" /\ inHand' = None
    /\ IF MoreQueued
       THEN SmRun(aCmdQueue[head])
       ELSE SleepIfAwake /\ state' = "IDLE" /\ UNCHANGED <<mboxvars, timervars>>
    /\ UNCHANGED <<ringvars, bErrorFlag, bMboxEnabled, recvars, failureEvent, drvvars>>

-----------------------------------------------------------------------------
(* cmdBld_ConfigSeq, the callback of a command of the sequence, sends the  *)
(* next one, skips those that are refused, and ends if all are.            *)
ConfigSeq ==
    /\ pc = "sequence" /\ pc' = "callback"
    /\ IF MayPush
       THEN \E c \in Sequence : Push(c)
       ELSE UNCHANGED <<ringvars, state, bAwake, uAwakeReqCount, mboxvars, timervars>>
    /\ UNCHANGED <<bErrorFlag, bMboxEnabled, recvars, failureEvent, drvvars, inHand>>

(* The end of the configuration: TWD_ConfigFwCb calls back, with a         *)
(* failure, for the commands that the last reset has dropped ...           *)
EndReconfig ==
    /\ pc = "reconfig" /\ uCbIndex < Len(aRecoveryQueue)
    /\ uCbIndex' = uCbIndex + 1
    /\ UNCHANGED <<ringvars, state, bAwake, bErrorFlag, bMboxEnabled, aRecoveryQueue, mboxvars,
                   uAwakeReqCount, failureEvent, drvvars, pc, inHand, timervars>>

(* ... and DrvMain becomes operational.                                    *)
ConfigComplete ==
    /\ pc = "reconfig" /\ uCbIndex = Len(aRecoveryQueue)
    /\ aRecoveryQueue' = << >> /\ uCbIndex' = 0
    /\ eSmState' = "OPERATIONAL" /\ bRecovery' = FALSE
    /\ uNumOfRecoveryAttempts' = IF bRecovery THEN 0 ELSE uNumOfRecoveryAttempts
    /\ EnterOperational
    /\ pc' = "callback"
    /\ UNCHANGED <<ringvars, state, bAwake, bErrorFlag, bMboxEnabled, mboxvars, uAwakeReqCount,
                   failureEvent, eLastAction, inHand, bOperStateWhenStarted, ticking>>

(* drvMain_ConfigFw: enable the mailbox and send the configuration.  That  *)
(* the command may be refused is not looked at.                            *)
ConfigFw ==
    /\ pc = "idle" /\ eSmState = "INIT"
    /\ eSmState' = "FW_CONFIG"
    /\ bMboxEnabled' = TRUE
    /\ IF bErrorFlag
       THEN UNCHANGED <<ringvars, state, bAwake, uAwakeReqCount, mboxvars, timervars>>
       ELSE Push(ConfigCmd)
    /\ UNCHANGED <<bErrorFlag, recvars, failureEvent, bRecovery, uNumOfRecoveryAttempts, eLastAction,
                   pc, inHand>>

(* TWD_Stop: cmdMbox_Restart, cmdQueue_Restart, cmdQueue_DisableMbox and   *)
(* twIf_Restart, which forgets who wanted the chip awake.  The callbacks   *)
(* of the commands in the ring replace those saved before.                 *)
KeepAwakeFlag == UNCHANGED bAwake        \* mutant
ResetAwake    == bAwake' = FALSE

RingContent == [i \in 1..uNumberOfCommandInQueue |-> aCmdQueue[(head + i - 1) % Depth]]

Service == INSTANCE CmdService WITH
    queue <- RingContent, answering <- inHand,
    saved <- SubSeq(aRecoveryQueue, uCbIndex + 1, Len(aRecoveryQueue))

SavedCallbacks == Service!WithCallback(RingContent)

Stop ==
    /\ StopTimer("mbox")
    /\ mbox' = None /\ bCmdInProgress' = FALSE /\ fw' = "idle"
    /\ state' = "IDLE" /\ ResetAwake
    /\ aRecoveryQueue' = SavedCallbacks
    /\ uCbIndex' = 0
    /\ head' = 0 /\ tail' = 0 /\ uNumberOfCommandInQueue' = 0
    /\ bMboxEnabled' = FALSE
    /\ uAwakeReqCount' = 0
    /\ UNCHANGED <<aCmdQueue, bErrorFlag, inHand>>

(* DrvMain's actions, of which one that repeats the last one is ignored:   *)
(* STOP, the end of the disconnection that it starts, and START.           *)
StopAction ==
    /\ pc = "idle" /\ eSmState = "OPERATIONAL" /\ eLastAction = "START"
    /\ eSmState' = "DISCONNECTING" /\ eLastAction' = "STOP"
    /\ LeaveOperational
    /\ UNCHANGED <<ringvars, state, bAwake, bErrorFlag, bMboxEnabled, recvars, mboxvars, uAwakeReqCount,
                   failureEvent, bRecovery, uNumOfRecoveryAttempts, pc, inHand,
                   bOperStateWhenStarted, ticking, quevars>>

StopWhenStopped ==
    /\ pc = "idle" /\ eSmState = "STOPPED" /\ eLastAction = "START"
    /\ eSmState' = "STOPPING_ON_FAIL" /\ eLastAction' = "STOP"
    /\ Stop
    /\ UNCHANGED <<failureEvent, bRecovery, uNumOfRecoveryAttempts, pc, bOperState, quevars>>

Disconnected ==
    /\ pc = "idle" /\ eSmState = "DISCONNECTING"
    /\ eSmState' = "STOPPED"
    /\ Stop
    /\ ClearOperQueue
    /\ UNCHANGED <<failureEvent, bRecovery, uNumOfRecoveryAttempts, eLastAction, pc, bOperState, hInitQueue>>

StartAction ==
    /\ pc = "idle" /\ eSmState = "STOPPED" /\ eLastAction = "STOP"
    /\ eSmState' = "INIT" /\ eLastAction' = "START"
    /\ UNCHANGED <<ringvars, state, bAwake, bErrorFlag, bMboxEnabled, recvars, mboxvars, uAwakeReqCount,
                   failureEvent, bRecovery, uNumOfRecoveryAttempts, pc, inHand, timervars>>

-----------------------------------------------------------------------------
(* healthMonitor_sendFailureEvent: ignored while a failure is handled.     *)
SendIfOperational ==                                        \* mutant
    /\ failureEvent' = (failureEvent \/ bOperState)
    /\ IF failureEvent \/ ~bOperState
       THEN UNCHANGED <<ticking, bOperStateWhenStarted>>
       ELSE StartTimer("fail")

SendFailureEvent ==
    /\ failureEvent' = TRUE
    /\ IF failureEvent
       THEN UNCHANGED <<ticking, bOperStateWhenStarted>>
       ELSE StartTimer("fail")

(* Failures from elsewhere, as the firmware's watchdog interrupt.          *)
OtherFailure ==
    /\ pc = "idle" /\ eSmState \in {"FW_CONFIG", "OPERATIONAL", "DISCONNECTING"}
    /\ ~failureEvent
    /\ SendFailureEvent
    /\ UNCHANGED <<ringvars, state, bAwake, bErrorFlag, bMboxEnabled, recvars, mboxvars, uAwakeReqCount,
                   drvvars, pc, inHand, bOperState, quevars>>

(* tmr_HandleExpiry, from the driver's task, till the queue is empty.      *)
HandleExpiry ==
    /\ pc = "idle" /\ Present # << >>
    /\ pc' = "expiry"
    /\ UNCHANGED <<ringvars, state, bAwake, bErrorFlag, bMboxEnabled, recvars, mboxvars, uAwakeReqCount,
                   failureEvent, drvvars, inHand, timervars>>

ExpiryHandled ==
    /\ pc = "expiry" /\ Present = << >>
    /\ pc' = "idle"
    /\ UNCHANGED <<ringvars, state, bAwake, bErrorFlag, bMboxEnabled, recvars, mboxvars, uAwakeReqCount,
                   failureEvent, drvvars, inHand, timervars>>

Expired(t) == pc = "expiry" /\ Present # << >> /\ Head(Present) = t

(* cmdMbox_TimeOut, cmdQueue_Error and TWD_CheckMailboxCb, whether or not  *)
(* the command is still in progress.                                       *)
MboxTimeOut ==
    /\ Expired("mbox") /\ Dequeue
    /\ SendFailureEvent
    /\ UNCHANGED <<ringvars, state, bAwake, bErrorFlag, bMboxEnabled, recvars, mboxvars, uAwakeReqCount,
                   drvvars, pc, inHand, bOperState>>

(* healthMonitor_proccessFailureEvent and drvMain_Recovery: from           *)
(* OPERATIONAL, start anew; elsewhere it is an unexpected event, which     *)
(* stops the driver; and if that has happened already, the driver fails,   *)
(* or, as bRecovery is cleared before the stop is complete, is stopped.    *)
Process == Expired("fail") /\ failureEvent' = FALSE /\ UNCHANGED <<eLastAction, pc>>

Attempt == uNumOfRecoveryAttempts' = uNumOfRecoveryAttempts + 1

RestartsConfig == eSmState \in {"FW_CONFIG", "OPERATIONAL"}    \* mutant
Restarts       == eSmState = "OPERATIONAL"

Recovery ==
    /\ Process /\ Dequeue /\ Attempt
    /\ \/ /\ Restarts
          /\ eSmState' = "INIT"
          /\ LeaveOperational
       \/ /\ ~Restarts /\ eSmState \in {"INIT", "FW_CONFIG", "DISCONNECTING", "STOPPED"}
          /\ eSmState' = "STOPPING_ON_FAIL"
          /\ UNCHANGED bOperState
    /\ bRecovery' = TRUE
    /\ Stop

RecoveryStops ==
    /\ Process /\ Attempt
    /\ eSmState = "STOPPING_ON_FAIL" /\ uNumOfRecoveryAttempts' < MAX_NUM_OF_RECOVERY_TRIGGERS
    /\ eSmState' = "STOPPED" /\ bRecovery' = FALSE
    /\ Stop
    /\ ClearOperQueue /\ hInitQueue' = Tail(hInitQueue)
    /\ UNCHANGED bOperState

(* Once the driver has failed, only the attempts go on being counted.      *)
RecoveryFails ==
    /\ Process /\ Dequeue
    /\ \/ /\ eSmState = "STOPPING_ON_FAIL" /\ Attempt
          /\ uNumOfRecoveryAttempts' >= MAX_NUM_OF_RECOVERY_TRIGGERS
       \/ eSmState = "FAILED" /\ UNCHANGED uNumOfRecoveryAttempts
    /\ eSmState' = "FAILED" /\ bRecovery' = (eSmState = "FAILED")
    /\ UNCHANGED <<ringvars, state, bAwake, bErrorFlag, bMboxEnabled, recvars, mboxvars, uAwakeReqCount,
                   inHand, bOperState, bOperStateWhenStarted, ticking>>

TimerExpires(t) ==
    /\ GetExpiry(t)
    /\ UNCHANGED <<ringvars, state, bAwake, bErrorFlag, bMboxEnabled, recvars, mboxvars, uAwakeReqCount,
                   failureEvent, drvvars, pc, inHand>>

-----------------------------------------------------------------------------
HandleExpiries == HandleExpiry \/ MboxTimeOut \/ Recovery \/ RecoveryStops \/ RecoveryFails \/ ExpiryHandled

Answered == CommandComplete \/ \E cmdStatus \in {"ok", "error"} : TransferComplete(cmdStatus)

Callbacks == CallbackReturns \/ ConfigSeq \/ EndReconfig \/ ConfigComplete

Next ==
    \/ \E c \in Cmd : SendCommand(c)
    \/ FwAnswers \/ Answered \/ Callbacks
    \/ ConfigFw \/ StopAction \/ StopWhenStopped \/ Disconnected \/ StartAction
    \/ OtherFailure
    \/ HandleExpiries
    \/ \E t \in Timers : TimerExpires(t)

Spec == Init /\ [][Next]_vars

(* The driver's task goes on and serves its clients in turn, and timers    *)
(* expire.  The firmware need not answer.                                  *)
Fairness ==
    /\ WF_vars(Callbacks) /\ WF_vars(HandleExpiries)
    /\ SF_vars(Answered) /\ SF_vars(HandleExpiry)
    /\ \A t \in Timers : WF_vars(TimerExpires(t))

FairSpec == Spec /\ Fairness
-----------------------------------------------------------------------------
DrvState == {"INIT", "FW_CONFIG", "OPERATIONAL", "DISCONNECTING", "STOPPED", "STOPPING_ON_FAIL", "FAILED"}

TypeOK ==
    /\ aCmdQueue \in [0..(Depth - 1) -> AnyCmd \cup {None}]
    /\ head \in 0..(Depth - 1) /\ tail \in 0..(Depth - 1) /\ uNumberOfCommandInQueue \in 0..Depth
    /\ tail = (head + uNumberOfCommandInQueue) % Depth
    /\ state \in {"IDLE", "WAIT_FOR_COMPLETION"}
    /\ {bAwake, bErrorFlag, bMboxEnabled, bCmdInProgress, failureEvent, bRecovery} \subseteq BOOLEAN
    /\ aRecoveryQueue \in Seq(Callback) /\ Len(aRecoveryQueue) <= Depth /\ uCbIndex \in 0..Len(aRecoveryQueue)
    /\ mbox \in AnyCmd \cup {None} /\ inHand \in AnyCmd \cup {None}
    /\ fw \in {"idle", "executing", "answered", "read"} /\ uAwakeReqCount \in {0, 1}
    /\ eSmState \in DrvState /\ eLastAction \in {"START", "STOP"}
    /\ uNumOfRecoveryAttempts \in 0..(MAX_NUM_OF_RECOVERY_TRIGGERS + 2)
    /\ pc \in {"idle", "complete", "callback", "sequence", "reconfig", "expiry"}
    /\ bOperState \in BOOLEAN /\ bOperStateWhenStarted \in [Timers -> BOOLEAN] /\ ticking \subseteq Timers
    /\ hOperQueue \in Seq(Timers) /\ hInitQueue \in Seq(Timers)

(* What an answer is taken for is what was asked: while the state machine  *)
(* waits, the command at the head of the ring is the one in the mailbox.   *)
AnswerMatchesHead ==
    IF state = "WAIT_FOR_COMPLETION" /\ pc \notin {"callback", "sequence", "reconfig"}
    THEN bCmdInProgress /\ uNumberOfCommandInQueue > 0 /\ mbox = aCmdQueue[head]
    ELSE ~bCmdInProgress /\ (uNumberOfCommandInQueue > 0 => state = "WAIT_FOR_COMPLETION")

(* The chip is kept awake for as long as a command is under way, over any  *)
(* number of commands, callbacks and resets, and no longer.                *)
AwakeWhileBusy == uAwakeReqCount = IF state = "WAIT_FOR_COMPLETION" THEN 1 ELSE 0

(* A command that the firmware does not answer has a timer that will end   *)
(* it in a recovery, unless its expiry waits for another phase.            *)
CommandGuarded ==
    bCmdInProgress /\ fw \in {"executing", "answered"} =>
        "mbox" \in ticking \/ In("mbox", hOperQueue) \/ In("mbox", hInitQueue) \/ failureEvent

(* Commands are answered in order and once, whatever callbacks send and    *)
(* recoveries interrupt (CmdService).                                      *)
ImplementsService == Service!Spec

(* A configuration that a reset interrupts is not among the commands that  *)
(* are called back at the end of the next one: it would begin that end     *)
(* again from within.                                                      *)
ReconfigNotNested == pc = "reconfig" => Saved \cap Sequence = {}

(* What holds of the ring and the mailbox in every state.                  *)
Inv == TypeOK /\ AnswerMatchesHead /\ CommandGuarded /\ ReconfigNotNested

(* "Check the recovery process is already running"                         *)
(* (healthMonitor_sendFailureEvent): while the health monitor refuses      *)
(* further failures, the one it remembers is on its way to a recovery.     *)
FailureRemembered ==
    failureEvent => "fail" \in ticking \/ In("fail", hOperQueue) \/ In("fail", hInitQueue)

(* No command stays in the ring for ever: it is answered, or a recovery    *)
(* ends it, though the firmware may never answer.  This needs that no      *)
(* failure is forgotten, that no expiry is left over from an operational   *)
(* phase, and that disconnections end.                                     *)
NothingStranded == FailureRemembered /\ (hOperQueue # << >> => bOperState)

EveryCommandEnds ==
    []NothingStranded /\ []<>(eSmState # "DISCONNECTING") =>
        \A c \in AnyCmd : c \in Queued ~> c \notin Queued
=============================================================================
