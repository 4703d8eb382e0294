------------------------------ MODULE DrvMain ------------------------------
(***************************************************************************)
(* stad/src/Ctrl_Interface/DrvMain.c: the state machine that starts,       *)
(* stops and recovers the driver, with the users' actions, the health      *)
(* monitor that asks for a recovery, and the end of TWD_Stop, which may    *)
(* have to wait for the transaction on the bus.                            *)
(*                                                                         *)
(* Everything runs in the driver's task but the users, who wait for their  *)
(* action, the timers and the completion of the bus.  One action of the    *)
(* model is one call of drvMain_Sm: while an event is pending the task is  *)
(* in the loop of drvMain_SmEvent, and events that arise within the call   *)
(* are the nested ones.                                                    *)
(***************************************************************************)
EXTENDS Timer

CONSTANTS
    Users, None,
    Pieces,                        \* the pieces the firmware image is loaded in
    MAX_NUM_OF_RECOVERY_TRIGGERS,
    MaxFailures                    \* failures of the device, the bus or a file: bounds the model

ASSUME DrvMainAssumption ==
    /\ Timers = {"guard", "fail"} /\ None \notin Users
    /\ {Pieces, MAX_NUM_OF_RECOVERY_TRIGGERS} \subseteq Nat \ {0} /\ MaxFailures \in Nat

VARIABLES
    eSmState, ePendingEvent, uPendingEventsCount,
    bRecovery, uNumOfRecoveryAttempts,
    hActionQueue, pCurrAction, eLastAction,   \* pCurrAction is None when its memory was freed
    aClientPending, aClientEnabled,           \* of the action client of the context engine
    waiting,                                  \* the action each user waits for
    eDriverState,
    power, bus,                               \* device on; bus connected
    active,                                   \* what StopActivities stops
    stage,                                    \* what TWD has under way: hardware init, firmware load, configuration
    uPiecesLeft,
    smeStopping,
    restarting, bTxnDoneInRecovery,           \* twIf_Restart waits for the bus; was called back
    unended,                                  \* what it waited for is still the bus's current transaction
    failureEvent, failures,
    overwritten, stray                        \* an event was lost; an answer found nobody waiting

smvars   == <<eSmState, ePendingEvent, uPendingEventsCount, overwritten>>
recvars  == <<bRecovery, uNumOfRecoveryAttempts>>
ctxvars  == <<aClientPending, aClientEnabled>>
actvars  == <<hActionQueue, pCurrAction, eLastAction, waiting, stray>>
devvars  == <<power, bus, active>>
stepvars == <<stage, uPiecesLeft, smeStopping>>
stopvars == <<restarting, bTxnDoneInRecovery, unended>>
failvars == <<failureEvent, failures>>
vars == <<smvars, recvars, ctxvars, actvars, eDriverState, devvars, stepvars, stopvars, failvars, timervars>>

Event == {"START", "INI_FILE_READY", "NVS_FILE_READY", "HW_INIT_COMPLETE", "FW_FILE_READY", "FW_INIT_COMPLETE",
          "FW_CONFIG_COMPLETE", "STOP", "RECOVERY", "DISCONNECTED", "STOP_COMPLETE", "FAILURE"}
Activity == {"tx", "irq", "cmd"}

Init ==
    /\ eSmState = "IDLE" /\ ePendingEvent = "START" /\ uPendingEventsCount = 0 /\ overwritten = FALSE
    /\ bRecovery = FALSE /\ uNumOfRecoveryAttempts = 0
    /\ aClientPending = FALSE /\ aClientEnabled = TRUE
    /\ hActionQueue = << >> /\ pCurrAction = None /\ eLastAction = "NONE"
    /\ waiting = [u \in Users |-> "NONE"] /\ stray = FALSE
    /\ eDriverState = "IDLE"
    /\ power = FALSE /\ bus = FALSE /\ active = {"tx"}
    /\ stage = "none" /\ uPiecesLeft = 0 /\ smeStopping = FALSE
    /\ restarting = FALSE /\ bTxnDoneInRecovery = FALSE /\ unended = FALSE
    /\ failureEvent = FALSE /\ failures = 0
    /\ TimerInit

-----------------------------------------------------------------------------
(* drvMain_SmEvent: from outside of the state machine, and for the events  *)
(* that arise within it, after which the pending event is handled once for *)
(* each of them.                                                           *)
Idle == uPendingEventsCount = 0

SmEvent(e) == uPendingEventsCount' = 1 /\ ePendingEvent' = e /\ UNCHANGED <<eSmState, overwritten>>

Nested(events) ==
    /\ uPendingEventsCount' = (uPendingEventsCount - 1) + Len(events)
    /\ ePendingEvent' = IF events = << >> THEN ePendingEvent ELSE events[Len(events)]
    /\ overwritten' = (overwritten \/ \E i \in 1..Len(events) :
                          \/ events[i] # ePendingEvent'
                          \/ uPendingEventsCount > 1 /\ ePendingEvent # ePendingEvent')

Handles(state, e) == eSmState = state /\ ~Idle /\ ePendingEvent = e

(* A failure of the environment.                                           *)
Fault == failures < MaxFailures /\ failures' = failures + 1 /\ UNCHANGED failureEvent

(* os_SignalObjectSet for pCurrAction: the user wakes up and frees the     *)
(* action.                                                                 *)
Answer ==
    /\ waiting' = [u \in Users |-> IF u = pCurrAction THEN "NONE" ELSE waiting[u]]
    /\ pCurrAction' = None
    /\ stray' = (stray \/ pCurrAction = None)
    /\ UNCHANGED <<hActionQueue, eLastAction>>

(* drvMain_TwdStopCb, called by TWD_StopComplete.                          *)
StopCompleteAlways(state) == <<"STOP_COMPLETE">>                          \* mutant
TwdStopCb(state) == IF state = "STOPPING" THEN <<"STOP_COMPLETE">> ELSE << >>

(* drvMain_StopActivities and TWD_Stop on the way to another state: the    *)
(* command queue forgets the configuration; TWD_StopComplete is called at  *)
(* once unless a transaction is on the bus, whose end a timer guards.  The *)
(* driver is not operational by then.                                      *)
CompletesDespiteBus == TRUE                                               \* mutant
CompletesAtOnce == ~restarting'

NoGuard == UNCHANGED <<ticking, bOperStateWhenStarted>>                   \* mutant
GuardRestart ==
    /\ ticking' = ticking \cup {"guard"}
    /\ bOperStateWhenStarted' = [bOperStateWhenStarted EXCEPT !["guard"] = FALSE]

StopActivities(state, connected, nested) ==
    /\ eSmState' = state
    /\ active' = {}
    /\ stage' = IF stage = "config" THEN "none" ELSE stage
    /\ restarting' \in (IF restarting \/ unended THEN {TRUE} ELSE IF connected THEN BOOLEAN ELSE {FALSE})
    /\ unended' = FALSE
    /\ IF restarting' THEN GuardRestart ELSE UNCHANGED <<ticking, bOperStateWhenStarted>>
    /\ Nested(IF CompletesAtOnce THEN nested \o TwdStopCb(state) ELSE nested)
    /\ UNCHANGED <<bTxnDoneInRecovery, uPiecesLeft, smeStopping>>

(* The end of drvMain_Sm if the event is not expected or a function fails. *)
SmFails(nested) ==
    /\ eDriverState' = "FAILED"
    /\ StopActivities("STOPPING_ON_FAIL", bus, nested)

-----------------------------------------------------------------------------
(* The cases of drvMain_Sm.  wlanDrvIf_GetFile calls back before it        *)
(* returns.                                                                *)
SmIdle ==
    /\ Handles("IDLE", "START")
    /\ eSmState' = "WAIT_INI_FILE" /\ aClientEnabled' = FALSE
    /\ Nested(<<"INI_FILE_READY">>)
    /\ UNCHANGED <<recvars, aClientPending, actvars, eDriverState, devvars, stepvars, stopvars, failvars, timervars>>

SmWaitIniFile ==
    /\ Handles("WAIT_INI_FILE", "INI_FILE_READY")
    /\ eSmState' = "WAIT_NVS_FILE" /\ power' = TRUE
    /\ Nested(<<"NVS_FILE_READY">>)
    /\ UNCHANGED <<recvars, ctxvars, actvars, eDriverState, bus, active, stepvars, stopvars, failvars, timervars>>

(* A restart that still waits for its transaction is over when TwIf runs   *)
(* the queues again, or when the guard timer expires.                      *)
RestartIsOver == restarting' = FALSE /\ unended' = (restarting \/ unended)

(* The bus is connected, or is not after eight attempts.  The hardware     *)
(* init goes on in the background, completes or fails at once, unless the  *)
(* bus is still occupied; its failure is reported by the callback only.    *)
SmWaitNvsFile ==
    /\ Handles("WAIT_NVS_FILE", "NVS_FILE_READY")
    /\ bus' = TRUE /\ eSmState' = "HW_INIT"
    /\ RestartIsOver
    /\ \/ stage' = "hw" /\ Nested(<< >>) /\ UNCHANGED failvars
       \/ ~unended' /\ stage' = "none" /\ Nested(<<"HW_INIT_COMPLETE">>) /\ UNCHANGED failvars
       \/ ~unended' /\ stage' = "none" /\ Nested(<<"FAILURE">>) /\ Fault
    /\ UNCHANGED <<recvars, ctxvars, actvars, eDriverState, power, active, uPiecesLeft, smeStopping,
                   bTxnDoneInRecovery, timervars>>

SmConnectFails ==
    /\ Handles("WAIT_NVS_FILE", "NVS_FILE_READY")
    /\ Fault
    /\ SmFails(<< >>)
    /\ UNCHANGED <<recvars, ctxvars, actvars, power, bus, bOperState, quevars>>

(* The firmware image is taken in pieces; the first may be malformed.      *)
SmHwInit ==
    /\ Handles("HW_INIT", "HW_INIT_COMPLETE")
    /\ eSmState' = "DOWNLOAD_FW_FILE" /\ uPiecesLeft' = Pieces - 1
    /\ Nested(<<"FW_FILE_READY">>)
    /\ UNCHANGED <<recvars, ctxvars, actvars, eDriverState, devvars, stage, smeStopping, stopvars, failvars, timervars>>

SmNoFwFile ==
    /\ Handles("HW_INIT", "HW_INIT_COMPLETE")
    /\ Fault
    /\ SmFails(<< >>)
    /\ UNCHANGED <<recvars, ctxvars, actvars, power, bus, bOperState, quevars>>

NeverLast == FALSE                                                        \* mutant
LastPiece == uPiecesLeft = 0

(* Loading a piece may fail at once, in which case two levels of the       *)
(* loader report it before drvMain_InitFw returns.                         *)
SmDownloadFwFile ==
    /\ Handles("DOWNLOAD_FW_FILE", "FW_FILE_READY")
    /\ eSmState' = IF LastPiece THEN "FW_INIT" ELSE "WAIT_FW_FILE"
    /\ \/ stage' = "fw" /\ Nested(<< >>)
       \/ stage' = "none" /\ Nested(<<"FW_INIT_COMPLETE">>)
    /\ UNCHANGED <<recvars, ctxvars, actvars, eDriverState, devvars, uPiecesLeft, smeStopping, stopvars, failvars, timervars>>

SmLoadFails ==
    /\ Handles("DOWNLOAD_FW_FILE", "FW_FILE_READY")
    /\ Fault
    /\ SmFails(<<"FAILURE", "FAILURE">>)
    /\ UNCHANGED <<recvars, ctxvars, actvars, power, bus, bOperState, quevars>>

SmWaitFwFile ==
    /\ Handles("WAIT_FW_FILE", "FW_INIT_COMPLETE")
    /\ eSmState' = "DOWNLOAD_FW_FILE" /\ uPiecesLeft' = uPiecesLeft - 1
    /\ Nested(<<"FW_FILE_READY">>)
    /\ UNCHANGED <<recvars, ctxvars, actvars, eDriverState, devvars, stage, smeStopping, stopvars, failvars, timervars>>

AnswersAlways == TRUE                                                     \* mutant
AnswersStart  == ~bRecovery

SmFwInit ==
    /\ Handles("FW_INIT", "FW_INIT_COMPLETE")
    /\ eSmState' = "FW_CONFIG" /\ active' = active \cup {"irq"} /\ stage' = "config"
    /\ IF AnswersStart THEN eDriverState' = "RUNNING" /\ Answer ELSE UNCHANGED <<eDriverState, actvars>>
    /\ Nested(<< >>)
    /\ UNCHANGED <<recvars, ctxvars, power, bus, uPiecesLeft, smeStopping, stopvars, failvars, timervars>>

LeaveDisabled == UNCHANGED aClientEnabled                                 \* mutant
EnableClient  == aClientEnabled' = TRUE

SmFwConfig ==
    /\ Handles("FW_CONFIG", "FW_CONFIG_COMPLETE")
    /\ eSmState' = "OPERATIONAL" /\ active' = active \cup {"tx", "cmd"}
    /\ EnableClient
    /\ bRecovery' = FALSE /\ uNumOfRecoveryAttempts' = IF bRecovery THEN 0 ELSE uNumOfRecoveryAttempts
    /\ EnterOperational
    /\ Nested(<< >>)
    /\ UNCHANGED <<aClientPending, actvars, eDriverState, power, bus, stepvars, stopvars, failvars,
                   ticking, bOperStateWhenStarted>>

(* sme_Stop reports the disconnection before or after it returns.          *)
SmOperationalStop ==
    /\ Handles("OPERATIONAL", "STOP")
    /\ eSmState' = "DISCONNECTING" /\ eDriverState' = "STOPING"
    /\ aClientEnabled' = FALSE /\ LeaveOperational
    /\ \/ smeStopping' = TRUE /\ Nested(<< >>)
       \/ UNCHANGED smeStopping /\ Nested(<<"DISCONNECTED">>)
    /\ UNCHANGED <<recvars, aClientPending, actvars, devvars, stage, uPiecesLeft, stopvars, failvars,
                   ticking, bOperStateWhenStarted, quevars>>

StayOperational == UNCHANGED bOperState                                   \* mutant
LeaveForRecovery == LeaveOperational

SmOperationalRecovery ==
    /\ Handles("OPERATIONAL", "RECOVERY")
    /\ aClientEnabled' = FALSE /\ LeaveForRecovery
    /\ StopActivities("STOPPING", bus, << >>)
    /\ UNCHANGED <<recvars, aClientPending, actvars, eDriverState, power, bus, failvars, quevars>>

SmDisconnecting ==
    /\ Handles("DISCONNECTING", "DISCONNECTED")
    /\ StopActivities("STOPPING", bus, << >>)
    /\ UNCHANGED <<recvars, ctxvars, actvars, eDriverState, power, bus, failvars, bOperState, quevars>>

(* The device is turned off, and on again in a recovery.  What the boot    *)
(* still had under way ends with the bus.                                  *)
SmStoppingForRecovery ==
    /\ Handles("STOPPING", "STOP_COMPLETE") /\ bRecovery
    /\ eSmState' = "WAIT_NVS_FILE" /\ bus' = FALSE /\ power' = TRUE /\ stage' = "none"
    /\ Nested(<<"NVS_FILE_READY">>)
    /\ UNCHANGED <<recvars, ctxvars, actvars, eDriverState, active, uPiecesLeft, smeStopping, stopvars, failvars, timervars>>

SmStopping ==
    /\ Handles("STOPPING", "STOP_COMPLETE") /\ ~bRecovery
    /\ eSmState' = "STOPPED" /\ eDriverState' = "STOPPED"
    /\ bus' = FALSE /\ power' = FALSE /\ stage' = "none"
    /\ ClearOperQueue
    /\ EnableClient /\ Answer
    /\ Nested(<< >>)
    /\ UNCHANGED <<recvars, aClientPending, active, uPiecesLeft, smeStopping, stopvars, failvars,
                   bOperState, bOperStateWhenStarted, ticking, hInitQueue>>

SmStopped ==
    /\ Handles("STOPPED", "START")
    /\ eSmState' = "WAIT_NVS_FILE" /\ power' = TRUE /\ aClientEnabled' = FALSE
    /\ Nested(<<"NVS_FILE_READY">>)
    /\ UNCHANGED <<recvars, aClientPending, actvars, eDriverState, bus, active, stepvars, stopvars, failvars, timervars>>

(* Any event ends STOPPING_ON_FAIL: with FAILED, or in a recovery with a   *)
(* further stop.                                                           *)
Retries == bRecovery /\ uNumOfRecoveryAttempts < MAX_NUM_OF_RECOVERY_TRIGGERS

SmStoppingOnFail ==
    /\ eSmState = "STOPPING_ON_FAIL" /\ ~Idle /\ ~Retries
    /\ eSmState' = "FAILED" /\ bus' = FALSE /\ power' = FALSE /\ stage' = "none"
    /\ bRecovery' = FALSE
    /\ IF bRecovery THEN UNCHANGED actvars ELSE Answer
    /\ Nested(<< >>)
    /\ UNCHANGED <<uNumOfRecoveryAttempts, ctxvars, eDriverState, active, uPiecesLeft, smeStopping, stopvars,
                   failvars, timervars>>

SmStopsAgain ==
    /\ eSmState = "STOPPING_ON_FAIL" /\ ~Idle /\ Retries
    /\ bus' = FALSE /\ power' = FALSE
    /\ bRecovery' = FALSE
    /\ StopActivities("STOPPING", bus, << >>)
    /\ UNCHANGED <<uNumOfRecoveryAttempts, ctxvars, actvars, eDriverState, failvars, bOperState, quevars>>

SmFailed ==
    /\ eSmState = "FAILED" /\ ~Idle
    /\ Nested(<< >>)
    /\ UNCHANGED <<eSmState, recvars, ctxvars, actvars, eDriverState, devvars, stepvars, stopvars, failvars, timervars>>

(* An event the state does not expect; while the NVS file is awaited any   *)
(* only connects the bus.                                                  *)
Expected == [IDLE |-> {"START"}, WAIT_INI_FILE |-> {"INI_FILE_READY"}, WAIT_NVS_FILE |-> Event,
             HW_INIT |-> {"HW_INIT_COMPLETE"}, DOWNLOAD_FW_FILE |-> {"FW_FILE_READY"},
             WAIT_FW_FILE |-> {"FW_INIT_COMPLETE"}, FW_INIT |-> {"FW_INIT_COMPLETE"},
             FW_CONFIG |-> {"FW_CONFIG_COMPLETE"}, OPERATIONAL |-> {"STOP", "RECOVERY"},
             DISCONNECTING |-> {"DISCONNECTED"}, STOPPING |-> {"STOP_COMPLETE"}, STOPPED |-> {"START"},
             STOPPING_ON_FAIL |-> Event, FAILED |-> Event]

SmUnexpected ==
    /\ ~Idle /\ ePendingEvent \notin Expected[eSmState]
    /\ aClientEnabled' = (aClientEnabled /\ eSmState \notin {"OPERATIONAL", "STOPPED"})
    /\ LeaveOperational
    /\ SmFails(<< >>)
    /\ UNCHANGED <<recvars, aClientPending, actvars, power, bus, failvars, quevars>>

Sm ==
    \/ SmIdle \/ SmWaitIniFile \/ SmWaitNvsFile \/ SmConnectFails \/ SmHwInit \/ SmNoFwFile
    \/ SmDownloadFwFile \/ SmLoadFails \/ SmWaitFwFile \/ SmFwInit \/ SmFwConfig
    \/ SmOperationalStop \/ SmOperationalRecovery \/ SmDisconnecting
    \/ SmStoppingForRecovery \/ SmStopping \/ SmStopped
    \/ SmStoppingOnFail \/ SmStopsAgain \/ SmFailed \/ SmUnexpected

-----------------------------------------------------------------------------
(* wlanDrvIf_Start and wlanDrvIf_Stop: drvMain_InsertAction.               *)
InsertAction(u, a) ==
    /\ waiting[u] = "NONE" /\ eDriverState # "FAILED"
    /\ waiting' = [waiting EXCEPT ![u] = a]
    /\ hActionQueue' = Append(hActionQueue, u)
    /\ aClientPending' = TRUE
    /\ UNCHANGED <<smvars, recvars, aClientEnabled, pCurrAction, eLastAction, stray, eDriverState, devvars,
                   stepvars, stopvars, failvars, timervars>>

PeekAction == hActionQueue                                                \* mutant
TakeAction == Tail(hActionQueue)

(* drvMain_InvokeAction takes one action, and answers it at once if it     *)
(* repeats the last one.                                                   *)
InvokeAction ==
    /\ Idle /\ aClientPending /\ aClientEnabled
    /\ aClientPending' = FALSE
    /\ IF hActionQueue = << >>
       THEN UNCHANGED <<smvars, actvars>>
       ELSE LET u == Head(hActionQueue)
            IN /\ hActionQueue' = TakeAction
               /\ IF waiting[u] = eLastAction
                  THEN waiting' = [waiting EXCEPT ![u] = "NONE"] /\ UNCHANGED <<smvars, pCurrAction, eLastAction>>
                  ELSE /\ eLastAction' = waiting[u] /\ pCurrAction' = u
                       /\ SmEvent(waiting[u]) /\ UNCHANGED waiting
               /\ UNCHANGED stray
    /\ UNCHANGED <<recvars, aClientEnabled, eDriverState, devvars, stepvars, stopvars, failvars, timervars>>

(* The stages of the boot end, with the callbacks of TWD.  These come from *)
(* completed transactions, and twIf_HandleTxnDone handles the end of a     *)
(* restart before any of those.                                            *)
InitEnds(s, e) ==
    /\ Idle /\ ~bTxnDoneInRecovery /\ ~unended /\ stage = s /\ stage' = "none"
    /\ \/ SmEvent(e) /\ UNCHANGED failvars
       \/ SmEvent("FAILURE") /\ Fault
    /\ UNCHANGED <<recvars, ctxvars, actvars, eDriverState, devvars, uPiecesLeft, smeStopping, stopvars, timervars>>

InitHwCb == InitEnds("hw", "HW_INIT_COMPLETE")
InitFwCb == InitEnds("fw", "FW_INIT_COMPLETE")

ConfigFwCb ==
    /\ Idle /\ ~bTxnDoneInRecovery /\ stage = "config" /\ stage' = "none"
    /\ SmEvent("FW_CONFIG_COMPLETE")
    /\ UNCHANGED <<recvars, ctxvars, actvars, eDriverState, devvars, uPiecesLeft, smeStopping, stopvars, failvars, timervars>>

SmeStop ==
    /\ Idle /\ smeStopping /\ smeStopping' = FALSE
    /\ SmEvent("DISCONNECTED")
    /\ UNCHANGED <<recvars, ctxvars, actvars, eDriverState, devvars, stage, uPiecesLeft, stopvars, failvars, timervars>>

(* The end of a stop that waited: the transaction completes on the bus     *)
(* (twIf_TxnDoneCb) and the driver's task is told (twIf_HandleTxnDone), or *)
(* the guard timer expires; both call TWD_StopComplete.  A later end of    *)
(* the transaction only frees the bus.                                     *)
TxnDoneCb ==
    /\ \/ restarting /\ restarting' = FALSE /\ bTxnDoneInRecovery' = TRUE /\ UNCHANGED unended
       \/ unended /\ unended' = FALSE /\ UNCHANGED <<restarting, bTxnDoneInRecovery>>
    /\ UNCHANGED <<smvars, recvars, ctxvars, actvars, eDriverState, devvars, stepvars, failvars, timervars>>

StopComplete == IF TwdStopCb(eSmState) = << >> THEN UNCHANGED smvars ELSE SmEvent("STOP_COMPLETE")

HandleTxnDone ==
    /\ Idle /\ bTxnDoneInRecovery /\ bTxnDoneInRecovery' = FALSE
    /\ StopTimer("guard")
    /\ StopComplete
    /\ UNCHANGED <<recvars, ctxvars, actvars, eDriverState, devvars, stepvars, restarting, unended, failvars, bOperState,
                   quevars>>

PendRestartTimeout ==
    /\ Idle /\ Present # << >> /\ Head(Present) = "guard"
    /\ Dequeue
    /\ RestartIsOver
    /\ StopComplete
    /\ UNCHANGED <<recvars, ctxvars, actvars, eDriverState, devvars, stepvars, bTxnDoneInRecovery, failvars,
                   bOperState, bOperStateWhenStarted, ticking>>

(* healthMonitor_sendFailureEvent, called by whoever meets an error of the *)
(* device; an error of the bus in the boot's own transaction leaves the    *)
(* boot without a callback (twIf_HandleTxnDone).                           *)
SendFailureEvent ==
    /\ Idle /\ bus /\ failures < MaxFailures
    /\ failures' = failures + 1
    /\ stage' \in {stage, IF stage \in {"hw", "fw"} THEN "none" ELSE stage}
    /\ failureEvent' = TRUE
    /\ IF failureEvent THEN UNCHANGED <<ticking, bOperStateWhenStarted>> ELSE StartTimer("fail")
    /\ UNCHANGED <<smvars, recvars, ctxvars, actvars, eDriverState, devvars, uPiecesLeft, smeStopping, stopvars,
                   bOperState, quevars>>

(* healthMonitor_proccessFailureEvent and drvMain_Recovery.                *)
Recovery ==
    /\ Idle /\ Present # << >> /\ Head(Present) = "fail"
    /\ Dequeue
    /\ failureEvent' = FALSE
    /\ bRecovery' = TRUE /\ uNumOfRecoveryAttempts' = uNumOfRecoveryAttempts + 1
    /\ SmEvent("RECOVERY")
    /\ UNCHANGED <<ctxvars, actvars, eDriverState, devvars, stepvars, stopvars, failures,
                   bOperState, bOperStateWhenStarted, ticking>>

TimerExpires(t) ==
    /\ GetExpiry(t)
    /\ UNCHANGED <<smvars, recvars, ctxvars, actvars, eDriverState, devvars, stepvars, stopvars, failvars>>

Next ==
    \/ Sm
    \/ \E u \in Users, a \in {"START", "STOP"} : InsertAction(u, a)
    \/ InvokeAction \/ InitHwCb \/ InitFwCb \/ ConfigFwCb \/ SmeStop
    \/ TxnDoneCb \/ HandleTxnDone \/ PendRestartTimeout
    \/ SendFailureEvent \/ Recovery
    \/ \E t \in Timers : TimerExpires(t)

Spec == Init /\ [][Next]_vars

(* The driver's task goes on, TWD and SME end what they began, and the     *)
(* timers expire.  The bus need not call back.                             *)
FairSpec ==
    /\ Spec
    /\ WF_vars(Sm) /\ WF_vars(InvokeAction)
    /\ WF_vars(InitHwCb) /\ WF_vars(InitFwCb) /\ WF_vars(ConfigFwCb) /\ WF_vars(SmeStop)
    /\ WF_vars(HandleTxnDone) /\ WF_vars(PendRestartTimeout) /\ WF_vars(Recovery)
    /\ \A t \in Timers : WF_vars(TimerExpires(t))

-----------------------------------------------------------------------------
TypeOK ==
    /\ eSmState \in DOMAIN Expected /\ ePendingEvent \in Event /\ uPendingEventsCount \in 0..3
    /\ bRecovery \in BOOLEAN /\ uNumOfRecoveryAttempts \in 0..MaxFailures
    /\ hActionQueue \in Seq(Users) /\ pCurrAction \in Users \cup {None} /\ eLastAction \in {"NONE", "START", "STOP"}
    /\ waiting \in [Users -> {"NONE", "START", "STOP"}]
    /\ {aClientPending, aClientEnabled, power, bus, smeStopping, restarting, bTxnDoneInRecovery, unended,
        failureEvent, overwritten, stray} \subseteq BOOLEAN
    /\ eDriverState \in {"IDLE", "RUNNING", "STOPING", "STOPPED", "FAILED"}
    /\ active \subseteq Activity
    /\ stage \in {"none", "hw", "fw", "config"} /\ uPiecesLeft \in 0..Pieces
    /\ failures \in 0..MaxFailures

(* The completion of a stop is called back by the bus, by the guard timer, *)
(* or by both; whichever comes second, or too late for the stop it belongs *)
(* to, must not reach another state, where it would be an unexpected event *)
(* and fail the driver.                                                    *)
StopCompletesOnce ==
    ~Idle /\ ePendingEvent = "STOP_COMPLETE" => eSmState = "STOPPING" \/ overwritten

(* A stop turns the device off only when its last transaction has ended or *)
(* was given up by the guard timer.                                        *)
OffWhenBusIsQuiet == [][eSmState = "STOPPING" /\ bus /\ ~bus' => ~restarting]_vars

(* Between two events, what StopActivities stops runs in no state that     *)
(* does not expect it, in a recovery neither; the timers of the operational *)
(* phase pass only in OPERATIONAL, and there everything runs.              *)
ActivitiesFollowState ==
    Idle => /\ bOperState = (eSmState = "OPERATIONAL")
            /\ eSmState = "OPERATIONAL" => active = Activity /\ aClientEnabled /\ ~bRecovery
            /\ "irq" \in active => eSmState \in {"FW_CONFIG", "OPERATIONAL", "DISCONNECTING"}
            /\ "cmd" \in active => eSmState \in {"OPERATIONAL", "DISCONNECTING"}
            /\ bRecovery => "tx" \notin active \/ eSmState \in {"OPERATIONAL", "DISCONNECTING"}
            /\ bus => power

(* A user who waits has the action in the queue or in processing, once,    *)
(* unless the driver failed: no later action takes its place.              *)
WaitingUserKnown ==
    eDriverState # "FAILED" =>
        \A u \in Users :
            LET places == {i \in 1..Len(hActionQueue) : hActionQueue[i] = u} \cup (IF pCurrAction = u THEN {0} ELSE {})
            IN IF waiting[u] = "NONE" THEN places = {} ELSE \E i \in places : places = {i}

(* What holds of the driver and of its users in every state.               *)
Inv ==
    /\ TypeOK
    /\ StopCompletesOnce
    /\ ActivitiesFollowState
    /\ WaitingUserKnown

(* A single failure, whenever it comes, makes the driver neither lose an   *)
(* event nor answer an action whose user has left.                         *)
OneFailureIsSafe == failures <= 1 => ~overwritten /\ ~stray

(* The health monitor waits for a timer that was dropped, or for one that  *)
(* was started in the other phase and is not served in this one.           *)
Forgotten == /\ failureEvent /\ ~In("fail", Present)
             /\ "fail" \in ticking => bOperStateWhenStarted["fail"] # bOperState

(* Every start, stop and recovery ends: none hangs in a state it is to     *)
(* pass through, unless a failure was forgotten or the bus never ends the  *)
(* transaction that was given up.                                          *)
Settled == eSmState \in {"IDLE", "OPERATIONAL", "STOPPED", "STOPPING_ON_FAIL", "FAILED"} \/ Forgotten \/ unended
DriverSettles == ~Settled ~> Settled

(* A user whose action no other one's comes across is answered, unless the *)
(* driver fails.                                                           *)
Alone(u) == [](\A v \in Users \ {u} : waiting[v] = "NONE")
EveryActionAnswered ==
    \A u \in Users :
        Alone(u) => ((waiting[u] # "NONE")
                        ~> (waiting[u] = "NONE" \/ eSmState \in {"STOPPING_ON_FAIL", "FAILED"} \/ Forgotten \/ unended))

(* "The drvMain_TwdStopCb is called from the TWD in any case to pass us to *)
(* the SM_STATE_FAILED state": a stop on failure ends in another state.    *)
StopOnFailEnds == (eSmState = "STOPPING_ON_FAIL") ~> (eSmState # "STOPPING_ON_FAIL")
=============================================================================
