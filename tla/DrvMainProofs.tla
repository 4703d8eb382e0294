---------------------------- MODULE DrvMainProofs ----------------------------
(***************************************************************************)
(* Proofs about DrvMain, for any number of users, failures and attempts:   *)
(* a stop completes once and turns off a quiet bus only, the driver's      *)
(* activities follow its state, and its users are answered by it.          *)
(***************************************************************************)
EXTENDS DrvMain, TLAPS

State == {"IDLE", "WAIT_INI_FILE", "WAIT_NVS_FILE", "HW_INIT", "DOWNLOAD_FW_FILE", "WAIT_FW_FILE", "FW_INIT",
          "FW_CONFIG", "OPERATIONAL", "DISCONNECTING", "STOPPING", "STOPPED", "STOPPING_ON_FAIL", "FAILED"}

(* What the proof needs to know of the values of the variables.            *)
Types ==
    /\ eSmState \in State /\ uPendingEventsCount \in Nat /\ active \subseteq Activity
    /\ bus \in BOOLEAN /\ power \in BOOLEAN /\ restarting \in BOOLEAN /\ unended \in BOOLEAN
    /\ bTxnDoneInRecovery \in BOOLEAN /\ bRecovery \in BOOLEAN /\ bOperState \in BOOLEAN
    /\ aClientEnabled \in BOOLEAN /\ overwritten \in BOOLEAN

(* The completion of a stop is pending in STOPPING only, and once, unless  *)
(* it replaced another event.                                              *)
CompleteOnce ==
    ePendingEvent = "STOP_COMPLETE" =>
        /\ ~Idle => eSmState = "STOPPING" \/ overwritten
        /\ uPendingEventsCount > 1 => overwritten

(* While the bus is connected, the completion of a stop means that the     *)
(* restart does not wait any more.                                         *)
CompleteMeansQuiet ==
    eSmState = "STOPPING" /\ bus =>
        /\ ~Idle /\ ePendingEvent = "STOP_COMPLETE" => ~restarting
        /\ bTxnDoneInRecovery => ~restarting

(* From the boot on the restart of the last stop is over, and its end was  *)
(* handled before the configuration is completed.                          *)
RestartsEnd ==
    /\ eSmState \in {"IDLE", "WAIT_INI_FILE", "HW_INIT", "DOWNLOAD_FW_FILE", "WAIT_FW_FILE", "FW_INIT", "FW_CONFIG",
                     "OPERATIONAL", "DISCONNECTING"} => ~restarting
    /\ eSmState \in {"OPERATIONAL", "DISCONNECTING"} => ~bTxnDoneInRecovery
    /\ eSmState = "FW_CONFIG" /\ ~Idle /\ ePendingEvent = "FW_CONFIG_COMPLETE" => ~bTxnDoneInRecovery

(* What runs in which state.                                               *)
Running ==
    /\ bOperState = (eSmState = "OPERATIONAL")
    /\ eSmState = "OPERATIONAL" => active = Activity /\ aClientEnabled
    /\ eSmState = "FW_CONFIG" => "irq" \in active
    /\ eSmState \in {"STOPPING", "STOPPED", "STOPPING_ON_FAIL", "FAILED"} => "tx" \notin active
    /\ "irq" \in active => eSmState \in {"FW_CONFIG", "OPERATIONAL", "DISCONNECTING"}
    /\ "cmd" \in active => eSmState \in {"OPERATIONAL", "DISCONNECTING"}

(* A recovery is asked for in OPERATIONAL or before Tx was ever stopped    *)
(* only by an event that is not handled yet.                               *)
RecoveryAsked ==
    bRecovery => /\ eSmState = "OPERATIONAL" => ~Idle /\ ePendingEvent = "RECOVERY"
                 /\ "tx" \in active => \/ eSmState \in {"OPERATIONAL", "DISCONNECTING"}
                                       \/ ~Idle /\ ePendingEvent = "RECOVERY"

(* The NVS file is asked for with the device on, and comes at once.        *)
PowerFirst ==
    /\ eSmState = "WAIT_NVS_FILE" => power /\ ~Idle /\ ePendingEvent = "NVS_FILE_READY"
    /\ bus => power

IndInv ==
    Types /\ CompleteOnce /\ CompleteMeansQuiet /\ RestartsEnd /\ Running /\ RecoveryAsked /\ PowerFirst

LEMMA InitInv == Init => IndInv
<1>. SUFFICES ASSUME Init PROVE IndInv
  OBVIOUS
<1>1. Types
  BY DEF Init, Types, State, Activity, TimerInit
<1>2. CompleteOnce /\ CompleteMeansQuiet /\ RestartsEnd
  BY DEF Init, CompleteOnce, CompleteMeansQuiet, RestartsEnd
<1>3. Running /\ RecoveryAsked /\ PowerFirst
  BY DEF Init, Running, RecoveryAsked, PowerFirst, TimerInit
<1>. QED  BY <1>1, <1>2, <1>3 DEF IndInv

-----------------------------------------------------------------------------
(* Events that arise while another one is handled.                         *)
LEMMA NestedNone ==
    ASSUME Types, ~Idle, Nested(<< >>)
    PROVE  /\ uPendingEventsCount' = uPendingEventsCount - 1 /\ uPendingEventsCount' \in Nat
           /\ ePendingEvent' = ePendingEvent /\ overwritten' = overwritten
<1>1. Len(<< >>) = 0 /\ 1..Len(<< >>) = {}
  OBVIOUS
<1>. QED  BY <1>1 DEF Types, Idle, Nested

LEMMA NestedOne ==
    ASSUME Types, ~Idle, NEW e, Nested(<<e>>)
    PROVE  /\ uPendingEventsCount' = uPendingEventsCount
           /\ ePendingEvent' = e
           /\ overwritten' = (overwritten \/ (uPendingEventsCount > 1 /\ ePendingEvent # e))
<1>1. Len(<<e>>) = 1 /\ <<e>>[1] = e /\ <<e>> # << >> /\ 1..Len(<<e>>) = {1}
  OBVIOUS
<1>. QED  BY <1>1 DEF Types, Idle, Nested

LEMMA NestedTwo ==
    ASSUME Types, ~Idle, NEW e, Nested(<<e, e>>)
    PROVE  /\ uPendingEventsCount' = uPendingEventsCount + 1
           /\ ePendingEvent' = e
           /\ overwritten' = (overwritten \/ (uPendingEventsCount > 1 /\ ePendingEvent # e))
<1>1. /\ Len(<<e, e>>) = 2 /\ <<e, e>>[1] = e /\ <<e, e>>[2] = e /\ <<e, e>> # << >>
      /\ 1..Len(<<e, e>>) = {1, 2}
  OBVIOUS
<1>. QED  BY <1>1 DEF Types, Idle, Nested

(* The two ways to stop.                                                   *)
LEMMA Stop ==
    ASSUME Types, ~Idle, StopActivities("STOPPING", bus, << >>)
    PROVE  /\ eSmState' = "STOPPING" /\ active' = {}
           /\ restarting' \in BOOLEAN /\ unended' = FALSE /\ bTxnDoneInRecovery' = bTxnDoneInRecovery
           /\ uPendingEventsCount' \in Nat
           /\ restarting' => /\ ePendingEvent' = ePendingEvent /\ overwritten' = overwritten
                             /\ uPendingEventsCount' = uPendingEventsCount - 1
           /\ ~restarting' => /\ ePendingEvent' = "STOP_COMPLETE" /\ uPendingEventsCount' = uPendingEventsCount
                              /\ overwritten' = (\/ overwritten
                                                 \/ uPendingEventsCount > 1 /\ ePendingEvent # "STOP_COMPLETE")
<1>1. /\ eSmState' = "STOPPING" /\ active' = {} /\ unended' = FALSE /\ bTxnDoneInRecovery' = bTxnDoneInRecovery
      /\ restarting' \in BOOLEAN
  BY DEF StopActivities, Types
<1>2. CASE restarting'
  <2>1. Nested(<< >>)
    BY <1>2 DEF StopActivities, CompletesAtOnce
  <2>. QED  BY <1>1, <1>2, <2>1, NestedNone
<1>3. CASE ~restarting'
  <2>1. << >> \o TwdStopCb("STOPPING") = <<"STOP_COMPLETE">>
    BY DEF TwdStopCb
  <2>2. Nested(<<"STOP_COMPLETE">>)
    BY <1>3, <2>1 DEF StopActivities, CompletesAtOnce
  <2>. QED  BY <1>1, <1>3, <2>2, NestedOne DEF Types
<1>. QED  BY <1>1, <1>2, <1>3

LEMMA Fails ==
    ASSUME Types, ~Idle, NEW nested \in {<< >>, <<"FAILURE", "FAILURE">>}, SmFails(nested)
    PROVE  /\ eSmState' = "STOPPING_ON_FAIL" /\ active' = {}
           /\ restarting' \in BOOLEAN /\ unended' = FALSE /\ bTxnDoneInRecovery' = bTxnDoneInRecovery
           /\ uPendingEventsCount' \in Nat /\ overwritten' \in BOOLEAN /\ (overwritten => overwritten')
           /\ ePendingEvent' = "FAILURE" \/ (/\ ePendingEvent' = ePendingEvent /\ overwritten' = overwritten
                                             /\ uPendingEventsCount' = uPendingEventsCount - 1)
<1>1. /\ eSmState' = "STOPPING_ON_FAIL" /\ active' = {} /\ unended' = FALSE
      /\ bTxnDoneInRecovery' = bTxnDoneInRecovery /\ restarting' \in BOOLEAN
  BY DEF SmFails, StopActivities, Types
<1>2. nested \o TwdStopCb("STOPPING_ON_FAIL") = nested
  BY DEF TwdStopCb
<1>3. Nested(nested)
  BY <1>2 DEF SmFails, StopActivities
<1>4. CASE nested = << >>
  BY <1>1, <1>3, <1>4, NestedNone DEF Types
<1>5. CASE nested = <<"FAILURE", "FAILURE">>
  <2>1. Nested(<<"FAILURE", "FAILURE">>)
    BY <1>3, <1>5
  <2>2. /\ uPendingEventsCount' = uPendingEventsCount + 1 /\ ePendingEvent' = "FAILURE"
        /\ overwritten' = (overwritten \/ (uPendingEventsCount > 1 /\ ePendingEvent # "FAILURE"))
    BY <2>1, NestedTwo
  <2>. QED  BY <1>1, <2>2 DEF Types
<1>. QED  BY <1>4, <1>5

-----------------------------------------------------------------------------
(* The rounds of the state machine that stop nothing.                      *)
LEMMA GoesOn ==
    ASSUME IndInv,
           \/ SmIdle \/ SmWaitIniFile \/ SmWaitNvsFile \/ SmHwInit \/ SmDownloadFwFile \/ SmWaitFwFile
           \/ SmFwInit \/ SmFwConfig \/ SmOperationalStop
           \/ SmStoppingForRecovery \/ SmStopping \/ SmStopped \/ SmStoppingOnFail \/ SmFailed
    PROVE  IndInv'
<1>1. CASE SmIdle
  <2>1. Types /\ ~Idle /\ Nested(<<"INI_FILE_READY">>)
    BY <1>1 DEF SmIdle, Handles, IndInv
  <2>2. /\ uPendingEventsCount' = uPendingEventsCount /\ ePendingEvent' = "INI_FILE_READY"
        /\ overwritten' = (overwritten \/ (uPendingEventsCount > 1 /\ ePendingEvent # "INI_FILE_READY"))
    BY <2>1, NestedOne
  <2>. QED  BY <1>1, <2>1, <2>2 DEF SmIdle, recvars, stopvars, devvars, timervars, IndInv, Types, State,
          Activity, CompleteOnce, CompleteMeansQuiet, RestartsEnd, Running, RecoveryAsked, PowerFirst, Idle,
          Handles
<1>2. CASE SmWaitIniFile
  <2>1. Types /\ ~Idle /\ Nested(<<"NVS_FILE_READY">>)
    BY <1>2 DEF SmWaitIniFile, Handles, IndInv
  <2>2. /\ uPendingEventsCount' = uPendingEventsCount /\ ePendingEvent' = "NVS_FILE_READY"
        /\ overwritten' = (overwritten \/ (uPendingEventsCount > 1 /\ ePendingEvent # "NVS_FILE_READY"))
    BY <2>1, NestedOne
  <2>. QED  BY <1>2, <2>1, <2>2 DEF SmWaitIniFile, recvars, ctxvars, stopvars, timervars, IndInv, Types, State,
          Activity, CompleteOnce, CompleteMeansQuiet, RestartsEnd, Running, RecoveryAsked, PowerFirst, Idle,
          Handles
<1>3. CASE SmHwInit
  <2>1. Types /\ ~Idle /\ Nested(<<"FW_FILE_READY">>)
    BY <1>3 DEF SmHwInit, Handles, IndInv
  <2>2. /\ uPendingEventsCount' = uPendingEventsCount /\ ePendingEvent' = "FW_FILE_READY"
        /\ overwritten' = (overwritten \/ (uPendingEventsCount > 1 /\ ePendingEvent # "FW_FILE_READY"))
    BY <2>1, NestedOne
  <2>. QED  BY <1>3, <2>1, <2>2 DEF SmHwInit, recvars, ctxvars, devvars, stopvars, timervars, IndInv, Types,
          State, Activity, CompleteOnce, CompleteMeansQuiet, RestartsEnd, Running, RecoveryAsked, PowerFirst,
          Idle, Handles
<1>4. CASE SmWaitFwFile
  <2>1. Types /\ ~Idle /\ Nested(<<"FW_FILE_READY">>)
    BY <1>4 DEF SmWaitFwFile, Handles, IndInv
  <2>2. /\ uPendingEventsCount' = uPendingEventsCount /\ ePendingEvent' = "FW_FILE_READY"
        /\ overwritten' = (overwritten \/ (uPendingEventsCount > 1 /\ ePendingEvent # "FW_FILE_READY"))
    BY <2>1, NestedOne
  <2>. QED  BY <1>4, <2>1, <2>2 DEF SmWaitFwFile, recvars, ctxvars, devvars, stopvars, timervars, IndInv,
          Types, State, Activity, CompleteOnce, CompleteMeansQuiet, RestartsEnd, Running, RecoveryAsked,
          PowerFirst, Idle, Handles
<1>5. CASE SmFwInit
  <2>1. Types /\ ~Idle /\ Nested(<< >>)
    BY <1>5 DEF SmFwInit, Handles, IndInv
  <2>2. /\ uPendingEventsCount' = uPendingEventsCount - 1 /\ uPendingEventsCount' \in Nat
        /\ ePendingEvent' = ePendingEvent /\ overwritten' = overwritten
    BY <2>1, NestedNone
  <2>. QED  BY <1>5, <2>1, <2>2 DEF SmFwInit, recvars, ctxvars, stopvars, timervars, IndInv, Types, State,
          Activity, CompleteOnce, CompleteMeansQuiet, RestartsEnd, Running, RecoveryAsked, PowerFirst, Idle,
          Handles
<1>6. CASE SmFwConfig
  <2>1. Types /\ ~Idle /\ Nested(<< >>)
    BY <1>6 DEF SmFwConfig, Handles, IndInv
  <2>2. /\ uPendingEventsCount' = uPendingEventsCount - 1 /\ uPendingEventsCount' \in Nat
        /\ ePendingEvent' = ePendingEvent /\ overwritten' = overwritten
    BY <2>1, NestedNone
  <2>. QED  BY <1>6, <2>1, <2>2 DEF SmFwConfig, stopvars, EnableClient, EnterOperational, IndInv, Types, State,
          Activity, CompleteOnce, CompleteMeansQuiet, RestartsEnd, Running, RecoveryAsked, PowerFirst, Idle,
          Handles
<1>7. CASE SmStoppingForRecovery
  <2>1. Types /\ ~Idle /\ Nested(<<"NVS_FILE_READY">>)
    BY <1>7 DEF SmStoppingForRecovery, Handles, IndInv
  <2>2. /\ uPendingEventsCount' = uPendingEventsCount /\ ePendingEvent' = "NVS_FILE_READY"
        /\ overwritten' = (overwritten \/ (uPendingEventsCount > 1 /\ ePendingEvent # "NVS_FILE_READY"))
    BY <2>1, NestedOne
  <2>. QED  BY <1>7, <2>1, <2>2 DEF SmStoppingForRecovery, recvars, ctxvars, stopvars, timervars, IndInv,
          Types, State, Activity, CompleteOnce, CompleteMeansQuiet, RestartsEnd, Running, RecoveryAsked,
          PowerFirst, Idle, Handles
<1>8. CASE SmStopping
  <2>1. Types /\ ~Idle /\ Nested(<< >>)
    BY <1>8 DEF SmStopping, Handles, IndInv
  <2>2. /\ uPendingEventsCount' = uPendingEventsCount - 1 /\ uPendingEventsCount' \in Nat
        /\ ePendingEvent' = ePendingEvent /\ overwritten' = overwritten
    BY <2>1, NestedNone
  <2>3. /\ eSmState = "STOPPING" /\ ePendingEvent = "STOP_COMPLETE" /\ eSmState' = "STOPPED"
        /\ bus' = FALSE /\ power' = FALSE /\ aClientEnabled' = TRUE
        /\ UNCHANGED <<bRecovery, active, restarting, unended, bTxnDoneInRecovery, bOperState>> /\ ~bRecovery
    BY <1>8 DEF SmStopping, Handles, EnableClient, recvars, stopvars
  <2>4. Types'
    BY <2>1, <2>2, <2>3 DEF Types, State, Activity
  <2>5. CompleteOnce'
    BY <2>1, <2>2, <2>3 DEF IndInv, Types, CompleteOnce, Idle
  <2>6. CompleteMeansQuiet' /\ RestartsEnd'
    BY <2>1, <2>2, <2>3 DEF IndInv, CompleteMeansQuiet, RestartsEnd, Idle
  <2>7. Running' /\ RecoveryAsked' /\ PowerFirst'
    BY <2>1, <2>2, <2>3 DEF IndInv, Types, Running, RecoveryAsked, PowerFirst, Idle
  <2>. QED  BY <2>4, <2>5, <2>6, <2>7 DEF IndInv
<1>9. CASE SmStopped
  <2>1. Types /\ ~Idle /\ Nested(<<"NVS_FILE_READY">>)
    BY <1>9 DEF SmStopped, Handles, IndInv
  <2>2. /\ uPendingEventsCount' = uPendingEventsCount /\ ePendingEvent' = "NVS_FILE_READY"
        /\ overwritten' = (overwritten \/ (uPendingEventsCount > 1 /\ ePendingEvent # "NVS_FILE_READY"))
    BY <2>1, NestedOne
  <2>. QED  BY <1>9, <2>1, <2>2 DEF SmStopped, recvars, stopvars, timervars, IndInv, Types, State, Activity,
          CompleteOnce, CompleteMeansQuiet, RestartsEnd, Running, RecoveryAsked, PowerFirst, Idle, Handles
<1>10. CASE SmFailed
  <2>1. Types /\ ~Idle /\ Nested(<< >>)
    BY <1>10 DEF SmFailed, Handles, IndInv
  <2>2. /\ uPendingEventsCount' = uPendingEventsCount - 1 /\ uPendingEventsCount' \in Nat
        /\ ePendingEvent' = ePendingEvent /\ overwritten' = overwritten
    BY <2>1, NestedNone
  <2>3. /\ eSmState = "FAILED"
        /\ UNCHANGED <<eSmState, bus, power, aClientEnabled, bRecovery, active, restarting, unended,
                       bTxnDoneInRecovery, bOperState>>
    BY <1>10 DEF SmFailed, recvars, ctxvars, devvars, stopvars, timervars
  <2>4. Types'
    BY <2>1, <2>2, <2>3 DEF Types, State, Activity
  <2>7. CompleteOnce'
    BY <2>1, <2>2, <2>3 DEF IndInv, Types, CompleteOnce, Idle
  <2>5. CompleteMeansQuiet' /\ RestartsEnd'
    BY <2>1, <2>2, <2>3 DEF IndInv, CompleteMeansQuiet, RestartsEnd, Idle
  <2>6. Running' /\ RecoveryAsked' /\ PowerFirst'
    BY <2>1, <2>2, <2>3 DEF IndInv, Types, Running, RecoveryAsked, PowerFirst, Idle
  <2>. QED  BY <2>4, <2>5, <2>6, <2>7 DEF IndInv
<1>11. CASE SmStoppingOnFail
  <2>1. Types /\ ~Idle /\ Nested(<< >>)
    BY <1>11 DEF SmStoppingOnFail, Handles, IndInv
  <2>2. /\ uPendingEventsCount' = uPendingEventsCount - 1 /\ uPendingEventsCount' \in Nat
        /\ ePendingEvent' = ePendingEvent /\ overwritten' = overwritten
    BY <2>1, NestedNone
  <2>. QED  BY <1>11, <2>1, <2>2 DEF SmStoppingOnFail, ctxvars, stopvars, timervars, IndInv, Types, State,
          Activity, CompleteOnce, CompleteMeansQuiet, RestartsEnd, Running, RecoveryAsked, PowerFirst, Idle,
          Handles
<1>12. CASE SmWaitNvsFile
  <2>1. Types /\ ~Idle
    BY <1>12 DEF SmWaitNvsFile, Handles, IndInv
  <2>2. /\ eSmState = "WAIT_NVS_FILE" /\ ePendingEvent = "NVS_FILE_READY" /\ eSmState' = "HW_INIT"
        /\ bus' = TRUE /\ restarting' = FALSE /\ unended' = (restarting \/ unended)
        /\ UNCHANGED <<power, aClientEnabled, bRecovery, active, bTxnDoneInRecovery, bOperState>>
    BY <1>12 DEF SmWaitNvsFile, Handles, RestartIsOver, recvars, ctxvars, timervars
  <2>3. Nested(<< >>) \/ Nested(<<"HW_INIT_COMPLETE">>) \/ Nested(<<"FAILURE">>)
    BY <1>12 DEF SmWaitNvsFile
  <2>4. /\ uPendingEventsCount' \in Nat /\ overwritten' \in BOOLEAN
        /\ ePendingEvent' \in {"NVS_FILE_READY", "HW_INIT_COMPLETE", "FAILURE"}
    <3>1. CASE Nested(<< >>)
      BY <2>1, <2>2, <3>1, NestedNone DEF Types
    <3>2. CASE Nested(<<"HW_INIT_COMPLETE">>)
      BY <2>1, <3>2, NestedOne DEF Types
    <3>3. CASE Nested(<<"FAILURE">>)
      BY <2>1, <3>3, NestedOne DEF Types
    <3>. QED  BY <2>3, <3>1, <3>2, <3>3
  <2>. QED  BY <2>1, <2>2, <2>4 DEF IndInv, Types, State, Activity, CompleteOnce,
          CompleteMeansQuiet, RestartsEnd, Running, RecoveryAsked, PowerFirst, Idle
<1>13. CASE SmDownloadFwFile
  <2>1. Types /\ ~Idle
    BY <1>13 DEF SmDownloadFwFile, Handles, IndInv
  <2>2. /\ eSmState = "DOWNLOAD_FW_FILE" /\ ePendingEvent = "FW_FILE_READY"
        /\ eSmState' \in {"FW_INIT", "WAIT_FW_FILE"}
        /\ UNCHANGED <<bus, power, aClientEnabled, bRecovery, active, restarting, unended, bTxnDoneInRecovery,
                       bOperState>>
    BY <1>13 DEF SmDownloadFwFile, Handles, recvars, ctxvars, devvars, stopvars, timervars
  <2>3. Nested(<< >>) \/ Nested(<<"FW_INIT_COMPLETE">>)
    BY <1>13 DEF SmDownloadFwFile
  <2>4. /\ uPendingEventsCount' \in Nat /\ overwritten' \in BOOLEAN
        /\ ePendingEvent' \in {"FW_FILE_READY", "FW_INIT_COMPLETE"}
    <3>1. CASE Nested(<< >>)
      BY <2>1, <2>2, <3>1, NestedNone DEF Types
    <3>2. CASE Nested(<<"FW_INIT_COMPLETE">>)
      BY <2>1, <3>2, NestedOne DEF Types
    <3>. QED  BY <2>3, <3>1, <3>2
  <2>. QED  BY <2>1, <2>2, <2>4 DEF IndInv, Types, State, Activity, CompleteOnce,
          CompleteMeansQuiet, RestartsEnd, Running, RecoveryAsked, PowerFirst, Idle
<1>14. CASE SmOperationalStop
  <2>1. Types /\ ~Idle
    BY <1>14 DEF SmOperationalStop, Handles, IndInv
  <2>2. /\ eSmState = "OPERATIONAL" /\ ePendingEvent = "STOP" /\ eSmState' = "DISCONNECTING"
        /\ aClientEnabled' = FALSE /\ bOperState' = FALSE
        /\ UNCHANGED <<bus, power, bRecovery, active, restarting, unended, bTxnDoneInRecovery>>
    BY <1>14 DEF SmOperationalStop, Handles, LeaveOperational, recvars, devvars, stopvars
  <2>3. Nested(<< >>) \/ Nested(<<"DISCONNECTED">>)
    BY <1>14 DEF SmOperationalStop
  <2>4. /\ uPendingEventsCount' \in Nat /\ overwritten' \in BOOLEAN
        /\ ePendingEvent' \in {"STOP", "DISCONNECTED"}
    <3>1. CASE Nested(<< >>)
      BY <2>1, <2>2, <3>1, NestedNone DEF Types
    <3>2. CASE Nested(<<"DISCONNECTED">>)
      BY <2>1, <3>2, NestedOne DEF Types
    <3>. QED  BY <2>3, <3>1, <3>2
  <2>. QED  BY <2>1, <2>2, <2>4 DEF IndInv, Types, State, Activity, CompleteOnce,
          CompleteMeansQuiet, RestartsEnd, Running, RecoveryAsked, PowerFirst, Idle
<1>. QED  BY <1>1, <1>2, <1>3, <1>4, <1>5, <1>6, <1>7, <1>8, <1>9, <1>10, <1>11, <1>12, <1>13, <1>14

(* The rounds that stop the driver's activities.                           *)
LEMMA Stops ==
    ASSUME IndInv, SmOperationalRecovery \/ SmDisconnecting \/ SmStopsAgain
    PROVE  IndInv'
<1>1. Types /\ ~Idle /\ eSmState \in {"OPERATIONAL", "DISCONNECTING", "STOPPING_ON_FAIL"}
  BY DEF IndInv, SmOperationalRecovery, SmDisconnecting, SmStopsAgain, Handles
<1>2. StopActivities("STOPPING", bus, << >>)
  BY DEF SmOperationalRecovery, SmDisconnecting, SmStopsAgain
<1>3. /\ eSmState' = "STOPPING" /\ active' = {}
      /\ restarting' \in BOOLEAN /\ unended' = FALSE /\ bTxnDoneInRecovery' = bTxnDoneInRecovery
      /\ uPendingEventsCount' \in Nat
  BY <1>1, <1>2, Stop
<1>4. /\ restarting' => /\ ePendingEvent' = ePendingEvent /\ overwritten' = overwritten
                        /\ uPendingEventsCount' = uPendingEventsCount - 1
      /\ ~restarting' => /\ ePendingEvent' = "STOP_COMPLETE" /\ uPendingEventsCount' = uPendingEventsCount
                         /\ overwritten' = (\/ overwritten
                                            \/ uPendingEventsCount > 1 /\ ePendingEvent # "STOP_COMPLETE")
  BY <1>1, <1>2, Stop
<1>5. /\ bOperState' = FALSE /\ aClientEnabled' \in BOOLEAN /\ bRecovery' \in BOOLEAN
      /\ \/ UNCHANGED <<bus, power>> /\ eSmState \in {"OPERATIONAL", "DISCONNECTING"}
         \/ bus' = FALSE /\ power' = FALSE
  <2>1. CASE SmOperationalRecovery
    BY <1>1, <2>1 DEF SmOperationalRecovery, LeaveForRecovery, LeaveOperational, recvars, Types, Handles
  <2>2. CASE SmDisconnecting
    BY <1>1, <2>2 DEF SmDisconnecting, ctxvars, recvars, Types, IndInv, Running, Handles
  <2>3. CASE SmStopsAgain
    BY <1>1, <2>3 DEF SmStopsAgain, ctxvars, Types, IndInv, Running
  <2>. QED  BY <2>1, <2>2, <2>3
<1>6. /\ eSmState \in {"OPERATIONAL", "DISCONNECTING"} => ~bTxnDoneInRecovery /\ ePendingEvent # "STOP_COMPLETE"
      /\ bus => power
  BY DEF IndInv, RestartsEnd, PowerFirst, CompleteOnce, SmOperationalRecovery, SmDisconnecting, SmStopsAgain,
          Handles
<1>7. Types'
  BY <1>1, <1>3, <1>4, <1>5 DEF Types, State, Activity
<1>8. CompleteOnce'
  <2>1. CASE restarting'
    BY <1>1, <1>3, <1>4, <2>1 DEF IndInv, Types, CompleteOnce, Idle
  <2>2. CASE ~restarting'
    BY <1>1, <1>3, <1>4, <2>2 DEF IndInv, Types, CompleteOnce, Idle
  <2>. QED  BY <2>1, <2>2
<1>9. CompleteMeansQuiet'
  BY <1>1, <1>3, <1>4, <1>5, <1>6 DEF Types, CompleteMeansQuiet, Idle
<1>10. RestartsEnd' /\ PowerFirst'
  BY <1>3, <1>5, <1>6 DEF RestartsEnd, PowerFirst
<1>11. Running' /\ RecoveryAsked'
  BY <1>3, <1>5 DEF Running, RecoveryAsked
<1>. QED  BY <1>7, <1>8, <1>9, <1>10, <1>11 DEF IndInv

(* The rounds that fail the driver.                                        *)
LEMMA Failing ==
    ASSUME IndInv, SmConnectFails \/ SmNoFwFile \/ SmLoadFails \/ SmUnexpected
    PROVE  IndInv'
<1>1. Types /\ ~Idle
  BY DEF IndInv, SmConnectFails, SmNoFwFile, SmLoadFails, SmUnexpected, Handles
<1>2. PICK nested \in {<< >>, <<"FAILURE", "FAILURE">>} : SmFails(nested)
  BY DEF SmConnectFails, SmNoFwFile, SmLoadFails, SmUnexpected
<1>3. /\ eSmState' = "STOPPING_ON_FAIL" /\ active' = {}
      /\ restarting' \in BOOLEAN /\ unended' = FALSE /\ bTxnDoneInRecovery' = bTxnDoneInRecovery
      /\ uPendingEventsCount' \in Nat /\ overwritten' \in BOOLEAN /\ (overwritten => overwritten')
      /\ ePendingEvent' = "FAILURE" \/ (/\ ePendingEvent' = ePendingEvent /\ overwritten' = overwritten
                                        /\ uPendingEventsCount' = uPendingEventsCount - 1)
  BY <1>1, <1>2, Fails
<1>4. /\ bOperState' = FALSE /\ aClientEnabled' \in BOOLEAN
      /\ UNCHANGED <<bus, power, bRecovery>>
  <2>1. CASE SmConnectFails \/ SmNoFwFile \/ SmLoadFails
    BY <1>1, <2>1 DEF SmConnectFails, SmNoFwFile, SmLoadFails, Handles, ctxvars, recvars, Types, IndInv, Running
  <2>2. CASE SmUnexpected
    BY <1>1, <2>2 DEF SmUnexpected, LeaveOperational, recvars, Types
  <2>. QED  BY <2>1, <2>2
<1>5. ePendingEvent = "STOP_COMPLETE" => overwritten
  <2>1. CASE SmConnectFails \/ SmNoFwFile \/ SmLoadFails
    BY <2>1 DEF SmConnectFails, SmNoFwFile, SmLoadFails, Handles
  <2>2. CASE SmUnexpected
    <3>1. Expected["STOPPING"] = {"STOP_COMPLETE"}
      BY DEF Expected
    <3>. QED  BY <1>1, <2>2, <3>1 DEF SmUnexpected, IndInv, CompleteOnce
  <2>. QED  BY <2>1, <2>2
<1>6. Types'
  BY <1>1, <1>3, <1>4 DEF Types, State, Activity
<1>7. CompleteOnce'
  BY <1>3, <1>5 DEF CompleteOnce
<1>8. CompleteMeansQuiet' /\ RestartsEnd'
  BY <1>3 DEF CompleteMeansQuiet, RestartsEnd
<1>9. Running' /\ RecoveryAsked' /\ PowerFirst'
  BY <1>3, <1>4 DEF IndInv, Running, RecoveryAsked, PowerFirst
<1>. QED  BY <1>6, <1>7, <1>8, <1>9 DEF IndInv

-----------------------------------------------------------------------------
(* What the users wait for.                                                *)
ActionTypes == hActionQueue \in Seq(Users) /\ waiting \in [Users -> {"NONE", "START", "STOP"}]

LEMMA ActionsTyped ==
    ASSUME ActionTypes, [Next]_vars
    PROVE  ActionTypes'
<1>1. CASE UNCHANGED <<hActionQueue, waiting>>
  BY <1>1 DEF ActionTypes
<1>2. CASE Answer
  BY <1>2 DEF ActionTypes, Answer
<1>3. ASSUME NEW u \in Users, NEW a \in {"START", "STOP"}, InsertAction(u, a)
      PROVE  ActionTypes'
  BY <1>3 DEF ActionTypes, InsertAction
<1>4. CASE InvokeAction
  <2>1. CASE hActionQueue = << >>
    BY <1>1, <1>4, <2>1 DEF InvokeAction, actvars
  <2>2. CASE hActionQueue # << >>
    BY <1>4, <2>2 DEF ActionTypes, InvokeAction, TakeAction
  <2>. QED  BY <2>1, <2>2
<1>5. CASE Sm
  <2>1. UNCHANGED actvars \/ Answer
    BY <1>5 DEF Sm, SmIdle, SmWaitIniFile, SmWaitNvsFile, SmConnectFails, SmHwInit, SmNoFwFile,
          SmDownloadFwFile, SmLoadFails, SmWaitFwFile, SmFwInit, SmFwConfig, SmOperationalStop,
          SmOperationalRecovery, SmDisconnecting, SmStoppingForRecovery, SmStopping, SmStopped,
          SmStoppingOnFail, SmStopsAgain, SmFailed, SmUnexpected
  <2>. QED  BY <1>1, <1>2, <2>1 DEF actvars
<1>6. CASE InitHwCb \/ InitFwCb \/ ConfigFwCb \/ SmeStop \/ TxnDoneCb \/ HandleTxnDone \/ PendRestartTimeout
  BY <1>1, <1>6 DEF InitHwCb, InitFwCb, InitEnds, ConfigFwCb, SmeStop, TxnDoneCb, HandleTxnDone,
          PendRestartTimeout, actvars
<1>7. CASE SendFailureEvent \/ Recovery \/ (\E t \in Timers : TimerExpires(t)) \/ UNCHANGED vars
  BY <1>1, <1>7 DEF SendFailureEvent, Recovery, TimerExpires, vars, actvars
<1>. QED  BY <1>3, <1>4, <1>5, <1>6, <1>7 DEF Next

-----------------------------------------------------------------------------
(* What comes from outside of the state machine.                           *)
LEMMA Pending ==
    ASSUME Types, Idle, NEW e, SmEvent(e)
    PROVE  /\ uPendingEventsCount' = 1 /\ ePendingEvent' = e
           /\ eSmState' = eSmState /\ overwritten' = overwritten
BY DEF SmEvent

Arrives(e) ==
    /\ Idle /\ SmEvent(e) /\ e # "STOP_COMPLETE"
    /\ e = "FW_CONFIG_COMPLETE" => ~bTxnDoneInRecovery
    /\ bRecovery' = bRecovery \/ (e = "RECOVERY" /\ bRecovery' = TRUE)

LEMMA Outside ==
    ASSUME IndInv, ActionTypes,
           \/ \E u \in Users, a \in {"START", "STOP"} : InsertAction(u, a)
           \/ InvokeAction \/ InitHwCb \/ InitFwCb \/ ConfigFwCb \/ SmeStop
           \/ SendFailureEvent \/ Recovery
           \/ \E t \in Timers : TimerExpires(t)
           \/ UNCHANGED vars
    PROVE  IndInv'
<1>1. UNCHANGED <<active, bus, power, restarting, unended, bTxnDoneInRecovery, bOperState, aClientEnabled>>
  <2>1. CASE \E u \in Users, a \in {"START", "STOP"} : InsertAction(u, a)
    BY <2>1 DEF InsertAction, devvars, stopvars, timervars
  <2>2. CASE InvokeAction
    BY <2>2 DEF InvokeAction, devvars, stopvars, timervars
  <2>3. CASE InitHwCb \/ InitFwCb
    BY <2>3 DEF InitHwCb, InitFwCb, InitEnds, ctxvars, devvars, stopvars, timervars
  <2>4. CASE ConfigFwCb \/ SmeStop
    BY <2>4 DEF ConfigFwCb, SmeStop, ctxvars, devvars, stopvars, timervars
  <2>5. CASE SendFailureEvent \/ Recovery
    BY <2>5 DEF SendFailureEvent, Recovery, ctxvars, devvars, stopvars
  <2>6. CASE \E t \in Timers : TimerExpires(t)
    BY <2>6 DEF TimerExpires, GetExpiry, ctxvars, devvars, stopvars
  <2>7. CASE UNCHANGED vars
    BY <2>7 DEF vars, ctxvars, devvars, stopvars, timervars
  <2>. QED  BY <2>1, <2>2, <2>3, <2>4, <2>5, <2>6, <2>7
<1>2. UNCHANGED <<smvars, bRecovery>> \/ \E e : Arrives(e)
  <2>1. CASE \E u \in Users, a \in {"START", "STOP"} : InsertAction(u, a)
    BY <2>1 DEF InsertAction, recvars
  <2>2. CASE InvokeAction
    <3>1. CASE hActionQueue = << >> \/ waiting[Head(hActionQueue)] = eLastAction
      BY <2>2, <3>1 DEF InvokeAction, recvars
    <3>2. CASE hActionQueue # << >> /\ waiting[Head(hActionQueue)] # eLastAction
      <4>1. waiting[Head(hActionQueue)] \in {"NONE", "START", "STOP"}
        BY <3>2 DEF ActionTypes
      <4>2. Idle /\ SmEvent(waiting[Head(hActionQueue)]) /\ bRecovery' = bRecovery
        BY <2>2, <3>2 DEF InvokeAction, recvars
      <4>. QED  BY <4>1, <4>2 DEF Arrives
    <3>. QED  BY <3>1, <3>2
  <2>3. CASE InitHwCb \/ InitFwCb
    BY <2>3 DEF InitHwCb, InitFwCb, InitEnds, recvars, Arrives
  <2>4. CASE ConfigFwCb \/ SmeStop
    BY <2>4 DEF ConfigFwCb, SmeStop, recvars, Arrives
  <2>5. CASE SendFailureEvent \/ Recovery
    BY <2>5 DEF SendFailureEvent, Recovery, recvars, Arrives
  <2>6. CASE \E t \in Timers : TimerExpires(t)
    BY <2>6 DEF TimerExpires, recvars
  <2>7. CASE UNCHANGED vars
    BY <2>7 DEF vars, recvars
  <2>. QED  BY <2>1, <2>2, <2>3, <2>4, <2>5, <2>6, <2>7
<1>3. CASE UNCHANGED <<smvars, bRecovery>>
  BY <1>1, <1>3 DEF smvars, IndInv, Types, CompleteOnce, CompleteMeansQuiet, RestartsEnd, Running,
          RecoveryAsked, PowerFirst, Idle
<1>4. ASSUME NEW e, Arrives(e) PROVE IndInv'
  <2>1. /\ uPendingEventsCount' = 1 /\ ePendingEvent' = e
        /\ UNCHANGED <<eSmState, overwritten>> /\ bRecovery' \in BOOLEAN
    BY <1>4, Pending DEF IndInv, Types, Arrives
  <2>2. Types' /\ CompleteOnce'
    BY <1>1, <1>4, <2>1 DEF IndInv, Types, CompleteOnce, Arrives
  <2>3. CompleteMeansQuiet' /\ RestartsEnd'
    BY <1>1, <1>4, <2>1 DEF IndInv, CompleteMeansQuiet, RestartsEnd, Arrives
  <2>4. Running' /\ PowerFirst'
    BY <1>1, <1>4, <2>1 DEF IndInv, Running, PowerFirst, Arrives
  <2>5. RecoveryAsked'
    <3>1. CASE bRecovery' = bRecovery
      BY <1>1, <1>4, <2>1, <3>1 DEF IndInv, RecoveryAsked, Arrives
    <3>2. CASE e = "RECOVERY"
      BY <2>1, <3>2 DEF RecoveryAsked, Idle
    <3>. QED  BY <1>4, <3>1, <3>2 DEF Arrives
  <2>. QED  BY <2>2, <2>3, <2>4, <2>5 DEF IndInv
<1>. QED  BY <1>2, <1>3, <1>4

(* The ends of a restart.                                                  *)
LEMMA RestartEnds ==
    ASSUME IndInv, TxnDoneCb \/ HandleTxnDone \/ PendRestartTimeout
    PROVE  IndInv'
<1>1. UNCHANGED <<active, bus, power, bOperState, aClientEnabled, bRecovery, eSmState, overwritten>>
  <2>1. CASE TxnDoneCb
    BY <2>1 DEF TxnDoneCb, smvars, recvars, ctxvars, devvars, timervars
  <2>2. CASE HandleTxnDone
    BY <2>2 DEF HandleTxnDone, StopComplete, SmEvent, smvars, recvars, ctxvars, devvars
  <2>3. CASE PendRestartTimeout
    BY <2>3 DEF PendRestartTimeout, StopComplete, SmEvent, smvars, recvars, ctxvars, devvars
  <2>. QED  BY <2>1, <2>2, <2>3
<1>2. CASE TxnDoneCb
  <2>1. /\ restarting' \in BOOLEAN /\ (restarting' => restarting)
        /\ unended' \in BOOLEAN /\ bTxnDoneInRecovery' \in BOOLEAN
        /\ bTxnDoneInRecovery' = bTxnDoneInRecovery \/ (restarting /\ ~restarting')
        /\ UNCHANGED <<uPendingEventsCount, ePendingEvent>>
    <3>1. UNCHANGED <<uPendingEventsCount, ePendingEvent>>
      BY <1>2 DEF TxnDoneCb, smvars
    <3>2. \/ restarting /\ restarting' = FALSE /\ bTxnDoneInRecovery' = TRUE /\ UNCHANGED unended
          \/ unended' = FALSE /\ UNCHANGED <<restarting, bTxnDoneInRecovery>>
      BY <1>2 DEF TxnDoneCb
    <3>3. CASE restarting /\ restarting' = FALSE /\ bTxnDoneInRecovery' = TRUE /\ UNCHANGED unended
      BY <3>1, <3>3 DEF IndInv, Types
    <3>4. CASE unended' = FALSE /\ UNCHANGED <<restarting, bTxnDoneInRecovery>>
      BY <3>1, <3>4 DEF IndInv, Types
    <3>. QED  BY <3>2, <3>3, <3>4
  <2>2. Types' /\ CompleteOnce'
    BY <1>1, <2>1 DEF IndInv, Types, CompleteOnce, Idle
  <2>3. CompleteMeansQuiet' /\ RestartsEnd'
    BY <1>1, <2>1 DEF IndInv, CompleteMeansQuiet, RestartsEnd, Idle
  <2>4. Running' /\ RecoveryAsked' /\ PowerFirst'
    BY <1>1, <2>1 DEF IndInv, Running, RecoveryAsked, PowerFirst, Idle
  <2>. QED  BY <2>2, <2>3, <2>4 DEF IndInv
<1>3. ASSUME Idle, StopComplete, restarting' \in BOOLEAN, bTxnDoneInRecovery' \in BOOLEAN, unended' \in BOOLEAN,
             restarting' => restarting,
             bTxnDoneInRecovery' => bTxnDoneInRecovery,
             eSmState = "STOPPING" /\ bus => ~restarting'
      PROVE  IndInv'
  <2>1. \/ /\ eSmState = "STOPPING"
           /\ uPendingEventsCount' = 1 /\ ePendingEvent' = "STOP_COMPLETE"
        \/ /\ eSmState # "STOPPING"
           /\ UNCHANGED <<uPendingEventsCount, ePendingEvent>>
    BY <1>3 DEF StopComplete, TwdStopCb, SmEvent, smvars
  <2>2. Types' /\ CompleteOnce'
    BY <1>1, <1>3, <2>1 DEF IndInv, Types, CompleteOnce, Idle
  <2>3. CompleteMeansQuiet' /\ RestartsEnd'
    BY <1>1, <1>3, <2>1 DEF IndInv, Types, CompleteMeansQuiet, RestartsEnd, Idle
  <2>4. Running' /\ PowerFirst'
    BY <1>1, <1>3, <2>1 DEF IndInv, Running, PowerFirst
  <2>5. RecoveryAsked'
    BY <1>1, <1>3, <2>1 DEF IndInv, RecoveryAsked
  <2>. QED  BY <2>2, <2>3, <2>4, <2>5 DEF IndInv
<1>4. CASE HandleTxnDone
  <2>1. /\ Idle /\ bTxnDoneInRecovery /\ bTxnDoneInRecovery' = FALSE /\ StopComplete
        /\ UNCHANGED <<restarting, unended>>
    BY <1>4 DEF HandleTxnDone
  <2>2. eSmState = "STOPPING" /\ bus => ~restarting
    BY <2>1 DEF IndInv, CompleteMeansQuiet
  <2>. QED  BY <1>3, <2>1, <2>2 DEF IndInv, Types
<1>5. CASE PendRestartTimeout
  <2>1. /\ Idle /\ bTxnDoneInRecovery' = bTxnDoneInRecovery /\ StopComplete
        /\ restarting' = FALSE /\ unended' \in BOOLEAN
    BY <1>5 DEF PendRestartTimeout, RestartIsOver, IndInv, Types
  <2>. QED  BY <1>3, <2>1 DEF IndInv, Types
<1>. QED  BY <1>2, <1>4, <1>5

(* Every step keeps the invariant.                                         *)
LEMMA StepInv ==
    ASSUME IndInv, ActionTypes, [Next]_vars
    PROVE  IndInv'
BY GoesOn, Stops, Failing, Outside, RestartEnds DEF Next, Sm

-----------------------------------------------------------------------------
(* In every state drvMain_Sm, the users, the bus and the timers can reach, *)
(* the proof's invariant holds.                                            *)
THEOREM Invariant == Spec => [](IndInv /\ ActionTypes)
<1>1. Init => IndInv /\ ActionTypes
  BY InitInv DEF Init, ActionTypes
<1>2. IndInv /\ ActionTypes /\ [Next]_vars => (IndInv /\ ActionTypes)'
  BY StepInv, ActionsTyped
<1>. QED  BY <1>1, <1>2, PTL DEF Spec

(* drvMain_TwdStopCb: however often and late the end of a stop is called   *)
(* back, its event never meets another state than STOPPING, unless an      *)
(* event was lost already.                                                 *)
THEOREM StopOnce == Spec => []StopCompletesOnce
<1>1. IndInv => StopCompletesOnce
  BY DEF IndInv, CompleteOnce, StopCompletesOnce
<1>. QED  BY Invariant, <1>1, PTL

(* Whatever fails, what drvMain_StopActivities stops runs in no state that *)
(* does not expect it, and the bus is connected to a powered device.       *)
THEOREM Activities == Spec => []ActivitiesFollowState
<1>1. IndInv => ActivitiesFollowState
  BY DEF IndInv, Running, RecoveryAsked, PowerFirst, ActivitiesFollowState
<1>. QED  BY Invariant, <1>1, PTL

(* However many recoveries follow one another, drvMain_Sm turns the device *)
(* off at the end of a stop only when the transaction the stop waited for  *)
(* has ended or was given up.                                              *)
THEOREM QuietOff == Spec => OffWhenBusIsQuiet
<1>1. ASSUME IndInv, [Next]_vars
      PROVE  [eSmState = "STOPPING" /\ bus /\ ~bus' => ~restarting]_vars
  <2>1. ASSUME Next, eSmState = "STOPPING", bus, ~bus'
        PROVE  ~restarting
    <3>1. CASE SmStopping \/ SmStoppingForRecovery
      BY <1>1, <2>1, <3>1 DEF SmStopping, SmStoppingForRecovery, Handles, IndInv, CompleteMeansQuiet
    <3>2. CASE Sm /\ ~SmStopping /\ ~SmStoppingForRecovery
      <4>1. bus' = bus
        BY <2>1, <3>2 DEF Sm, SmIdle, SmWaitIniFile, SmWaitNvsFile, SmConnectFails, SmHwInit, SmNoFwFile,
            SmDownloadFwFile, SmLoadFails, SmWaitFwFile, SmFwInit, SmFwConfig, SmOperationalStop,
            SmOperationalRecovery, SmDisconnecting, SmStopped, SmStoppingOnFail, SmStopsAgain, SmFailed,
            SmUnexpected, Handles, devvars
      <4>. QED  BY <2>1, <4>1
    <3>3. CASE ~Sm
      <4>1. bus' = bus
        BY <2>1, <3>3 DEF Next, InsertAction, InvokeAction, InitHwCb, InitFwCb, InitEnds, ConfigFwCb, SmeStop,
            TxnDoneCb, HandleTxnDone, PendRestartTimeout, SendFailureEvent, Recovery, TimerExpires, devvars
      <4>. QED  BY <2>1, <4>1
    <3>. QED  BY <2>1, <3>1, <3>2, <3>3
  <2>. QED  BY <1>1, <2>1
<1>. QED  BY Invariant, <1>1, PTL DEF Spec, OffWhenBusIsQuiet

-----------------------------------------------------------------------------
(* What the rest of the driver's invariant and its conduct after a single  *)
(* failure need: who is blamed for what, and who waits for it.             *)
Boot == {"WAIT_INI_FILE", "WAIT_NVS_FILE", "HW_INIT", "DOWNLOAD_FW_FILE", "WAIT_FW_FILE", "FW_INIT"}
OnFail == {"STOPPING_ON_FAIL", "FAILED"}
Asked == ~Idle /\ ePendingEvent = "RECOVERY"
Handled == uPendingEventsCount' = uPendingEventsCount - 1 /\ ePendingEvent' = ePendingEvent /\ overwritten' = overwritten

RestTypes ==
    /\ ePendingEvent \in Event /\ {aClientPending, smeStopping, failureEvent, stray} \subseteq BOOLEAN
    /\ pCurrAction \in Users \cup {None} /\ eLastAction \in {"NONE", "START", "STOP"}
    /\ eDriverState \in {"IDLE", "RUNNING", "STOPING", "STOPPED", "FAILED"}
    /\ stage \in {"none", "hw", "fw", "config"} /\ uPiecesLeft \in 0..Pieces
    /\ eSmState = "WAIT_FW_FILE" => uPiecesLeft # 0

(* The health monitor has one request under way at most ...                *)
OnceIn(t, queue) == \A i, j \in 1..Len(queue) : queue[i] = t /\ queue[j] = t => i = j

OneRequest ==
    /\ hOperQueue \in Seq(Timers) /\ hInitQueue \in Seq(Timers) /\ ticking \subseteq Timers
    /\ OnceIn("fail", hOperQueue) /\ OnceIn("fail", hInitQueue)
    /\ ~(In("fail", hOperQueue) /\ In("fail", hInitQueue))
    /\ "fail" \in ticking => ~In("fail", hOperQueue) /\ ~In("fail", hInitQueue)
    /\ ~failureEvent => "fail" \notin ticking /\ ~In("fail", hOperQueue) /\ ~In("fail", hInitQueue)

(* ... so every recovery is due to a failure of its own.                   *)
Attempts ==
    /\ uNumOfRecoveryAttempts \in Nat /\ failures \in 0..MaxFailures
    /\ uNumOfRecoveryAttempts + (IF failureEvent THEN 1 ELSE 0) <= failures
    /\ bRecovery => uNumOfRecoveryAttempts >= 1

(* Two events are pending only after the loader reported its failure       *)
(* twice, and one is lost only if a recovery meets that.                   *)
TwoPending ==
    /\ uPendingEventsCount <= 2
    /\ uPendingEventsCount = 2 =>
          \/ eSmState = "STOPPING_ON_FAIL" /\ ePendingEvent = "FAILURE" /\ (bRecovery => failures >= 2)
          \/ eSmState = "STOPPING" /\ ePendingEvent = "STOP_COMPLETE" /\ ~bRecovery /\ failures >= 2
    /\ overwritten => failures >= 2

(* The driver counts as failed until a further stop, and is then not       *)
(* recovered again.                                                        *)
DriverFails ==
    /\ eSmState \in OnFail => eDriverState = "FAILED"
    /\ eDriverState = "FAILED" => eSmState \in OnFail \/ (eSmState = "STOPPING" /\ (bRecovery => Asked))

(* The client of the context engine is enabled where the driver rests, and *)
(* in a driver that failed before its first start.                         *)
ClientServed ==
    /\ eSmState = "IDLE" => ~bus /\ ~bRecovery /\ ~failureEvent
    /\ aClientEnabled => \/ eSmState \in {"IDLE", "OPERATIONAL", "STOPPED"}
                         \/ eSmState \in OnFail /\ ~bus /\ ~bRecovery /\ ~failureEvent

(* Where nobody's action is in processing: the next one finds the place    *)
(* empty.                                                                  *)
Current ==
    /\ Idle /\ eSmState \in {"IDLE", "OPERATIONAL", "STOPPED"} => pCurrAction = None
    /\ eSmState = "FW_CONFIG" => pCurrAction = None
    /\ eSmState \in {"STOPPED", "DISCONNECTING"} /\ bRecovery => Asked
    /\ Asked /\ eSmState = "OPERATIONAL" => pCurrAction = None
    /\ bRecovery /\ ~Asked /\ eSmState \in Boot \cup {"STOPPING"} => pCurrAction = None

Control == RestTypes /\ Attempts /\ TwoPending /\ DriverFails /\ ClientServed /\ Current

(* Who is in the queue or in processing waits, and is there once.          *)
Waits ==
    /\ \A i \in 1..Len(hActionQueue) : waiting[hActionQueue[i]] # "NONE" /\ hActionQueue[i] # pCurrAction
    /\ \A i, j \in 1..Len(hActionQueue) : hActionQueue[i] = hActionQueue[j] => i = j
    /\ pCurrAction # None => waiting[pCurrAction] # "NONE"
    /\ eDriverState # "FAILED" \/ ~aClientEnabled =>
          \A u \in Users : waiting[u] # "NONE" => u = pCurrAction \/ \E i \in 1..Len(hActionQueue) : hActionQueue[i] = u

(* After one failure at most: what TWD and SME have under way ends in the  *)
(* state that waits for it, or while a user is there to be answered ...    *)
Asks(e) == ~Idle => ePendingEvent # e

StagesFollow ==
    /\ stage # "none" => \/ eSmState = "HW_INIT" /\ stage = "hw" /\ Asks("HW_INIT_COMPLETE")
                         \/ eSmState \in {"WAIT_FW_FILE", "FW_INIT"} /\ stage = "fw" /\ Asks("FW_INIT_COMPLETE")
                         \/ eSmState = "FW_CONFIG" /\ stage = "config" /\ Asks("FW_CONFIG_COMPLETE")
                         \/ eSmState \in {"STOPPING_ON_FAIL", "STOPPING"} /\ pCurrAction # None
    /\ smeStopping => /\ pCurrAction # None /\ stage = "none"
                      /\ \/ eSmState = "DISCONNECTING" /\ (~Idle => Asked /\ bRecovery)
                         \/ eSmState = "STOPPING_ON_FAIL" /\ bRecovery /\ Idle

(* ... and without one no event comes but those the state expects, and     *)
(* those of a recovery.                                                    *)
Nobody ==
    pCurrAction = None /\ eSmState # "FAILED" =>
        /\ ~Idle => /\ ePendingEvent \in (Expected[eSmState] \ {"START", "STOP"}) \cup {"RECOVERY"}
                    /\ ePendingEvent = "RECOVERY" => bRecovery /\ eSmState \in {"FW_CONFIG", "OPERATIONAL", "STOPPED"}
        /\ eSmState # "DISCONNECTING"
        /\ eSmState \in Boot \cup {"STOPPING"} => bRecovery
        /\ eSmState = "STOPPING_ON_FAIL" => Idle /\ bRecovery

OneFailure == failures <= 1 => ~stray /\ StagesFollow /\ Nobody

LEMMA Numbers == Pieces \in Nat \ {0} /\ MAX_NUM_OF_RECOVERY_TRIGGERS \in Nat \ {0} /\ MaxFailures \in Nat
BY DrvMainAssumption

(* A recovery under way was due to a failure.                              *)
LEMMA Blamed == Attempts => (bRecovery => failures >= 1) /\ (bRecovery /\ failureEvent => failures >= 2)
BY Numbers DEF Attempts

LEMMA Expectations ==
    /\ Expected["IDLE"] = {"START"} /\ Expected["WAIT_INI_FILE"] = {"INI_FILE_READY"} /\ Expected["WAIT_NVS_FILE"] = Event
    /\ Expected["HW_INIT"] = {"HW_INIT_COMPLETE"} /\ Expected["DOWNLOAD_FW_FILE"] = {"FW_FILE_READY"}
    /\ Expected["WAIT_FW_FILE"] = {"FW_INIT_COMPLETE"} /\ Expected["FW_INIT"] = {"FW_INIT_COMPLETE"}
    /\ Expected["FW_CONFIG"] = {"FW_CONFIG_COMPLETE"} /\ Expected["OPERATIONAL"] = {"STOP", "RECOVERY"}
    /\ Expected["DISCONNECTING"] = {"DISCONNECTED"} /\ Expected["STOPPING"] = {"STOP_COMPLETE"}
    /\ Expected["STOPPED"] = {"START"} /\ Expected["STOPPING_ON_FAIL"] = Event /\ Expected["FAILED"] = Event
BY DEF Expected

(* The rounds of the state machine, once more.                             *)
LEMMA GoesOnSafely ==
    ASSUME IndInv, ActionTypes, Control, OneFailure,
           \/ SmIdle \/ SmWaitIniFile \/ SmWaitNvsFile \/ SmHwInit \/ SmDownloadFwFile \/ SmWaitFwFile
           \/ SmFwInit \/ SmFwConfig \/ SmOperationalStop
           \/ SmStoppingForRecovery \/ SmStopping \/ SmStopped \/ SmStoppingOnFail \/ SmFailed
    PROVE  Control' /\ OneFailure'
<1>. USE DEF recvars, ctxvars, actvars, devvars, stepvars, stopvars, failvars, IndInv, Types,
     RecoveryAsked, PowerFirst, Control, RestTypes, Attempts, TwoPending, DriverFails, ClientServed, Current,
     Boot, Asked, OnFail, Event, Idle, Handled
<1>1. CASE SmIdle
  <2>1. ~Idle /\ Nested(<<"INI_FILE_READY">>)
    BY <1>1 DEF SmIdle, Handles
  <2>2. /\ uPendingEventsCount' = uPendingEventsCount /\ ePendingEvent' = "INI_FILE_READY"
        /\ overwritten' = (overwritten \/ (uPendingEventsCount > 1 /\ ePendingEvent # "INI_FILE_READY"))
    BY <2>1, NestedNone, NestedOne
  <2>3. RestTypes'
    BY <1>1, <2>1, <2>2, Numbers DEF SmIdle, Handles
  <2>4. Attempts'
    BY <1>1, <2>1, <2>2, Numbers DEF SmIdle, Handles
  <2>5. TwoPending' /\ DriverFails'
    BY <1>1, <2>1, <2>2 DEF SmIdle, Handles
  <2>6. ClientServed'
    BY <1>1, <2>1, <2>2 DEF SmIdle, Handles
  <2>7. Current'
    BY <1>1, <2>1, <2>2 DEF SmIdle, Handles
  <2>8. ASSUME failures' <= 1 PROVE ~stray'
    BY <1>1, <2>1, <2>2, <2>8, Expectations, Blamed DEF SmIdle, Handles, OneFailure, StagesFollow, Nobody, Asks
  <2>9. ASSUME failures' <= 1 PROVE StagesFollow'
    BY <1>1, <2>1, <2>2, <2>9, Expectations, Blamed DEF SmIdle, Handles, OneFailure, StagesFollow, Nobody, Asks
  <2>10. ASSUME failures' <= 1 PROVE Nobody'
    BY <1>1, <2>1, <2>2, <2>10, Expectations, Blamed DEF SmIdle, Handles, OneFailure, StagesFollow, Nobody, Asks
  <2>. QED  BY <2>3, <2>4, <2>5, <2>6, <2>7, <2>8, <2>9, <2>10 DEF OneFailure
<1>2. CASE SmWaitIniFile
  <2>1. ~Idle /\ Nested(<<"NVS_FILE_READY">>)
    BY <1>2 DEF SmWaitIniFile, Handles
  <2>2. /\ uPendingEventsCount' = uPendingEventsCount /\ ePendingEvent' = "NVS_FILE_READY"
        /\ overwritten' = (overwritten \/ (uPendingEventsCount > 1 /\ ePendingEvent # "NVS_FILE_READY"))
    BY <2>1, NestedNone, NestedOne
  <2>3. RestTypes'
    BY <1>2, <2>1, <2>2, Numbers DEF SmWaitIniFile, Handles
  <2>4. Attempts'
    BY <1>2, <2>1, <2>2, Numbers DEF SmWaitIniFile, Handles
  <2>5. TwoPending' /\ DriverFails'
    BY <1>2, <2>1, <2>2 DEF SmWaitIniFile, Handles
  <2>6. ClientServed'
    BY <1>2, <2>1, <2>2 DEF SmWaitIniFile, Handles
  <2>7. Current'
    BY <1>2, <2>1, <2>2 DEF SmWaitIniFile, Handles
  <2>8. ASSUME failures' <= 1 PROVE ~stray'
    BY <1>2, <2>1, <2>2, <2>8, Expectations, Blamed DEF SmWaitIniFile, Handles, OneFailure, StagesFollow, Nobody, Asks
  <2>9. ASSUME failures' <= 1 PROVE StagesFollow'
    BY <1>2, <2>1, <2>2, <2>9, Expectations, Blamed DEF SmWaitIniFile, Handles, OneFailure, StagesFollow, Nobody, Asks
  <2>10. ASSUME failures' <= 1 PROVE Nobody'
    BY <1>2, <2>1, <2>2, <2>10, Expectations, Blamed DEF SmWaitIniFile, Handles, OneFailure, StagesFollow, Nobody,
         Asks
  <2>. QED  BY <2>3, <2>4, <2>5, <2>6, <2>7, <2>8, <2>9, <2>10 DEF OneFailure
<1>3. CASE SmWaitNvsFile
  <2>1. ~Idle /\ \/ Nested(<< >>) /\ stage' = "hw"
                 \/ Nested(<<"HW_INIT_COMPLETE">>) /\ stage' = "none"
                 \/ Nested(<<"FAILURE">>) /\ stage' = "none" /\ failures' = failures + 1
    BY <1>3 DEF SmWaitNvsFile, Handles, Fault
  <2>2. \/ /\ stage' = "hw"
           /\ Handled
        \/ /\ stage' = "none"
           /\ uPendingEventsCount' = uPendingEventsCount /\ ePendingEvent' = "HW_INIT_COMPLETE"
           /\ overwritten' = (overwritten \/ (uPendingEventsCount > 1 /\ ePendingEvent # "HW_INIT_COMPLETE"))
        \/ /\ stage' = "none" /\ failures' = failures + 1
           /\ uPendingEventsCount' = uPendingEventsCount /\ ePendingEvent' = "FAILURE"
           /\ overwritten' = (overwritten \/ (uPendingEventsCount > 1 /\ ePendingEvent # "FAILURE"))
    BY <2>1, NestedNone, NestedOne
  <2>3. RestTypes'
    BY <1>3, <2>1, <2>2, Numbers DEF SmWaitNvsFile, Handles, Fault, RestartIsOver
  <2>4. Attempts'
    BY <1>3, <2>1, <2>2, Numbers DEF SmWaitNvsFile, Handles, Fault, RestartIsOver
  <2>5. TwoPending' /\ DriverFails'
    BY <1>3, <2>1, <2>2 DEF SmWaitNvsFile, Handles, Fault, RestartIsOver
  <2>6. ClientServed'
    BY <1>3, <2>1, <2>2 DEF SmWaitNvsFile, Handles, Fault, RestartIsOver
  <2>7. Current'
    BY <1>3, <2>1, <2>2 DEF SmWaitNvsFile, Handles, Fault, RestartIsOver
  <2>8. ASSUME failures' <= 1 PROVE ~stray'
    BY <1>3, <2>1, <2>2, <2>8, Expectations, Blamed DEF SmWaitNvsFile, Handles, Fault, RestartIsOver, OneFailure,
         StagesFollow, Nobody, Asks
  <2>9. ASSUME failures' <= 1 PROVE StagesFollow'
    BY <1>3, <2>1, <2>2, <2>9, Expectations, Blamed DEF SmWaitNvsFile, Handles, Fault, RestartIsOver, OneFailure,
         StagesFollow, Nobody, Asks
  <2>10. ASSUME failures' <= 1 PROVE Nobody'
    BY <1>3, <2>1, <2>2, <2>10, Expectations, Blamed DEF SmWaitNvsFile, Handles, Fault, RestartIsOver, OneFailure,
         StagesFollow, Nobody, Asks
  <2>. QED  BY <2>3, <2>4, <2>5, <2>6, <2>7, <2>8, <2>9, <2>10 DEF OneFailure
<1>4. CASE SmHwInit
  <2>1. ~Idle /\ Nested(<<"FW_FILE_READY">>)
    BY <1>4 DEF SmHwInit, Handles
  <2>2. /\ uPendingEventsCount' = uPendingEventsCount /\ ePendingEvent' = "FW_FILE_READY"
        /\ overwritten' = (overwritten \/ (uPendingEventsCount > 1 /\ ePendingEvent # "FW_FILE_READY"))
    BY <2>1, NestedNone, NestedOne
  <2>3. RestTypes'
    BY <1>4, <2>1, <2>2, Numbers DEF SmHwInit, Handles
  <2>4. Attempts'
    BY <1>4, <2>1, <2>2, Numbers DEF SmHwInit, Handles
  <2>5. TwoPending' /\ DriverFails'
    BY <1>4, <2>1, <2>2 DEF SmHwInit, Handles
  <2>6. ClientServed'
    BY <1>4, <2>1, <2>2 DEF SmHwInit, Handles
  <2>7. Current'
    BY <1>4, <2>1, <2>2 DEF SmHwInit, Handles
  <2>8. ASSUME failures' <= 1 PROVE ~stray'
    BY <1>4, <2>1, <2>2, <2>8, Expectations, Blamed DEF SmHwInit, Handles, OneFailure, StagesFollow, Nobody, Asks
  <2>9. ASSUME failures' <= 1 PROVE StagesFollow'
    BY <1>4, <2>1, <2>2, <2>9, Expectations, Blamed DEF SmHwInit, Handles, OneFailure, StagesFollow, Nobody, Asks
  <2>10. ASSUME failures' <= 1 PROVE Nobody'
    BY <1>4, <2>1, <2>2, <2>10, Expectations, Blamed DEF SmHwInit, Handles, OneFailure, StagesFollow, Nobody, Asks
  <2>. QED  BY <2>3, <2>4, <2>5, <2>6, <2>7, <2>8, <2>9, <2>10 DEF OneFailure
<1>5. CASE SmDownloadFwFile
  <2>1. ~Idle /\ \/ Nested(<< >>) /\ stage' = "fw"
                 \/ Nested(<<"FW_INIT_COMPLETE">>) /\ stage' = "none"
    BY <1>5 DEF SmDownloadFwFile, Handles
  <2>2. \/ /\ stage' = "fw"
           /\ Handled
        \/ /\ stage' = "none"
           /\ uPendingEventsCount' = uPendingEventsCount /\ ePendingEvent' = "FW_INIT_COMPLETE"
           /\ overwritten' = (overwritten \/ (uPendingEventsCount > 1 /\ ePendingEvent # "FW_INIT_COMPLETE"))
    BY <2>1, NestedNone, NestedOne
  <2>3. RestTypes'
    BY <1>5, <2>1, <2>2, Numbers DEF SmDownloadFwFile, Handles, LastPiece
  <2>4. Attempts'
    BY <1>5, <2>1, <2>2, Numbers DEF SmDownloadFwFile, Handles, LastPiece
  <2>5. TwoPending' /\ DriverFails'
    BY <1>5, <2>1, <2>2 DEF SmDownloadFwFile, Handles, LastPiece
  <2>6. ClientServed'
    BY <1>5, <2>1, <2>2 DEF SmDownloadFwFile, Handles, LastPiece
  <2>7. Current'
    BY <1>5, <2>1, <2>2 DEF SmDownloadFwFile, Handles, LastPiece
  <2>8. ASSUME failures' <= 1 PROVE ~stray'
    BY <1>5, <2>1, <2>2, <2>8, Expectations, Blamed DEF SmDownloadFwFile, Handles, LastPiece, OneFailure,
         StagesFollow, Nobody, Asks
  <2>9. ASSUME failures' <= 1 PROVE StagesFollow'
    BY <1>5, <2>1, <2>2, <2>9, Expectations, Blamed DEF SmDownloadFwFile, Handles, LastPiece, OneFailure,
         StagesFollow, Nobody, Asks
  <2>10. ASSUME failures' <= 1 PROVE Nobody'
    BY <1>5, <2>1, <2>2, <2>10, Expectations, Blamed DEF SmDownloadFwFile, Handles, LastPiece, OneFailure,
         StagesFollow, Nobody, Asks
  <2>. QED  BY <2>3, <2>4, <2>5, <2>6, <2>7, <2>8, <2>9, <2>10 DEF OneFailure
<1>6. CASE SmWaitFwFile
  <2>1. ~Idle /\ Nested(<<"FW_FILE_READY">>)
    BY <1>6 DEF SmWaitFwFile, Handles
  <2>2. /\ uPendingEventsCount' = uPendingEventsCount /\ ePendingEvent' = "FW_FILE_READY"
        /\ overwritten' = (overwritten \/ (uPendingEventsCount > 1 /\ ePendingEvent # "FW_FILE_READY"))
    BY <2>1, NestedNone, NestedOne
  <2>3. RestTypes'
    BY <1>6, <2>1, <2>2, Numbers DEF SmWaitFwFile, Handles
  <2>4. Attempts'
    BY <1>6, <2>1, <2>2, Numbers DEF SmWaitFwFile, Handles
  <2>5. TwoPending' /\ DriverFails'
    BY <1>6, <2>1, <2>2 DEF SmWaitFwFile, Handles
  <2>6. ClientServed'
    BY <1>6, <2>1, <2>2 DEF SmWaitFwFile, Handles
  <2>7. Current'
    BY <1>6, <2>1, <2>2 DEF SmWaitFwFile, Handles
  <2>8. ASSUME failures' <= 1 PROVE ~stray'
    BY <1>6, <2>1, <2>2, <2>8, Expectations, Blamed DEF SmWaitFwFile, Handles, OneFailure, StagesFollow, Nobody, Asks
  <2>9. ASSUME failures' <= 1 PROVE StagesFollow'
    BY <1>6, <2>1, <2>2, <2>9, Expectations, Blamed DEF SmWaitFwFile, Handles, OneFailure, StagesFollow, Nobody, Asks
  <2>10. ASSUME failures' <= 1 PROVE Nobody'
    BY <1>6, <2>1, <2>2, <2>10, Expectations, Blamed DEF SmWaitFwFile, Handles, OneFailure, StagesFollow, Nobody, Asks
  <2>. QED  BY <2>3, <2>4, <2>5, <2>6, <2>7, <2>8, <2>9, <2>10 DEF OneFailure
<1>7. CASE SmFwInit
  <2>1. ~Idle /\ Nested(<< >>)
    BY <1>7 DEF SmFwInit, Handles
  <2>2. Handled
    BY <2>1, NestedNone, NestedOne
  <2>3. RestTypes'
    BY <1>7, <2>1, <2>2, Numbers DEF SmFwInit, Handles, AnswersStart, Answer
  <2>4. Attempts'
    BY <1>7, <2>1, <2>2, Numbers DEF SmFwInit, Handles, AnswersStart, Answer
  <2>5. TwoPending' /\ DriverFails'
    BY <1>7, <2>1, <2>2 DEF SmFwInit, Handles, AnswersStart, Answer
  <2>6. ClientServed'
    BY <1>7, <2>1, <2>2 DEF SmFwInit, Handles, AnswersStart, Answer
  <2>7. Current'
    BY <1>7, <2>1, <2>2 DEF SmFwInit, Handles, AnswersStart, Answer
  <2>8. ASSUME failures' <= 1 PROVE ~stray'
    BY <1>7, <2>1, <2>2, <2>8, Expectations, Blamed DEF SmFwInit, Handles, AnswersStart, Answer, OneFailure,
         StagesFollow, Nobody, Asks
  <2>9. ASSUME failures' <= 1 PROVE StagesFollow'
    BY <1>7, <2>1, <2>2, <2>9, Expectations, Blamed DEF SmFwInit, Handles, AnswersStart, Answer, OneFailure,
         StagesFollow, Nobody, Asks
  <2>10. ASSUME failures' <= 1 PROVE Nobody'
    BY <1>7, <2>1, <2>2, <2>10, Expectations, Blamed DEF SmFwInit, Handles, AnswersStart, Answer, OneFailure,
         StagesFollow, Nobody, Asks
  <2>. QED  BY <2>3, <2>4, <2>5, <2>6, <2>7, <2>8, <2>9, <2>10 DEF OneFailure
<1>8. CASE SmFwConfig
  <2>1. ~Idle /\ Nested(<< >>)
    BY <1>8 DEF SmFwConfig, Handles
  <2>2. Handled
    BY <2>1, NestedNone, NestedOne
  <2>3. RestTypes'
    BY <1>8, <2>1, <2>2, Numbers DEF SmFwConfig, Handles, EnableClient
  <2>4. Attempts'
    BY <1>8, <2>1, <2>2, Numbers DEF SmFwConfig, Handles, EnableClient
  <2>5. TwoPending' /\ DriverFails'
    BY <1>8, <2>1, <2>2 DEF SmFwConfig, Handles, EnableClient
  <2>6. ClientServed'
    BY <1>8, <2>1, <2>2 DEF SmFwConfig, Handles, EnableClient
  <2>7. Current'
    BY <1>8, <2>1, <2>2 DEF SmFwConfig, Handles, EnableClient
  <2>8. ASSUME failures' <= 1 PROVE ~stray'
    BY <1>8, <2>1, <2>2, <2>8, Expectations, Blamed DEF SmFwConfig, Handles, EnableClient, OneFailure, StagesFollow,
         Nobody, Asks
  <2>9. ASSUME failures' <= 1 PROVE StagesFollow'
    BY <1>8, <2>1, <2>2, <2>9, Expectations, Blamed DEF SmFwConfig, Handles, EnableClient, OneFailure, StagesFollow,
         Nobody, Asks
  <2>10. ASSUME failures' <= 1 PROVE Nobody'
    BY <1>8, <2>1, <2>2, <2>10, Expectations, Blamed DEF SmFwConfig, Handles, EnableClient, OneFailure, StagesFollow,
         Nobody, Asks
  <2>. QED  BY <2>3, <2>4, <2>5, <2>6, <2>7, <2>8, <2>9, <2>10 DEF OneFailure
<1>9. CASE SmOperationalStop
  <2>1. ~Idle /\ \/ Nested(<< >>) /\ smeStopping' = TRUE
                 \/ Nested(<<"DISCONNECTED">>) /\ smeStopping' = smeStopping
    BY <1>9 DEF SmOperationalStop, Handles
  <2>2. \/ /\ smeStopping' = TRUE
           /\ Handled
        \/ /\ smeStopping' = smeStopping
           /\ uPendingEventsCount' = uPendingEventsCount /\ ePendingEvent' = "DISCONNECTED"
           /\ overwritten' = (overwritten \/ (uPendingEventsCount > 1 /\ ePendingEvent # "DISCONNECTED"))
    BY <2>1, NestedNone, NestedOne
  <2>3. RestTypes'
    BY <1>9, <2>1, <2>2, Numbers DEF SmOperationalStop, Handles, LeaveOperational
  <2>4. Attempts'
    BY <1>9, <2>1, <2>2, Numbers DEF SmOperationalStop, Handles, LeaveOperational
  <2>5. TwoPending' /\ DriverFails'
    BY <1>9, <2>1, <2>2 DEF SmOperationalStop, Handles, LeaveOperational
  <2>6. ClientServed'
    BY <1>9, <2>1, <2>2 DEF SmOperationalStop, Handles, LeaveOperational
  <2>7. Current'
    BY <1>9, <2>1, <2>2 DEF SmOperationalStop, Handles, LeaveOperational
  <2>8. ASSUME failures' <= 1 PROVE ~stray'
    BY <1>9, <2>1, <2>2, <2>8, Expectations, Blamed DEF SmOperationalStop, Handles, LeaveOperational, OneFailure,
         StagesFollow, Nobody, Asks
  <2>9. ASSUME failures' <= 1 PROVE StagesFollow'
    BY <1>9, <2>1, <2>2, <2>9, Expectations, Blamed DEF SmOperationalStop, Handles, LeaveOperational, OneFailure,
         StagesFollow, Nobody, Asks
  <2>10. ASSUME failures' <= 1 PROVE Nobody'
    BY <1>9, <2>1, <2>2, <2>10, Expectations, Blamed DEF SmOperationalStop, Handles, LeaveOperational, OneFailure,
         StagesFollow, Nobody, Asks
  <2>. QED  BY <2>3, <2>4, <2>5, <2>6, <2>7, <2>8, <2>9, <2>10 DEF OneFailure
<1>10. CASE SmStoppingForRecovery
  <2>1. ~Idle /\ Nested(<<"NVS_FILE_READY">>)
    BY <1>10 DEF SmStoppingForRecovery, Handles
  <2>2. /\ uPendingEventsCount' = uPendingEventsCount /\ ePendingEvent' = "NVS_FILE_READY"
        /\ overwritten' = (overwritten \/ (uPendingEventsCount > 1 /\ ePendingEvent # "NVS_FILE_READY"))
    BY <2>1, NestedNone, NestedOne
  <2>3. RestTypes'
    BY <1>10, <2>1, <2>2, Numbers DEF SmStoppingForRecovery, Handles
  <2>4. Attempts'
    BY <1>10, <2>1, <2>2, Numbers DEF SmStoppingForRecovery, Handles
  <2>5. TwoPending' /\ DriverFails'
    BY <1>10, <2>1, <2>2 DEF SmStoppingForRecovery, Handles
  <2>6. ClientServed'
    BY <1>10, <2>1, <2>2 DEF SmStoppingForRecovery, Handles
  <2>7. Current'
    BY <1>10, <2>1, <2>2 DEF SmStoppingForRecovery, Handles
  <2>8. ASSUME failures' <= 1 PROVE ~stray'
    BY <1>10, <2>1, <2>2, <2>8, Expectations, Blamed DEF SmStoppingForRecovery, Handles, OneFailure, StagesFollow,
         Nobody, Asks
  <2>9. ASSUME failures' <= 1 PROVE StagesFollow'
    BY <1>10, <2>1, <2>2, <2>9, Expectations, Blamed DEF SmStoppingForRecovery, Handles, OneFailure, StagesFollow,
         Nobody, Asks
  <2>10. ASSUME failures' <= 1 PROVE Nobody'
    BY <1>10, <2>1, <2>2, <2>10, Expectations, Blamed DEF SmStoppingForRecovery, Handles, OneFailure, StagesFollow,
         Nobody, Asks
  <2>. QED  BY <2>3, <2>4, <2>5, <2>6, <2>7, <2>8, <2>9, <2>10 DEF OneFailure
<1>11. CASE SmStopping
  <2>1. ~Idle /\ Nested(<< >>)
    BY <1>11 DEF SmStopping, Handles
  <2>2. Handled
    BY <2>1, NestedNone, NestedOne
  <2>3. RestTypes'
    BY <1>11, <2>1, <2>2, Numbers DEF SmStopping, Handles, EnableClient, Answer
  <2>4. Attempts'
    BY <1>11, <2>1, <2>2, Numbers DEF SmStopping, Handles, EnableClient, Answer
  <2>5. TwoPending' /\ DriverFails'
    BY <1>11, <2>1, <2>2 DEF SmStopping, Handles, EnableClient, Answer
  <2>6. ClientServed'
    BY <1>11, <2>1, <2>2 DEF SmStopping, Handles, EnableClient, Answer
  <2>7. Current'
    BY <1>11, <2>1, <2>2 DEF SmStopping, Handles, EnableClient, Answer
  <2>8. ASSUME failures' <= 1 PROVE ~stray'
    BY <1>11, <2>1, <2>2, <2>8, Expectations, Blamed DEF SmStopping, Handles, EnableClient, Answer, OneFailure,
         StagesFollow, Nobody, Asks
  <2>9. ASSUME failures' <= 1 PROVE StagesFollow'
    BY <1>11, <2>1, <2>2, <2>9, Expectations, Blamed DEF SmStopping, Handles, EnableClient, Answer, OneFailure,
         StagesFollow, Nobody, Asks
  <2>10. ASSUME failures' <= 1 PROVE Nobody'
    BY <1>11, <2>1, <2>2, <2>10, Expectations, Blamed DEF SmStopping, Handles, EnableClient, Answer, OneFailure,
         StagesFollow, Nobody, Asks
  <2>. QED  BY <2>3, <2>4, <2>5, <2>6, <2>7, <2>8, <2>9, <2>10 DEF OneFailure
<1>12. CASE SmStopped
  <2>1. ~Idle /\ Nested(<<"NVS_FILE_READY">>)
    BY <1>12 DEF SmStopped, Handles
  <2>2. /\ uPendingEventsCount' = uPendingEventsCount /\ ePendingEvent' = "NVS_FILE_READY"
        /\ overwritten' = (overwritten \/ (uPendingEventsCount > 1 /\ ePendingEvent # "NVS_FILE_READY"))
    BY <2>1, NestedNone, NestedOne
  <2>3. RestTypes'
    BY <1>12, <2>1, <2>2, Numbers DEF SmStopped, Handles
  <2>4. Attempts'
    BY <1>12, <2>1, <2>2, Numbers DEF SmStopped, Handles
  <2>5. TwoPending' /\ DriverFails'
    BY <1>12, <2>1, <2>2 DEF SmStopped, Handles
  <2>6. ClientServed'
    BY <1>12, <2>1, <2>2 DEF SmStopped, Handles
  <2>7. Current'
    BY <1>12, <2>1, <2>2 DEF SmStopped, Handles
  <2>8. ASSUME failures' <= 1 PROVE ~stray'
    BY <1>12, <2>1, <2>2, <2>8, Expectations, Blamed DEF SmStopped, Handles, OneFailure, StagesFollow, Nobody, Asks
  <2>9. ASSUME failures' <= 1 PROVE StagesFollow'
    BY <1>12, <2>1, <2>2, <2>9, Expectations, Blamed DEF SmStopped, Handles, OneFailure, StagesFollow, Nobody, Asks
  <2>10. ASSUME failures' <= 1 PROVE Nobody'
    BY <1>12, <2>1, <2>2, <2>10, Expectations, Blamed DEF SmStopped, Handles, OneFailure, StagesFollow, Nobody, Asks
  <2>. QED  BY <2>3, <2>4, <2>5, <2>6, <2>7, <2>8, <2>9, <2>10 DEF OneFailure
<1>13. CASE SmStoppingOnFail
  <2>1. ~Idle /\ Nested(<< >>)
    BY <1>13 DEF SmStoppingOnFail, Handles
  <2>2. Handled
    BY <2>1, NestedNone, NestedOne
  <2>3. RestTypes'
    BY <1>13, <2>1, <2>2, Numbers DEF SmStoppingOnFail, Handles, Retries, Answer
  <2>4. Attempts'
    BY <1>13, <2>1, <2>2, Numbers DEF SmStoppingOnFail, Handles, Retries, Answer
  <2>5. TwoPending' /\ DriverFails'
    BY <1>13, <2>1, <2>2 DEF SmStoppingOnFail, Handles, Retries, Answer
  <2>6. ClientServed'
    BY <1>13, <2>1, <2>2 DEF SmStoppingOnFail, Handles, Retries, Answer
  <2>7. Current'
    BY <1>13, <2>1, <2>2 DEF SmStoppingOnFail, Handles, Retries, Answer
  <2>8. ASSUME failures' <= 1 PROVE ~stray'
    BY <1>13, <2>1, <2>2, <2>8, Expectations, Blamed DEF SmStoppingOnFail, Handles, Retries, Answer, OneFailure,
         StagesFollow, Nobody, Asks
  <2>9. ASSUME failures' <= 1 PROVE StagesFollow'
    BY <1>13, <2>1, <2>2, <2>9, Expectations, Blamed DEF SmStoppingOnFail, Handles, Retries, Answer, OneFailure,
         StagesFollow, Nobody, Asks
  <2>10. ASSUME failures' <= 1 PROVE Nobody'
    BY <1>13, <2>1, <2>2, <2>10, Expectations, Blamed DEF SmStoppingOnFail, Handles, Retries, Answer, OneFailure,
         StagesFollow, Nobody, Asks
  <2>. QED  BY <2>3, <2>4, <2>5, <2>6, <2>7, <2>8, <2>9, <2>10 DEF OneFailure
<1>14. CASE SmFailed
  <2>1. ~Idle /\ Nested(<< >>)
    BY <1>14 DEF SmFailed, Handles
  <2>2. Handled
    BY <2>1, NestedNone, NestedOne
  <2>3. RestTypes'
    BY <1>14, <2>1, <2>2, Numbers DEF SmFailed, Handles
  <2>4. Attempts'
    BY <1>14, <2>1, <2>2, Numbers DEF SmFailed, Handles
  <2>5. TwoPending' /\ DriverFails'
    BY <1>14, <2>1, <2>2 DEF SmFailed, Handles
  <2>6. ClientServed'
    BY <1>14, <2>1, <2>2 DEF SmFailed, Handles
  <2>7. Current'
    BY <1>14, <2>1, <2>2 DEF SmFailed, Handles
  <2>8. ASSUME failures' <= 1 PROVE ~stray'
    BY <1>14, <2>1, <2>2, <2>8, Expectations, Blamed DEF SmFailed, Handles, OneFailure, StagesFollow, Nobody, Asks
  <2>9. ASSUME failures' <= 1 PROVE StagesFollow'
    BY <1>14, <2>1, <2>2, <2>9, Expectations, Blamed DEF SmFailed, Handles, OneFailure, StagesFollow, Nobody, Asks
  <2>10. ASSUME failures' <= 1 PROVE Nobody'
    BY <1>14, <2>1, <2>2, <2>10, Expectations, Blamed DEF SmFailed, Handles, OneFailure, StagesFollow, Nobody, Asks
  <2>. QED  BY <2>3, <2>4, <2>5, <2>6, <2>7, <2>8, <2>9, <2>10 DEF OneFailure
<1>. QED  BY <1>1, <1>2, <1>3, <1>4, <1>5, <1>6, <1>7, <1>8, <1>9, <1>10, <1>11, <1>12, <1>13, <1>14
LEMMA StopsSafely ==
    ASSUME IndInv, Control, OneFailure, SmOperationalRecovery \/ SmDisconnecting \/ SmStopsAgain
    PROVE  Control' /\ OneFailure'
<1>. USE DEF recvars, ctxvars, actvars, devvars, stepvars, stopvars, failvars, IndInv, Types,
     RecoveryAsked, PowerFirst, Control, RestTypes, Attempts, TwoPending, DriverFails, ClientServed, Current,
     Boot, Asked, OnFail, Event, Idle, Handled
<1>0. Types /\ ~Idle /\ StopActivities("STOPPING", bus, << >>)
  BY DEF SmOperationalRecovery, SmDisconnecting, SmStopsAgain, Handles
<1>1. /\ eSmState' = "STOPPING"
      /\ \/ /\ ePendingEvent' = ePendingEvent /\ overwritten' = overwritten
            /\ uPendingEventsCount' = uPendingEventsCount - 1
         \/ /\ ePendingEvent' = "STOP_COMPLETE" /\ uPendingEventsCount' = uPendingEventsCount
            /\ overwritten' = (overwritten \/ (uPendingEventsCount > 1 /\ ePendingEvent # "STOP_COMPLETE"))
  BY <1>0, Stop
<1>2. UNCHANGED <<uPiecesLeft, smeStopping>> /\ stage' = IF stage = "config" THEN "none" ELSE stage
  BY <1>0 DEF StopActivities
<1>3. CASE SmOperationalRecovery
  <2>1. RestTypes'
    BY <1>3, <1>0, <1>1, <1>2, Numbers DEF SmOperationalRecovery, Handles, LeaveForRecovery, LeaveOperational
  <2>2. Attempts'
    BY <1>3, <1>0, <1>1, <1>2, Numbers DEF SmOperationalRecovery, Handles, LeaveForRecovery, LeaveOperational
  <2>3. TwoPending' /\ DriverFails'
    BY <1>3, <1>0, <1>1, <1>2, Numbers DEF SmOperationalRecovery, Handles, LeaveForRecovery, LeaveOperational
  <2>4. ClientServed'
    BY <1>3, <1>0, <1>1, <1>2 DEF SmOperationalRecovery, Handles, LeaveForRecovery, LeaveOperational
  <2>5. Current'
    BY <1>3, <1>0, <1>1, <1>2 DEF SmOperationalRecovery, Handles, LeaveForRecovery, LeaveOperational
  <2>6. ASSUME failures' <= 1 PROVE ~stray'
    BY <1>3, <1>0, <1>1, <1>2, <2>6, Expectations, Blamed DEF SmOperationalRecovery, Handles, LeaveForRecovery,
         LeaveOperational, OneFailure, StagesFollow, Nobody, Asks
  <2>7. ASSUME failures' <= 1 PROVE StagesFollow'
    BY <1>3, <1>0, <1>1, <1>2, <2>7, Expectations, Blamed DEF SmOperationalRecovery, Handles, LeaveForRecovery,
         LeaveOperational, OneFailure, StagesFollow, Nobody, Asks
  <2>8. ASSUME failures' <= 1 PROVE Nobody'
    BY <1>3, <1>0, <1>1, <1>2, <2>8, Expectations, Blamed DEF SmOperationalRecovery, Handles, LeaveForRecovery,
         LeaveOperational, OneFailure, StagesFollow, Nobody, Asks
  <2>. QED  BY <2>1, <2>2, <2>3, <2>4, <2>5, <2>6, <2>7, <2>8 DEF OneFailure
<1>4. CASE SmDisconnecting
  <2>1. RestTypes'
    BY <1>4, <1>0, <1>1, <1>2, Numbers DEF SmDisconnecting, Handles
  <2>2. Attempts'
    BY <1>4, <1>0, <1>1, <1>2, Numbers DEF SmDisconnecting, Handles
  <2>3. TwoPending' /\ DriverFails'
    BY <1>4, <1>0, <1>1, <1>2, Numbers DEF SmDisconnecting, Handles
  <2>4. ClientServed'
    BY <1>4, <1>0, <1>1, <1>2 DEF SmDisconnecting, Handles
  <2>5. Current'
    BY <1>4, <1>0, <1>1, <1>2 DEF SmDisconnecting, Handles
  <2>6. ASSUME failures' <= 1 PROVE ~stray'
    BY <1>4, <1>0, <1>1, <1>2, <2>6, Expectations, Blamed DEF SmDisconnecting, Handles, OneFailure, StagesFollow,
         Nobody, Asks
  <2>7. ASSUME failures' <= 1 PROVE StagesFollow'
    BY <1>4, <1>0, <1>1, <1>2, <2>7, Expectations, Blamed DEF SmDisconnecting, Handles, OneFailure, StagesFollow,
         Nobody, Asks
  <2>8. ASSUME failures' <= 1 PROVE Nobody'
    BY <1>4, <1>0, <1>1, <1>2, <2>8, Expectations, Blamed DEF SmDisconnecting, Handles, OneFailure, StagesFollow,
         Nobody, Asks
  <2>. QED  BY <2>1, <2>2, <2>3, <2>4, <2>5, <2>6, <2>7, <2>8 DEF OneFailure
<1>5. CASE SmStopsAgain
  <2>1. RestTypes'
    BY <1>5, <1>0, <1>1, <1>2, Numbers DEF SmStopsAgain, Handles, Retries
  <2>2. Attempts'
    BY <1>5, <1>0, <1>1, <1>2, Numbers DEF SmStopsAgain, Handles, Retries
  <2>3. TwoPending' /\ DriverFails'
    BY <1>5, <1>0, <1>1, <1>2, Numbers DEF SmStopsAgain, Handles, Retries
  <2>4. ClientServed'
    BY <1>5, <1>0, <1>1, <1>2 DEF SmStopsAgain, Handles, Retries
  <2>5. Current'
    BY <1>5, <1>0, <1>1, <1>2 DEF SmStopsAgain, Handles, Retries
  <2>6. ASSUME failures' <= 1 PROVE ~stray'
    BY <1>5, <1>0, <1>1, <1>2, <2>6, Expectations, Blamed DEF SmStopsAgain, Handles, Retries, OneFailure,
         StagesFollow, Nobody, Asks
  <2>7. ASSUME failures' <= 1 PROVE StagesFollow'
    BY <1>5, <1>0, <1>1, <1>2, <2>7, Expectations, Blamed DEF SmStopsAgain, Handles, Retries, OneFailure,
         StagesFollow, Nobody, Asks
  <2>8. ASSUME failures' <= 1 PROVE Nobody'
    BY <1>5, <1>0, <1>1, <1>2, <2>8, Expectations, Blamed DEF SmStopsAgain, Handles, Retries, OneFailure,
         StagesFollow, Nobody, Asks
  <2>. QED  BY <2>1, <2>2, <2>3, <2>4, <2>5, <2>6, <2>7, <2>8 DEF OneFailure
<1>. QED  BY <1>3, <1>4, <1>5

LEMMA FailsSafely ==
    ASSUME IndInv, Control, OneFailure, SmConnectFails \/ SmNoFwFile \/ SmLoadFails \/ SmUnexpected
    PROVE  Control' /\ OneFailure'
<1>. USE DEF recvars, ctxvars, actvars, devvars, stepvars, stopvars, failvars, IndInv, Types,
     RecoveryAsked, PowerFirst, Control, RestTypes, Attempts, TwoPending, DriverFails, ClientServed, Current,
     Boot, Asked, OnFail, Event, Idle, Handled
<1>0. Types /\ ~Idle
  BY DEF SmConnectFails, SmNoFwFile, SmLoadFails, SmUnexpected, Handles
<1>1. /\ \E nested \in {<< >>, <<"FAILURE", "FAILURE">>} : SmFails(nested)
      /\ SmConnectFails \/ SmNoFwFile \/ SmUnexpected => SmFails(<< >>)
      /\ SmLoadFails => SmFails(<<"FAILURE", "FAILURE">>)
  BY DEF SmConnectFails, SmNoFwFile, SmLoadFails, SmUnexpected
<1>2. /\ eSmState' = "STOPPING_ON_FAIL" /\ eDriverState' = "FAILED" /\ UNCHANGED <<uPiecesLeft, smeStopping>>
      /\ stage' = IF stage = "config" THEN "none" ELSE stage
  BY <1>1 DEF SmFails, StopActivities
<1>3. CASE SmConnectFails \/ SmNoFwFile \/ SmUnexpected
  <2>1. << >> \o TwdStopCb("STOPPING_ON_FAIL") = << >>
    BY DEF TwdStopCb
  <2>2. Nested(<< >>)
    BY <1>1, <1>3, <2>1 DEF SmFails, StopActivities
  <2>3. Handled
    BY <1>0, <2>2, NestedNone
  <2>4. CASE SmConnectFails
    <3>1. RestTypes'
      BY <2>4, <1>0, <1>2, <2>3, Numbers DEF SmConnectFails, Handles, Fault
    <3>2. Attempts'
      BY <2>4, <1>0, <1>2, <2>3, Numbers DEF SmConnectFails, Handles, Fault
    <3>3. TwoPending' /\ DriverFails'
      BY <2>4, <1>0, <1>2, <2>3, Numbers DEF SmConnectFails, Handles, Fault
    <3>4. ClientServed'
      BY <2>4, <1>0, <1>2, <2>3 DEF SmConnectFails, Handles, Fault
    <3>5. Current'
      BY <2>4, <1>0, <1>2, <2>3 DEF SmConnectFails, Handles, Fault
    <3>6. ASSUME failures' <= 1 PROVE ~stray'
      BY <2>4, <1>0, <1>2, <2>3, <3>6, Expectations, Blamed DEF SmConnectFails, Handles, Fault, OneFailure,
           StagesFollow, Nobody, Asks
    <3>7. ASSUME failures' <= 1 PROVE StagesFollow'
      BY <2>4, <1>0, <1>2, <2>3, <3>7, Expectations, Blamed DEF SmConnectFails, Handles, Fault, OneFailure,
           StagesFollow, Nobody, Asks
    <3>8. ASSUME failures' <= 1 PROVE Nobody'
      BY <2>4, <1>0, <1>2, <2>3, <3>8, Expectations, Blamed DEF SmConnectFails, Handles, Fault, OneFailure,
           StagesFollow, Nobody, Asks
    <3>. QED  BY <3>1, <3>2, <3>3, <3>4, <3>5, <3>6, <3>7, <3>8 DEF OneFailure
  <2>5. CASE SmNoFwFile
    <3>1. RestTypes'
      BY <2>5, <1>0, <1>2, <2>3, Numbers DEF SmNoFwFile, Handles, Fault
    <3>2. Attempts'
      BY <2>5, <1>0, <1>2, <2>3, Numbers DEF SmNoFwFile, Handles, Fault
    <3>3. TwoPending' /\ DriverFails'
      BY <2>5, <1>0, <1>2, <2>3, Numbers DEF SmNoFwFile, Handles, Fault
    <3>4. ClientServed'
      BY <2>5, <1>0, <1>2, <2>3 DEF SmNoFwFile, Handles, Fault
    <3>5. Current'
      BY <2>5, <1>0, <1>2, <2>3 DEF SmNoFwFile, Handles, Fault
    <3>6. ASSUME failures' <= 1 PROVE ~stray'
      BY <2>5, <1>0, <1>2, <2>3, <3>6, Expectations, Blamed DEF SmNoFwFile, Handles, Fault, OneFailure, StagesFollow,
           Nobody, Asks
    <3>7. ASSUME failures' <= 1 PROVE StagesFollow'
      BY <2>5, <1>0, <1>2, <2>3, <3>7, Expectations, Blamed DEF SmNoFwFile, Handles, Fault, OneFailure, StagesFollow,
           Nobody, Asks
    <3>8. ASSUME failures' <= 1 PROVE Nobody'
      BY <2>5, <1>0, <1>2, <2>3, <3>8, Expectations, Blamed DEF SmNoFwFile, Handles, Fault, OneFailure, StagesFollow,
           Nobody, Asks
    <3>. QED  BY <3>1, <3>2, <3>3, <3>4, <3>5, <3>6, <3>7, <3>8 DEF OneFailure
  <2>6. CASE SmUnexpected
    <3>1. RestTypes'
      BY <2>6, <1>0, <1>2, <2>3, Numbers DEF SmUnexpected, Handles, Fault
    <3>2. Attempts'
      BY <2>6, <1>0, <1>2, <2>3, Numbers DEF SmUnexpected, Handles, Fault
    <3>3. TwoPending' /\ DriverFails'
      BY <2>6, <1>0, <1>2, <2>3, Numbers DEF SmUnexpected, Handles, Fault
    <3>4. ClientServed'
      BY <2>6, <1>0, <1>2, <2>3 DEF SmUnexpected, Handles, Fault
    <3>5. Current'
      BY <2>6, <1>0, <1>2, <2>3 DEF SmUnexpected, Handles, Fault
    <3>6. ASSUME failures' <= 1 PROVE ~stray'
      BY <2>6, <1>0, <1>2, <2>3, <3>6, Expectations, Blamed DEF SmUnexpected, Handles, Fault, OneFailure,
           StagesFollow, Nobody, Asks
    <3>7. ASSUME failures' <= 1 PROVE StagesFollow'
      BY <2>6, <1>0, <1>2, <2>3, <3>7, Expectations, Blamed DEF SmUnexpected, Handles, Fault, OneFailure,
           StagesFollow, Nobody, Asks
    <3>8. ASSUME failures' <= 1 PROVE Nobody'
      BY <2>6, <1>0, <1>2, <2>3, <3>8, Expectations, Blamed DEF SmUnexpected, Handles, Fault, OneFailure,
           StagesFollow, Nobody, Asks
    <3>. QED  BY <3>1, <3>2, <3>3, <3>4, <3>5, <3>6, <3>7, <3>8 DEF OneFailure
  <2>. QED  BY <1>3, <2>4, <2>5, <2>6
<1>4. CASE SmLoadFails
  <2>1. <<"FAILURE", "FAILURE">> \o TwdStopCb("STOPPING_ON_FAIL") = <<"FAILURE", "FAILURE">>
    BY DEF TwdStopCb
  <2>2. Nested(<<"FAILURE", "FAILURE">>)
    BY <1>1, <1>4, <2>1 DEF SmFails, StopActivities
  <2>3. /\ uPendingEventsCount' = uPendingEventsCount + 1 /\ ePendingEvent' = "FAILURE"
        /\ overwritten' = (overwritten \/ (uPendingEventsCount > 1 /\ ePendingEvent # "FAILURE"))
    BY <1>0, <2>2, NestedTwo
  <2>4. RestTypes'
    BY <1>4, <1>0, <1>2, <2>3, Numbers DEF SmLoadFails, Handles, Fault
  <2>5. Attempts'
    BY <1>4, <1>0, <1>2, <2>3, Numbers DEF SmLoadFails, Handles, Fault
  <2>6. TwoPending' /\ DriverFails'
    BY <1>4, <1>0, <1>2, <2>3, Numbers DEF SmLoadFails, Handles, Fault
  <2>7. ClientServed'
    BY <1>4, <1>0, <1>2, <2>3 DEF SmLoadFails, Handles, Fault
  <2>8. Current'
    BY <1>4, <1>0, <1>2, <2>3 DEF SmLoadFails, Handles, Fault
  <2>9. ASSUME failures' <= 1 PROVE ~stray'
    BY <1>4, <1>0, <1>2, <2>3, <2>9, Expectations, Blamed DEF SmLoadFails, Handles, Fault, OneFailure, StagesFollow,
         Nobody, Asks
  <2>10. ASSUME failures' <= 1 PROVE StagesFollow'
    BY <1>4, <1>0, <1>2, <2>3, <2>10, Expectations, Blamed DEF SmLoadFails, Handles, Fault, OneFailure, StagesFollow,
         Nobody, Asks
  <2>11. ASSUME failures' <= 1 PROVE Nobody'
    BY <1>4, <1>0, <1>2, <2>3, <2>11, Expectations, Blamed DEF SmLoadFails, Handles, Fault, OneFailure, StagesFollow,
         Nobody, Asks
  <2>. QED  BY <2>4, <2>5, <2>6, <2>7, <2>8, <2>9, <2>10, <2>11 DEF OneFailure
<1>. QED  BY <1>3, <1>4

(* The other steps of the driver.                                          *)
LEMMA FailPresent == ASSUME OneRequest, Present # << >>, Head(Present) = "fail" PROVE failureEvent
<1>1. Present \in Seq(Timers) /\ Present \in {hOperQueue, hInitQueue}
  BY DEF OneRequest, Present
<1>2. In("fail", Present)
  BY <1>1 DEF In
<1>. QED  BY <1>1, <1>2 DEF OneRequest

LEMMA Untouched ==
    ASSUME Control, OneFailure, aClientPending' \in BOOLEAN,
           UNCHANGED <<eSmState, ePendingEvent, uPendingEventsCount, overwritten, bRecovery, uNumOfRecoveryAttempts,
                       aClientEnabled, pCurrAction, eLastAction, stray, eDriverState, bus, stage, uPiecesLeft,
                       smeStopping,
                       failureEvent, failures>>
    PROVE  Control' /\ OneFailure'
<1>1. RestTypes'
  BY DEF Control, RestTypes
<1>2. Attempts' /\ TwoPending' /\ DriverFails' /\ ClientServed'
  BY DEF Control, Attempts, TwoPending, DriverFails, ClientServed, Asked, Idle, OnFail
<1>3. Current'
  BY DEF Control, Current, Asked, Idle, Boot
<1>4. StagesFollow' = StagesFollow /\ Nobody' = Nobody
  BY DEF StagesFollow, Nobody, Asks, Asked, Idle, Boot
<1>. QED  BY <1>1, <1>2, <1>3, <1>4 DEF Control, OneFailure

LEMMA OutsideSafely ==
    ASSUME IndInv, Control, OneFailure, OneRequest, Waits, ActionTypes,
           \/ \E u \in Users, a \in {"START", "STOP"} : InsertAction(u, a)
           \/ InvokeAction \/ InitHwCb \/ InitFwCb \/ ConfigFwCb \/ SmeStop
           \/ TxnDoneCb \/ HandleTxnDone \/ PendRestartTimeout
           \/ SendFailureEvent \/ Recovery
           \/ \E t \in Timers : TimerExpires(t)
           \/ UNCHANGED vars
    PROVE  Control' /\ OneFailure'
<1>. USE DEF recvars, ctxvars, actvars, devvars, stepvars, stopvars, failvars, IndInv, Types,
     RecoveryAsked, PowerFirst, Control, RestTypes, Attempts, TwoPending, DriverFails, ClientServed, Current,
     Boot, Asked, OnFail, Event, Idle, Handled
<1>1. CASE InvokeAction
  <2>1. CASE hActionQueue = << >> \/ waiting[Head(hActionQueue)] = eLastAction
    <3>1. /\ UNCHANGED <<smvars, recvars, aClientEnabled, pCurrAction, eLastAction, stray, eDriverState, devvars,
                         stepvars, failvars>>
          /\ aClientPending' = FALSE
      BY <1>1, <2>1 DEF InvokeAction
    <3>. QED  BY <3>1, Untouched DEF smvars
  <2>2. CASE hActionQueue # << >> /\ waiting[Head(hActionQueue)] # eLastAction
    <3>1. /\ Head(hActionQueue) \in Users \ {None} /\ waiting[Head(hActionQueue)] \in {"START", "STOP"}
      <4>1. hActionQueue[1] = Head(hActionQueue) /\ Head(hActionQueue) \in Users /\ 1 \in 1..Len(hActionQueue)
        BY <2>2 DEF ActionTypes
      <4>. QED  BY <4>1, DrvMainAssumption DEF Waits, ActionTypes
    <3>2. /\ Idle /\ uPendingEventsCount' = 1 /\ ePendingEvent' \in {"START", "STOP"} /\ ePendingEvent' = eLastAction'
          /\ pCurrAction' \in Users /\ pCurrAction' # None
          /\ UNCHANGED <<eSmState, overwritten, recvars, aClientEnabled, stray, eDriverState, devvars, stepvars,
                       failvars>>
          /\ aClientPending' = FALSE /\ aClientEnabled
      BY <1>1, <2>2, <3>1 DEF InvokeAction, SmEvent
    <3>3. RestTypes'
      BY <3>1, <3>2, Numbers DEF smvars
    <3>4. Attempts'
      BY <3>1, <3>2, Numbers DEF smvars
    <3>5. TwoPending' /\ DriverFails'
      BY <3>1, <3>2, Numbers DEF smvars
    <3>6. ClientServed'
      BY <3>1, <3>2 DEF smvars
    <3>7. Current'
      BY <3>1, <3>2 DEF smvars
    <3>8. ASSUME failures' <= 1 PROVE ~stray'
      BY <3>1, <3>2, <3>8, Expectations, Blamed DEF smvars, OneFailure, StagesFollow, Nobody, Asks
    <3>9. ASSUME failures' <= 1 PROVE StagesFollow'
      BY <3>1, <3>2, <3>9, Expectations, Blamed DEF smvars, OneFailure, StagesFollow, Nobody, Asks
    <3>10. ASSUME failures' <= 1 PROVE Nobody'
      BY <3>1, <3>2, <3>10, Expectations, Blamed DEF smvars, OneFailure, StagesFollow, Nobody, Asks
    <3>. QED  BY <3>3, <3>4, <3>5, <3>6, <3>7, <3>8, <3>9, <3>10 DEF OneFailure
  <2>. QED  BY <2>1, <2>2
<1>2. CASE InitHwCb
  <2>1. RestTypes'
    BY <1>2, Numbers DEF InitHwCb, InitEnds, SmEvent, Fault, smvars
  <2>2. Attempts'
    BY <1>2, Numbers DEF InitHwCb, InitEnds, SmEvent, Fault, smvars
  <2>3. TwoPending' /\ DriverFails'
    BY <1>2, Numbers DEF InitHwCb, InitEnds, SmEvent, Fault, smvars
  <2>4. ClientServed'
    BY <1>2 DEF InitHwCb, InitEnds, SmEvent, Fault, smvars
  <2>5. Current'
    BY <1>2 DEF InitHwCb, InitEnds, SmEvent, Fault, smvars
  <2>6. ASSUME failures' <= 1 PROVE ~stray'
    BY <1>2, <2>6, Expectations, Blamed DEF InitHwCb, InitEnds, SmEvent, Fault, smvars, OneFailure, StagesFollow,
         Nobody, Asks
  <2>7. ASSUME failures' <= 1 PROVE StagesFollow'
    BY <1>2, <2>7, Expectations, Blamed DEF InitHwCb, InitEnds, SmEvent, Fault, smvars, OneFailure, StagesFollow,
         Nobody, Asks
  <2>8. ASSUME failures' <= 1 PROVE Nobody'
    BY <1>2, <2>8, Expectations, Blamed DEF InitHwCb, InitEnds, SmEvent, Fault, smvars, OneFailure, StagesFollow,
         Nobody, Asks
  <2>. QED  BY <2>1, <2>2, <2>3, <2>4, <2>5, <2>6, <2>7, <2>8 DEF OneFailure
<1>3. CASE InitFwCb
  <2>1. RestTypes'
    BY <1>3, Numbers DEF InitFwCb, InitEnds, SmEvent, Fault, smvars
  <2>2. Attempts'
    BY <1>3, Numbers DEF InitFwCb, InitEnds, SmEvent, Fault, smvars
  <2>3. TwoPending' /\ DriverFails'
    BY <1>3, Numbers DEF InitFwCb, InitEnds, SmEvent, Fault, smvars
  <2>4. ClientServed'
    BY <1>3 DEF InitFwCb, InitEnds, SmEvent, Fault, smvars
  <2>5. Current'
    BY <1>3 DEF InitFwCb, InitEnds, SmEvent, Fault, smvars
  <2>6. ASSUME failures' <= 1 PROVE ~stray'
    BY <1>3, <2>6, Expectations, Blamed DEF InitFwCb, InitEnds, SmEvent, Fault, smvars, OneFailure, StagesFollow,
         Nobody, Asks
  <2>7. ASSUME failures' <= 1 PROVE StagesFollow'
    BY <1>3, <2>7, Expectations, Blamed DEF InitFwCb, InitEnds, SmEvent, Fault, smvars, OneFailure, StagesFollow,
         Nobody, Asks
  <2>8. ASSUME failures' <= 1 PROVE Nobody'
    BY <1>3, <2>8, Expectations, Blamed DEF InitFwCb, InitEnds, SmEvent, Fault, smvars, OneFailure, StagesFollow,
         Nobody, Asks
  <2>. QED  BY <2>1, <2>2, <2>3, <2>4, <2>5, <2>6, <2>7, <2>8 DEF OneFailure
<1>4. CASE ConfigFwCb
  <2>1. RestTypes'
    BY <1>4, Numbers DEF ConfigFwCb, SmEvent, smvars
  <2>2. Attempts'
    BY <1>4, Numbers DEF ConfigFwCb, SmEvent, smvars
  <2>3. TwoPending' /\ DriverFails'
    BY <1>4, Numbers DEF ConfigFwCb, SmEvent, smvars
  <2>4. ClientServed'
    BY <1>4 DEF ConfigFwCb, SmEvent, smvars
  <2>5. Current'
    BY <1>4 DEF ConfigFwCb, SmEvent, smvars
  <2>6. ASSUME failures' <= 1 PROVE ~stray'
    BY <1>4, <2>6, Expectations, Blamed DEF ConfigFwCb, SmEvent, smvars, OneFailure, StagesFollow, Nobody, Asks
  <2>7. ASSUME failures' <= 1 PROVE StagesFollow'
    BY <1>4, <2>7, Expectations, Blamed DEF ConfigFwCb, SmEvent, smvars, OneFailure, StagesFollow, Nobody, Asks
  <2>8. ASSUME failures' <= 1 PROVE Nobody'
    BY <1>4, <2>8, Expectations, Blamed DEF ConfigFwCb, SmEvent, smvars, OneFailure, StagesFollow, Nobody, Asks
  <2>. QED  BY <2>1, <2>2, <2>3, <2>4, <2>5, <2>6, <2>7, <2>8 DEF OneFailure
<1>5. CASE SmeStop
  <2>1. RestTypes'
    BY <1>5, Numbers DEF SmeStop, SmEvent, smvars
  <2>2. Attempts'
    BY <1>5, Numbers DEF SmeStop, SmEvent, smvars
  <2>3. TwoPending' /\ DriverFails'
    BY <1>5, Numbers DEF SmeStop, SmEvent, smvars
  <2>4. ClientServed'
    BY <1>5 DEF SmeStop, SmEvent, smvars
  <2>5. Current'
    BY <1>5 DEF SmeStop, SmEvent, smvars
  <2>6. ASSUME failures' <= 1 PROVE ~stray'
    BY <1>5, <2>6, Expectations, Blamed DEF SmeStop, SmEvent, smvars, OneFailure, StagesFollow, Nobody, Asks
  <2>7. ASSUME failures' <= 1 PROVE StagesFollow'
    BY <1>5, <2>7, Expectations, Blamed DEF SmeStop, SmEvent, smvars, OneFailure, StagesFollow, Nobody, Asks
  <2>8. ASSUME failures' <= 1 PROVE Nobody'
    BY <1>5, <2>8, Expectations, Blamed DEF SmeStop, SmEvent, smvars, OneFailure, StagesFollow, Nobody, Asks
  <2>. QED  BY <2>1, <2>2, <2>3, <2>4, <2>5, <2>6, <2>7, <2>8 DEF OneFailure
<1>6. CASE SendFailureEvent
  <2>1. RestTypes'
    BY <1>6, Numbers DEF SendFailureEvent, smvars
  <2>2. Attempts'
    BY <1>6, Numbers DEF SendFailureEvent, smvars
  <2>3. TwoPending' /\ DriverFails'
    BY <1>6, Numbers DEF SendFailureEvent, smvars
  <2>4. ClientServed'
    BY <1>6 DEF SendFailureEvent, smvars
  <2>5. Current'
    BY <1>6 DEF SendFailureEvent, smvars
  <2>6. ASSUME failures' <= 1 PROVE ~stray'
    BY <1>6, <2>6, Expectations, Blamed DEF SendFailureEvent, smvars, OneFailure, StagesFollow, Nobody, Asks
  <2>7. ASSUME failures' <= 1 PROVE StagesFollow'
    BY <1>6, <2>7, Expectations, Blamed DEF SendFailureEvent, smvars, OneFailure, StagesFollow, Nobody, Asks
  <2>8. ASSUME failures' <= 1 PROVE Nobody'
    BY <1>6, <2>8, Expectations, Blamed DEF SendFailureEvent, smvars, OneFailure, StagesFollow, Nobody, Asks
  <2>. QED  BY <2>1, <2>2, <2>3, <2>4, <2>5, <2>6, <2>7, <2>8 DEF OneFailure
<1>7. CASE Recovery
  <2>1. Idle /\ failureEvent /\ (bRecovery => failures >= 2)
    BY <1>7, FailPresent, Blamed DEF Recovery
  <2>10. /\ failures' = failures /\ eSmState' = eSmState /\ pCurrAction' = pCurrAction /\ eSmState \in State
         /\ ePendingEvent' = "RECOVERY" /\ bRecovery' = TRUE /\ (eSmState = "IDLE" => ~failureEvent)
    BY <1>7 DEF Recovery, SmEvent
  <2>11. ASSUME failures' <= 1, pCurrAction = None, eSmState # "FAILED"
         PROVE  eSmState \in {"FW_CONFIG", "OPERATIONAL", "STOPPED"}
    BY <2>1, <2>10, <2>11 DEF OneFailure, Nobody, State
  <2>2. RestTypes'
    BY <1>7, <2>1, Numbers DEF Recovery, SmEvent, smvars
  <2>3. Attempts'
    BY <1>7, <2>1, Numbers DEF Recovery, SmEvent, smvars
  <2>4. TwoPending' /\ DriverFails'
    BY <1>7, <2>1, Numbers DEF Recovery, SmEvent, smvars
  <2>5. ClientServed'
    BY <1>7, <2>1 DEF Recovery, SmEvent, smvars
  <2>6. Current'
    BY <1>7, <2>1 DEF Recovery, SmEvent, smvars
  <2>7. ASSUME failures' <= 1 PROVE ~stray'
    BY <1>7, <2>1, <2>7, Expectations, Blamed DEF Recovery, SmEvent, smvars, OneFailure, StagesFollow, Nobody, Asks
  <2>8. ASSUME failures' <= 1 PROVE StagesFollow'
    BY <1>7, <2>1, <2>8, Expectations, Blamed DEF Recovery, SmEvent, smvars, OneFailure, StagesFollow, Nobody, Asks
  <2>9. ASSUME failures' <= 1 PROVE Nobody'
    BY <2>9, <2>10, <2>11 DEF Nobody
  <2>. QED  BY <2>2, <2>3, <2>4, <2>5, <2>6, <2>7, <2>8, <2>9 DEF OneFailure
<1>8. CASE HandleTxnDone \/ PendRestartTimeout
  <2>1. /\ Idle /\ StopComplete /\ UNCHANGED <<recvars, ctxvars, actvars, eDriverState, devvars, stepvars, failvars>>
    BY <1>8 DEF HandleTxnDone, PendRestartTimeout
  <2>2. \/ UNCHANGED smvars
        \/ /\ eSmState = "STOPPING" /\ uPendingEventsCount' = 1 /\ ePendingEvent' = "STOP_COMPLETE"
           /\ UNCHANGED <<eSmState, overwritten>>
    BY <2>1 DEF StopComplete, TwdStopCb, SmEvent
  <2>3. RestTypes'
    BY <2>1, <2>2, Numbers DEF smvars
  <2>4. Attempts'
    BY <2>1, <2>2, Numbers DEF smvars
  <2>5. TwoPending' /\ DriverFails'
    BY <2>1, <2>2, Numbers DEF smvars
  <2>6. ClientServed'
    BY <2>1, <2>2 DEF smvars
  <2>7. Current'
    BY <2>1, <2>2 DEF smvars
  <2>8. ASSUME failures' <= 1 PROVE ~stray'
    BY <2>1, <2>2, <2>8, Expectations, Blamed DEF smvars, OneFailure, StagesFollow, Nobody, Asks
  <2>9. ASSUME failures' <= 1 PROVE StagesFollow'
    BY <2>1, <2>2, <2>9, Expectations, Blamed DEF smvars, OneFailure, StagesFollow, Nobody, Asks
  <2>10. ASSUME failures' <= 1 PROVE Nobody'
    BY <2>1, <2>2, <2>10, Expectations, Blamed DEF smvars, OneFailure, StagesFollow, Nobody, Asks
  <2>. QED  BY <2>3, <2>4, <2>5, <2>6, <2>7, <2>8, <2>9, <2>10 DEF OneFailure
<1>9. CASE \/ \E u \in Users, a \in {"START", "STOP"} : InsertAction(u, a)
           \/ TxnDoneCb \/ (\E t \in Timers : TimerExpires(t)) \/ UNCHANGED vars
  <2>1. /\ UNCHANGED <<smvars, recvars, aClientEnabled, pCurrAction, eLastAction, stray, eDriverState, devvars,
                       stepvars, failvars>>
        /\ aClientPending' \in {TRUE, aClientPending}
    BY <1>9 DEF InsertAction, TxnDoneCb, TimerExpires, vars
  <2>. QED  BY <2>1, Untouched DEF smvars
<1>. QED  BY <1>1, <1>2, <1>3, <1>4, <1>5, <1>6, <1>7, <1>8, <1>9

-----------------------------------------------------------------------------
(* The queues of the timers hold the health monitor's request once.        *)
LEMMA TailIn ==
    ASSUME NEW S, NEW q \in Seq(S), q # << >>, NEW t
    PROVE  /\ Tail(q) \in Seq(S) /\ (In(t, Tail(q)) => In(t, q))
           /\ OnceIn(t, q) => OnceIn(t, Tail(q))
           /\ OnceIn(t, q) /\ Head(q) = t => ~In(t, Tail(q))
<1>. DEFINE r == Tail(q)
<1>1. Len(q) \in Nat \ {0} /\ Len(r) = Len(q) - 1 /\ r \in Seq(S) /\ q[1] = Head(q) /\ 1 \in 1..Len(q)
  OBVIOUS
<1>2. \A i \in 1..Len(r) : r[i] = q[i + 1] /\ i + 1 \in 1..Len(q) /\ i + 1 # 1
  BY <1>1
<1>3. \A i, j \in 1..Len(r) : i + 1 = j + 1 => i = j
  BY <1>1
<1>. HIDE DEF r
<1>4. In(t, r) => In(t, q)
  BY <1>2 DEF In
<1>5. OnceIn(t, q) => OnceIn(t, r)
  BY <1>2, <1>3 DEF OnceIn
<1>6. OnceIn(t, q) /\ Head(q) = t => ~In(t, r)
  BY <1>1, <1>2 DEF OnceIn, In
<1>. QED  BY <1>1, <1>4, <1>5, <1>6 DEF r

LEMMA AppendIn ==
    ASSUME NEW S, NEW q \in Seq(S), NEW e \in S, NEW t
    PROVE  /\ Append(q, e) \in Seq(S) /\ (In(t, Append(q, e)) <=> In(t, q) \/ e = t)
           /\ OnceIn(t, q) /\ (~In(t, q) \/ e # t) => OnceIn(t, Append(q, e))
<1>. DEFINE r == Append(q, e)
<1>1. Len(q) \in Nat /\ Len(r) = Len(q) + 1 /\ r \in Seq(S) /\ r[Len(r)] = e /\ Len(r) \in 1..Len(r)
  OBVIOUS
<1>2. \A i \in 1..Len(q) : r[i] = q[i] /\ i \in 1..Len(r)
  BY <1>1
<1>3. \A i \in 1..Len(r) : i \in 1..Len(q) \/ i = Len(r)
  BY <1>1
<1>. HIDE DEF r
<1>4. In(t, r) <=> In(t, q) \/ e = t
  BY <1>1, <1>2, <1>3 DEF In
<1>5. OnceIn(t, q) /\ (~In(t, q) \/ e # t) => OnceIn(t, r)
  BY <1>1, <1>2, <1>3 DEF OnceIn, In
<1>. QED  BY <1>1, <1>4, <1>5 DEF r

LEMMA NoneIn == << >> \in Seq(Timers) /\ \A t : ~In(t, << >>) /\ OnceIn(t, << >>)
<1>1. << >> \in Seq(Timers) /\ 1..Len(<< >>) = {}
  OBVIOUS
<1>. QED  BY <1>1 DEF In, OnceIn

LEMMA Dequeued ==
    ASSUME OneRequest, Present # << >>, Dequeue
    PROVE  /\ hOperQueue' \in Seq(Timers) /\ hInitQueue' \in Seq(Timers)
           /\ OnceIn("fail", hOperQueue') /\ OnceIn("fail", hInitQueue')
           /\ In("fail", hOperQueue') => In("fail", hOperQueue)
           /\ In("fail", hInitQueue') => In("fail", hInitQueue)
           /\ Head(Present) = "fail" => ~In("fail", hOperQueue') /\ ~In("fail", hInitQueue')
<1>1. CASE bOperState
  <2>1. hOperQueue # << >> /\ hOperQueue' = Tail(hOperQueue) /\ hInitQueue' = hInitQueue /\ Present = hOperQueue
    BY <1>1 DEF Dequeue, Present
  <2>2. Head(hOperQueue) = "fail" => In("fail", hOperQueue)
    BY <2>1 DEF In, OneRequest
  <2>. QED  BY <2>1, <2>2, TailIn DEF OneRequest
<1>2. CASE ~bOperState
  <2>1. hInitQueue # << >> /\ hInitQueue' = Tail(hInitQueue) /\ hOperQueue' = hOperQueue /\ Present = hInitQueue
    BY <1>2 DEF Dequeue, Present
  <2>2. Head(hInitQueue) = "fail" => In("fail", hInitQueue)
    BY <2>1 DEF In, OneRequest
  <2>. QED  BY <2>1, <2>2, TailIn DEF OneRequest
<1>. QED  BY <1>1, <1>2

LEMMA OneRequestStep ==
    ASSUME Types, Control, OneRequest, [Next]_vars
    PROVE  OneRequest'
<1>1. "fail" \in Timers /\ "guard" \in Timers
  BY DrvMainAssumption
<1>2. ASSUME UNCHANGED failureEvent, ticking' \subseteq Timers, "fail" \in ticking' => "fail" \in ticking,
             hOperQueue' \in {hOperQueue, << >>}, hInitQueue' \in {hInitQueue, << >>}
      PROVE  OneRequest'
  BY <1>2, NoneIn DEF OneRequest
<1>3. ASSUME UNCHANGED <<failureEvent, quevars>>, ticking' \in {ticking, ticking \cup {"guard"}, ticking \ {"guard"}}
      PROVE  OneRequest'
  <2>1. ticking' \subseteq Timers /\ ("fail" \in ticking' => "fail" \in ticking)
    BY <1>1, <1>3 DEF OneRequest
  <2>. QED  BY <1>2, <1>3, <2>1 DEF quevars
<1>4. ASSUME StopActivities("STOPPING", bus, << >>) \/ \E nested \in {<< >>, <<"FAILURE", "FAILURE">>} : SmFails(nested)
      PROVE  ticking' \in {ticking, ticking \cup {"guard"}}
  BY <1>4 DEF StopActivities, SmFails, GuardRestart
<1>5. CASE Sm
  <2>1. CASE SmIdle \/ SmWaitIniFile \/ SmWaitNvsFile \/ SmHwInit \/ SmDownloadFwFile \/ SmWaitFwFile \/ SmFwInit
             \/ SmOperationalStop \/ SmStoppingForRecovery \/ SmStopped \/ SmStoppingOnFail \/ SmFailed
    <3>1. UNCHANGED <<ticking, quevars>>
      BY <2>1 DEF SmIdle, SmWaitIniFile, SmWaitNvsFile, SmHwInit, SmDownloadFwFile, SmWaitFwFile, SmFwInit,
           SmOperationalStop, SmStoppingForRecovery, SmStopped, SmStoppingOnFail, SmFailed, timervars, quevars
    <3>2. UNCHANGED failureEvent
      BY <2>1 DEF SmIdle, SmWaitIniFile, SmWaitNvsFile, SmHwInit, SmDownloadFwFile, SmWaitFwFile, SmFwInit,
           SmOperationalStop, SmStoppingForRecovery, SmStopped, SmStoppingOnFail, SmFailed, failvars, Fault
    <3>. QED  BY <1>3, <3>1, <3>2
  <2>2. CASE SmFwConfig \/ SmStopping
    BY <1>2, <2>2 DEF SmFwConfig, SmStopping, EnterOperational, ClearOperQueue, failvars, OneRequest
  <2>3. CASE SmOperationalRecovery \/ SmDisconnecting \/ SmStopsAgain
    BY <1>3, <1>4, <2>3 DEF SmOperationalRecovery, SmDisconnecting, SmStopsAgain, failvars
  <2>4. CASE SmConnectFails \/ SmNoFwFile \/ SmLoadFails \/ SmUnexpected
    BY <1>3, <1>4, <2>4 DEF SmConnectFails, SmNoFwFile, SmLoadFails, SmUnexpected, failvars, Fault
  <2>. QED  BY <1>5, <2>1, <2>2, <2>3, <2>4 DEF Sm
<1>6. CASE \/ \E u \in Users, a \in {"START", "STOP"} : InsertAction(u, a)
           \/ InvokeAction \/ InitHwCb \/ InitFwCb \/ ConfigFwCb \/ SmeStop \/ TxnDoneCb \/ UNCHANGED vars
  <2>1. UNCHANGED <<ticking, failureEvent, quevars>>
    BY <1>6 DEF InsertAction, InvokeAction, InitHwCb, InitFwCb, InitEnds, ConfigFwCb, SmeStop, TxnDoneCb, vars,
         timervars, quevars, failvars, Fault
  <2>. QED  BY <1>3, <2>1
<1>7. CASE HandleTxnDone
  BY <1>3, <1>7 DEF HandleTxnDone, StopTimer, failvars
<1>8. CASE PendRestartTimeout
  BY <1>8, Dequeued DEF PendRestartTimeout, OneRequest, failvars
<1>9. CASE SendFailureEvent
  <2>1. UNCHANGED quevars /\ ticking' = (IF failureEvent THEN ticking ELSE ticking \cup {"fail"}) /\ failureEvent' = TRUE
    BY <1>9 DEF SendFailureEvent, StartTimer
  <2>. QED  BY <1>1, <2>1 DEF OneRequest, quevars
<1>10. CASE Recovery
  <2>1. /\ Present # << >> /\ Dequeue /\ Head(Present) = "fail" /\ ticking' = ticking
    BY <1>10 DEF Recovery
  <2>2. "fail" \notin ticking
    <3>1. Present[1] = "fail" /\ 1 \in 1..Len(Present)
      BY <2>1 DEF OneRequest, Present
    <3>2. In("fail", Present) /\ Present \in {hOperQueue, hInitQueue}
      BY <3>1 DEF In, Present
    <3>. QED  BY <3>2 DEF OneRequest
  <2>. QED  BY <2>1, <2>2, Dequeued DEF OneRequest
<1>11. ASSUME NEW t \in Timers, TimerExpires(t) PROVE OneRequest'
  <2>1. /\ t \in ticking /\ ticking' = ticking \ {t} /\ failureEvent' = failureEvent
        /\ hOperQueue' \in {hOperQueue, Link(hOperQueue, t)} /\ hInitQueue' \in {hInitQueue, Link(hInitQueue, t)}
        /\ hOperQueue' = hOperQueue \/ hInitQueue' = hInitQueue
    BY <1>11 DEF TimerExpires, GetExpiry, failvars
  <2>2. CASE UNCHANGED quevars
    BY <2>1, <2>2 DEF OneRequest, quevars
  <2>3. CASE ~In(t, hOperQueue) /\ ~In(t, hInitQueue) /\ hOperQueue' = Append(hOperQueue, t) /\ hInitQueue' = hInitQueue
    BY <2>1, <2>3, AppendIn DEF OneRequest
  <2>4. CASE ~In(t, hOperQueue) /\ ~In(t, hInitQueue) /\ hInitQueue' = Append(hInitQueue, t) /\ hOperQueue' = hOperQueue
    BY <2>1, <2>4, AppendIn DEF OneRequest
  <2>. QED  BY <2>1, <2>2, <2>3, <2>4 DEF Link, quevars
<1>. QED  BY <1>5, <1>6, <1>7, <1>8, <1>9, <1>10, <1>11 DEF Next

-----------------------------------------------------------------------------
(* The actions and their users.                                            *)
LEMMA Abandoned ==
    ASSUME IndInv, Control, [Next]_vars, eDriverState = "FAILED", aClientEnabled
    PROVE  eDriverState' = "FAILED" /\ aClientEnabled'
<1>1. eSmState \in OnFail /\ ~bRecovery /\ ePendingEvent \in Event
  BY DEF Control, DriverFails, ClientServed, RestTypes, OnFail
<1>2. CASE Sm
  <2>1. SmStoppingOnFail \/ SmFailed
    BY <1>1, <1>2, Expectations DEF Sm, SmIdle, SmWaitIniFile, SmWaitNvsFile, SmConnectFails, SmHwInit, SmNoFwFile,
         SmDownloadFwFile, SmLoadFails, SmWaitFwFile, SmFwInit, SmFwConfig, SmOperationalStop, SmOperationalRecovery,
         SmDisconnecting, SmStoppingForRecovery, SmStopping, SmStopped, SmStopsAgain, SmUnexpected, Handles, Retries,
         OnFail
  <2>. QED  BY <2>1 DEF SmStoppingOnFail, SmFailed, ctxvars
<1>3. CASE ~Sm
  BY <1>3 DEF Next, InsertAction, InvokeAction, InitHwCb, InitFwCb, InitEnds, ConfigFwCb, SmeStop, TxnDoneCb,
       HandleTxnDone, PendRestartTimeout, SendFailureEvent, Recovery, TimerExpires, ctxvars, vars
<1>. QED  BY <1>2, <1>3

LEMMA WaitsStep ==
    ASSUME IndInv, ActionTypes, Control, Waits, [Next]_vars
    PROVE  Waits'
<1>0. eDriverState' # "FAILED" \/ ~aClientEnabled' => eDriverState # "FAILED" \/ ~aClientEnabled
  BY Abandoned
<1>1. CASE UNCHANGED <<hActionQueue, waiting, pCurrAction>>
  BY <1>0, <1>1 DEF Waits
<1>2. CASE Answer
  <2>1. /\ hActionQueue' = hActionQueue /\ pCurrAction' = None
        /\ \A u \in Users : waiting'[u] = IF u = pCurrAction THEN "NONE" ELSE waiting[u]
    BY <1>2 DEF Answer
  <2>2. \A i \in 1..Len(hActionQueue) : hActionQueue[i] \in Users /\ hActionQueue[i] # None
    BY DrvMainAssumption DEF ActionTypes
  <2>. QED  BY <1>0, <2>1, <2>2 DEF Waits
<1>3. ASSUME NEW u \in Users, NEW a \in {"START", "STOP"}, InsertAction(u, a)
      PROVE  Waits'
  <2>1. /\ waiting[u] = "NONE" /\ waiting' = [waiting EXCEPT ![u] = a] /\ hActionQueue' = Append(hActionQueue, u)
        /\ pCurrAction' = pCurrAction
    BY <1>3 DEF InsertAction
  <2>2. hActionQueue \in Seq(Users) /\ waiting \in [Users -> {"NONE", "START", "STOP"}] /\ Len(hActionQueue) \in Nat
    BY DEF ActionTypes
  <2>3. \A i \in 1..Len(hActionQueue) : hActionQueue[i] \in Users /\ hActionQueue[i] # u /\ hActionQueue'[i] = hActionQueue[i]
    BY <2>1, <2>2 DEF Waits
  <2>4. /\ Len(hActionQueue') = Len(hActionQueue) + 1 /\ hActionQueue'[Len(hActionQueue) + 1] = u
        /\ \A i \in 1..Len(hActionQueue') : i \in 1..Len(hActionQueue) \/ i = Len(hActionQueue) + 1
        /\ \A i \in 1..Len(hActionQueue) : i \in 1..Len(hActionQueue')
        /\ Len(hActionQueue) + 1 \in 1..Len(hActionQueue')
    BY <2>1, <2>2
  <2>5. \A v \in Users : waiting'[v] = IF v = u THEN a ELSE waiting[v]
    BY <2>1, <2>2
  <2>6. pCurrAction # u /\ pCurrAction \in Users \cup {None} /\ u # None
    BY <2>1, DrvMainAssumption DEF Waits, Control, RestTypes
  <2>7. /\ \A i \in 1..Len(hActionQueue') : waiting'[hActionQueue'[i]] # "NONE" /\ hActionQueue'[i] # pCurrAction'
    BY <2>1, <2>3, <2>4, <2>5, <2>6 DEF Waits
  <2>8. \A i, j \in 1..Len(hActionQueue') : hActionQueue'[i] = hActionQueue'[j] => i = j
    BY <2>3, <2>4 DEF Waits
  <2>9. pCurrAction' # None => waiting'[pCurrAction'] # "NONE"
    BY <2>1, <2>5, <2>6 DEF Waits
  <2>10. ASSUME eDriverState' # "FAILED" \/ ~aClientEnabled', NEW v \in Users, waiting'[v] # "NONE"
         PROVE  v = pCurrAction' \/ \E i \in 1..Len(hActionQueue') : hActionQueue'[i] = v
    <3>1. CASE v = u
      BY <2>4, <3>1
    <3>2. CASE v # u
      BY <1>0, <2>1, <2>3, <2>4, <2>5, <2>10, <3>2 DEF Waits
    <3>. QED  BY <3>1, <3>2
  <2>. QED  BY <2>7, <2>8, <2>9, <2>10 DEF Waits
<1>4. CASE InvokeAction
  <2>1. CASE hActionQueue = << >>
    BY <1>1, <1>4, <2>1 DEF InvokeAction, actvars
  <2>2. CASE hActionQueue # << >>
    <3>. DEFINE u == Head(hActionQueue)
    <3>1. /\ hActionQueue' = Tail(hActionQueue) /\ Idle /\ aClientEnabled /\ UNCHANGED <<eDriverState, aClientEnabled>>
          /\ \/ waiting' = [waiting EXCEPT ![u] = "NONE"] /\ pCurrAction' = pCurrAction
             \/ waiting' = waiting /\ pCurrAction' = u
      BY <1>4, <2>2 DEF InvokeAction, TakeAction
    <3>2. hActionQueue \in Seq(Users) /\ waiting \in [Users -> {"NONE", "START", "STOP"}] /\ Len(hActionQueue) \in Nat \ {0}
      BY <2>2 DEF ActionTypes
    <3>3. /\ Len(hActionQueue') = Len(hActionQueue) - 1
          /\ \A i \in 1..Len(hActionQueue') : hActionQueue'[i] = hActionQueue[i + 1] /\ i + 1 \in 1..Len(hActionQueue) /\ i + 1 # 1
          /\ \A i, j \in 1..Len(hActionQueue') : i + 1 = j + 1 => i = j
          /\ \A i \in 1..Len(hActionQueue) : i = 1 \/ (i - 1 \in 1..Len(hActionQueue') /\ hActionQueue'[i - 1] = hActionQueue[i])
      BY <3>1, <3>2
    <3>4. u = hActionQueue[1] /\ 1 \in 1..Len(hActionQueue) /\ u \in Users /\ u # None
      BY <3>2, DrvMainAssumption
    <3>5. \A i \in 1..Len(hActionQueue) : hActionQueue[i] \in Users /\ (i # 1 => hActionQueue[i] # u)
      BY <3>2, <3>4 DEF Waits
    <3>. HIDE DEF u
    <3>6. \A v \in Users : v # u => waiting'[v] = waiting[v]
      BY <3>1, <3>2
    <3>7. u # pCurrAction /\ waiting[u] # "NONE" /\ pCurrAction \in Users \cup {None}
      BY <3>4 DEF Waits, Control, RestTypes
    <3>8. \A i \in 1..Len(hActionQueue') : waiting'[hActionQueue'[i]] # "NONE" /\ hActionQueue'[i] # pCurrAction'
      BY <3>1, <3>3, <3>5, <3>6 DEF Waits
    <3>9. \A i, j \in 1..Len(hActionQueue') : hActionQueue'[i] = hActionQueue'[j] => i = j
      BY <3>3 DEF Waits
    <3>10. pCurrAction' # None => waiting'[pCurrAction'] # "NONE"
      BY <3>1, <3>6, <3>7 DEF Waits
    <3>11. ASSUME eDriverState' # "FAILED" \/ ~aClientEnabled', NEW v \in Users, waiting'[v] # "NONE"
           PROVE  v = pCurrAction' \/ \E i \in 1..Len(hActionQueue') : hActionQueue'[i] = v
      <4>1. eDriverState # "FAILED"
        BY <3>1, <3>11
      <4>2. pCurrAction = None
        <5>1. eSmState \in {"IDLE", "OPERATIONAL", "STOPPED"}
          BY <3>1, <4>1 DEF Control, ClientServed, DriverFails
        <5>. QED  BY <3>1, <5>1 DEF Control, Current
      <4>3. CASE v = u
        BY <3>1, <3>2, <3>11, <4>3
      <4>4. CASE v # u
        <5>1. waiting[v] # "NONE" /\ v # pCurrAction
          BY <3>6, <3>11, <4>2, <4>4, DrvMainAssumption
        <5>2. PICK i \in 1..Len(hActionQueue) : hActionQueue[i] = v
          BY <4>1, <5>1 DEF Waits
        <5>. QED  BY <3>3, <3>4, <4>4, <5>2
      <4>. QED  BY <4>3, <4>4
    <3>. QED  BY <3>8, <3>9, <3>10, <3>11 DEF Waits
  <2>. QED  BY <2>1, <2>2
<1>5. CASE Sm
  <2>1. UNCHANGED actvars \/ Answer
    BY <1>5 DEF Sm, SmIdle, SmWaitIniFile, SmWaitNvsFile, SmConnectFails, SmHwInit, SmNoFwFile, SmDownloadFwFile,
         SmLoadFails, SmWaitFwFile, SmFwInit, SmFwConfig, SmOperationalStop, SmOperationalRecovery, SmDisconnecting,
         SmStoppingForRecovery, SmStopping, SmStopped, SmStoppingOnFail, SmStopsAgain, SmFailed, SmUnexpected
  <2>. QED  BY <1>1, <1>2, <2>1 DEF actvars
<1>6. CASE \/ InitHwCb \/ InitFwCb \/ ConfigFwCb \/ SmeStop \/ TxnDoneCb \/ HandleTxnDone \/ PendRestartTimeout
           \/ SendFailureEvent \/ Recovery \/ (\E t \in Timers : TimerExpires(t)) \/ UNCHANGED vars
  <2>1. UNCHANGED actvars
    BY <1>6 DEF InitHwCb, InitFwCb, InitEnds, ConfigFwCb, SmeStop, TxnDoneCb, HandleTxnDone, PendRestartTimeout,
         SendFailureEvent, Recovery, TimerExpires, vars, actvars
  <2>. QED  BY <1>1, <2>1 DEF actvars
<1>. QED  BY <1>3, <1>4, <1>5, <1>6 DEF Next

-----------------------------------------------------------------------------
FullInv == IndInv /\ ActionTypes /\ Control /\ OneFailure /\ OneRequest /\ Waits

LEMMA FullInit == Init => FullInv
<1>. SUFFICES ASSUME Init PROVE FullInv
  OBVIOUS
<1>1. IndInv /\ ActionTypes
  BY InitInv DEF Init, ActionTypes
<1>2. Control
  <2>1. RestTypes
    <3>1. 0 \in 0..Pieces
      BY Numbers
    <3>. QED  BY <3>1 DEF Init, RestTypes, Event
  <2>2. Attempts /\ TwoPending /\ DriverFails
    BY Numbers DEF Init, Attempts, TwoPending, DriverFails, OnFail
  <2>3. ClientServed /\ Current
    BY DEF Init, ClientServed, Current, OnFail, Boot, Asked, Idle
  <2>. QED  BY <2>1, <2>2, <2>3 DEF Control
<1>3. OneFailure
  BY DEF Init, OneFailure, StagesFollow, Nobody, Idle, Boot
<1>4. OneRequest
  BY NoneIn DEF Init, TimerInit, OneRequest
<1>5. Waits
  <2>1. 1..Len(hActionQueue) = {} /\ pCurrAction = None /\ \A u \in Users : waiting[u] = "NONE"
    BY DEF Init
  <2>. QED  BY <2>1 DEF Waits
<1>. QED  BY <1>1, <1>2, <1>3, <1>4, <1>5 DEF FullInv

LEMMA FullStep == ASSUME FullInv, [Next]_vars PROVE FullInv'
<1>1. IndInv' /\ ActionTypes'
  BY StepInv, ActionsTyped DEF FullInv
<1>2. Control' /\ OneFailure'
  BY GoesOnSafely, StopsSafely, FailsSafely, OutsideSafely DEF FullInv, Next, Sm
<1>3. OneRequest' /\ Waits'
  BY OneRequestStep, WaitsStep DEF FullInv, IndInv
<1>. QED  BY <1>1, <1>2, <1>3 DEF FullInv

LEMMA Full == Spec => []FullInv
BY FullInit, FullStep, PTL DEF Spec

(* The driver's states, its activities and its users' actions stay in      *)
(* step: whatever fails and however often it recovers, no user who waits   *)
(* loses the action but in a driver that failed.                           *)
THEOREM DriverInv == Spec => []Inv
<1>1. FullInv => Inv
  <2>. SUFFICES ASSUME FullInv PROVE Inv
    OBVIOUS
  <2>1. StopCompletesOnce /\ ActivitiesFollowState
    BY DEF FullInv, IndInv, CompleteOnce, StopCompletesOnce, Running, RecoveryAsked, PowerFirst, ActivitiesFollowState
  <2>2. TypeOK
    <3>1. eSmState \in DOMAIN Expected
      BY DEF FullInv, IndInv, Types, State, Expected
    <3>2. uPendingEventsCount \in 0..3 /\ uNumOfRecoveryAttempts \in 0..MaxFailures /\ failures \in 0..MaxFailures
      BY Numbers DEF FullInv, IndInv, Types, Control, TwoPending, Attempts
    <3>. QED  BY <3>1, <3>2 DEF TypeOK, FullInv, IndInv, Types, Control, RestTypes, ActionTypes
  <2>3. WaitingUserKnown
    <3>. SUFFICES ASSUME eDriverState # "FAILED", NEW u \in Users
                  PROVE  LET places == {i \in 1..Len(hActionQueue) : hActionQueue[i] = u} \cup (IF pCurrAction = u THEN {0} ELSE {})
                         IN IF waiting[u] = "NONE" THEN places = {} ELSE \E i \in places : places = {i}
      BY DEF WaitingUserKnown
    <3>. DEFINE places == {i \in 1..Len(hActionQueue) : hActionQueue[i] = u} \cup (IF pCurrAction = u THEN {0} ELSE {})
    <3>1. u # None
      BY DrvMainAssumption
    <3>2. CASE waiting[u] = "NONE"
      BY <3>1, <3>2 DEF FullInv, Waits
    <3>3. CASE waiting[u] # "NONE" /\ u = pCurrAction
      <4>1. places = {0}
        BY <3>3 DEF FullInv, Waits
      <4>. QED  BY <3>3, <4>1
    <3>4. CASE waiting[u] # "NONE" /\ u # pCurrAction
      <4>1. PICK i \in 1..Len(hActionQueue) : hActionQueue[i] = u
        BY <3>4 DEF FullInv, Waits
      <4>2. places = {i}
        BY <3>4, <4>1 DEF FullInv, Waits
      <4>. QED  BY <3>4, <4>2
    <3>. QED  BY <3>2, <3>3, <3>4
  <2>. QED  BY <2>1, <2>2, <2>3 DEF Inv
<1>. QED  BY <1>1, Full, PTL

(* One failure, whenever it comes, neither makes the driver lose an event  *)
(* nor makes it answer an action whose user has left.                      *)
THEOREM OneFailureHarmless == Spec => []OneFailureIsSafe
<1>1. FullInv => OneFailureIsSafe
  <2>. SUFFICES ASSUME FullInv, failures <= 1 PROVE ~overwritten /\ ~stray
    BY DEF OneFailureIsSafe
  <2>1. ~overwritten
    BY DEF FullInv, Control, TwoPending, Attempts
  <2>2. ~stray
    BY DEF FullInv, OneFailure
  <2>. QED  BY <2>1, <2>2
<1>. QED  BY <1>1, Full, PTL
=============================================================================
