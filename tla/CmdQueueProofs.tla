---------------------------- MODULE CmdQueueProofs ----------------------------
(***************************************************************************)
(* The ring and the mailbox of CmdQueue, proved for every set of commands, *)
(* every depth of the ring and every bound on the recoveries.              *)
(***************************************************************************)
EXTENDS CmdQueue, SequenceTheorems, WellFoundedInduction, TLAPS

-----------------------------------------------------------------------------
(* The types on which the ring rests.                                      *)
Slots == 0..(Depth - 1)

RingTypes ==
    /\ aCmdQueue \in [Slots -> AnyCmd \cup {None}]
    /\ head \in Slots /\ tail \in Slots /\ uNumberOfCommandInQueue \in 0..Depth
    /\ tail = (head + uNumberOfCommandInQueue) % Depth
    /\ state \in {"IDLE", "WAIT_FOR_COMPLETION"}
    /\ bAwake \in BOOLEAN /\ bMboxEnabled \in BOOLEAN /\ bCmdInProgress \in BOOLEAN
    /\ uAwakeReqCount \in {0, 1}

(* The state machine waits exactly while the chip is kept awake for it,    *)
(* and in all of its callbacks; and the ring is empty while the mailbox is *)
(* disabled, which it is whenever DrvMain may start the configuration.     *)
InCallback == pc \in {"callback", "sequence", "reconfig"}

WaitsWhileAwake ==
    /\ bAwake <=> state = "WAIT_FOR_COMPLETION"
    /\ InCallback => state = "WAIT_FOR_COMPLETION"

EmptyWhenDisabled ==
    /\ ~bMboxEnabled => uNumberOfCommandInQueue = 0
    /\ eSmState \in {"INIT", "STOPPED", "STOPPING_ON_FAIL"} => ~bMboxEnabled

IndInv == RingTypes /\ AwakeWhileBusy /\ AnswerMatchesHead /\ WaitsWhileAwake /\ EmptyWhenDisabled

-----------------------------------------------------------------------------
(* Indices of the ring.                                                    *)
LEMMA DepthType == Depth \in Nat \ {0}
BY CmdAssumption

LEMMA ModSmall ==
    ASSUME NEW d \in Nat \ {0}, NEW x \in Nat, x < d
    PROVE  x % d = x
OBVIOUS

LEMMA ModWrap ==
    ASSUME NEW d \in Nat \ {0}, NEW a \in Nat, NEW b \in Nat, d <= a + b, a + b < 2 * d
    PROVE  (a + b) % d = a + b - d
OBVIOUS

(* A command is put behind the last one, and over none.                    *)
LEMMA PushIndex ==
    ASSUME NEW h \in Slots, NEW n \in Nat, n < Depth
    PROVE  /\ (h + n) % Depth \in Slots
           /\ NextIndex((h + n) % Depth) \in Slots
           /\ NextIndex((h + n) % Depth) = (h + (n + 1)) % Depth
           /\ (h + n) % Depth = h <=> n = 0
<1>1. /\ Depth \in Nat \ {0} /\ h \in Nat /\ h < Depth
      /\ n + 1 \in Nat /\ h + (n + 1) \in Nat /\ h + (n + 1) = (h + n) + 1
  BY DepthType DEF Slots
<1>2. CASE h + n < Depth
  <2>1. (h + n) % Depth = h + n
    BY <1>1, <1>2, ModSmall
  <2>2. CASE h + (n + 1) < Depth
    <3>1. (h + (n + 1)) % Depth = h + (n + 1)
      BY <1>1, <2>2, ModSmall
    <3>. QED  BY <1>1, <1>2, <2>1, <2>2, <3>1 DEF NextIndex, Slots
  <2>3. CASE h + (n + 1) = Depth
    <3>1. (h + (n + 1)) % Depth = 0
      <4>1. Depth <= h + (n + 1) /\ h + (n + 1) < 2 * Depth
        BY <1>1, <2>3
      <4>2. (h + (n + 1)) % Depth = h + (n + 1) - Depth
        BY <1>1, <4>1, ModWrap
      <4>. QED  BY <1>1, <2>3, <4>2
    <3>. QED  BY <1>1, <1>2, <2>1, <2>3, <3>1 DEF NextIndex, Slots
  <2>. QED  BY <1>1, <1>2, <2>2, <2>3
<1>3. CASE Depth <= h + n
  <2>1. (h + n) % Depth = h + n - Depth
    <3>1. h + n < 2 * Depth
      BY <1>1
    <3>. QED  BY <1>1, <1>3, <3>1, ModWrap
  <2>2. (h + (n + 1)) % Depth = h + (n + 1) - Depth
    <3>1. Depth <= h + (n + 1) /\ h + (n + 1) < 2 * Depth
      BY <1>1, <1>3
    <3>. QED  BY <1>1, <3>1, ModWrap
  <2>. QED  BY <1>1, <1>3, <2>1, <2>2 DEF NextIndex, Slots
<1>. QED  BY <1>1, <1>2, <1>3

(* The head moves on; the tail stays.                                      *)
LEMMA PopIndex ==
    ASSUME NEW h \in Slots, NEW n \in 1..Depth
    PROVE  /\ NextIndex(h) \in Slots
           /\ (NextIndex(h) + (n - 1)) % Depth = (h + n) % Depth
<1>1. Depth \in Nat \ {0} /\ h \in Nat /\ h < Depth /\ n \in Nat
  BY DepthType DEF Slots
<1>2. CASE h + 1 < Depth
  BY <1>1, <1>2 DEF NextIndex, Slots
<1>3. CASE h + 1 = Depth
  <2>1. n - 1 \in Nat /\ n - 1 < Depth
    BY <1>1
  <2>2. NextIndex(h) = 0 /\ (n - 1) % Depth = n - 1
    BY <1>1, <1>3, <2>1, ModSmall DEF NextIndex
  <2>3. h + n \in Nat /\ Depth <= h + n /\ h + n < 2 * Depth
    BY <1>1, <1>3
  <2>4. (h + n) % Depth = h + n - Depth
    BY <1>1, <2>3, ModWrap
  <2>. QED  BY <1>1, <1>3, <2>1, <2>2, <2>4 DEF Slots
<1>. QED  BY <1>1, <1>2, <1>3

-----------------------------------------------------------------------------
LEMMA InitInv == Init => IndInv
<1>1. 0 \in Slots /\ 0 \in 0..Depth /\ (0 + 0) % Depth = 0
  BY DepthType, ModSmall DEF Slots
<1>2. Init => RingTypes
  BY <1>1 DEF Init, RingTypes, Slots
<1>3. Init => AwakeWhileBusy /\ AnswerMatchesHead /\ WaitsWhileAwake /\ EmptyWhenDisabled
  BY DEF Init, AwakeWhileBusy, AnswerMatchesHead, WaitsWhileAwake, EmptyWhenDisabled, InCallback
<1>. QED  BY <1>2, <1>3 DEF IndInv

(* A new command is sent at once only if the machine is idle; otherwise it *)
(* waits behind the one in the mailbox, which stays at the head.           *)
LEMMA PushInv ==
    ASSUME IndInv, NEW c \in AnyCmd, Push(c), uNumberOfCommandInQueue < Depth,
           bMboxEnabled' = TRUE, InCallback' = InCallback,
           eSmState' \notin {"INIT", "STOPPED", "STOPPING_ON_FAIL"}
    PROVE  IndInv'
<1>. DEFINE n == uNumberOfCommandInQueue
<1>1. /\ head \in Slots /\ n \in Nat /\ n < Depth /\ tail = (head + n) % Depth
      /\ aCmdQueue \in [Slots -> AnyCmd \cup {None}] /\ state \in {"IDLE", "WAIT_FOR_COMPLETION"}
      /\ Depth \in Nat
  BY DepthType DEF IndInv, RingTypes
<1>2. /\ tail \in Slots /\ NextIndex(tail) \in Slots
      /\ NextIndex(tail) = (head + (n + 1)) % Depth /\ (tail = head <=> n = 0)
  BY <1>1, PushIndex
<1>3. /\ aCmdQueue' = [aCmdQueue EXCEPT ![tail] = c] /\ tail' = NextIndex(tail)
      /\ n' = n + 1 /\ head' = head
  BY DEF Push
<1>4. /\ aCmdQueue' \in [Slots -> AnyCmd \cup {None}]
      /\ head' \in Slots /\ tail' \in Slots /\ n' \in 0..Depth
      /\ tail' = (head' + n') % Depth
  BY <1>1, <1>2, <1>3
<1>5. aCmdQueue'[head'] = IF n = 0 THEN c ELSE aCmdQueue[head]
  BY <1>1, <1>2, <1>3
<1>6. CASE RunNow
  <2>1. n = 0 /\ state = "IDLE" /\ ~bCmdInProgress /\ ~bAwake /\ uAwakeReqCount = 0 /\ ~InCallback
    BY <1>6 DEF RunNow, IndInv, AnswerMatchesHead, WaitsWhileAwake, AwakeWhileBusy, RingTypes
  <2>2. /\ state' = "WAIT_FOR_COMPLETION" /\ bAwake' = TRUE /\ uAwakeReqCount' = 1
        /\ mbox' = c /\ bCmdInProgress' = TRUE
    BY <1>6, <2>1 DEF Push, SmRun, SendMbox
  <2>3. RingTypes'
    BY <1>4, <2>2 DEF RingTypes
  <2>4. AnswerMatchesHead'
    BY <1>1, <1>3, <1>5, <2>1, <2>2 DEF AnswerMatchesHead, InCallback
  <2>. QED  BY <2>2, <2>3, <2>4 DEF IndInv, AwakeWhileBusy, WaitsWhileAwake, EmptyWhenDisabled
<1>7. CASE ~RunNow
  <2>1. UNCHANGED <<state, bAwake, uAwakeReqCount, mbox, bCmdInProgress>>
    BY <1>7 DEF Push, mboxvars
  <2>2. RingTypes'
    BY <1>4, <2>1 DEF RingTypes, IndInv
  <2>3. AnswerMatchesHead'
    BY <1>1, <1>3, <1>5, <1>7, <2>1 DEF AnswerMatchesHead, InCallback, IndInv, RunNow
  <2>4. AwakeWhileBusy' /\ WaitsWhileAwake' /\ EmptyWhenDisabled'
    BY <2>1 DEF IndInv, AwakeWhileBusy, WaitsWhileAwake, EmptyWhenDisabled
  <2>. QED  BY <2>2, <2>3, <2>4 DEF IndInv
<1>. QED  BY <1>6, <1>7

(* A stop forgets the ring, the mailbox and the request to stay awake.     *)
LEMMA StopInv ==
    ASSUME Stop, pc' \in {"idle", "expiry"}, aCmdQueue \in [Slots -> AnyCmd \cup {None}]
    PROVE  IndInv'
<1>1. 0 \in Slots /\ 0 \in 0..Depth /\ (0 + 0) % Depth = 0
  BY DepthType, ModSmall DEF Slots
<1>2. RingTypes'
  BY <1>1 DEF Stop, ResetAwake, RingTypes
<1>3. AwakeWhileBusy' /\ AnswerMatchesHead' /\ WaitsWhileAwake' /\ EmptyWhenDisabled'
  BY DEF Stop, ResetAwake, AwakeWhileBusy, AnswerMatchesHead, WaitsWhileAwake, EmptyWhenDisabled, InCallback
<1>. QED  BY <1>2, <1>3 DEF IndInv

LEMMA SendCommandInv ==
    ASSUME IndInv, NEW c \in Cmd, SendCommand(c)
    PROVE  IndInv'
<1>1. /\ Push(c) /\ c \in AnyCmd /\ uNumberOfCommandInQueue < Depth /\ bMboxEnabled
      /\ UNCHANGED <<bMboxEnabled, pc, eSmState>>
  BY DEF SendCommand, MayPush, AnyCmd, drvvars
<1>2. bMboxEnabled' = TRUE /\ eSmState' \notin {"INIT", "STOPPED", "STOPPING_ON_FAIL"}
  BY <1>1 DEF IndInv, EmptyWhenDisabled, RingTypes
<1>3. InCallback' = InCallback
  BY <1>1 DEF InCallback
<1>. QED  BY <1>1, <1>2, <1>3, PushInv

(* The ring is empty when the configuration starts, so that its first      *)
(* command needs no test for a full ring.                                  *)
LEMMA ConfigFwInv ==
    ASSUME IndInv, ConfigFw
    PROVE  IndInv'
<1>1. /\ pc = "idle" /\ pc' = "idle" /\ eSmState' = "FW_CONFIG" /\ bMboxEnabled' = TRUE
      /\ uNumberOfCommandInQueue = 0 /\ InCallback' = InCallback
  BY DEF ConfigFw, IndInv, EmptyWhenDisabled, InCallback
<1>2. CASE bErrorFlag
  <2>1. UNCHANGED <<ringvars, state, bAwake, uAwakeReqCount, mboxvars>>
    BY <1>2 DEF ConfigFw
  <2>. QED  BY <1>1, <2>1 DEF IndInv, RingTypes, AwakeWhileBusy, AnswerMatchesHead, WaitsWhileAwake,
                              EmptyWhenDisabled, InCallback, ringvars, mboxvars
<1>3. CASE ~bErrorFlag
  <2>1. Push(ConfigCmd) /\ ConfigCmd \in AnyCmd /\ uNumberOfCommandInQueue < Depth
    BY <1>1, <1>3, DepthType DEF ConfigFw, AnyCmd, Sequence
  <2>. QED  BY <1>1, <2>1, PushInv
<1>. QED  BY <1>2, <1>3

LEMMA ConfigSeqInv ==
    ASSUME IndInv, ConfigSeq
    PROVE  IndInv'
<1>1. /\ pc = "sequence" /\ pc' = "callback" /\ InCallback' = InCallback
      /\ UNCHANGED <<bMboxEnabled, eSmState>>
  BY DEF ConfigSeq, InCallback, drvvars
<1>2. CASE MayPush
  <2>1. PICK c \in Sequence : Push(c)
    BY <1>2 DEF ConfigSeq
  <2>2. c \in AnyCmd /\ uNumberOfCommandInQueue < Depth /\ bMboxEnabled' = TRUE
    BY <1>1, <1>2 DEF AnyCmd, MayPush, IndInv, RingTypes
  <2>3. eSmState' \notin {"INIT", "STOPPED", "STOPPING_ON_FAIL"}
    BY <1>1, <2>2 DEF IndInv, EmptyWhenDisabled
  <2>. QED  BY <1>1, <2>1, <2>2, <2>3, PushInv
<1>3. CASE ~MayPush
  <2>1. UNCHANGED <<ringvars, state, bAwake, uAwakeReqCount, mboxvars>>
    BY <1>3 DEF ConfigSeq
  <2>. QED  BY <1>1, <2>1 DEF IndInv, RingTypes, AwakeWhileBusy, AnswerMatchesHead, WaitsWhileAwake,
                              EmptyWhenDisabled, InCallback, ringvars, mboxvars
<1>. QED  BY <1>2, <1>3

(* The answered command leaves the ring; the machine goes on waiting until *)
(* its callback has returned.                                              *)
LEMMA TransferCompleteInv ==
    ASSUME IndInv, NEW cmdStatus, TransferComplete(cmdStatus)
    PROVE  IndInv'
<1>1. /\ pc \notin {"callback", "sequence", "reconfig"} /\ state = "WAIT_FOR_COMPLETION"
      /\ bCmdInProgress' = FALSE /\ pc' \in {"callback", "sequence", "reconfig"}
      /\ head' = NextIndex(head) /\ uNumberOfCommandInQueue' = uNumberOfCommandInQueue - 1
      /\ UNCHANGED <<aCmdQueue, tail, state, bAwake, bMboxEnabled, uAwakeReqCount, eSmState>>
  BY DEF TransferComplete, drvvars
<1>2. uNumberOfCommandInQueue \in 1..Depth
  BY <1>1, DepthType DEF IndInv, AnswerMatchesHead, RingTypes
<1>3. RingTypes'
  <2>1. head \in Slots /\ uNumberOfCommandInQueue' \in 0..Depth
    BY <1>1, <1>2, DepthType DEF IndInv, RingTypes
  <2>2. head' \in Slots /\ tail' = (head' + uNumberOfCommandInQueue') % Depth
    BY <1>1, <1>2, <2>1, PopIndex DEF IndInv, RingTypes
  <2>. QED  BY <1>1, <2>1, <2>2 DEF IndInv, RingTypes
<1>4. EmptyWhenDisabled'
  BY <1>1, <1>2 DEF IndInv, EmptyWhenDisabled
<1>. QED  BY <1>1, <1>3, <1>4 DEF IndInv, AwakeWhileBusy, AnswerMatchesHead, WaitsWhileAwake, InCallback

(* After a callback the next command is sent without waking the chip       *)
(* again, or the request that keeps it awake is taken back.                *)
LEMMA CallbackReturnsInv ==
    ASSUME IndInv, CallbackReturns
    PROVE  IndInv'
<1>1. /\ pc = "callback" /\ pc' = "idle" /\ state = "WAIT_FOR_COMPLETION" /\ ~bCmdInProgress
      /\ bAwake /\ uAwakeReqCount = 1
      /\ UNCHANGED <<ringvars, bMboxEnabled, eSmState>>
  BY DEF CallbackReturns, drvvars, IndInv, AwakeWhileBusy, AnswerMatchesHead, WaitsWhileAwake, InCallback
<1>2. EmptyWhenDisabled'
  BY <1>1 DEF IndInv, EmptyWhenDisabled, ringvars
<1>3. CASE uNumberOfCommandInQueue > 0
  <2>1. /\ state' = "WAIT_FOR_COMPLETION" /\ bAwake' = TRUE /\ uAwakeReqCount' = 1
        /\ mbox' = aCmdQueue[head] /\ bCmdInProgress' = TRUE
    BY <1>1, <1>3 DEF CallbackReturns, MoreQueued, SmRun, SendMbox
  <2>. QED  BY <1>1, <1>2, <1>3, <2>1 DEF IndInv, RingTypes, AwakeWhileBusy, AnswerMatchesHead,
                                          WaitsWhileAwake, InCallback, ringvars
<1>4. CASE ~(uNumberOfCommandInQueue > 0)
  <2>1. state' = "IDLE" /\ bAwake' = FALSE /\ uAwakeReqCount' = 0 /\ bCmdInProgress' = bCmdInProgress
    BY <1>1, <1>4 DEF CallbackReturns, MoreQueued, SleepIfAwake, mboxvars
  <2>. QED  BY <1>1, <1>2, <1>4, <2>1 DEF IndInv, RingTypes, AwakeWhileBusy, AnswerMatchesHead,
                                          WaitsWhileAwake, InCallback, ringvars
<1>. QED  BY <1>3, <1>4

(* The other actions leave the ring and the mailbox alone, and move the    *)
(* driver's task only where the state machine is not concerned.            *)
LEMMA OthersInv ==
    ASSUME IndInv,
           UNCHANGED <<ringvars, state, bAwake, bMboxEnabled, mbox, bCmdInProgress, uAwakeReqCount>>,
           pc' \in {"callback", "sequence", "reconfig"} <=> InCallback,
           eSmState' \in {"INIT", "STOPPED", "STOPPING_ON_FAIL"}
               => eSmState \in {"INIT", "STOPPED", "STOPPING_ON_FAIL"}
    PROVE  IndInv'
BY DEF IndInv, RingTypes, AwakeWhileBusy, AnswerMatchesHead, WaitsWhileAwake, EmptyWhenDisabled,
       InCallback, ringvars

LEMMA DrvMainInv ==
    ASSUME IndInv, StopAction \/ StopWhenStopped \/ Disconnected \/ StartAction
    PROVE  IndInv'
<1>1. CASE StopAction
  BY <1>1, OthersInv DEF StopAction, mboxvars, InCallback
<1>2. CASE StopWhenStopped \/ Disconnected
  BY <1>2, StopInv DEF StopWhenStopped, Disconnected, IndInv, RingTypes, drvvars
<1>3. CASE StartAction
  BY <1>3, OthersInv DEF StartAction, mboxvars, InCallback
<1>. QED  BY <1>1, <1>2, <1>3

LEMMA HandleExpiriesInv ==
    ASSUME IndInv, HandleExpiries
    PROVE  IndInv'
<1>1. CASE HandleExpiry \/ ExpiryHandled
  BY <1>1, OthersInv DEF HandleExpiry, ExpiryHandled, mboxvars, drvvars, InCallback
<1>2. CASE MboxTimeOut
  BY <1>2, OthersInv DEF MboxTimeOut, mboxvars, drvvars, InCallback
<1>3. CASE Recovery \/ RecoveryStops
  <2>1. Stop /\ pc = "expiry" /\ UNCHANGED pc
    BY <1>3 DEF Recovery, RecoveryStops, Process, Expired
  <2>. QED  BY <2>1, StopInv DEF IndInv, RingTypes
<1>4. CASE RecoveryFails
  BY <1>4, OthersInv DEF RecoveryFails, Process, mboxvars, InCallback
<1>. QED  BY <1>1, <1>2, <1>3, <1>4 DEF HandleExpiries

LEMMA StepInv == IndInv /\ [Next]_vars => IndInv'
<1>. SUFFICES ASSUME IndInv, [Next]_vars PROVE IndInv'
  OBVIOUS
<1>1. CASE FwAnswers \/ CommandComplete
  BY <1>1, OthersInv DEF FwAnswers, CommandComplete, drvvars, InCallback
<1>2. CASE EndReconfig \/ ConfigComplete
  BY <1>2, OthersInv DEF EndReconfig, ConfigComplete, mboxvars, drvvars, InCallback
<1>3. CASE OtherFailure
  BY <1>3, OthersInv DEF OtherFailure, mboxvars, drvvars, InCallback
<1>4. CASE \E t \in Timers : TimerExpires(t)
  BY <1>4, OthersInv DEF TimerExpires, mboxvars, drvvars, InCallback
<1>5. CASE UNCHANGED vars
  BY <1>5, OthersInv DEF vars, mboxvars, drvvars, InCallback
<1>. QED  BY <1>1, <1>2, <1>3, <1>4, <1>5, SendCommandInv, TransferCompleteInv, CallbackReturnsInv,
             ConfigSeqInv, ConfigFwInv, DrvMainInv, HandleExpiriesInv DEF Next, Answered, Callbacks

-----------------------------------------------------------------------------
(* The ring and its state machine, through commands sent from callbacks,   *)
(* late answers, timeouts, stops and recoveries.                           *)
THEOREM Ring == Spec => []IndInv
BY InitInv, StepInv, PTL DEF Spec

(* cmdQueue_SM keeps the chip awake from the first command to the last one *)
(* and no longer, whatever its callbacks send and resets interrupt.        *)
THEOREM AwakeExactlyWhileBusy == Spec => []AwakeWhileBusy
<1>1. IndInv => AwakeWhileBusy
  BY DEF IndInv
<1>. QED  BY <1>1, Ring, PTL

(* The answer in the mailbox is taken for the command that was sent.       *)
THEOREM AnswersMatch == Spec => []AnswerMatchesHead
<1>1. IndInv => AnswerMatchesHead
  BY DEF IndInv
<1>. QED  BY <1>1, Ring, PTL

-----------------------------------------------------------------------------
(* The ring as the sequence of its commands.                               *)
LEMMA RingSeq ==
    ASSUME RingTypes
    PROVE  /\ RingContent \in Seq(AnyCmd \cup {None})
           /\ Len(RingContent) = uNumberOfCommandInQueue
           /\ \A i \in 1..uNumberOfCommandInQueue : RingContent[i] = aCmdQueue[(head + i - 1) % Depth]
<1>1. uNumberOfCommandInQueue \in Nat /\ head \in Nat /\ Depth \in Nat \ {0}
  BY DepthType DEF RingTypes, Slots
<1>2. \A i \in 1..uNumberOfCommandInQueue : (head + i - 1) % Depth \in Slots
  BY <1>1 DEF Slots
<1>3. \A i \in 1..uNumberOfCommandInQueue : aCmdQueue[(head + i - 1) % Depth] \in AnyCmd \cup {None}
  BY <1>2 DEF RingTypes
<1>4. RingContent \in [1..uNumberOfCommandInQueue -> AnyCmd \cup {None}]
  BY <1>3 DEF RingContent
<1>5. RingContent \in Seq(AnyCmd \cup {None}) /\ Len(RingContent) = uNumberOfCommandInQueue
  BY <1>1, <1>4
<1>. QED  BY <1>5 DEF RingContent

LEMMA SameSeq ==
    ASSUME NEW S, NEW n \in Nat, NEW s \in Seq(S), Len(s) = n, NEW f \in [1..n -> S],
           \A i \in 1..n : f[i] = s[i]
    PROVE  f = s
<1>1. f \in Seq(S) /\ Len(f) = n
  OBVIOUS
<1>. QED  BY <1>1, SeqEqual

LEMMA RingPushed ==
    ASSUME RingTypes, NEW c \in AnyCmd, Push(c), uNumberOfCommandInQueue < Depth
    PROVE  RingContent' = Append(RingContent, c)
<1>. DEFINE n == uNumberOfCommandInQueue
<1>1. /\ n \in Nat /\ head \in Nat /\ head < Depth /\ Depth \in Nat \ {0} /\ head' = head /\ n' = n + 1
      /\ aCmdQueue' = [aCmdQueue EXCEPT ![tail] = c] /\ tail = (head + n) % Depth /\ tail \in Slots
      /\ aCmdQueue \in [Slots -> AnyCmd \cup {None}]
  BY DepthType DEF RingTypes, Slots, Push
<1>2. \A i \in 1..n : (head + i - 1) % Depth \in Slots /\ (head + i - 1) % Depth # tail
  <2>. SUFFICES ASSUME NEW i \in 1..n PROVE (head + i - 1) % Depth \in Slots /\ (head + i - 1) % Depth # tail
    OBVIOUS
  <2>1. i - 1 \in Nat /\ i - 1 < n /\ head + i - 1 = head + (i - 1)
    BY <1>1
  <2>2. (head + (i - 1)) % Depth \in Slots
    BY <1>1, <2>1 DEF Slots
  <2>3. CASE head + n < Depth
    <3>1. head + (i - 1) \in Nat /\ head + n \in Nat /\ head + (i - 1) < Depth
      BY <1>1, <2>1, <2>3
    <3>2. (head + (i - 1)) % Depth = head + (i - 1) /\ (head + n) % Depth = head + n
      BY <1>1, <2>3, <3>1, ModSmall
    <3>. QED  BY <1>1, <2>1, <2>2, <3>2
  <2>4. CASE Depth <= head + n
    <3>1. (head + n) % Depth = head + n - Depth
      <4>1. head + n < 2 * Depth
        BY <1>1
      <4>. QED  BY <1>1, <2>4, <4>1, ModWrap
    <3>2. CASE head + (i - 1) < Depth
      <4>1. (head + (i - 1)) % Depth = head + (i - 1)
        BY <1>1, <2>1, <3>2, ModSmall
      <4>. QED  BY <1>1, <2>1, <2>2, <3>1, <4>1
    <3>3. CASE Depth <= head + (i - 1)
      <4>1. head + (i - 1) < 2 * Depth
        BY <1>1, <2>1
      <4>2. (head + (i - 1)) % Depth = head + (i - 1) - Depth
        BY <1>1, <2>1, <3>3, <4>1, ModWrap
      <4>. QED  BY <1>1, <2>1, <2>2, <3>1, <4>2
    <3>. QED  BY <1>1, <2>1, <3>2, <3>3
  <2>. QED  BY <1>1, <2>3, <2>4
<1>3. /\ RingContent \in Seq(AnyCmd \cup {None}) /\ Len(RingContent) = n
      /\ \A i \in 1..n : RingContent[i] = aCmdQueue[(head + i - 1) % Depth]
  BY RingSeq
<1>4. RingContent' = [i \in 1..(n + 1) |-> aCmdQueue'[(head + i - 1) % Depth]]
  BY <1>1 DEF RingContent
<1>5. \A i \in 1..n : aCmdQueue'[(head + i - 1) % Depth] = RingContent[i]
  BY <1>1, <1>2, <1>3
<1>6. aCmdQueue'[(head + (n + 1) - 1) % Depth] = c
  <2>1. head + (n + 1) - 1 = head + n
    BY <1>1
  <2>. QED  BY <1>1, <2>1
<1>7. LET q == Append(RingContent, c)
      IN /\ q \in Seq(AnyCmd \cup {None}) /\ Len(q) = n + 1
         /\ \A i \in 1..n : q[i] = RingContent[i]
         /\ q[n + 1] = c
  BY <1>3, AppendProperties
<1>8. \A i \in 1..(n + 1) : aCmdQueue'[(head + i - 1) % Depth] = IF i = n + 1 THEN c ELSE RingContent[i]
  <2>. SUFFICES ASSUME NEW i \in 1..(n + 1)
                PROVE  aCmdQueue'[(head + i - 1) % Depth] = IF i = n + 1 THEN c ELSE RingContent[i]
    OBVIOUS
  <2>1. CASE i = n + 1
    BY <1>6, <2>1
  <2>2. CASE i # n + 1
    <3>1. i \in 1..n
      BY <1>1, <2>2
    <3>. QED  BY <1>5, <2>2, <3>1
  <2>. QED  BY <2>1, <2>2
<1>9. RingContent' \in [1..(n + 1) -> AnyCmd \cup {None}]
  <2>1. \A i \in 1..n : RingContent[i] \in AnyCmd \cup {None}
    BY <1>3
  <2>2. \A i \in 1..(n + 1) : aCmdQueue'[(head + i - 1) % Depth] \in AnyCmd \cup {None}
    <3>. SUFFICES ASSUME NEW i \in 1..(n + 1) PROVE aCmdQueue'[(head + i - 1) % Depth] \in AnyCmd \cup {None}
      OBVIOUS
    <3>1. CASE i = n + 1
      BY <1>8, <3>1
    <3>2. CASE i # n + 1
      <4>1. i \in 1..n
        BY <1>1, <3>2
      <4>. QED  BY <1>5, <2>1, <4>1
    <3>. QED  BY <3>1, <3>2
  <2>. QED  BY <1>4, <2>2
<1>10. \A i \in 1..(n + 1) : RingContent'[i] = Append(RingContent, c)[i]
  <2>. SUFFICES ASSUME NEW i \in 1..(n + 1) PROVE RingContent'[i] = Append(RingContent, c)[i]
    OBVIOUS
  <2>1. RingContent'[i] = IF i = n + 1 THEN c ELSE RingContent[i]
    BY <1>4, <1>8
  <2>2. i # n + 1 => i \in 1..n
    BY <1>1
  <2>. QED  BY <1>7, <2>1, <2>2
<1>11. n + 1 \in Nat
  BY <1>1
<1>. QED  BY <1>7, <1>9, <1>10, <1>11, SameSeq

LEMMA RingPopped ==
    ASSUME RingTypes, uNumberOfCommandInQueue \in 1..Depth, head' = NextIndex(head),
           uNumberOfCommandInQueue' = uNumberOfCommandInQueue - 1, aCmdQueue' = aCmdQueue
    PROVE  /\ RingContent # << >> /\ Head(RingContent) = aCmdQueue[head]
           /\ RingContent' = Tail(RingContent)
<1>. DEFINE n == uNumberOfCommandInQueue
<1>1. n \in Nat /\ n >= 1 /\ head \in Slots /\ head \in Nat /\ head < Depth /\ Depth \in Nat \ {0}
  BY DepthType DEF RingTypes, Slots
<1>2. /\ RingContent \in Seq(AnyCmd \cup {None}) /\ Len(RingContent) = n
      /\ \A i \in 1..n : RingContent[i] = aCmdQueue[(head + i - 1) % Depth]
  BY RingSeq
<1>3. RingContent # << >> /\ Head(RingContent) = aCmdQueue[head]
  <2>1. head + 1 - 1 = head /\ head % Depth = head /\ 1 \in 1..n
    BY <1>1, ModSmall
  <2>2. RingContent[1] = aCmdQueue[head]
    BY <1>2, <2>1
  <2>. QED  BY <1>1, <1>2, <2>2
<1>4. \A i \in 1..(n - 1) : (head' + i - 1) % Depth = (head + (i + 1) - 1) % Depth
  <2>. SUFFICES ASSUME NEW i \in 1..(n - 1) PROVE (head' + i - 1) % Depth = (head + (i + 1) - 1) % Depth
    OBVIOUS
  <2>1. i \in 1..Depth /\ i \in Nat
    BY <1>1
  <2>2. NextIndex(head) \in Slots /\ (NextIndex(head) + (i - 1)) % Depth = (head + i) % Depth
    BY <1>1, <2>1, PopIndex
  <2>3. NextIndex(head) \in Nat
    BY <1>1, <2>2 DEF Slots
  <2>4. NextIndex(head) + (i - 1) = head' + i - 1 /\ head + i = head + (i + 1) - 1
    BY <1>1, <2>1, <2>3
  <2>. QED  BY <2>2, <2>4
<1>5. RingContent' = [i \in 1..(n - 1) |-> aCmdQueue[(head' + i - 1) % Depth]]
  BY DEF RingContent
<1>6. /\ Tail(RingContent) \in Seq(AnyCmd \cup {None}) /\ Len(Tail(RingContent)) = n - 1
      /\ \A i \in 1..(n - 1) : Tail(RingContent)[i] = RingContent[i + 1]
  BY <1>2, <1>3, HeadTailProperties
<1>7. \A i \in 1..(n - 1) : RingContent[i + 1] = aCmdQueue[(head' + i - 1) % Depth]
  <2>. SUFFICES ASSUME NEW i \in 1..(n - 1) PROVE RingContent[i + 1] = aCmdQueue[(head' + i - 1) % Depth]
    OBVIOUS
  <2>1. i + 1 \in 1..n
    BY <1>1
  <2>2. RingContent[i + 1] = aCmdQueue[(head + (i + 1) - 1) % Depth]
    BY <1>2, <2>1
  <2>. QED  BY <1>4, <2>2
<1>8. RingContent' \in [1..(n - 1) -> AnyCmd \cup {None}]
  <2>1. \A i \in 1..(n - 1) : RingContent[i + 1] \in AnyCmd \cup {None}
    <3>1. \A i \in 1..(n - 1) : i + 1 \in 1..n
      BY <1>1
    <3>. QED  BY <1>2, <3>1
  <2>. QED  BY <1>5, <1>7, <2>1
<1>9. \A i \in 1..(n - 1) : RingContent'[i] = Tail(RingContent)[i]
  BY <1>5, <1>6, <1>7
<1>10. n - 1 \in Nat
  BY <1>1
<1>. QED  BY <1>3, <1>6, <1>8, <1>9, <1>10, SameSeq

LEMMA RingKept == UNCHANGED ringvars => RingContent' = RingContent
BY DEF ringvars, RingContent

LEMMA RingReset == Stop => RingContent' = << >>
BY DEF Stop, RingContent

(* Every set of numbers has a smallest one: what inductions are made of.   *)
LEMMA Smallest ==
    ASSUME NEW T \in SUBSET Nat, T # {}
    PROVE  \E n \in T : \A m \in T : n <= m
<1>. DEFINE R == OpToRel(<, Nat)
<1>0. IsWellFoundedOn(R, Nat)
  BY NatLessThanWellFounded, Zenon
<1>2. \A i, j \in Nat : i < j => <<i, j>> \in R
  BY DEF OpToRel
<1>. HIDE DEF R
<1>1. PICK n \in T : \A m \in T : ~ (<<m, n>> \in R)
  BY <1>0, WFMin
<1>3. \A m \in T : ~(m < n)
  BY <1>1, <1>2
<1>. QED  BY <1>3

(* The callbacks that a reset saves are commands of the ring.              *)
LEMMA Kept ==
    ASSUME NEW S, NEW q \in Seq(S)
    PROVE  /\ Service!WithCallback(q) \in Seq(Callback)
           /\ Len(Service!WithCallback(q)) <= Len(q)
           /\ \A i \in 1..Len(Service!WithCallback(q)) : \E j \in 1..Len(q) : Service!WithCallback(q)[i] = q[j]
<1>. DEFINE Step(f, i) == IF i = 0 THEN << >> ELSE IF q[i] \in Callback THEN Append(f[i - 1], q[i]) ELSE f[i - 1]
            Ok(n) == \E f : f = [i \in 0..n |-> Step(f, i)]
            Good(s, n) == /\ s \in Seq(Callback) /\ Len(s) <= n
                          /\ \A i \in 1..Len(s) : \E j \in 1..n : s[i] = q[j]
<1>0. Len(q) \in Nat /\ \A i \in 1..Len(q) : q[i] \in S
  OBVIOUS
<1>1. Ok(0)
  <2>. DEFINE f == [i \in 0..0 |-> << >>]
  <2>1. f = [i \in 0..0 |-> Step(f, i)]
    OBVIOUS
  <2>. HIDE DEF f
  <2>. QED  BY <2>1
<1>2. ASSUME NEW n \in Nat, Ok(n) PROVE Ok(n + 1)
  <2>1. PICK g : g = [i \in 0..n |-> Step(g, i)]
    BY <1>2
  <2>. DEFINE f == [i \in 0..(n + 1) |-> IF i <= n THEN g[i] ELSE Step(g, n + 1)]
  <2>2. \A i \in 0..n : f[i] = g[i] /\ g[i] = Step(g, i)
    <3>1. \A i \in 0..n : f[i] = g[i]
      OBVIOUS
    <3>2. \A i \in 0..n : g[i] = Step(g, i)
      <4>. HIDE DEF Step, f
      <4>. QED  BY <2>1
    <3>. QED  BY <3>1, <3>2
  <2>3. f[n + 1] = Step(g, n + 1)
    OBVIOUS
  <2>4. \A i \in 0..(n + 1) : f[i] = Step(f, i)
    <3>. SUFFICES ASSUME NEW i \in 0..(n + 1) PROVE f[i] = Step(f, i)
      OBVIOUS
    <3>. HIDE DEF f
    <3>1. CASE i = 0
      BY <2>2, <3>1
    <3>2. CASE i # 0
      <4>1. i - 1 \in 0..n
        BY <3>2
      <4>2. Step(f, i) = Step(g, i)
        BY <2>2, <3>2, <4>1
      <4>. HIDE DEF Step
      <4>3. CASE i <= n
        BY <2>2, <4>2, <4>3
      <4>4. CASE i = n + 1
        BY <2>3, <4>2, <4>4
      <4>. QED  BY <4>3, <4>4
    <3>. QED  BY <3>1, <3>2
  <2>5. f = [i \in 0..(n + 1) |-> Step(f, i)]
    BY <2>4
  <2>. HIDE DEF f
  <2>. QED  BY <2>5
<1>3. \A n \in Nat : Ok(n)
  <2>. HIDE DEF Ok
  <2>. DEFINE Bad == {n \in Nat : ~Ok(n)}
  <2>. SUFFICES ASSUME Bad # {} PROVE FALSE
    OBVIOUS
  <2>1. PICK n \in Bad : \A m \in Bad : n <= m
    BY Smallest
  <2>2. n # 0 /\ n - 1 \in Nat /\ ~(n - 1 \in Bad)
    BY <1>1, <2>1
  <2>. QED  BY <1>2, <2>1, <2>2
<1>. DEFINE kept == CHOOSE f : f = [i \in 0..Len(q) |-> Step(f, i)]
<1>4. kept = [i \in 0..Len(q) |-> Step(kept, i)]
  BY <1>0, <1>3
<1>5. Service!WithCallback(q) = kept[Len(q)]
  BY DEF Service!WithCallback
<1>. HIDE DEF kept
<1>6. \A n \in 0..Len(q) : kept[n] = Step(kept, n)
  BY <1>4
<1>7. Good(kept[0], 0)
  <2>1. kept[0] = << >>
    BY <1>0, <1>6
  <2>. QED  BY <2>1
<1>8. ASSUME NEW n \in 0..Len(q), n # 0, Good(kept[n - 1], n - 1) PROVE Good(kept[n], n)
  <2>. DEFINE s == kept[n - 1]
  <2>1. s \in Seq(Callback) /\ Len(s) \in Nat /\ Len(s) <= n - 1 /\ n \in Nat
    BY <1>0, <1>8
  <2>2. \A i \in 1..Len(s) : \E j \in 1..n : s[i] = q[j]
    BY <1>8, <2>1
  <2>3. CASE q[n] \in Callback
    <3>1. kept[n] = Append(s, q[n])
      BY <1>6, <1>8, <2>3
    <3>. HIDE DEF s
    <3>2. Append(s, q[n]) \in Seq(Callback) /\ Len(Append(s, q[n])) = Len(s) + 1
      BY <2>1, <2>3
    <3>3. \A i \in 1..(Len(s) + 1) : Append(s, q[n])[i] = IF i = Len(s) + 1 THEN q[n] ELSE s[i]
      BY <2>1, <2>3
    <3>4. \A i \in 1..(Len(s) + 1) : \E j \in 1..n : Append(s, q[n])[i] = q[j]
      BY <1>8, <2>1, <2>2, <3>3
    <3>. QED  BY <2>1, <3>1, <3>2, <3>4
  <2>4. CASE q[n] \notin Callback
    <3>1. kept[n] = s
      BY <1>6, <1>8, <2>4
    <3>. HIDE DEF s
    <3>. QED  BY <2>1, <2>2, <3>1
  <2>. QED  BY <2>3, <2>4
<1>9. \A n \in 0..Len(q) : Good(kept[n], n)
  <2>. HIDE DEF Good
  <2>. DEFINE Bad == {n \in 0..Len(q) : ~Good(kept[n], n)}
  <2>. SUFFICES ASSUME Bad # {} PROVE FALSE
    OBVIOUS
  <2>0. Bad \in SUBSET Nat
    BY <1>0
  <2>1. PICK n \in Bad : \A m \in Bad : n <= m
    BY <2>0, Smallest
  <2>2. n # 0 /\ n - 1 \in 0..Len(q) /\ ~(n - 1 \in Bad)
    BY <1>0, <1>7, <2>1
  <2>. QED  BY <1>8, <2>1, <2>2
<1>. QED  BY <1>0, <1>5, <1>9

-----------------------------------------------------------------------------
(* What the rest of the invariant and the service need.                    *)
MAX == MAX_NUM_OF_RECOVERY_TRIGGERS

TimerTypes ==
    /\ bOperState \in BOOLEAN /\ bOperStateWhenStarted \in [Timers -> BOOLEAN] /\ ticking \subseteq Timers
    /\ hOperQueue \in Seq(Timers) /\ hInitQueue \in Seq(Timers)

PlainTypes ==
    /\ bErrorFlag \in BOOLEAN /\ failureEvent \in BOOLEAN /\ bRecovery \in BOOLEAN
    /\ fw \in {"idle", "executing", "answered", "read"}
    /\ eSmState \in DrvState /\ eLastAction \in {"START", "STOP"}
    /\ pc \in {"idle", "complete", "callback", "sequence", "reconfig", "expiry"}
    /\ bOperState => eSmState = "OPERATIONAL"

(* Every command of the ring is one, of the sequence at most one is there, *)
(* only while the firmware is configured, and none while one is called     *)
(* back.                                                                   *)
ConfigOnce ==
    /\ RingContent \in Seq(AnyCmd)
    /\ \A i, j \in 1..Len(RingContent) : RingContent[i] \in Sequence /\ RingContent[j] \in Sequence => i = j
    /\ (\E i \in 1..Len(RingContent) : RingContent[i] \in Sequence)
          => eSmState = "FW_CONFIG" /\ pc \notin {"sequence", "reconfig"}
    /\ pc \in {"sequence", "reconfig"} => eSmState = "FW_CONFIG"

(* A reset in the middle of the configuration is one that stops the        *)
(* driver, so that another reset, of an empty ring, comes before the next  *)
(* configuration.                                                          *)
SavedPlain ==
    /\ aRecoveryQueue \in Seq(Callback) /\ Len(aRecoveryQueue) <= Depth /\ uCbIndex \in 0..Len(aRecoveryQueue)
    /\ eSmState \notin {"STOPPING_ON_FAIL", "FAILED"} =>
          \A i \in (uCbIndex + 1)..Len(aRecoveryQueue) : aRecoveryQueue[i] \notin Sequence

(* A command is being called back exactly while the task says so, and the  *)
(* last of the configuration until every dropped one has been told.        *)
HandMatches ==
    /\ mbox \in AnyCmd \cup {None} /\ inHand \in AnyCmd \cup {None}
    /\ inHand = None <=> pc \in {"idle", "complete", "expiry"}
    /\ pc = "sequence" => inHand = ConfigCmd
    /\ pc = "reconfig" => inHand = MemoryMapCmd
    /\ pc = "callback" /\ inHand = MemoryMapCmd => uCbIndex = Len(aRecoveryQueue)

(* A command's timer counts for the phase in which the command is given up *)
(* if it expires; and a driver that has failed has no command.             *)
Guarded ==
    /\ bCmdInProgress /\ bOperState => bOperStateWhenStarted["mbox"]
    /\ eSmState = "FAILED" => ~bMboxEnabled
    /\ CommandGuarded

(* DrvMain gives up before its attempts could exceed the bound by more.    *)
Attempts ==
    /\ uNumOfRecoveryAttempts \in Nat
    /\ eSmState \in {"STOPPED", "OPERATIONAL", "DISCONNECTING"} => uNumOfRecoveryAttempts <= MAX - 1
    /\ eSmState \in {"INIT", "FW_CONFIG"} => uNumOfRecoveryAttempts <= MAX - (IF bRecovery THEN 0 ELSE 1)
    /\ eSmState = "STOPPING_ON_FAIL" => uNumOfRecoveryAttempts <= MAX + 1
    /\ uNumOfRecoveryAttempts <= MAX + 2

FullInv ==
    /\ IndInv /\ TimerTypes /\ PlainTypes /\ ConfigOnce /\ SavedPlain /\ HandMatches /\ Guarded /\ Attempts

LEMMA MaxType == MAX \in Nat \ {0} /\ "mbox" \in Timers /\ "fail" \in Timers
BY CmdAssumption DEF MAX

LEMMA FullInit == Init => FullInv
<1>. SUFFICES ASSUME Init PROVE FullInv
  OBVIOUS
<1>1. IndInv
  BY InitInv
<1>2. TimerTypes
  <2>1. << >> \in Seq(Timers) /\ {} \subseteq Timers
    OBVIOUS
  <2>. QED  BY <2>1 DEF Init, TimerInit, TimerTypes
<1>6. PlainTypes
  BY DEF Init, TimerInit, PlainTypes, DrvState
<1>3. RingContent = << >>
  BY DEF Init, RingContent
<1>4. ConfigOnce /\ SavedPlain /\ HandMatches
  BY <1>3, DepthType DEF Init, ConfigOnce, SavedPlain, HandMatches
<1>5. Guarded /\ Attempts
  BY MaxType DEF Init, Guarded, CommandGuarded, Attempts
<1>. QED  BY <1>1, <1>2, <1>4, <1>5, <1>6 DEF FullInv

-----------------------------------------------------------------------------
(* The types.                                                              *)
LEMMA TimerTypesStep ==
    ASSUME TimerTypes, PlainTypes, [Next]_vars
    PROVE  TimerTypes'
<1>. USE DEF TimerTypes
<1>0. "mbox" \in Timers /\ "fail" \in Timers
  BY MaxType
<1>1. \A t \in Timers : StartTimer(t) =>
          ticking' \subseteq Timers /\ bOperStateWhenStarted' \in [Timers -> BOOLEAN]
  BY DEF StartTimer
<1>2. StopTimer("mbox") => ticking' \subseteq Timers /\ bOperStateWhenStarted' \in [Timers -> BOOLEAN]
  BY DEF StopTimer
<1>3. \A c : SendMbox(c) => TimerTypes'
  BY <1>0, <1>1 DEF SendMbox, timervars, quevars
<1>4. \A c : Push(c) => TimerTypes'
  BY <1>3 DEF Push, SmRun, timervars
<1>5. Present # << >> /\ Dequeue => hOperQueue' \in Seq(Timers) /\ hInitQueue' \in Seq(Timers)
  <2>1. \A q \in Seq(Timers) : q # << >> => Tail(q) \in Seq(Timers)
    OBVIOUS
  <2>2. CASE bOperState
    BY <2>1, <2>2 DEF Present, Dequeue
  <2>3. CASE ~bOperState
    BY <2>1, <2>3 DEF Present, Dequeue
  <2>. QED  BY <2>2, <2>3
<1>6. SendFailureEvent => ticking' \subseteq Timers /\ bOperStateWhenStarted' \in [Timers -> BOOLEAN]
  BY <1>0, <1>1 DEF SendFailureEvent
<1>7. Stop => ticking' \subseteq Timers /\ bOperStateWhenStarted' \in [Timers -> BOOLEAN]
  BY <1>2 DEF Stop
<1>17. << >> \in Seq(Timers)
  OBVIOUS
<1>8. CASE \E c \in Cmd : SendCommand(c)
  BY <1>4, <1>8 DEF SendCommand
<1>9. CASE FwAnswers \/ Answered
  BY <1>2, <1>9 DEF FwAnswers, Answered, CommandComplete, TransferComplete, timervars, quevars
<1>10. CASE Callbacks
  <2>1. CASE CallbackReturns
    BY <1>3, <2>1 DEF CallbackReturns, SmRun, timervars
  <2>2. CASE ConfigSeq
    BY <1>4, <2>2 DEF ConfigSeq, timervars
  <2>3. CASE EndReconfig
    BY <2>3 DEF EndReconfig, timervars
  <2>4. CASE ConfigComplete
    BY <2>4, <1>17 DEF ConfigComplete, EnterOperational
  <2>. QED  BY <1>10, <2>1, <2>2, <2>3, <2>4 DEF Callbacks
<1>11. CASE ConfigFw
  BY <1>4, <1>11 DEF ConfigFw, timervars
<1>12. CASE StopAction \/ StopWhenStopped \/ Disconnected \/ StartAction
  <2>1. CASE StopAction
    BY <2>1 DEF StopAction, LeaveOperational, quevars
  <2>2. CASE StopWhenStopped
    BY <1>7, <2>2 DEF StopWhenStopped, quevars
  <2>3. CASE Disconnected
    BY <1>7, <1>17, <2>3 DEF Disconnected, ClearOperQueue
  <2>4. CASE StartAction
    BY <2>4 DEF StartAction, timervars
  <2>. QED  BY <1>12, <2>1, <2>2, <2>3, <2>4
<1>13. CASE OtherFailure
  BY <1>6, <1>13 DEF OtherFailure, quevars
<1>14. CASE HandleExpiries
  <2>1. CASE HandleExpiry \/ ExpiryHandled
    BY <2>1 DEF HandleExpiry, ExpiryHandled, timervars
  <2>2. CASE MboxTimeOut
    BY <1>5, <1>6, <2>2 DEF MboxTimeOut, Expired
  <2>3. CASE Recovery
    BY <1>5, <1>7, <2>3 DEF Recovery, Process, Expired, LeaveOperational
  <2>4. CASE RecoveryStops
    <3>1. hInitQueue # << >> /\ hInitQueue' = Tail(hInitQueue) /\ hOperQueue' = << >> /\ UNCHANGED bOperState
      BY <2>4 DEF RecoveryStops, Process, Expired, Present, PlainTypes, ClearOperQueue
    <3>2. Tail(hInitQueue) \in Seq(Timers)
      BY <3>1
    <3>. QED  BY <1>7, <1>17, <2>4, <3>1, <3>2 DEF RecoveryStops
  <2>5. CASE RecoveryFails
    BY <1>5, <2>5 DEF RecoveryFails, Process, Expired
  <2>. QED  BY <1>14, <2>1, <2>2, <2>3, <2>4, <2>5 DEF HandleExpiries
<1>15. CASE \E t \in Timers : TimerExpires(t)
  <2>1. \A q \in Seq(Timers), t \in Timers : Link(q, t) \in Seq(Timers)
    BY DEF Link
  <2>. QED  BY <1>15, <2>1 DEF TimerExpires, GetExpiry
<1>16. CASE UNCHANGED vars
  BY <1>16 DEF vars, timervars
<1>. QED  BY <1>8, <1>9, <1>10, <1>11, <1>12, <1>13, <1>14, <1>15, <1>16 DEF Next

LEMMA PlainTypesStep ==
    ASSUME PlainTypes, [Next]_vars
    PROVE  PlainTypes'
<1>. USE DEF PlainTypes, DrvState
<1>1. \A c : Push(c) => fw' \in {fw, "executing"} /\ UNCHANGED bOperState
  BY DEF Push, SmRun, SendMbox, mboxvars, timervars
<1>2. CASE \E c \in Cmd : SendCommand(c)
  BY <1>1, <1>2 DEF SendCommand, drvvars
<1>3. CASE FwAnswers \/ CommandComplete
  BY <1>3 DEF FwAnswers, CommandComplete, drvvars, timervars
<1>4. CASE \E cmdStatus \in {"ok", "error"} : TransferComplete(cmdStatus)
  BY <1>4 DEF TransferComplete, drvvars, timervars
<1>5. CASE CallbackReturns
  BY <1>5 DEF CallbackReturns, SmRun, SendMbox, mboxvars, timervars, drvvars
<1>6. CASE ConfigSeq
  BY <1>1, <1>6 DEF ConfigSeq, drvvars, mboxvars, timervars
<1>7. CASE EndReconfig
  BY <1>7 DEF EndReconfig, mboxvars, drvvars, timervars
<1>19. CASE ConfigComplete
  <2>1. eSmState' = "OPERATIONAL" /\ bRecovery' = FALSE /\ pc' = "callback" /\ bOperState' = TRUE
        /\ UNCHANGED <<bErrorFlag, fw, failureEvent, eLastAction>>
    BY <1>19 DEF ConfigComplete, EnterOperational, mboxvars
  <2>. QED  BY <2>1
<1>8. CASE ConfigFw
  BY <1>1, <1>8 DEF ConfigFw, mboxvars, timervars
<1>9. CASE StopAction \/ StartAction
  BY <1>9 DEF StopAction, StartAction, mboxvars, timervars, LeaveOperational
<1>10. CASE StopWhenStopped \/ Disconnected
  BY <1>10 DEF StopWhenStopped, Disconnected, Stop
<1>11. CASE OtherFailure
  BY <1>11 DEF OtherFailure, SendFailureEvent, mboxvars, drvvars
<1>12. CASE HandleExpiry \/ ExpiryHandled
  BY <1>12 DEF HandleExpiry, ExpiryHandled, mboxvars, drvvars, timervars
<1>18. CASE MboxTimeOut
  <2>1. failureEvent' = TRUE /\ UNCHANGED <<bErrorFlag, drvvars, pc, fw, bOperState>>
    BY <1>18 DEF MboxTimeOut, SendFailureEvent, mboxvars
  <2>. QED  BY <2>1 DEF drvvars
<1>13. CASE Recovery
  <2>1. failureEvent' = FALSE /\ bRecovery' = TRUE /\ UNCHANGED <<bErrorFlag, eLastAction, pc>> /\ fw' = "idle"
    BY <1>13 DEF Recovery, Process, Stop
  <2>2. eSmState' \in DrvState /\ ~bOperState'
    BY <1>13 DEF Recovery, Restarts, LeaveOperational
  <2>. QED  BY <2>1, <2>2
<1>14. CASE RecoveryStops
  BY <1>14 DEF RecoveryStops, Process, Stop
<1>15. CASE RecoveryFails
  BY <1>15 DEF RecoveryFails, Process, mboxvars
<1>16. CASE \E t \in Timers : TimerExpires(t)
  BY <1>16 DEF TimerExpires, GetExpiry, mboxvars, drvvars
<1>17. CASE UNCHANGED vars
  BY <1>17 DEF vars, mboxvars, drvvars, timervars
<1>. QED  BY <1>2, <1>3, <1>4, <1>5, <1>6, <1>7, <1>8, <1>9, <1>10, <1>11, <1>12, <1>13, <1>14, <1>15, <1>16,
             <1>17, <1>18, <1>19 DEF Next, Answered, Callbacks, HandleExpiries

-----------------------------------------------------------------------------
(* The commands.  The steps that leave ring and saved callbacks alone.     *)
Held == RingContent' = RingContent /\ UNCHANGED recvars

LEMMA HeldStep ==
    ASSUME ConfigOnce, SavedPlain, Held,
           eSmState' = eSmState
             \/ (eSmState # "FW_CONFIG" /\ ((eSmState \notin {"STOPPING_ON_FAIL", "FAILED"}) \/ eSmState' = "FAILED")),
           pc' \in {"sequence", "reconfig"} => pc = pc' /\ eSmState' = eSmState
    PROVE  ConfigOnce' /\ SavedPlain'
BY DEF ConfigOnce, SavedPlain, Held, recvars

(* A command is put into the ring.                                         *)
LEMMA PushedStep ==
    ASSUME IndInv, ConfigOnce, SavedPlain, NEW c \in AnyCmd, Push(c), uNumberOfCommandInQueue < Depth,
           UNCHANGED recvars,
           \/ c \notin Sequence /\ UNCHANGED <<eSmState, pc>>
           \/ /\ c \in Sequence /\ eSmState' = "FW_CONFIG" /\ pc' \notin {"sequence", "reconfig"}
              /\ uNumberOfCommandInQueue = 0 \/ pc = "sequence"
              /\ eSmState \in {"INIT", "FW_CONFIG"}
    PROVE  ConfigOnce' /\ SavedPlain'
<1>. DEFINE q == RingContent
<1>1. q \in Seq(AnyCmd) /\ Len(q) \in Nat /\ Len(q) = uNumberOfCommandInQueue /\ q' = Append(q, c)
  BY RingSeq, RingPushed DEF IndInv, ConfigOnce
<1>2. /\ q' \in Seq(AnyCmd) /\ Len(q') = Len(q) + 1 /\ q'[Len(q) + 1] = c
      /\ \A i \in 1..Len(q) : q'[i] = q[i]
  BY <1>1, AppendProperties
<1>3. \A i \in 1..Len(q') : i \in 1..Len(q) \/ i = Len(q) + 1
  BY <1>1, <1>2
<1>4. SavedPlain'
  BY DEF SavedPlain, recvars
<1>5. CASE c \notin Sequence
  <2>1. \A i \in 1..Len(q') : q'[i] \in Sequence => i \in 1..Len(q) /\ q[i] \in Sequence
    BY <1>2, <1>3, <1>5
  <2>. QED  BY <1>2, <1>4, <1>5, <2>1 DEF ConfigOnce
<1>6. CASE c \in Sequence
  <2>1. \A i \in 1..Len(q) : q[i] \notin Sequence
    <3>1. CASE uNumberOfCommandInQueue = 0
      BY <1>1, <3>1
    <3>2. CASE pc = "sequence"
      BY <3>2 DEF ConfigOnce
    <3>. QED  BY <1>6, <3>1, <3>2
  <2>2. \A i \in 1..Len(q') : q'[i] \in Sequence => i = Len(q) + 1
    BY <1>2, <1>3, <2>1
  <2>. QED  BY <1>2, <1>4, <1>6, <2>2 DEF ConfigOnce
<1>. QED  BY <1>5, <1>6

(* The first one leaves it.                                                *)
LEMMA PoppedStep ==
    ASSUME IndInv, ConfigOnce, SavedPlain, HandMatches, NEW cmdStatus, TransferComplete(cmdStatus)
    PROVE  ConfigOnce' /\ SavedPlain' /\ HandMatches'
<1>. DEFINE q == RingContent
<1>1. /\ pc \notin {"callback", "sequence", "reconfig"} /\ state = "WAIT_FOR_COMPLETION"
      /\ head' = NextIndex(head) /\ uNumberOfCommandInQueue' = uNumberOfCommandInQueue - 1
      /\ UNCHANGED <<aCmdQueue, recvars, eSmState, mbox>> /\ inHand' = aCmdQueue[head]
      /\ pc' = CASE inHand' = ConfigCmd -> "sequence" [] inHand' = MemoryMapCmd -> "reconfig" [] OTHER -> "callback"
  BY DEF TransferComplete, drvvars
<1>2. uNumberOfCommandInQueue \in 1..Depth
  BY <1>1, DepthType DEF IndInv, AnswerMatchesHead, RingTypes
<1>3. q # << >> /\ Head(q) = aCmdQueue[head] /\ q' = Tail(q) /\ q \in Seq(AnyCmd) /\ Len(q) \in Nat /\ q[1] = Head(q)
  BY <1>1, <1>2, RingPopped DEF IndInv, ConfigOnce
<1>4. /\ q' \in Seq(AnyCmd) /\ Len(q') = Len(q) - 1 /\ Len(q) >= 1
      /\ \A i \in 1..Len(q') : q'[i] = q[i + 1]
  BY <1>3, HeadTailProperties
<1>5. \A i \in 1..Len(q') : i + 1 \in 1..Len(q)
  BY <1>3, <1>4
<1>6. inHand' \in AnyCmd /\ inHand' = q[1] /\ 1 \in 1..Len(q) /\ inHand' # None
  BY <1>1, <1>3, <1>4, CmdAssumption
<1>7. CASE inHand' \in Sequence
  <2>1. \A i \in 1..Len(q') : q'[i] \notin Sequence
    <3>. SUFFICES ASSUME NEW i \in 1..Len(q'), q'[i] \in Sequence PROVE FALSE
      OBVIOUS
    <3>1. q[i + 1] \in Sequence /\ i + 1 \in 1..Len(q) /\ q[1] \in Sequence
      BY <1>4, <1>5, <1>6, <1>7
    <3>2. i + 1 = 1
      BY <1>6, <3>1 DEF ConfigOnce
    <3>. QED  BY <3>2
  <2>2. eSmState = "FW_CONFIG"
    BY <1>6, <1>7 DEF ConfigOnce
  <2>. QED  BY <1>1, <1>4, <1>6, <1>7, <2>1, <2>2, CmdAssumption
            DEF ConfigOnce, SavedPlain, HandMatches, recvars, Sequence
<1>8. CASE inHand' \notin Sequence
  <2>1. pc' = "callback" /\ inHand' # MemoryMapCmd
    BY <1>1, <1>8 DEF Sequence
  <2>2. \A i, j \in 1..Len(q') : q'[i] \in Sequence /\ q'[j] \in Sequence => i = j
    <3>. SUFFICES ASSUME NEW i \in 1..Len(q'), NEW j \in 1..Len(q'), q'[i] \in Sequence, q'[j] \in Sequence
                  PROVE  i = j
      OBVIOUS
    <3>1. i + 1 = j + 1
      BY <1>4, <1>5 DEF ConfigOnce
    <3>. QED  BY <3>1
  <2>3. (\E i \in 1..Len(q') : q'[i] \in Sequence) => eSmState = "FW_CONFIG"
    BY <1>4, <1>5 DEF ConfigOnce
  <2>. QED  BY <1>1, <1>4, <1>6, <2>1, <2>2, <2>3 DEF ConfigOnce, SavedPlain, HandMatches, recvars
<1>. QED  BY <1>7, <1>8

(* A reset.                                                                *)
LEMMA ResetStep ==
    ASSUME IndInv, ConfigOnce, Stop, pc' \in {"idle", "expiry"},
           \/ eSmState' = "STOPPING_ON_FAIL"
           \/ eSmState # "FW_CONFIG"
    PROVE  ConfigOnce' /\ SavedPlain'
<1>1. RingContent' = << >>
  BY RingReset
<1>2. ConfigOnce'
  BY <1>1 DEF ConfigOnce
<1>3. /\ RingContent \in Seq(AnyCmd) /\ Len(RingContent) <= Depth /\ Len(RingContent) \in Nat /\ Depth \in Nat
      /\ aRecoveryQueue' = Service!WithCallback(RingContent) /\ uCbIndex' = 0
  BY RingSeq, DepthType DEF IndInv, RingTypes, ConfigOnce, Stop, SavedCallbacks
<1>4. /\ aRecoveryQueue' \in Seq(Callback) /\ Len(aRecoveryQueue') <= Len(RingContent)
      /\ \A i \in 1..Len(aRecoveryQueue') : \E j \in 1..Len(RingContent) : aRecoveryQueue'[i] = RingContent[j]
  BY <1>3, Kept
<1>5. eSmState # "FW_CONFIG" => \A i \in 1..Len(aRecoveryQueue') : aRecoveryQueue'[i] \notin Sequence
  BY <1>4 DEF ConfigOnce
<1>6. Len(aRecoveryQueue') \in Nat /\ Len(aRecoveryQueue') <= Depth /\ uCbIndex' \in 0..Len(aRecoveryQueue')
  BY <1>3, <1>4
<1>7. SavedPlain'
  BY <1>3, <1>4, <1>5, <1>6 DEF SavedPlain
<1>. QED  BY <1>2, <1>7

(* No other step changes them.                                             *)
LEMMA CommandsStep ==
    ASSUME FullInv, [Next]_vars
    PROVE  ConfigOnce' /\ SavedPlain' /\ HandMatches'
<1>0. IndInv /\ PlainTypes /\ ConfigOnce /\ SavedPlain /\ HandMatches
  BY DEF FullInv
<1>1. RingTypes /\ EmptyWhenDisabled /\ WaitsWhileAwake
  BY <1>0 DEF IndInv
<1>2. \A c \in AnyCmd : Push(c) => mbox' \in AnyCmd \cup {None}
  BY <1>0 DEF Push, SmRun, SendMbox, mboxvars, HandMatches
<1>3. \A c \in Cmd : c \in AnyCmd /\ c \notin Sequence
  BY CmdAssumption DEF AnyCmd
<1>4. \A c \in Sequence : c \in AnyCmd
  BY DEF AnyCmd
<1>5. ringvars' = ringvars => RingContent' = RingContent
  BY RingKept
<1>6. CASE \E c \in Cmd : SendCommand(c)
  <2>1. PICK c \in Cmd : SendCommand(c)
    BY <1>6
  <2>2. /\ Push(c) /\ uNumberOfCommandInQueue < Depth /\ UNCHANGED <<recvars, eSmState, pc, inHand>>
    BY <2>1 DEF SendCommand, MayPush, drvvars
  <2>3. ConfigOnce' /\ SavedPlain'
    BY <1>0, <1>3, <2>2, PushedStep
  <2>. QED  BY <1>0, <1>2, <1>3, <2>2, <2>3 DEF HandMatches, recvars
<1>7. CASE FwAnswers \/ CommandComplete
  <2>1. UNCHANGED <<ringvars, recvars, mbox, eSmState, inHand>> /\ (pc' = pc \/ (pc = "idle" /\ pc' \in {"idle", "complete"}))
    BY <1>7 DEF FwAnswers, CommandComplete, drvvars
  <2>2. ConfigOnce' /\ SavedPlain'
    BY <1>0, <1>5, <2>1, HeldStep DEF Held
  <2>. QED  BY <1>0, <2>1, <2>2 DEF HandMatches, recvars
<1>8. CASE \E cmdStatus \in {"ok", "error"} : TransferComplete(cmdStatus)
  BY <1>0, <1>8, PoppedStep
<1>9. CASE CallbackReturns
  <2>1. /\ UNCHANGED <<ringvars, recvars, eSmState>> /\ inHand' = None /\ pc = "callback" /\ pc' = "idle"
    BY <1>9 DEF CallbackReturns, drvvars
  <2>2. ConfigOnce' /\ SavedPlain'
    BY <1>0, <1>5, <2>1, HeldStep DEF Held
  <2>3. mbox' \in AnyCmd \cup {None}
    <3>1. head \in Slots /\ aCmdQueue[head] \in AnyCmd \cup {None}
      BY <1>1 DEF RingTypes
    <3>. QED  BY <1>0, <1>9, <3>1 DEF CallbackReturns, SmRun, SendMbox, mboxvars, HandMatches
  <2>. QED  BY <2>1, <2>2, <2>3 DEF HandMatches
<1>10. CASE ConfigSeq
  <2>1. /\ pc = "sequence" /\ pc' = "callback" /\ UNCHANGED <<recvars, eSmState, inHand>>
    BY <1>10 DEF ConfigSeq, drvvars
  <2>2. eSmState = "FW_CONFIG" /\ inHand # None /\ inHand # MemoryMapCmd
    BY <1>0, <2>1, CmdAssumption DEF ConfigOnce, HandMatches, AnyCmd, Sequence
  <2>3. CASE MayPush
    <3>1. PICK c \in Sequence : Push(c)
      BY <1>10, <2>3 DEF ConfigSeq
    <3>2. uNumberOfCommandInQueue < Depth
      BY <2>3 DEF MayPush
    <3>3. ConfigOnce' /\ SavedPlain'
      BY <1>0, <1>4, <2>1, <2>2, <3>1, <3>2, PushedStep
    <3>. QED  BY <1>0, <1>2, <1>4, <2>1, <2>2, <3>1, <3>3 DEF HandMatches, recvars
  <2>4. CASE ~MayPush
    <3>1. UNCHANGED <<ringvars, mbox>>
      BY <1>10, <2>4 DEF ConfigSeq, mboxvars
    <3>2. ConfigOnce' /\ SavedPlain'
      BY <1>0, <1>5, <2>1, <3>1, HeldStep DEF Held
    <3>. QED  BY <1>0, <2>1, <2>2, <3>1, <3>2 DEF HandMatches, recvars
  <2>. QED  BY <2>3, <2>4
<1>11. CASE EndReconfig
  <2>1. /\ pc = "reconfig" /\ uCbIndex < Len(aRecoveryQueue) /\ uCbIndex' = uCbIndex + 1
        /\ UNCHANGED <<ringvars, aRecoveryQueue, mbox, eSmState, pc, inHand>>
    BY <1>11 DEF EndReconfig, mboxvars, drvvars
  <2>2. ConfigOnce'
    BY <1>0, <1>5, <2>1 DEF ConfigOnce
  <2>3. uCbIndex' \in 0..Len(aRecoveryQueue) /\ (uCbIndex' + 1)..Len(aRecoveryQueue) \subseteq (uCbIndex + 1)..Len(aRecoveryQueue)
    BY <1>0, <2>1 DEF SavedPlain
  <2>4. SavedPlain'
    BY <1>0, <2>1, <2>3 DEF SavedPlain
  <2>. QED  BY <1>0, <2>1, <2>2, <2>4 DEF HandMatches
<1>12. CASE ConfigComplete
  <2>1. /\ pc = "reconfig" /\ pc' = "callback" /\ aRecoveryQueue' = << >> /\ uCbIndex' = 0
        /\ UNCHANGED <<ringvars, mbox, inHand>> /\ eSmState' = "OPERATIONAL"
    BY <1>12 DEF ConfigComplete, mboxvars
  <2>2. ConfigOnce'
    BY <1>0, <1>5, <2>1 DEF ConfigOnce
  <2>3. SavedPlain'
    BY <2>1, DepthType DEF SavedPlain
  <2>. QED  BY <1>0, <2>1, <2>2, <2>3 DEF HandMatches
<1>13. CASE ConfigFw
  <2>1. /\ pc = "idle" /\ eSmState = "INIT" /\ eSmState' = "FW_CONFIG" /\ UNCHANGED <<recvars, inHand, pc>>
        /\ uNumberOfCommandInQueue = 0
    BY <1>1, <1>13 DEF ConfigFw, EmptyWhenDisabled
  <2>2. CASE bErrorFlag
    <3>1. UNCHANGED <<ringvars, mbox>>
      BY <1>13, <2>2 DEF ConfigFw, mboxvars
    <3>2. ConfigOnce' /\ SavedPlain'
      BY <1>0, <1>5, <2>1, <3>1, HeldStep DEF Held
    <3>. QED  BY <1>0, <2>1, <3>1, <3>2 DEF HandMatches, recvars
  <2>3. CASE ~bErrorFlag
    <3>1. Push(ConfigCmd) /\ ConfigCmd \in Sequence /\ uNumberOfCommandInQueue < Depth
      BY <1>13, <2>1, <2>3, DepthType DEF ConfigFw, Sequence
    <3>2. ConfigOnce' /\ SavedPlain'
      BY <1>0, <1>4, <2>1, <3>1, PushedStep
    <3>. QED  BY <1>0, <1>2, <1>4, <2>1, <3>1, <3>2 DEF HandMatches, recvars
  <2>. QED  BY <2>2, <2>3
<1>14. CASE StopAction \/ StartAction
  <2>1. /\ UNCHANGED <<ringvars, recvars, mbox, inHand, pc>> /\ pc = "idle"
        /\ eSmState \in {"OPERATIONAL", "STOPPED"}
    BY <1>14 DEF StopAction, StartAction, mboxvars
  <2>2. ConfigOnce' /\ SavedPlain'
    BY <1>0, <1>5, <2>1, HeldStep DEF Held
  <2>. QED  BY <1>0, <2>1, <2>2 DEF HandMatches, recvars
<1>15. CASE StopWhenStopped \/ Disconnected \/ Recovery \/ RecoveryStops
  <2>1. /\ Stop /\ pc \in {"idle", "expiry"} /\ UNCHANGED <<pc, inHand>> /\ mbox' = None
        /\ (eSmState' = "STOPPING_ON_FAIL" \/ eSmState # "FW_CONFIG")
    BY <1>15 DEF StopWhenStopped, Disconnected, Recovery, RecoveryStops, Process, Expired, Stop, Restarts
  <2>2. ConfigOnce' /\ SavedPlain'
    BY <1>0, <2>1, ResetStep
  <2>. QED  BY <1>0, <2>1, <2>2 DEF HandMatches
<1>16. CASE OtherFailure \/ HandleExpiry \/ ExpiryHandled \/ MboxTimeOut \/ (\E t \in Timers : TimerExpires(t))
  <2>1. /\ UNCHANGED <<ringvars, recvars, mbox, inHand, eSmState>>
        /\ (pc' = pc \/ {pc, pc'} \subseteq {"idle", "expiry"})
    BY <1>16 DEF OtherFailure, HandleExpiry, ExpiryHandled, MboxTimeOut, TimerExpires, mboxvars, drvvars
  <2>2. ConfigOnce' /\ SavedPlain'
    BY <1>0, <1>5, <2>1, HeldStep DEF Held
  <2>. QED  BY <1>0, <2>1, <2>2 DEF HandMatches, recvars
<1>17. CASE RecoveryFails
  <2>1. /\ UNCHANGED <<ringvars, recvars, mbox, inHand, pc>> /\ pc = "expiry" /\ eSmState' = "FAILED"
        /\ eSmState \in {"STOPPING_ON_FAIL", "FAILED"}
    BY <1>17 DEF RecoveryFails, Process, Expired, mboxvars
  <2>2. ConfigOnce' /\ SavedPlain'
    BY <1>0, <1>5, <2>1, HeldStep DEF Held
  <2>. QED  BY <1>0, <2>1, <2>2 DEF HandMatches, recvars
<1>18. CASE UNCHANGED vars
  <2>1. UNCHANGED <<ringvars, recvars, mbox, inHand, pc, eSmState>>
    BY <1>18 DEF vars, mboxvars, drvvars
  <2>2. ConfigOnce' /\ SavedPlain'
    BY <1>0, <1>5, <2>1, HeldStep DEF Held
  <2>. QED  BY <1>0, <2>1, <2>2 DEF HandMatches, recvars
<1>. QED  BY <1>6, <1>7, <1>8, <1>9, <1>10, <1>11, <1>12, <1>13, <1>14, <1>15, <1>16, <1>17, <1>18
          DEF Next, Answered, Callbacks, HandleExpiries

-----------------------------------------------------------------------------
(* The timer of the command in the mailbox.                                *)
LEMMA TailIn ==
    ASSUME NEW q \in Seq(Timers), q # << >>, NEW t, Head(q) # t, In(t, q)
    PROVE  In(t, Tail(q))
<1>1. PICK i \in 1..Len(q) : q[i] = t
  BY DEF In
<1>2. Len(q) \in Nat /\ q[1] = Head(q) /\ i \in Nat
  OBVIOUS
<1>3. /\ Len(Tail(q)) = Len(q) - 1 /\ \A j \in 1..Len(Tail(q)) : Tail(q)[j] = q[j + 1]
  BY HeadTailProperties
<1>4. i - 1 \in 1..Len(Tail(q)) /\ (i - 1) + 1 = i
  BY <1>1, <1>2, <1>3
<1>5. Tail(q)[i - 1] = t
  BY <1>1, <1>3, <1>4
<1>. QED  BY <1>4, <1>5 DEF In

LEMMA AppendIn ==
    ASSUME NEW q \in Seq(Timers), NEW t \in Timers
    PROVE  In(t, Append(q, t)) /\ \A u : In(u, q) => In(u, Append(q, t))
<1>. DEFINE r == Append(q, t)
<1>1. Len(q) \in Nat /\ Len(r) = Len(q) + 1 /\ r[Len(q) + 1] = t /\ \A i \in 1..Len(q) : r[i] = q[i]
  BY AppendProperties
<1>2. Len(q) + 1 \in 1..Len(r) /\ 1..Len(q) \subseteq 1..Len(r)
  BY <1>1
<1>. HIDE DEF r
<1>. QED  BY <1>1, <1>2 DEF In, r

(* A step that neither gives the mailbox a command nor touches timers.     *)
LEMMA GuardKept ==
    ASSUME Guarded, UNCHANGED <<bCmdInProgress, fw, timervars, failureEvent>>,
           eSmState' = "FAILED" => ~bMboxEnabled'
    PROVE  Guarded'
BY DEF Guarded, CommandGuarded, timervars, In

LEMMA GuardFree ==
    ASSUME bCmdInProgress' = FALSE, eSmState' = "FAILED" => ~bMboxEnabled'
    PROVE  Guarded'
BY DEF Guarded, CommandGuarded

LEMMA GuardSent ==
    ASSUME FullInv, NEW c \in AnyCmd \cup {None}, SendMbox(c), ~bCmdInProgress,
           eSmState' = "FAILED" => ~bMboxEnabled'
    PROVE  Guarded'
<1>1. /\ ticking' = ticking \cup {"mbox"} /\ bOperState' = bOperState
      /\ bOperStateWhenStarted' = [bOperStateWhenStarted EXCEPT !["mbox"] = bOperState]
  BY DEF SendMbox, StartTimer
<1>2. bOperStateWhenStarted'["mbox"] = bOperState /\ "mbox" \in ticking'
  BY <1>1, MaxType DEF FullInv, TimerTypes
<1>. QED  BY <1>1, <1>2 DEF Guarded, CommandGuarded

LEMMA GuardPushed ==
    ASSUME FullInv, NEW c \in AnyCmd, Push(c), UNCHANGED failureEvent,
           eSmState' = "FAILED" => ~bMboxEnabled'
    PROVE  Guarded'
<1>1. CASE RunNow
  <2>1. ~bCmdInProgress
    BY <1>1 DEF RunNow, FullInv, IndInv, AnswerMatchesHead
  <2>. QED  BY <1>1, <2>1, GuardSent DEF Push, SmRun
<1>2. CASE ~RunNow
  BY <1>2, GuardKept DEF Push, mboxvars, FullInv
<1>. QED  BY <1>1, <1>2

(* The health monitor is told, which starts only a timer of its own.       *)
LEMMA GuardFailure ==
    ASSUME FullInv, SendFailureEvent, UNCHANGED <<bCmdInProgress, bOperState>>,
           eSmState' = "FAILED" => ~bMboxEnabled'
    PROVE  Guarded'
<1>1. failureEvent' = TRUE
  BY DEF SendFailureEvent
<1>2. bOperStateWhenStarted'["mbox"] = bOperStateWhenStarted["mbox"]
  BY MaxType DEF SendFailureEvent, StartTimer, FullInv, TimerTypes
<1>. QED  BY <1>1, <1>2 DEF Guarded, CommandGuarded, FullInv

(* An expiry stays in a queue of the phase that will handle it.            *)
LEMMA GuardExpires ==
    ASSUME FullInv, NEW t \in Timers, GetExpiry(t),
           UNCHANGED <<bCmdInProgress, fw, failureEvent, eSmState, bMboxEnabled>>
    PROVE  Guarded'
<1>1. hOperQueue \in Seq(Timers) /\ hInitQueue \in Seq(Timers) /\ Guarded
  BY DEF FullInv, TimerTypes
<1>2. \A q \in {hOperQueue, hInitQueue} : \A u : In(u, q) => In(u, Link(q, t))
  BY <1>1, AppendIn DEF Link
<1>3. \A u : In(u, hOperQueue) => In(u, hOperQueue)'
  BY <1>2 DEF GetExpiry, In
<1>4. \A u : In(u, hInitQueue) => In(u, hInitQueue)'
  BY <1>2 DEF GetExpiry, In
<1>5. In(t, Link(hOperQueue, t)) \/ In(t, hInitQueue)
  BY <1>1, AppendIn DEF Link
<1>6. In(t, Link(hInitQueue, t)) \/ In(t, hOperQueue)
  BY <1>1, AppendIn DEF Link
<1>7. bOperState' = bOperState /\ bOperStateWhenStarted' = bOperStateWhenStarted /\ ticking' = ticking \ {t}
  BY DEF GetExpiry
<1>8. bCmdInProgress /\ t = "mbox" => In("mbox", hOperQueue)' \/ In("mbox", hInitQueue)'
  <2>. SUFFICES ASSUME bCmdInProgress, t = "mbox" PROVE In("mbox", hOperQueue)' \/ In("mbox", hInitQueue)'
    OBVIOUS
  <2>1. CASE bOperStateWhenStarted[t]
    BY <1>4, <1>5, <2>1 DEF GetExpiry, In
  <2>2. CASE ~bOperStateWhenStarted[t]
    <3>1. ~bOperState
      BY <1>1, <2>2 DEF Guarded
    <3>. QED  BY <1>3, <1>6, <2>2, <3>1 DEF GetExpiry, In
  <2>. QED  BY <2>1, <2>2
<1>9. CommandGuarded'
  BY <1>1, <1>3, <1>4, <1>7, <1>8 DEF Guarded, CommandGuarded
<1>. QED  BY <1>1, <1>7, <1>9 DEF Guarded

LEMMA GuardedStep ==
    ASSUME FullInv, [Next]_vars
    PROVE  Guarded'
<1>0. /\ Guarded /\ (eSmState = "FAILED" => ~bMboxEnabled) /\ RingTypes /\ WaitsWhileAwake
      /\ AnswerMatchesHead /\ EmptyWhenDisabled
  BY DEF FullInv, IndInv, Guarded
<1>1. CASE \E c \in Cmd : SendCommand(c)
  <2>1. PICK c \in Cmd : SendCommand(c)
    BY <1>1
  <2>2. c \in AnyCmd /\ Push(c) /\ UNCHANGED <<failureEvent, eSmState, bMboxEnabled>>
    BY <2>1 DEF SendCommand, AnyCmd, drvvars
  <2>. QED  BY <1>0, <2>2, GuardPushed
<1>2. CASE FwAnswers
  BY <1>0, <1>2 DEF FwAnswers, Guarded, CommandGuarded, drvvars, timervars, In
<1>3. CASE CommandComplete
  <2>1. fw' = "read" /\ UNCHANGED <<bCmdInProgress, bOperState, bOperStateWhenStarted, bMboxEnabled, eSmState>>
    BY <1>3 DEF CommandComplete, StopTimer, drvvars
  <2>. QED  BY <1>0, <2>1 DEF Guarded, CommandGuarded
<1>4. CASE \E cmdStatus \in {"ok", "error"} : TransferComplete(cmdStatus)
  <2>1. bCmdInProgress' = FALSE /\ UNCHANGED <<eSmState, bMboxEnabled>>
    BY <1>4 DEF TransferComplete, drvvars
  <2>. QED  BY <1>0, <2>1, GuardFree
<1>5. CASE CallbackReturns
  <2>1. ~bCmdInProgress /\ UNCHANGED <<failureEvent, eSmState, bMboxEnabled>>
    BY <1>0, <1>5 DEF CallbackReturns, drvvars, AnswerMatchesHead
  <2>2. CASE MoreQueued
    <3>1. SendMbox(aCmdQueue[head]) /\ aCmdQueue[head] \in AnyCmd \cup {None}
      BY <1>0, <1>5, <2>2 DEF CallbackReturns, SmRun, RingTypes
    <3>. QED  BY <1>0, <2>1, <3>1, GuardSent
  <2>3. CASE ~MoreQueued
    <3>1. UNCHANGED <<bCmdInProgress, fw, timervars>>
      BY <1>5, <2>3 DEF CallbackReturns, mboxvars
    <3>. QED  BY <1>0, <2>1, <3>1, GuardKept
  <2>. QED  BY <2>2, <2>3
<1>6. CASE ConfigSeq
  <2>1. UNCHANGED <<failureEvent, eSmState, bMboxEnabled>>
    BY <1>6 DEF ConfigSeq, drvvars
  <2>2. CASE MayPush
    <3>1. PICK c \in Sequence : Push(c)
      BY <1>6, <2>2 DEF ConfigSeq
    <3>. QED  BY <1>0, <2>1, <3>1, GuardPushed DEF AnyCmd
  <2>3. CASE ~MayPush
    BY <1>0, <1>6, <2>1, <2>3, GuardKept DEF ConfigSeq, mboxvars
  <2>. QED  BY <2>2, <2>3
<1>7. CASE EndReconfig
  BY <1>0, <1>7, GuardKept DEF EndReconfig, mboxvars, drvvars
<1>8. CASE ConfigComplete
  <2>1. bCmdInProgress' = FALSE /\ eSmState' = "OPERATIONAL"
    BY <1>0, <1>8 DEF ConfigComplete, AnswerMatchesHead, mboxvars, RingTypes
  <2>. QED  BY <2>1, GuardFree
<1>9. CASE ConfigFw
  <2>1. eSmState' = "FW_CONFIG" /\ UNCHANGED failureEvent
    BY <1>9 DEF ConfigFw
  <2>2. CASE bErrorFlag
    BY <1>0, <1>9, <2>1, <2>2, GuardKept DEF ConfigFw, mboxvars
  <2>3. CASE ~bErrorFlag
    BY <1>9, <2>1, <2>3, GuardPushed DEF ConfigFw, AnyCmd, Sequence
  <2>. QED  BY <2>2, <2>3
<1>10. CASE StopAction
  <2>1. /\ bOperState' = FALSE /\ eSmState' = "DISCONNECTING"
        /\ UNCHANGED <<bCmdInProgress, fw, failureEvent, bOperStateWhenStarted, ticking, hOperQueue, hInitQueue>>
    BY <1>10 DEF StopAction, LeaveOperational, mboxvars, quevars
  <2>. QED  BY <1>0, <2>1 DEF Guarded, CommandGuarded, In
<1>11. CASE StartAction
  BY <1>0, <1>11, GuardKept DEF StartAction, mboxvars
<1>12. CASE StopWhenStopped \/ Disconnected \/ Recovery \/ RecoveryStops
  <2>1. bCmdInProgress' = FALSE /\ bMboxEnabled' = FALSE
    BY <1>12 DEF StopWhenStopped, Disconnected, Recovery, RecoveryStops, Stop
  <2>. QED  BY <2>1, GuardFree
<1>13. CASE OtherFailure
  BY <1>0, <1>13, GuardFailure DEF OtherFailure, mboxvars, drvvars
<1>14. CASE MboxTimeOut
  BY <1>0, <1>14, GuardFailure DEF MboxTimeOut, mboxvars, drvvars
<1>15. CASE HandleExpiry \/ ExpiryHandled
  BY <1>0, <1>15, GuardKept DEF HandleExpiry, ExpiryHandled, mboxvars, drvvars
<1>16. CASE RecoveryFails
  <2>1. /\ eSmState \in {"STOPPING_ON_FAIL", "FAILED"} /\ pc = "expiry"
        /\ UNCHANGED <<bCmdInProgress, bMboxEnabled>>
    BY <1>16 DEF RecoveryFails, Process, Expired, mboxvars
  <2>2. ~bMboxEnabled /\ uNumberOfCommandInQueue = 0
    BY <1>0, <2>1 DEF EmptyWhenDisabled
  <2>3. ~bCmdInProgress
    BY <1>0, <2>1, <2>2 DEF AnswerMatchesHead
  <2>4. bCmdInProgress' = FALSE /\ ~bMboxEnabled'
    BY <1>0, <2>1, <2>2, <2>3 DEF RingTypes
  <2>. QED  BY <2>4, GuardFree
<1>17. CASE \E t \in Timers : TimerExpires(t)
  BY <1>17, GuardExpires DEF TimerExpires, mboxvars, drvvars
<1>18. CASE UNCHANGED vars
  BY <1>0, <1>18, GuardKept DEF vars, mboxvars, drvvars
<1>. QED  BY <1>1, <1>2, <1>3, <1>4, <1>5, <1>6, <1>7, <1>8, <1>9, <1>10, <1>11, <1>12, <1>13, <1>14, <1>15,
             <1>16, <1>17, <1>18 DEF Next, Answered, Callbacks, HandleExpiries

-----------------------------------------------------------------------------
(* The attempts to recover.                                                *)
LEMMA AttemptsStep ==
    ASSUME FullInv, [Next]_vars
    PROVE  Attempts'
<1>0. Attempts /\ MAX \in Nat \ {0} /\ eSmState \in DrvState /\ (pc = "reconfig" => eSmState = "FW_CONFIG")
  BY MaxType DEF FullInv, PlainTypes, ConfigOnce
<1>. USE DEF Attempts
<1>1. CASE UNCHANGED <<eSmState, bRecovery, uNumOfRecoveryAttempts>>
  BY <1>0, <1>1
<1>2. CASE ConfigComplete
  <2>1. /\ eSmState = "FW_CONFIG" /\ eSmState' = "OPERATIONAL"
        /\ uNumOfRecoveryAttempts' = IF bRecovery THEN 0 ELSE uNumOfRecoveryAttempts
    BY <1>0, <1>2 DEF ConfigComplete
  <2>. QED  BY <1>0, <2>1
<1>3. CASE ConfigFw
  BY <1>0, <1>3 DEF ConfigFw
<1>4. CASE StopAction
  BY <1>0, <1>4 DEF StopAction
<1>5. CASE StopWhenStopped
  BY <1>0, <1>5 DEF StopWhenStopped
<1>6. CASE Disconnected
  BY <1>0, <1>6 DEF Disconnected
<1>7. CASE StartAction
  <2>1. eSmState = "STOPPED" /\ eSmState' = "INIT" /\ UNCHANGED uNumOfRecoveryAttempts
    BY <1>7 DEF StartAction
  <2>2. MAX - 1 <= MAX - (IF bRecovery' THEN 0 ELSE 1) /\ uNumOfRecoveryAttempts <= MAX - 1
    BY <1>0, <2>1
  <2>. QED  BY <1>0, <2>1, <2>2
<1>8. CASE Recovery
  <2>1. /\ uNumOfRecoveryAttempts' = uNumOfRecoveryAttempts + 1 /\ bRecovery' = TRUE
        /\ \/ eSmState = "OPERATIONAL" /\ eSmState' = "INIT"
           \/ eSmState \in {"INIT", "FW_CONFIG", "DISCONNECTING", "STOPPED"} /\ eSmState' = "STOPPING_ON_FAIL"
    BY <1>8 DEF Recovery, Attempt, Restarts
  <2>2. CASE eSmState = "OPERATIONAL"
    BY <1>0, <2>1, <2>2
  <2>3. CASE eSmState # "OPERATIONAL"
    <3>1. uNumOfRecoveryAttempts <= MAX
      BY <1>0, <2>1, <2>3
    <3>. QED  BY <1>0, <2>1, <2>3, <3>1
  <2>. QED  BY <2>2, <2>3
<1>9. CASE RecoveryStops
  <2>1. /\ uNumOfRecoveryAttempts' = uNumOfRecoveryAttempts + 1 /\ uNumOfRecoveryAttempts' < MAX
        /\ eSmState' = "STOPPED"
    BY <1>9 DEF RecoveryStops, Attempt, MAX
  <2>. QED  BY <1>0, <2>1
<1>10. CASE RecoveryFails
  <2>1. /\ eSmState' = "FAILED"
        /\ \/ eSmState = "STOPPING_ON_FAIL" /\ uNumOfRecoveryAttempts' = uNumOfRecoveryAttempts + 1
           \/ uNumOfRecoveryAttempts' = uNumOfRecoveryAttempts
    BY <1>10 DEF RecoveryFails, Attempt
  <2>. QED  BY <1>0, <2>1
<1>. QED  BY <1>1, <1>2, <1>3, <1>4, <1>5, <1>6, <1>7, <1>8, <1>9, <1>10
          DEF Next, SendCommand, FwAnswers, Answered, CommandComplete, TransferComplete, Callbacks, CallbackReturns,
              ConfigSeq, EndReconfig, OtherFailure, HandleExpiries, HandleExpiry, ExpiryHandled, MboxTimeOut,
              TimerExpires, vars, drvvars

LEMMA FullStep == FullInv /\ [Next]_vars => FullInv'
<1>. SUFFICES ASSUME FullInv, [Next]_vars PROVE FullInv'
  OBVIOUS
<1>1. IndInv'
  BY StepInv DEF FullInv
<1>2. TimerTypes'
  BY TimerTypesStep DEF FullInv
<1>3. PlainTypes'
  BY PlainTypesStep DEF FullInv
<1>. QED  BY <1>1, <1>2, <1>3, CommandsStep, GuardedStep, AttemptsStep DEF FullInv

LEMMA Full == Spec => []FullInv
BY FullInit, FullStep, PTL DEF Spec

LEMMA FullSays == FullInv => Inv
<1>. SUFFICES ASSUME FullInv PROVE Inv
  OBVIOUS
<1>. USE DEF FullInv
<1>1. RingTypes /\ AnswerMatchesHead
  BY DEF IndInv
<1>2. TypeOK
  <2>1. /\ aCmdQueue \in [0..(Depth - 1) -> AnyCmd \cup {None}]
        /\ head \in 0..(Depth - 1) /\ tail \in 0..(Depth - 1) /\ uNumberOfCommandInQueue \in 0..Depth
        /\ tail = (head + uNumberOfCommandInQueue) % Depth
        /\ state \in {"IDLE", "WAIT_FOR_COMPLETION"} /\ uAwakeReqCount \in {0, 1}
    BY <1>1 DEF RingTypes, Slots
  <2>2. {bAwake, bErrorFlag, bMboxEnabled, bCmdInProgress, failureEvent, bRecovery} \subseteq BOOLEAN
    BY <1>1 DEF RingTypes, PlainTypes
  <2>3. aRecoveryQueue \in Seq(Callback) /\ Len(aRecoveryQueue) <= Depth /\ uCbIndex \in 0..Len(aRecoveryQueue)
    BY DEF SavedPlain
  <2>4. mbox \in AnyCmd \cup {None} /\ inHand \in AnyCmd \cup {None}
    BY DEF HandMatches
  <2>5. uNumOfRecoveryAttempts \in 0..(MAX_NUM_OF_RECOVERY_TRIGGERS + 2)
    BY MaxType DEF Attempts, MAX
  <2>6. /\ fw \in {"idle", "executing", "answered", "read"}
        /\ eSmState \in DrvState /\ eLastAction \in {"START", "STOP"}
        /\ pc \in {"idle", "complete", "callback", "sequence", "reconfig", "expiry"}
    BY DEF PlainTypes
  <2>7. /\ bOperState \in BOOLEAN /\ bOperStateWhenStarted \in [Timers -> BOOLEAN] /\ ticking \subseteq Timers
        /\ hOperQueue \in Seq(Timers) /\ hInitQueue \in Seq(Timers)
    BY DEF TimerTypes
  <2>. QED  BY <2>1, <2>2, <2>3, <2>4, <2>5, <2>6, <2>7 DEF TypeOK
<1>3. CommandGuarded
  BY DEF Guarded
<1>4. ReconfigNotNested
  BY DEF ReconfigNotNested, Saved, SavedPlain, ConfigOnce
<1>. QED  BY <1>1, <1>2, <1>3, <1>4 DEF Inv

(* The invariant of the command queue: its types, the answer's command,    *)
(* the timer that guards each command under way, and that no configuration *)
(* is told again at the end of the next one.                               *)
THEOREM CommandsInv == Spec => []Inv
BY Full, FullSays, PTL

-----------------------------------------------------------------------------
(* The service: each step is one of CmdService or leaves its state alone.  *)
SavedLeft == SubSeq(aRecoveryQueue, uCbIndex + 1, Len(aRecoveryQueue))

LEMMA InitService == Init => Service!Init
<1>. SUFFICES ASSUME Init PROVE Service!Init
  OBVIOUS
<1>1. RingContent = << >>
  BY DEF Init, RingContent
<1>2. SubSeq(<< >>, 0 + 1, Len(<< >>)) = << >>
  OBVIOUS
<1>. QED  BY <1>1, <1>2 DEF Init, Service!Init

LEMMA ServiceAccepts ==
    ASSUME FullInv, NEW c \in AnyCmd, Push(c), uNumberOfCommandInQueue < Depth, UNCHANGED <<recvars, inHand>>
    PROVE  Service!Next
<1>1. RingContent' = Append(RingContent, c) /\ Len(RingContent) < Depth
  BY RingPushed, RingSeq DEF FullInv, IndInv
<1>2. SavedLeft' = SavedLeft
  BY DEF SavedLeft, recvars
<1>3. c \in Cmd \cup {ConfigCmd, MemoryMapCmd}
  BY DEF AnyCmd, Sequence
<1>. QED  BY <1>1, <1>2, <1>3 DEF Service!Next, Service!Accept, SavedLeft

LEMMA ServiceKept == UNCHANGED <<ringvars, recvars, inHand>> => UNCHANGED Service!vars
BY RingKept DEF Service!vars, recvars

LEMMA ServiceResets ==
    ASSUME FullInv, Stop, pc \in {"idle", "expiry"}
    PROVE  Service!Next
<1>1. inHand = None /\ inHand' = inHand
  BY DEF Stop, FullInv, HandMatches
<1>2. RingContent' = << >>
  BY RingReset
<1>3. aRecoveryQueue' = Service!WithCallback(RingContent) /\ uCbIndex' = 0
  BY DEF Stop, SavedCallbacks
<1>4. RingContent \in Seq(AnyCmd)
  BY DEF FullInv, ConfigOnce
<1>5. aRecoveryQueue' \in Seq(Callback)
  BY <1>3, <1>4, Kept
<1>6. SavedLeft' = Service!WithCallback(RingContent)
  <2>. DEFINE q == aRecoveryQueue'
  <2>1. SubSeq(q, 1, Len(q)) = q
    BY <1>5, SubSeqFull
  <2>2. 0 + 1 = 1
    OBVIOUS
  <2>. QED  BY <1>3, <2>1, <2>2 DEF SavedLeft
<1>. QED  BY <1>1, <1>2, <1>6 DEF Service!Next, Service!Reset, SavedLeft

LEMMA ServiceStep == FullInv /\ [Next]_vars => [Service!Next]_Service!vars
<1>. SUFFICES ASSUME FullInv, [Next]_vars PROVE Service!Next \/ UNCHANGED Service!vars
  OBVIOUS
<1>0. HandMatches /\ SavedPlain /\ IndInv /\ RingTypes
  BY DEF FullInv, IndInv
<1>1. CASE UNCHANGED <<ringvars, recvars, inHand>>
  BY <1>1, ServiceKept
<1>2. CASE \E c \in Cmd : SendCommand(c)
  BY <1>2, ServiceAccepts DEF SendCommand, MayPush, AnyCmd
<1>3. CASE \E cmdStatus \in {"ok", "error"} : TransferComplete(cmdStatus)
  <2>1. /\ pc \in {"idle", "complete"} /\ state = "WAIT_FOR_COMPLETION" /\ inHand' = aCmdQueue[head]
        /\ head' = NextIndex(head) /\ uNumberOfCommandInQueue' = uNumberOfCommandInQueue - 1
        /\ UNCHANGED <<aCmdQueue, recvars>>
    BY <1>3 DEF TransferComplete
  <2>2. uNumberOfCommandInQueue \in 1..Depth
    BY <1>0, <2>1, DepthType DEF IndInv, AnswerMatchesHead, RingTypes
  <2>3. RingContent # << >> /\ inHand' = Head(RingContent) /\ RingContent' = Tail(RingContent)
    BY <1>0, <2>1, <2>2, RingPopped
  <2>4. inHand = None
    BY <1>0, <2>1 DEF HandMatches
  <2>5. SavedLeft' = SavedLeft
    BY <2>1 DEF SavedLeft, recvars
  <2>. QED  BY <2>3, <2>4, <2>5 DEF Service!Next, Service!Answer, SavedLeft
<1>4. CASE CallbackReturns
  <2>1. inHand # None /\ inHand' = None /\ UNCHANGED <<ringvars, recvars>> /\ pc = "callback"
    BY <1>0, <1>4 DEF CallbackReturns, HandMatches
  <2>2. inHand = MemoryMapCmd => SavedLeft = << >>
    <3>1. aRecoveryQueue \in Seq(Callback) /\ Len(aRecoveryQueue) \in Nat
      BY <1>0 DEF SavedPlain
    <3>2. SubSeq(aRecoveryQueue, Len(aRecoveryQueue) + 1, Len(aRecoveryQueue)) = << >>
      BY <3>1, SubSeqEmpty
    <3>. QED  BY <1>0, <2>1, <3>2 DEF HandMatches, SavedLeft
  <2>3. UNCHANGED <<RingContent, SavedLeft>>
    BY <2>1, RingKept DEF recvars, SavedLeft
  <2>. QED  BY <2>1, <2>2, <2>3 DEF Service!Next, Service!Answered, SavedLeft
<1>5. CASE ConfigSeq
  <2>1. UNCHANGED <<recvars, inHand>>
    BY <1>5 DEF ConfigSeq
  <2>2. CASE MayPush
    <3>1. PICK c \in Sequence : Push(c)
      BY <1>5, <2>2 DEF ConfigSeq
    <3>. QED  BY <2>1, <2>2, <3>1, ServiceAccepts DEF AnyCmd, MayPush
  <2>3. CASE ~MayPush
    BY <1>1, <1>5, <2>1, <2>3 DEF ConfigSeq
  <2>. QED  BY <2>2, <2>3
<1>6. CASE EndReconfig
  <2>1. /\ pc = "reconfig" /\ uCbIndex < Len(aRecoveryQueue) /\ uCbIndex' = uCbIndex + 1
        /\ UNCHANGED <<ringvars, aRecoveryQueue, inHand>>
    BY <1>6 DEF EndReconfig
  <2>2. inHand = MemoryMapCmd
    BY <1>0, <2>1 DEF HandMatches
  <2>3. aRecoveryQueue \in Seq(Callback) /\ uCbIndex + 1 \in 1..Len(aRecoveryQueue) /\ Len(aRecoveryQueue) \in Nat
    BY <1>0, <2>1 DEF SavedPlain
  <2>4. /\ SavedLeft \in Seq(Callback) /\ Len(SavedLeft) = Len(aRecoveryQueue) - (uCbIndex + 1) + 1
    BY <2>3, SubSeqProperties DEF SavedLeft
  <2>5. SavedLeft # << >>
    BY <2>3, <2>4
  <2>6. Tail(SavedLeft) = SubSeq(aRecoveryQueue, (uCbIndex + 1) + 1, Len(aRecoveryQueue))
    <3>. DEFINE m == uCbIndex + 1
                l == Len(aRecoveryQueue)
    <3>1. m \in 1..l /\ l \in m..l
      BY <2>3
    <3>. HIDE DEF m, l
    <3>2. Tail(SubSeq(aRecoveryQueue, m, l)) = SubSeq(aRecoveryQueue, m + 1, l)
      BY <2>3, <3>1, HeadTailOfSubSeq DEF l
    <3>. QED  BY <3>2 DEF SavedLeft, m, l
  <2>7. SavedLeft' = Tail(SavedLeft)
    BY <2>1, <2>6 DEF SavedLeft
  <2>8. UNCHANGED <<RingContent, inHand>>
    BY <2>1, RingKept
  <2>. QED  BY <2>2, <2>5, <2>7, <2>8 DEF Service!Next, Service!TellReset, SavedLeft
<1>7. CASE ConfigComplete
  <2>1. /\ uCbIndex = Len(aRecoveryQueue) /\ aRecoveryQueue' = << >> /\ uCbIndex' = 0
        /\ UNCHANGED <<ringvars, inHand>>
    BY <1>7 DEF ConfigComplete
  <2>2. aRecoveryQueue \in Seq(Callback) /\ Len(aRecoveryQueue) \in Nat
    BY <1>0 DEF SavedPlain
  <2>3. SubSeq(aRecoveryQueue, Len(aRecoveryQueue) + 1, Len(aRecoveryQueue)) = << >>
    BY <2>2, SubSeqEmpty
  <2>4. SubSeq(<< >>, 0 + 1, Len(<< >>)) = << >>
    OBVIOUS
  <2>5. SavedLeft' = SavedLeft
    BY <2>1, <2>3, <2>4 DEF SavedLeft
  <2>. QED  BY <2>1, <2>5, RingKept DEF Service!vars, SavedLeft
<1>8. CASE ConfigFw
  <2>1. UNCHANGED <<recvars, inHand>> /\ eSmState = "INIT"
    BY <1>8 DEF ConfigFw
  <2>2. uNumberOfCommandInQueue < Depth
    BY <1>0, <2>1, DepthType DEF IndInv, EmptyWhenDisabled
  <2>3. CASE bErrorFlag
    BY <1>1, <1>8, <2>1, <2>3 DEF ConfigFw
  <2>4. CASE ~bErrorFlag
    BY <1>8, <2>1, <2>2, <2>4, ServiceAccepts DEF ConfigFw, AnyCmd, Sequence
  <2>. QED  BY <2>3, <2>4
<1>9. CASE StopWhenStopped \/ Disconnected \/ Recovery \/ RecoveryStops
  BY <1>9, ServiceResets DEF StopWhenStopped, Disconnected, Recovery, RecoveryStops, Process, Expired
<1>. QED  BY <1>1, <1>2, <1>3, <1>4, <1>5, <1>6, <1>7, <1>8, <1>9
          DEF Next, FwAnswers, Answered, CommandComplete, Callbacks, StopAction, StartAction, OtherFailure,
              HandleExpiries, HandleExpiry, ExpiryHandled, MboxTimeOut, RecoveryFails, Process, TimerExpires, vars

(* Commands are answered in the order in which they were accepted, one at  *)
(* a time and each once, and a reset's callbacks told likewise: CmdQueue   *)
(* implements CmdService.                                                  *)
THEOREM ServiceImplemented == Spec => ImplementsService
BY InitService, ServiceStep, Full, PTL DEF Spec, ImplementsService, Service!Spec
=============================================================================
