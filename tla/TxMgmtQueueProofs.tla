--------------------------- MODULE TxMgmtQueueProofs ---------------------------
(***************************************************************************)
(* The management queues, their state machine and the port, proved for     *)
(* every set of control blocks and every depth of the queues; then the     *)
(* table these blocks come from, and that the two fit together: the table  *)
(* provides CtrlBlkPool, the queues use it.                                *)
(***************************************************************************)
EXTENDS TxMgmtQueue, TxCtrlBlk, SequenceTheorems, FiniteSetTheorems, FunctionTheorems, WellFoundedInduction, TLAPS

-----------------------------------------------------------------------------
(* The state machine's state is that of the connection, and which queues   *)
(* it enables follows from it; between OPEN_MGMT and OPEN_DATA the queues  *)
(* decide.                                                                 *)
SmFollowsConn ==
    /\ eTxConnState = "OPEN" <=> eSmState \in {"OPEN_MGMT", "OPEN_DATA"}
    /\ eTxConnState # "OPEN" => eSmState = eTxConnState
    /\ eSmState \in {"CLOSE", "OPEN_DATA"} => aQueueEnabledBySM = NoQueues
    /\ eSmState = "MGMT" => aQueueEnabledBySM = OnlyMgmt
    /\ eSmState \in {"EAPOL", "OPEN_MGMT"} => aQueueEnabledBySM = BothQueues

(* The port is switched with the state machine, in the same step.          *)
PortIsSwitched ==
    /\ queuesMuxState = "DATA" <=> eSmState = "OPEN_DATA"
    /\ bMgmtPortEnable <=> ~txSuspended /\ queuesMuxState = "MGMT"
    /\ dataQueueEnabled <=> ~txSuspended /\ queuesMuxState = "DATA"

(* A packet is in hand exactly while it is being sent or put back, and it  *)
(* comes from a queue that is enabled.                                     *)
InHandWhileSending ==
    /\ inHand # NoBlk <=> ~Idle /\ Head(work) \in {"xmit", "requeue"}
    /\ inHand # NoBlk => aQueueEnabledBySM[inQueue]

IndInv == TypeOK /\ SmFollowsConn /\ PortIsSwitched /\ InHandWhileSending /\ BusyHasWaker

-----------------------------------------------------------------------------
(* Sequences.                                                              *)
LEMMA HeadTail ==
    ASSUME NEW S, NEW s \in Seq(S), s # << >>
    PROVE  /\ Head(s) \in S /\ Tail(s) \in Seq(S) /\ Len(Tail(s)) <= Len(s)
           /\ <<Head(s)>> \o Tail(s) = s
OBVIOUS

LEMMA InFront ==
    ASSUME NEW S, NEW s \in Seq(S), NEW b \in S
    PROVE  /\ <<b>> \o s \in Seq(S) /\ Len(<<b>> \o s) = Len(s) + 1
           /\ <<b>> \o s # << >> /\ Tail(<<b>> \o s) = s
OBVIOUS

LEMMA Behind ==
    ASSUME NEW S, NEW s \in Seq(S), NEW b \in S, NEW a \in S
    PROVE  /\ Append(s, a) \in Seq(S) /\ Len(Append(s, a)) = Len(s) + 1
           /\ <<b>> \o Append(s, a) = Append(<<b>> \o s, a)
OBVIOUS

(* The stack of calls.                                                     *)
LEMMA Pair ==
    ASSUME NEW c, NEW d
    PROVE  <<c>> \o <<d>> = <<c, d>>
<1>. DEFINE S == {c, d}
            s == <<c>> \o <<d>>
            t == <<c, d>>
<1>1. /\ <<c>> \in Seq(S) /\ <<d>> \in Seq(S) /\ t \in Seq(S)
      /\ Len(<<c>>) = 1 /\ Len(<<d>>) = 1 /\ Len(t) = 2
      /\ <<c>>[1] = c /\ <<d>>[1] = d /\ t[1] = c /\ t[2] = d
  OBVIOUS
<1>2. s \in Seq(S) /\ Len(s) = 2 /\ s[1] = c /\ s[2] = d
  <2>1. /\ s \in Seq(S) /\ Len(s) = 1 + 1
        /\ \A i \in 1..(1 + 1) : s[i] = IF i <= 1 THEN <<c>>[i] ELSE <<d>>[i - 1]
    BY <1>1, ConcatProperties
  <2>. QED  BY <1>1, <2>1
<1>3. \A i \in 1..2 : s[i] = t[i]
  BY <1>1, <1>2
<1>. HIDE DEF S, s, t
<1>4. s = t
  BY <1>1, <1>2, <1>3, SeqEqual
<1>. QED  BY <1>4 DEF s, t

LEMMA Tuples ==
    ASSUME NEW c, NEW d
    PROVE  /\ Head(<<c>>) = c /\ Tail(<<c>>) = << >> /\ <<c>> # << >>
           /\ Head(<<c, d>>) = c /\ Tail(<<c, d>>) = <<d>> /\ <<c, d>> # << >>
           /\ <<c>> \o << >> = <<c>> /\ <<c>> \o <<d>> = <<c, d>>
<1>1. <<c>> \o <<d>> = <<c, d>>
  BY Pair
<1>2. <<c>> \o << >> = <<c>>
  OBVIOUS
<1>3. /\ Head(<<c>>) = c /\ Tail(<<c>>) = << >> /\ <<c>> # << >>
      /\ Head(<<c, d>>) = c /\ Tail(<<c, d>>) = <<d>> /\ <<c, d>> # << >>
  OBVIOUS
<1>. QED  BY <1>1, <1>2, <1>3

LEMMA Single ==
    ASSUME NEW c
    PROVE  Head(<<c>>) = c /\ <<c>> # << >> /\ <<c>> \o << >> = <<c>>
OBVIOUS

LEMMA StackTail ==
    ASSUME NEW w \in WorkStack, w # << >>
    PROVE  /\ Head(w) \in InScheduler \cup {"notFromSm", "recheck"}
           /\ Tail(w) \in {<< >>, <<"recheck">>}
           /\ Head(w) \in {"notFromSm", "recheck"} => Tail(w) = << >>
<1>1. CASE \E c \in InScheduler \cup {"notFromSm", "recheck"} : w = <<c>>
  <2>1. PICK c \in InScheduler \cup {"notFromSm", "recheck"} : w = <<c>>
    BY <1>1
  <2>2. Head(w) = c /\ Tail(w) = << >>
    BY <2>1, Tuples
  <2>. QED  BY <2>2
<1>2. CASE \E c \in InScheduler : w = <<c, "recheck">>
  <2>1. PICK c \in InScheduler : w = <<c, "recheck">>
    BY <1>2
  <2>2. Head(w) = c /\ Tail(w) = <<"recheck">>
    BY <2>1, Tuples
  <2>3. c \notin {"notFromSm", "recheck"}
    BY DEF InScheduler
  <2>. QED  BY <2>2, <2>3
<1>. QED  BY <1>1, <1>2 DEF WorkStack

LEMMA StackPush ==
    ASSUME NEW c \in InScheduler, NEW rest \in {<< >>, <<"recheck">>}
    PROVE  <<c>> \o rest \in WorkStack /\ Head(<<c>> \o rest) = c /\ <<c>> \o rest # << >>
<1>1. CASE rest = << >>
  <2>1. <<c>> \o rest = <<c>>
    BY <1>1, Single
  <2>2. <<c>> \in WorkStack
    BY DEF WorkStack
  <2>3. Head(<<c>>) = c /\ <<c>> # << >>
    BY Single
  <2>. QED  BY <2>1, <2>2, <2>3
<1>2. CASE rest = <<"recheck">>
  <2>1. <<c>> \o rest = <<c, "recheck">>
    BY <1>2, Tuples
  <2>2. <<c, "recheck">> \in WorkStack
    BY DEF WorkStack
  <2>3. Head(<<c, "recheck">>) = c /\ <<c, "recheck">> # << >>
    BY Tuples
  <2>. QED  BY <2>1, <2>2, <2>3
<1>. QED  BY <1>1, <1>2

LEMMA StackOf ==
    /\ <<>> \in WorkStack
    /\ \A c \in InScheduler \cup {"notFromSm", "recheck"} : <<c>> \in WorkStack
    /\ <<"notFromSm">> \o <<>> = <<"notFromSm">> /\ <<"scheduler">> \o <<>> = <<"scheduler">>
    /\ <<"scheduler", "recheck">> \o <<>> = <<"scheduler", "recheck">>
    /\ <<"scheduler", "recheck">> \in WorkStack
BY DEF WorkStack, InScheduler

LEMMA InitInv == Init => IndInv
<1>. SUFFICES ASSUME Init PROVE IndInv
  OBVIOUS
<1>1. TypeOK
  <2>1. /\ NoQueues \in [QueueType -> BOOLEAN] /\ [q \in QueueType |-> <<>>] \in [QueueType -> Seq(CtrlBlk)]
        /\ Len(<<>>) <= Depth
    BY DepthAssumption DEF NoQueues
  <2>. QED  BY <2>1, StackOf DEF Init, TypeOK, SmState, ConnState, QueueType
<1>2. SmFollowsConn /\ PortIsSwitched /\ InHandWhileSending /\ BusyHasWaker
  BY DEF Init, SmFollowsConn, PortIsSwitched, InHandWhileSending, BusyHasWaker, Idle
<1>. QED  BY <1>1, <1>2 DEF IndInv

-----------------------------------------------------------------------------
(* The state machine and the port.  Whatever calls the state machine has   *)
(* nothing else to do, and the port goes on with runSchedulerNotFromSm.    *)
SmTypes ==
    /\ eSmState \in SmState /\ aQueueEnabledBySM \in [QueueType -> BOOLEAN]
    /\ queuesMuxState \in {"MGMT", "DATA"} /\ bMgmtPortEnable \in BOOLEAN
    /\ txSuspended \in BOOLEAN /\ dataQueueEnabled \in BOOLEAN

SmResult ==
    /\ SmTypes' /\ PortIsSwitched'
    /\ work' \in {<< >>, <<"notFromSm">>, <<"scheduler">>}

LEMMA SmInv ==
    ASSUME SmTypes, PortIsSwitched, SmFollowsConn, NEW rest, rest = << >>
    PROVE  /\ SmClose(rest) /\ eTxConnState' = "CLOSE" => SmResult /\ SmFollowsConn'
           /\ SmMgmt(rest) /\ eTxConnState' = "MGMT" => SmResult /\ SmFollowsConn'
           /\ SmEapol(rest) /\ eTxConnState # "OPEN" /\ eTxConnState' = "EAPOL" => SmResult /\ SmFollowsConn'
           /\ SmOpen(rest) /\ eTxConnState = "EAPOL" /\ eTxConnState' = "OPEN" => SmResult /\ SmFollowsConn'
           /\ SmQueuesEmpty(rest) /\ eTxConnState' = eTxConnState => SmResult /\ SmFollowsConn'
           /\ SmQueuesNotEmpty(rest) /\ eTxConnState' = eTxConnState => SmResult /\ SmFollowsConn'
           /\ SmStays /\ NoAction(rest) /\ eTxConnState' = eTxConnState => SmResult /\ SmFollowsConn'
<1>1. /\ NoQueues \in [QueueType -> BOOLEAN] /\ OnlyMgmt \in [QueueType -> BOOLEAN]
      /\ BothQueues \in [QueueType -> BOOLEAN]
  BY DEF NoQueues, OnlyMgmt, BothQueues
<1>2. <<"notFromSm">> \o rest = <<"notFromSm">> /\ <<"scheduler">> \o rest = <<"scheduler">>
  BY StackOf
<1>3. ASSUME NEW mux \in {"MGMT", "DATA"}, PortUpdate(mux, txSuspended, rest)
      PROVE  /\ queuesMuxState' = mux /\ txSuspended' = txSuspended
             /\ bMgmtPortEnable' = (~txSuspended /\ mux = "MGMT")
             /\ dataQueueEnabled' = (~txSuspended /\ mux = "DATA")
             /\ work' \in {<< >>, <<"notFromSm">>}
  BY <1>2, <1>3 DEF PortUpdate
<1>. USE <1>1 DEF SmResult, SmTypes, SmFollowsConn, SmTo, SmState
<1>4. ASSUME EnableMgmt(rest), eSmState' # "OPEN_DATA", eSmState' \in SmState,
             aQueueEnabledBySM' \in [QueueType -> BOOLEAN]
      PROVE  SmResult
  BY <1>3, <1>4 DEF EnableMgmt, PortIsSwitched
<1>5. ASSUME EnableData(rest), eSmState' = "OPEN_DATA", aQueueEnabledBySM' = NoQueues
      PROVE  SmResult
  BY <1>3, <1>5 DEF EnableData, PortIsSwitched
<1>6. ASSUME NoAction(rest) \/ RunScheduler(rest),
             eSmState' = "OPEN_DATA" <=> eSmState = "OPEN_DATA", eSmState' \in SmState,
             aQueueEnabledBySM' \in [QueueType -> BOOLEAN]
      PROVE  SmResult
  BY <1>2, <1>6 DEF NoAction, RunScheduler, PortIsSwitched, portvars
<1>7. SmClose(rest) /\ eTxConnState' = "CLOSE" => SmResult /\ SmFollowsConn'
  BY <1>4, <1>6 DEF SmClose
<1>8. SmMgmt(rest) /\ eTxConnState' = "MGMT" => SmResult /\ SmFollowsConn'
  BY <1>4, <1>6 DEF SmMgmt
<1>9. SmEapol(rest) /\ eTxConnState # "OPEN" /\ eTxConnState' = "EAPOL" => SmResult /\ SmFollowsConn'
  BY <1>6 DEF SmEapol
<1>10. SmOpen(rest) /\ eTxConnState = "EAPOL" /\ eTxConnState' = "OPEN" => SmResult /\ SmFollowsConn'
  BY <1>5, <1>6 DEF SmOpen
<1>11. SmStays /\ NoAction(rest) /\ eTxConnState' = eTxConnState => SmResult /\ SmFollowsConn'
  BY <1>6 DEF SmStays, smvars
<1>12. SmQueuesEmpty(rest) /\ eTxConnState' = eTxConnState => SmResult /\ SmFollowsConn'
  BY <1>5, <1>11 DEF SmQueuesEmpty
<1>13. SmQueuesNotEmpty(rest) /\ eTxConnState' = eTxConnState => SmResult /\ SmFollowsConn'
  BY <1>4, <1>6, <1>11 DEF SmQueuesNotEmpty, SmStays, smvars
<1>. QED  BY <1>7, <1>8, <1>9, <1>10, <1>11, <1>12, <1>13

-----------------------------------------------------------------------------
(* What the state machine does not touch, and what is left to show of a    *)
(* step that calls it, or that leaves it alone.                            *)
OtherTypes ==
    /\ aQueues \in [QueueType -> Seq(CtrlBlk)] /\ \A q \in QueueType : Len(aQueues[q]) <= Depth
    /\ aQueueBusy \in BOOLEAN /\ busyAcBitmap \in BOOLEAN /\ hwBusy \in BOOLEAN
    /\ pending \in BOOLEAN /\ extPc \in {"idle", "schedule"}
    /\ free \subseteq CtrlBlk /\ atFw \subseteq CtrlBlk
    /\ inHand \in CtrlBlk \cup {NoBlk} /\ inQueue \in QueueType

LEMMA Parts ==
    IndInv => /\ SmTypes /\ OtherTypes /\ work \in WorkStack /\ eTxConnState \in ConnState
              /\ SmFollowsConn /\ PortIsSwitched /\ InHandWhileSending /\ BusyHasWaker
BY DEF IndInv, TypeOK, SmTypes, OtherTypes

LEMMA SmCalled ==
    ASSUME IndInv, SmResult, SmFollowsConn', eTxConnState' \in ConnState,
           inHand = NoBlk, inHand' = NoBlk, OtherTypes', BusyHasWaker'
    PROVE  IndInv'
<1>1. work' \in WorkStack /\ (work' # << >> => Head(work') \notin {"xmit", "requeue"})
  BY StackOf, Tuples DEF SmResult, InScheduler
<1>2. InHandWhileSending'
  BY <1>1 DEF InHandWhileSending, Idle
<1>3. TypeOK'
  BY <1>1 DEF SmResult, SmTypes, OtherTypes, TypeOK
<1>. QED  BY <1>2, <1>3 DEF IndInv, SmResult

LEMMA SmLeftAlone ==
    ASSUME IndInv, UNCHANGED <<smvars, portvars, eTxConnState>>, work' \in WorkStack,
           InHandWhileSending', OtherTypes', BusyHasWaker'
    PROVE  IndInv'
<1>1. /\ UNCHANGED <<eSmState, aQueueEnabledBySM, queuesMuxState, bMgmtPortEnable>>
      /\ UNCHANGED <<txSuspended, dataQueueEnabled, eTxConnState>>
  BY DEF smvars, portvars
<1>2. SmFollowsConn' /\ PortIsSwitched'
  BY <1>1, Parts DEF SmFollowsConn, PortIsSwitched
<1>3. TypeOK'
  BY <1>1, Parts DEF TypeOK, SmTypes, OtherTypes
<1>. QED  BY <1>2, <1>3 DEF IndInv

(* A step between packets: the calls in progress may change, but no packet *)
(* is taken or put back.                                                   *)
LEMMA NothingInHand ==
    ASSUME IndInv, UNCHANGED <<smvars, portvars, eTxConnState>>, work' \in WorkStack,
           inHand = NoBlk, inHand' = NoBlk, work' # << >> => Head(work') \notin {"xmit", "requeue"},
           OtherTypes', BusyHasWaker'
    PROVE  IndInv'
<1>1. InHandWhileSending'
  BY DEF InHandWhileSending, Idle
<1>. QED  BY <1>1, SmLeftAlone

-----------------------------------------------------------------------------
(* The scheduler.                                                          *)
LEMMA SchedulingInv ==
    ASSUME IndInv, Scheduling
    PROVE  IndInv'
<1>0. /\ SmTypes /\ OtherTypes /\ work \in WorkStack /\ eTxConnState \in ConnState
      /\ SmFollowsConn /\ PortIsSwitched /\ InHandWhileSending /\ BusyHasWaker
  BY Parts
<1>1. CASE RunSchedulerNotFromSm
  <2>1. Tail(work) = << >> /\ inHand = NoBlk
    BY <1>0, <1>1, StackTail DEF RunSchedulerNotFromSm, Idle, InHandWhileSending
  <2>2. work' \in WorkStack /\ (work' # << >> => Head(work') \notin {"xmit", "requeue"})
    <3>1. work' \in {<< >>, <<"scheduler", "recheck">>}
      BY <1>1, <2>1, StackOf DEF RunSchedulerNotFromSm
    <3>2. Head(<<"scheduler", "recheck">>) = "scheduler"
      BY Tuples
    <3>. QED  BY <3>1, <3>2, StackOf
  <2>. QED  BY <1>0, <1>1, <2>1, <2>2, NothingInHand
            DEF RunSchedulerNotFromSm, OtherTypes, qvars, busyvars, blkvars, extvars, BusyHasWaker
<1>2. CASE Recheck
  <2>1. Tail(work) = << >> /\ inHand = NoBlk
    BY <1>0, <1>2, StackTail DEF Recheck, Idle, InHandWhileSending
  <2>2. SmResult /\ SmFollowsConn'
    BY <1>0, <1>2, <2>1, SmInv DEF Recheck
  <2>. QED  BY <1>0, <1>2, <2>1, <2>2, SmCalled
            DEF Recheck, OtherTypes, qvars, busyvars, blkvars, extvars, BusyHasWaker
<1>3. CASE Visit
  <2>1. /\ Tail(work) \in {<< >>, <<"recheck">>} /\ inHand = NoBlk
        /\ UNCHANGED <<smvars, portvars, eTxConnState, busyvars, blkvars, extvars>>
    BY <1>0, <1>3, StackTail DEF Visit, Idle, InHandWhileSending
  <2>2. BusyHasWaker'
    BY <1>0, <2>1 DEF BusyHasWaker, busyvars
  <2>3. \/ UNCHANGED qvars /\ work' \in {Tail(work), <<"next">> \o Tail(work)}
        \/ \E q \in QueueType :
              /\ aQueueEnabledBySM[q] /\ aQueues[q] # << >> /\ inHand' = Head(aQueues[q]) /\ inQueue' = q
              /\ aQueues' = [aQueues EXCEPT ![q] = Tail(@)] /\ work' = <<"xmit">> \o Tail(work)
    BY <1>3 DEF Visit, QueueType
  <2>4. CASE UNCHANGED qvars /\ work' \in {Tail(work), <<"next">> \o Tail(work)}
    <3>1. work' \in WorkStack /\ (work' # << >> => Head(work') \notin {"xmit", "requeue"})
      <4>1. "next" \in InScheduler /\ <<"recheck">> \in WorkStack /\ Head(<<"recheck">>) = "recheck"
        BY StackOf, Tuples DEF InScheduler
      <4>. QED  BY <2>1, <2>4, <4>1, StackPush, StackOf
    <3>2. OtherTypes' /\ inHand' = NoBlk
      BY <1>0, <2>1, <2>4 DEF OtherTypes, qvars, busyvars, blkvars, extvars
    <3>. QED  BY <2>1, <2>2, <3>1, <3>2, NothingInHand
  <2>5. ASSUME NEW q \in QueueType,
               aQueueEnabledBySM[q], aQueues[q] # << >>, inHand' = Head(aQueues[q]), inQueue' = q,
               aQueues' = [aQueues EXCEPT ![q] = Tail(@)], work' = <<"xmit">> \o Tail(work)
        PROVE  IndInv'
    <3>1. /\ Head(aQueues[q]) \in CtrlBlk /\ Tail(aQueues[q]) \in Seq(CtrlBlk)
          /\ Len(Tail(aQueues[q])) <= Len(aQueues[q])
      <4>1. aQueues[q] \in Seq(CtrlBlk)
        BY <1>0 DEF OtherTypes
      <4>. QED  BY <2>5, <4>1, HeadTail
    <3>2. \A r \in QueueType : aQueues'[r] \in Seq(CtrlBlk) /\ Len(aQueues'[r]) <= Depth
      <4>. TAKE r \in QueueType
      <4>1. aQueues[r] \in Seq(CtrlBlk) /\ Len(aQueues[r]) <= Depth /\ Depth \in Nat
        BY <1>0, DepthAssumption DEF OtherTypes
      <4>2. aQueues'[r] = IF r = q THEN Tail(aQueues[q]) ELSE aQueues[r]
        BY <1>0, <2>5 DEF OtherTypes
      <4>3. CASE r = q
        <5>1. Len(Tail(aQueues[q])) \in Nat /\ Len(aQueues[q]) \in Nat /\ Len(aQueues[q]) <= Depth
          BY <3>1, <4>1, <4>3, LenProperties
        <5>. QED  BY <3>1, <4>1, <4>2, <4>3, <5>1
      <4>4. CASE r # q
        BY <4>1, <4>2, <4>4
      <4>. QED  BY <4>3, <4>4
    <3>3. aQueues' \in [QueueType -> Seq(CtrlBlk)]
      <4>1. aQueues' = [r \in QueueType |-> aQueues'[r]]
        BY <1>0, <2>5 DEF OtherTypes
      <4>. QED  BY <3>2, <4>1
    <3>4. OtherTypes'
      BY <1>0, <2>1, <2>5, <3>1, <3>2, <3>3 DEF OtherTypes, busyvars, blkvars, extvars
    <3>5. work' \in WorkStack /\ work' # << >> /\ Head(work') = "xmit"
      BY <2>1, <2>5, StackPush DEF InScheduler
    <3>6. InHandWhileSending'
      BY <2>1, <2>5, <3>1, <3>5, DepthAssumption DEF InHandWhileSending, Idle, smvars
    <3>. QED  BY <2>1, <2>2, <3>4, <3>5, <3>6, SmLeftAlone
  <2>. QED  BY <2>3, <2>4, <2>5
<1>4. CASE Requeue
  <2>1. /\ Tail(work) \in {<< >>, <<"recheck">>} /\ inHand \in CtrlBlk /\ inHand' = NoBlk
        /\ UNCHANGED <<smvars, portvars, eTxConnState, busyvars, blkvars, extvars, inQueue>>
    BY <1>0, <1>4, StackTail DEF Requeue, Idle, InHandWhileSending, OtherTypes
  <2>2. work' \in WorkStack /\ (work' # << >> => Head(work') \notin {"xmit", "requeue"})
    <3>1. work' \in {Tail(work), <<"next">> \o Tail(work)}
      BY <1>4 DEF Requeue
    <3>2. "next" \in InScheduler /\ <<"recheck">> \in WorkStack /\ Head(<<"recheck">>) = "recheck"
      BY StackOf, Tuples DEF InScheduler
    <3>. QED  BY <2>1, <3>1, <3>2, StackPush, StackOf
  <2>3. aQueues' \in [QueueType -> Seq(CtrlBlk)] /\ \A q \in QueueType : Len(aQueues'[q]) <= Depth
    <3>1. CASE Len(aQueues[inQueue]) < Depth
      <4>1. aQueues[inQueue] \in Seq(CtrlBlk) /\ Depth \in Nat /\ inQueue \in QueueType
        BY <1>0, DepthAssumption DEF OtherTypes
      <4>2. /\ PutFirst(aQueues[inQueue], inHand) \in Seq(CtrlBlk)
            /\ Len(PutFirst(aQueues[inQueue], inHand)) <= Depth
        BY <2>1, <3>1, <4>1, InFront, LenProperties DEF PutFirst
      <4>3. aQueues' = [aQueues EXCEPT ![inQueue] = PutFirst(aQueues[inQueue], inHand)]
        BY <1>4, <3>1 DEF Requeue
      <4>. HIDE DEF PutFirst
      <4>. QED  BY <1>0, <4>1, <4>2, <4>3 DEF OtherTypes
    <3>2. CASE ~(Len(aQueues[inQueue]) < Depth)
      BY <1>0, <1>4, <3>2 DEF Requeue, OtherTypes
    <3>. QED  BY <3>1, <3>2
  <2>4. OtherTypes' /\ BusyHasWaker'
    BY <1>0, <2>1, <2>3 DEF OtherTypes, BusyHasWaker, busyvars, blkvars, extvars
  <2>5. InHandWhileSending'
    BY <2>1, <2>2 DEF InHandWhileSending, Idle
  <2>. QED  BY <2>1, <2>2, <2>4, <2>5, SmLeftAlone
<1>. QED  BY <1>1, <1>2, <1>3, <1>4 DEF Scheduling

(* The packet at hand is sent, freed or refused.                           *)
LEMMA TransmitInv ==
    ASSUME IndInv, XmitMgmt \/ XmitMgmtError \/ XmitMgmtBusy
    PROVE  IndInv'
<1>0. /\ OtherTypes /\ work \in WorkStack /\ InHandWhileSending /\ BusyHasWaker
  BY Parts
<1>1. /\ work # << >> /\ inHand \in CtrlBlk
      /\ Tail(work) \in {<< >>, <<"recheck">>} /\ UNCHANGED <<smvars, portvars, eTxConnState>>
  BY <1>0, StackTail DEF XmitMgmt, XmitMgmtError, XmitMgmtBusy, Idle, InHandWhileSending, OtherTypes
<1>2. OtherTypes' /\ BusyHasWaker'
  <2>1. /\ UNCHANGED <<aQueues, inQueue, extPc, pending>> /\ inHand' \in {inHand, NoBlk}
        /\ free' \subseteq free \cup {inHand} /\ atFw' \subseteq atFw \cup {inHand}
    BY DEF XmitMgmt, XmitMgmtError, XmitMgmtBusy, Xmitted, extvars, qvars, blkvars
  <2>2. \/ UNCHANGED <<aQueueBusy, busyAcBitmap, hwBusy>>
        \/ aQueueBusy' = TRUE /\ busyAcBitmap' \in {busyAcBitmap, TRUE} /\ hwBusy' = TRUE
    BY DEF XmitMgmt, XmitMgmtError, XmitMgmtBusy, StopNext, busyvars
  <2>3. BusyHasWaker' /\ aQueueBusy' \in BOOLEAN /\ busyAcBitmap' \in BOOLEAN /\ hwBusy' \in BOOLEAN
    <3>1. CASE UNCHANGED <<aQueueBusy, busyAcBitmap, hwBusy>>
      BY <1>0, <3>1 DEF OtherTypes, BusyHasWaker
    <3>2. CASE aQueueBusy' = TRUE /\ busyAcBitmap' \in {busyAcBitmap, TRUE} /\ hwBusy' = TRUE
      BY <1>0, <3>2 DEF OtherTypes, BusyHasWaker
    <3>. QED  BY <2>2, <3>1, <3>2
  <2>. QED  BY <1>0, <1>1, <2>1, <2>3 DEF OtherTypes
<1>3. CASE XmitMgmt \/ XmitMgmtError
  <2>1. work' = <<"scheduler">> \o Tail(work) /\ inHand' = NoBlk
    BY <1>3 DEF XmitMgmt, XmitMgmtError, Xmitted
  <2>2. work' \in WorkStack /\ Head(work') = "scheduler"
    BY <1>1, <2>1, StackPush DEF InScheduler
  <2>3. InHandWhileSending'
    BY <2>1, <2>2 DEF InHandWhileSending
  <2>. QED  BY <1>1, <1>2, <2>2, <2>3, SmLeftAlone
<1>4. CASE XmitMgmtBusy
  <2>1. work' = <<"requeue">> \o Tail(work) /\ UNCHANGED <<inHand, inQueue>>
    BY <1>4 DEF XmitMgmtBusy, qvars
  <2>2. work' \in WorkStack /\ work' # << >> /\ Head(work') = "requeue"
    BY <1>1, <2>1, StackPush DEF InScheduler
  <2>3. InHandWhileSending'
    BY <1>0, <1>1, <2>1, <2>2, DepthAssumption DEF InHandWhileSending, Idle, smvars
  <2>. QED  BY <1>1, <1>2, <2>2, <2>3, SmLeftAlone
<1>. QED  BY <1>3, <1>4

-----------------------------------------------------------------------------
(* Packets come in both contexts.                                          *)
LEMMA EnqueueTypes ==
    ASSUME IndInv, NEW q \in QueueType, NEW b \in CtrlBlk, Enqueue(q, b)
    PROVE  /\ aQueues' \in [QueueType -> Seq(CtrlBlk)] /\ \A r \in QueueType : Len(aQueues'[r]) <= Depth
           /\ free' \subseteq CtrlBlk
<1>1. /\ aQueues \in [QueueType -> Seq(CtrlBlk)] /\ aQueues[q] \in Seq(CtrlBlk)
      /\ \A r \in QueueType : Len(aQueues[r]) <= Depth
      /\ free \subseteq CtrlBlk /\ Depth \in Nat
  BY Parts, DepthAssumption DEF OtherTypes
<1>2. Append(aQueues[q], b) \in Seq(CtrlBlk) /\ Len(Append(aQueues[q], b)) <= Depth
  BY <1>1, Behind, LenProperties DEF Enqueue
<1>. QED  BY <1>1, <1>2 DEF Enqueue

LEMMA ComingInv ==
    ASSUME IndInv, RequestSchedule \/ \E b \in CtrlBlk : Xmit(b) \/ XmitExternal(b) \/ TxComplete(b)
    PROVE  IndInv'
<1>0. /\ SmTypes /\ OtherTypes /\ work \in WorkStack /\ eTxConnState \in ConnState
      /\ SmFollowsConn /\ PortIsSwitched /\ InHandWhileSending /\ BusyHasWaker
  BY Parts
<1>1. ASSUME NEW b \in CtrlBlk, Xmit(b) PROVE IndInv'
  <2>1. inHand = NoBlk /\ inHand' = NoBlk
    BY <1>0, <1>1 DEF Xmit, Idle, InHandWhileSending
  <2>2. SmResult /\ SmFollowsConn' /\ eTxConnState' \in ConnState
    BY <1>0, <1>1, SmInv DEF Xmit
  <2>3. OtherTypes' /\ BusyHasWaker'
    BY <1>0, <1>1, EnqueueTypes DEF Xmit, QueueType, OtherTypes, BusyHasWaker, busyvars, extvars
  <2>. QED  BY <2>1, <2>2, <2>3, SmCalled
<1>2. ASSUME NEW b \in CtrlBlk, XmitExternal(b) PROVE IndInv'
  <2>1. OtherTypes' /\ BusyHasWaker'
    BY <1>0, <1>2, EnqueueTypes DEF XmitExternal, QueueType, OtherTypes, BusyHasWaker, busyvars
  <2>2. InHandWhileSending'
    BY <1>0, <1>2 DEF XmitExternal, InHandWhileSending, Idle, smvars
  <2>. QED  BY <1>0, <1>2, <2>1, <2>2, SmLeftAlone DEF XmitExternal
<1>3. ASSUME NEW b \in CtrlBlk, TxComplete(b) PROVE IndInv'
  <2>1. OtherTypes' /\ BusyHasWaker'
    BY <1>0, <1>3 DEF TxComplete, OtherTypes, BusyHasWaker, qvars, busyvars, extvars
  <2>2. InHandWhileSending'
    BY <1>0, <1>3 DEF TxComplete, InHandWhileSending, Idle, smvars, qvars
  <2>. QED  BY <1>0, <1>3, <2>1, <2>2, SmLeftAlone DEF TxComplete
<1>4. CASE RequestSchedule
  <2>1. OtherTypes' /\ BusyHasWaker'
    BY <1>0, <1>4 DEF RequestSchedule, OtherTypes, BusyHasWaker, qvars, busyvars, blkvars
  <2>2. InHandWhileSending'
    BY <1>0, <1>4 DEF RequestSchedule, InHandWhileSending, Idle, smvars, qvars
  <2>. QED  BY <1>0, <1>4, <2>1, <2>2, SmLeftAlone DEF RequestSchedule
<1>. QED  BY <1>1, <1>2, <1>3, <1>4

(* The clients of the state machine and the port in the driver's task.     *)
LEMMA DriverInv ==
    ASSUME IndInv,
           \/ QueuesNotEmpty \/ \E s \in ConnState : SetConnState(s)
           \/ SuspendTx \/ ResumeTx
    PROVE  IndInv'
<1>0. /\ SmTypes /\ OtherTypes /\ work \in WorkStack /\ eTxConnState \in ConnState
      /\ SmFollowsConn /\ PortIsSwitched /\ InHandWhileSending /\ BusyHasWaker
  BY Parts
<1>1. /\ inHand = NoBlk /\ inHand' = NoBlk
      /\ UNCHANGED <<aQueues, inQueue, busyvars, blkvars, extPc>> /\ pending' \in {pending, FALSE}
  BY <1>0 DEF QueuesNotEmpty, SetConnState, SuspendTx, ResumeTx, Idle, InHandWhileSending, qvars, extvars
<1>2. OtherTypes' /\ BusyHasWaker'
  BY <1>0, <1>1 DEF OtherTypes, BusyHasWaker, busyvars, blkvars
<1>3. CASE QueuesNotEmpty
  BY <1>0, <1>1, <1>2, <1>3, SmInv, SmCalled DEF QueuesNotEmpty
<1>4. ASSUME NEW s \in ConnState, SetConnState(s)
      PROVE  IndInv'
  <2>1. /\ s = "OPEN" => eTxConnState = "EAPOL"
        /\ s = "EAPOL" => eTxConnState # "OPEN"
    BY <1>0, <1>4 DEF SetConnState, ConnMoves, ConnState
  <2>2. eTxConnState' = s
    BY <1>4 DEF SetConnState
  <2>3. SmResult /\ SmFollowsConn'
    <3>1. CASE s = "CLOSE"
      BY <1>0, <1>4, <2>2, <3>1, SmInv DEF SetConnState
    <3>2. CASE s = "MGMT"
      BY <1>0, <1>4, <2>2, <3>2, SmInv DEF SetConnState
    <3>3. CASE s = "EAPOL"
      BY <1>0, <1>4, <2>1, <2>2, <3>3, SmInv DEF SetConnState
    <3>4. CASE s = "OPEN"
      BY <1>0, <1>4, <2>1, <2>2, <3>4, SmInv DEF SetConnState
    <3>. QED  BY <3>1, <3>2, <3>3, <3>4 DEF ConnState
  <2>. QED  BY <1>1, <1>2, <2>2, <2>3, SmCalled
<1>5. CASE SuspendTx \/ ResumeTx
  <2>1. PICK suspended \in BOOLEAN :
           PortUpdate(queuesMuxState, suspended, << >>) /\ UNCHANGED <<smvars, eTxConnState>>
    BY <1>5 DEF SuspendTx, ResumeTx
  <2>2. work' \in {<< >>, <<"notFromSm">>}
    BY <2>1, StackOf DEF PortUpdate
  <2>3. SmResult /\ SmFollowsConn'
    BY <1>0, <2>1, <2>2 DEF PortUpdate, SmResult, SmTypes, SmFollowsConn, PortIsSwitched, smvars
  <2>. QED  BY <1>0, <1>1, <1>2, <2>1, <2>3, SmCalled
<1>. QED  BY <1>3, <1>4, <1>5

(* Reports of the hardware queue, and the clean-ups.                       *)
LEMMA ReportInv ==
    ASSUME IndInv,
           \/ \E freed \in BOOLEAN : UpdateBackpressure(freed)
           \/ DataBusy \/ NotifyFwReset \/ ClearQueues
    PROVE  IndInv'
<1>0. /\ OtherTypes /\ work \in WorkStack /\ InHandWhileSending /\ BusyHasWaker
  BY Parts
<1>1. /\ inHand = NoBlk /\ inHand' = NoBlk /\ work' \in {<< >>, <<"notFromSm">>}
      /\ UNCHANGED <<smvars, portvars, eTxConnState, inQueue, extvars>>
  BY <1>0 DEF UpdateBackpressure, DataBusy, NotifyFwReset, ClearQueues, Idle, InHandWhileSending, qvars
<1>2. work' \in WorkStack /\ (work' # << >> => Head(work') \notin {"xmit", "requeue"})
  BY <1>1, StackOf, Tuples
<1>3. /\ aQueueBusy' \in BOOLEAN /\ busyAcBitmap' \in BOOLEAN /\ hwBusy' \in BOOLEAN /\ BusyHasWaker'
  <2>1. ASSUME NEW freed \in BOOLEAN, UpdateBackpressure(freed)
        PROVE  /\ aQueueBusy' \in BOOLEAN /\ busyAcBitmap' \in BOOLEAN /\ hwBusy' \in BOOLEAN
               /\ BusyHasWaker'
    <3>1. /\ hwBusy' = (hwBusy /\ ~freed) /\ busyAcBitmap' = (busyAcBitmap /\ ~freed)
          /\ aQueueBusy' = (busyAcBitmap /\ ~freed)
      BY <2>1 DEF UpdateBackpressure
    <3>. QED  BY <1>0, <3>1 DEF OtherTypes, BusyHasWaker
  <2>2. CASE DataBusy
    BY <1>0, <2>2 DEF DataBusy, OtherTypes, BusyHasWaker
  <2>3. CASE NotifyFwReset
    BY <2>3 DEF NotifyFwReset, ClearBusyFlags, BusyHasWaker
  <2>4. CASE ClearQueues
    BY <1>0, <2>4 DEF ClearQueues, OtherTypes, BusyHasWaker, busyvars
  <2>. QED  BY <2>1, <2>2, <2>3, <2>4
<1>4. /\ aQueues' \in [QueueType -> Seq(CtrlBlk)] /\ \A q \in QueueType : Len(aQueues'[q]) <= Depth
      /\ free' \subseteq CtrlBlk /\ atFw' \subseteq CtrlBlk
  <2>1. CASE ClearQueues
    <3>1. ASSUME NEW q \in QueueType, NEW i \in 1..Len(aQueues[q])
          PROVE  aQueues[q][i] \in CtrlBlk
      <4>1. aQueues[q] \in Seq(CtrlBlk)
        BY <1>0 DEF OtherTypes
      <4>. QED  BY <4>1, ElementOfSeq
    <3>2. Len(<< >>) <= Depth
      BY DepthAssumption
    <3>. QED  BY <1>0, <2>1, <3>1, <3>2 DEF ClearQueues, OtherTypes
  <2>2. CASE ~ClearQueues
    BY <1>0, <2>2 DEF UpdateBackpressure, DataBusy, NotifyFwReset, OtherTypes, qvars, blkvars
  <2>. QED  BY <2>1, <2>2
<1>5. OtherTypes'
  BY <1>0, <1>1, <1>3, <1>4 DEF OtherTypes, extvars
<1>. QED  BY <1>1, <1>2, <1>3, <1>5, NothingInHand

LEMMA StepInv == IndInv /\ [Next]_vars => IndInv'
<1>. SUFFICES ASSUME IndInv, [Next]_vars PROVE IndInv'
  OBVIOUS
<1>1. CASE UNCHANGED vars
  <2>1. OtherTypes' /\ BusyHasWaker' /\ InHandWhileSending'
    BY <1>1, Parts DEF vars, qvars, smvars, busyvars, blkvars, extvars, OtherTypes, BusyHasWaker,
       InHandWhileSending, Idle
  <2>. QED  BY <1>1, <2>1, Parts, SmLeftAlone DEF vars
<1>. QED  BY <1>1, SchedulingInv, TransmitInv, ComingInv, DriverInv, ReportInv DEF Next

-----------------------------------------------------------------------------
(* The state machine, the port and the busy flags agree in every state.    *)
THEOREM QueuesAndPort == Spec => []IndInv
BY InitInv, StepInv, PTL DEF Spec

(* No management packet leaves while the connection is closed, and no      *)
(* EAPOL packet before association.                                        *)
THEOREM PermittedOnly == Spec => []OnlyPermittedSent
<1>1. IndInv => OnlyPermittedSent
  BY DEF IndInv, TypeOK, SmFollowsConn, InHandWhileSending, OnlyPermittedSent, SmState, ConnState, QueueType,
     NoQueues, OnlyMgmt, BothQueues
<1>. QED  BY <1>1, QueuesAndPort, PTL

(* The queues are busy only while the hardware queue is bound to report.   *)
THEOREM BusyQueuesAreWoken == Spec => []BusyHasWaker
<1>1. IndInv => BusyHasWaker
  BY DEF IndInv
<1>. QED  BY <1>1, QueuesAndPort, PTL

(* The Tx path belongs to the data queues exactly when the state machine   *)
(* has given it to them, and no management packet is being sent then.      *)
THEOREM PortAgrees == Spec => []PortFollowsSm
<1>1. IndInv => PortFollowsSm
  BY DEF IndInv, TypeOK, SmFollowsConn, PortIsSwitched, InHandWhileSending, PortFollowsSm, QueueType, NoQueues
<1>. QED  BY <1>1, QueuesAndPort, PTL

-----------------------------------------------------------------------------
(* The order of the packets.  The line of a queue is the packet at hand,   *)
(* if it is of that queue, and the queue behind it.                        *)
LEMMA SameLine ==
    ASSUME NEW q, inHand' = inHand, inQueue' = inQueue, aQueues' = aQueues
    PROVE  Line(q)' = Line(q)
BY DEF Line

LEMMA Lines ==
    ASSUME IndInv, NEW q \in QueueType
    PROVE  /\ aQueues \in [QueueType -> Seq(CtrlBlk)] /\ aQueues[q] \in Seq(CtrlBlk)
           /\ inQueue \in QueueType /\ InHandWhileSending /\ NoBlk \notin CtrlBlk
           /\ inHand \in CtrlBlk \cup {NoBlk}
           /\ << >> \o aQueues[q] = aQueues[q] /\ Line(q) \in Seq(CtrlBlk)
           /\ inHand = NoBlk \/ inQueue # q => Line(q) = aQueues[q]
           /\ inHand # NoBlk /\ inQueue = q => Line(q) = <<inHand>> \o aQueues[q]
<1>0. /\ aQueues \in [QueueType -> Seq(CtrlBlk)] /\ aQueues[q] \in Seq(CtrlBlk)
      /\ inQueue \in QueueType /\ InHandWhileSending /\ NoBlk \notin CtrlBlk
      /\ inHand \in CtrlBlk \cup {NoBlk}
  BY Parts, DepthAssumption DEF OtherTypes
<1>1. << >> \o aQueues[q] = aQueues[q]
  BY <1>0, ConcatEmptySeq
<1>2. inHand # NoBlk => <<inHand>> \o aQueues[q] \in Seq(CtrlBlk)
  BY <1>0, InFront
<1>. QED  BY <1>0, <1>1, <1>2 DEF Line

LEMMA VisitLine == ASSUME IndInv, Visit, NEW q \in QueueType PROVE Line(q)' = Line(q)
<1>0. inHand = NoBlk
  BY Lines DEF Visit, InHandWhileSending
<1>1. CASE UNCHANGED qvars
  BY <1>1, SameLine DEF qvars
<1>2. ASSUME NEW r \in QueueType, aQueues[r] # << >>, inHand' = Head(aQueues[r]), inQueue' = r,
             aQueues' = [aQueues EXCEPT ![r] = Tail(@)]
      PROVE  Line(q)' = Line(q)
  <2>1. CASE r = q
    <3>1. /\ Head(aQueues[q]) \in CtrlBlk /\ <<Head(aQueues[q])>> \o Tail(aQueues[q]) = aQueues[q]
      BY <1>2, <2>1, Lines, HeadTail
    <3>2. Line(q)' = <<inHand'>> \o aQueues'[q] /\ aQueues'[q] = Tail(aQueues[q])
      BY <1>2, <2>1, <3>1, Lines DEF Line
    <3>. QED  BY <1>0, <1>2, <2>1, <3>1, <3>2, Lines
  <2>2. CASE r # q
    BY <1>0, <1>2, <2>2, Lines DEF Line
  <2>. QED  BY <2>1, <2>2
<1>3. \/ UNCHANGED qvars
      \/ \E r \in QueueType : /\ aQueues[r] # << >> /\ inHand' = Head(aQueues[r]) /\ inQueue' = r
                             /\ aQueues' = [aQueues EXCEPT ![r] = Tail(@)]
  BY DEF Visit, QueueType
<1>. QED  BY <1>1, <1>2, <1>3

(* The packet at hand is sent, freed or, if its queue is full, lost.       *)
LEMMA HeadLeaves ==
    ASSUME IndInv, NEW q \in QueueType, inHand # NoBlk, inHand' = NoBlk, UNCHANGED <<aQueues, inQueue>>
    PROVE  /\ inQueue = q => Line(q) # << >> /\ Line(q)' = Tail(Line(q)) /\ Head(Line(q)) = inHand
           /\ inQueue # q => Line(q)' = Line(q)
<1>1. Line(q)' = aQueues[q]
  BY Lines DEF Line
<1>2. ASSUME inQueue = q PROVE Line(q) # << >> /\ Line(q)' = Tail(Line(q)) /\ Head(Line(q)) = inHand
  <2>1. /\ Line(q) = <<inHand>> \o aQueues[q] /\ Head(<<inHand>> \o aQueues[q]) = inHand
        /\ <<inHand>> \o aQueues[q] # << >> /\ Tail(<<inHand>> \o aQueues[q]) = aQueues[q]
    BY <1>2, Lines, InFront
  <2>. QED  BY <1>1, <2>1
<1>. QED  BY <1>1, <1>2, Lines

LEMMA XmitHand ==
    ASSUME IndInv, XmitMgmt \/ XmitMgmtError
    PROVE  inHand # NoBlk /\ inHand' = NoBlk /\ UNCHANGED <<aQueues, inQueue>>
BY Parts DEF XmitMgmt, XmitMgmtError, Xmitted, InHandWhileSending

LEMMA RequeueLine ==
    ASSUME IndInv, Requeue
    PROVE  /\ inHand # NoBlk /\ inHand' = NoBlk /\ inQueue' = inQueue
           /\ aQueues' = aQueues \/ \A q \in QueueType : Line(q)' = Line(q)
<1>1. inHand # NoBlk /\ inHand' = NoBlk /\ inQueue' = inQueue
  BY Parts DEF Requeue, InHandWhileSending
<1>2. ASSUME Len(aQueues[inQueue]) < Depth, NEW q \in QueueType PROVE Line(q)' = Line(q)
  <2>1. aQueues' = [aQueues EXCEPT ![inQueue] = <<inHand>> \o aQueues[inQueue]]
    BY <1>2 DEF Requeue, PutFirst
  <2>2. /\ inQueue = q => aQueues'[q] = <<inHand>> \o aQueues[q] /\ <<inHand>> \o aQueues[q] \in Seq(CtrlBlk)
        /\ inQueue # q => aQueues'[q] = aQueues[q]
    BY <1>1, <2>1, Lines, InFront
  <2>3. Line(q)' = << >> \o aQueues'[q] /\ << >> \o aQueues'[q] = aQueues'[q]
    BY <1>1, <2>2, Lines, ConcatEmptySeq DEF Line
  <2>. QED  BY <1>1, <2>2, <2>3, Lines
<1>3. ~(Len(aQueues[inQueue]) < Depth) => aQueues' = aQueues
  BY DEF Requeue
<1>. QED  BY <1>1, <1>2, <1>3

LEMMA EnqueueLine ==
    ASSUME IndInv, NEW q \in QueueType, NEW r \in QueueType, NEW b \in CtrlBlk, Enqueue(r, b),
           UNCHANGED <<inHand, inQueue>>
    PROVE  Line(q)' = IF r = q THEN Append(Line(q), b) ELSE Line(q)
<1>1. aQueues' = [aQueues EXCEPT ![r] = Append(@, b)]
  BY DEF Enqueue
<1>2. CASE r # q
  BY <1>1, <1>2, Lines DEF Line
<1>3. CASE r = q
  <2>1. /\ aQueues'[q] = Append(aQueues[q], b) /\ Append(aQueues[q], b) \in Seq(CtrlBlk)
        /\ << >> \o Append(aQueues[q], b) = Append(aQueues[q], b)
        /\ inHand # NoBlk => <<inHand>> \o Append(aQueues[q], b) = Append(<<inHand>> \o aQueues[q], b)
    BY <1>1, <1>3, Lines, Behind, ConcatEmptySeq
  <2>. QED  BY <1>3, <2>1, Lines DEF Line
<1>. QED  BY <1>2, <1>3

LEMMA XmitEnqueues ==
    ASSUME NEW b \in CtrlBlk, Xmit(b) \/ XmitExternal(b)
    PROVE  \E r \in QueueType : Enqueue(r, b) /\ UNCHANGED <<inHand, inQueue, atFw>>
BY DEF Xmit, XmitExternal, QueueType

LEMMA ClearLine == ASSUME IndInv, ClearQueues, NEW q \in QueueType PROVE Line(q)' = << >>
<1>1. inHand' = NoBlk /\ aQueues'[q] = << >>
  BY Lines DEF ClearQueues, InHandWhileSending
<1>. QED  BY <1>1 DEF Line

LeavesLines ==
    \/ RunSchedulerNotFromSm \/ Recheck \/ XmitMgmtBusy \/ \E b \in CtrlBlk : TxComplete(b)
    \/ RequestSchedule \/ QueuesNotEmpty \/ \E s \in ConnState : SetConnState(s)
    \/ \E freed \in BOOLEAN : UpdateBackpressure(freed)
    \/ DataBusy \/ SuspendTx \/ ResumeTx \/ NotifyFwReset \/ UNCHANGED vars
LEMMA LinesLeft == ASSUME LeavesLines, NEW q PROVE Line(q)' = Line(q)
<1>1. UNCHANGED <<inHand, inQueue, aQueues>>
  BY DEF LeavesLines, RunSchedulerNotFromSm, Recheck, XmitMgmtBusy, TxComplete, RequestSchedule, QueuesNotEmpty,
     SetConnState, UpdateBackpressure, DataBusy, SuspendTx, ResumeTx, NotifyFwReset, vars, qvars
<1>. QED  BY <1>1, SameLine

LEMMA LineMoves ==
    ASSUME IndInv, [Next]_vars, NEW q \in QueueType
    PROVE  \/ Line(q)' = Line(q) \/ Line(q)' = << >>
           \/ Line(q) # << >> /\ Line(q)' = Tail(Line(q))
           \/ \E b \in CtrlBlk : Line(q)' = Append(Line(q), b)
<1>1. CASE Visit
  BY <1>1, VisitLine
<1>2. CASE XmitMgmt \/ XmitMgmtError
  BY <1>2, XmitHand, HeadLeaves
<1>3. CASE Requeue
  BY <1>3, RequeueLine, HeadLeaves
<1>4. ASSUME NEW b \in CtrlBlk, Xmit(b) \/ XmitExternal(b)
      PROVE  Line(q)' = Line(q) \/ Line(q)' = Append(Line(q), b)
  BY <1>4, XmitEnqueues, EnqueueLine
<1>5. CASE ClearQueues
  BY <1>5, ClearLine
<1>6. CASE LeavesLines
  BY <1>6, LinesLeft
<1>. QED  BY <1>1, <1>2, <1>3, <1>4, <1>5, <1>6 DEF Next, Scheduling, LeavesLines

(* Refused packets return to their queue, but none overtakes another.      *)
THEOREM InOrder == Spec => FirstComeFirstServed
<1>1. IndInv /\ [Next]_vars =>
        [\A q \in QueueType :
            \/ Line(q)' = Line(q) \/ Line(q)' = << >>
            \/ Line(q) # << >> /\ Line(q)' = Tail(Line(q))
            \/ \E b \in CtrlBlk : Line(q)' = Append(Line(q), b)]_vars
  BY LineMoves
<1>. QED  BY <1>1, QueuesAndPort, PTL DEF Spec, FirstComeFirstServed

-----------------------------------------------------------------------------
(* The owners of the control blocks.  A line holds each packet once, the   *)
(* lines share none, and what is free or with the firmware is in neither.  *)
Within(s)   == {s[i] : i \in 1..Len(s)}
Distinct(s) == \A i, j \in 1..Len(s) : s[i] = s[j] => i = j

Apart ==
    /\ \A q \in QueueType : Distinct(Line(q)) /\ Within(Line(q)) \cap (free \cup atFw) = {}
    /\ Within(Line("MGMT")) \cap Within(Line("EAPOL")) = {}
    /\ free \cap atFw = {}

LEMMA EmptyLine == Within(<< >>) = {} /\ Distinct(<< >>)
BY DEF Within, Distinct

LEMMA TailLine ==
    ASSUME NEW S, NEW s \in Seq(S), s # << >>
    PROVE  /\ Within(s) = Within(Tail(s)) \cup {Head(s)}
           /\ Distinct(s) => Distinct(Tail(s)) /\ Head(s) \notin Within(Tail(s))
<1>. DEFINE t == Tail(s)
<1>1. Len(s) \in Nat \ {0} /\ Len(t) = Len(s) - 1 /\ s[1] = Head(s) /\ 1 \in 1..Len(s)
  OBVIOUS
<1>2. \A i \in 1..Len(t) : s[i + 1] = t[i] /\ i + 1 \in 1..Len(s) /\ i + 1 # 1
  BY <1>1
<1>3. \A i \in 1..Len(s) : i = 1 \/ (i - 1 \in 1..Len(t) /\ s[i] = t[i - 1])
  BY <1>1
<1>4. \A i, j \in 1..Len(t) : i + 1 = j + 1 => i = j
  BY <1>1
<1>. HIDE DEF t
<1>5. Within(s) \subseteq Within(t) \cup {Head(s)}
  BY <1>1, <1>3 DEF Within
<1>6. Within(t) \cup {Head(s)} \subseteq Within(s)
  BY <1>1, <1>2 DEF Within
<1>7. Distinct(s) => Distinct(t)
  BY <1>2, <1>4 DEF Distinct
<1>8. Distinct(s) => Head(s) \notin Within(t)
  BY <1>1, <1>2 DEF Distinct, Within
<1>. QED  BY <1>5, <1>6, <1>7, <1>8 DEF t

LEMMA AppendLine ==
    ASSUME NEW S, NEW s \in Seq(S), NEW b \in S
    PROVE  /\ Within(Append(s, b)) = Within(s) \cup {b}
           /\ Distinct(s) /\ b \notin Within(s) => Distinct(Append(s, b))
<1>. DEFINE t == Append(s, b)
<1>1. Len(s) \in Nat /\ Len(t) = Len(s) + 1 /\ t[Len(t)] = b /\ Len(t) \in 1..Len(t)
  OBVIOUS
<1>2. \A i \in 1..Len(s) : t[i] = s[i] /\ i \in 1..Len(t)
  BY <1>1
<1>3. \A i \in 1..Len(t) : i \in 1..Len(s) \/ i = Len(t)
  BY <1>1
<1>. HIDE DEF t
<1>4. Within(t) = Within(s) \cup {b}
  BY <1>1, <1>2, <1>3 DEF Within
<1>5. Distinct(s) /\ b \notin Within(s) => Distinct(t)
  BY <1>1, <1>2, <1>3 DEF Within, Distinct
<1>. QED  BY <1>4, <1>5 DEF t

LEMMA ApartInit == Init => Apart
<1>. SUFFICES ASSUME Init PROVE Apart
  OBVIOUS
<1>1. inHand = NoBlk /\ free = CtrlBlk /\ atFw = {} /\ \A q \in QueueType : aQueues[q] = << >>
  BY DEF Init
<1>2. << >> \in Seq(CtrlBlk)
  OBVIOUS
<1>3. \A q \in QueueType : Line(q) = << >>
  BY <1>1, <1>2, ConcatEmptySeq DEF Line
<1>4. Line("MGMT") = << >> /\ Line("EAPOL") = << >>
  BY <1>3 DEF QueueType
<1>. QED  BY <1>1, <1>3, <1>4, EmptyLine DEF Apart

LEMMA ApartStep == ASSUME IndInv, Apart, [Next]_vars PROVE Apart'
<1>0. \A q \in QueueType : q \in {"MGMT", "EAPOL"} /\ Line(q) \in Seq(CtrlBlk)
  BY Lines DEF QueueType
<1>1. ASSUME \A q \in QueueType : Line(q)' = Line(q) \/ Line(q)' = << >>,
             free' \cup atFw' \subseteq free \cup atFw \cup UNION {Within(Line(q)) : q \in {r \in QueueType : Line(r)' # Line(r)}},
             free' \cap atFw' = {}
      PROVE  Apart'
  BY <1>0, <1>1, EmptyLine DEF Apart, QueueType
<1>2. CASE \A q \in QueueType : Line(q)' = Line(q) /\ UNCHANGED blkvars
  BY <1>2 DEF Apart, blkvars, QueueType
<1>3. CASE Visit \/ RunSchedulerNotFromSm \/ Recheck \/ XmitMgmtBusy \/ RequestSchedule \/ QueuesNotEmpty
           \/ (\E s \in ConnState : SetConnState(s)) \/ (\E freed \in BOOLEAN : UpdateBackpressure(freed))
           \/ DataBusy \/ SuspendTx \/ ResumeTx \/ UNCHANGED vars
  <2>1. UNCHANGED blkvars
    BY <1>3 DEF Visit, RunSchedulerNotFromSm, Recheck, XmitMgmtBusy, RequestSchedule, QueuesNotEmpty, SetConnState,
       UpdateBackpressure, DataBusy, SuspendTx, ResumeTx, vars
  <2>2. \A q \in QueueType : Line(q)' = Line(q)
    BY <1>3, VisitLine, LinesLeft DEF LeavesLines
  <2>. QED  BY <1>2, <2>1, <2>2
<1>4. CASE (\E b \in CtrlBlk : TxComplete(b)) \/ NotifyFwReset
  <2>1. free' \cup atFw' \subseteq free \cup atFw /\ free' \cap atFw' = {}
    BY <1>4 DEF TxComplete, NotifyFwReset, Apart
  <2>2. \A q \in QueueType : Line(q)' = Line(q)
    BY <1>4, LinesLeft DEF LeavesLines
  <2>. QED  BY <1>1, <2>1, <2>2
<1>5. ASSUME inHand # NoBlk, inHand' = NoBlk, UNCHANGED <<aQueues, inQueue>>,
             \/ UNCHANGED blkvars
             \/ atFw' = atFw \cup {inHand} /\ free' = free
             \/ free' = free \cup {inHand} /\ atFw' = atFw
      PROVE  Apart'
  <2>1. PICK p \in QueueType : p = inQueue
    BY Parts DEF OtherTypes
  <2>2. Line(p) # << >> /\ Line(p)' = Tail(Line(p)) /\ Head(Line(p)) = inHand
    BY <1>5, <2>1, HeadLeaves
  <2>3. \A q \in QueueType : q # p => Line(q)' = Line(q)
    BY <1>5, <2>1, HeadLeaves
  <2>4. /\ Within(Line(p)) = Within(Line(p)') \cup {inHand} /\ inHand \notin Within(Line(p)')
        /\ Distinct(Line(p)')
    BY <1>0, <2>1, <2>2, TailLine DEF Apart
  <2>5. \A q \in QueueType : Distinct(Line(q)') /\ inHand \notin Within(Line(q)') /\ Within(Line(q)') \subseteq Within(Line(q))
    <3>. TAKE q \in QueueType
    <3>1. CASE q = p
      BY <2>4, <3>1
    <3>2. CASE q # p
      BY <1>0, <2>1, <2>3, <2>4, <3>2 DEF Apart
    <3>. QED  BY <3>1, <3>2
  <2>6. inHand \notin free \cup atFw
    BY <2>1, <2>4 DEF Apart
  <2>7. free' \cup atFw' \subseteq free \cup atFw \cup {inHand} /\ free' \cap atFw' = {}
    BY <1>5, <2>6 DEF Apart, blkvars
  <2>8. Within(Line("MGMT")') \cap Within(Line("EAPOL")') = {}
    BY <2>5 DEF Apart, QueueType
  <2>9. \A q \in QueueType : Within(Line(q)') \cap (free' \cup atFw') = {}
    BY <2>5, <2>7 DEF Apart
  <2>. QED  BY <2>5, <2>7, <2>8, <2>9 DEF Apart
<1>6. CASE XmitMgmt \/ XmitMgmtError
  BY <1>5, <1>6, XmitHand DEF XmitMgmt, XmitMgmtError
<1>7. CASE Requeue
  BY <1>2, <1>5, <1>7, RequeueLine DEF Requeue
<1>8. ASSUME NEW b \in CtrlBlk, Xmit(b) \/ XmitExternal(b) PROVE Apart'
  <2>1. PICK r \in QueueType : Enqueue(r, b) /\ UNCHANGED <<inHand, inQueue, atFw>>
    BY <1>8, XmitEnqueues
  <2>2. \A q \in QueueType : Line(q)' = IF r = q THEN Append(Line(q), b) ELSE Line(q)
    BY <2>1, EnqueueLine
  <2>3. b \in free /\ free' = free \ {b} /\ atFw' = atFw
    BY <2>1 DEF Enqueue
  <2>4. \A q \in QueueType : b \notin Within(Line(q))
    BY <2>3 DEF Apart
  <2>5. Within(Line(r)') = Within(Line(r)) \cup {b} /\ Distinct(Line(r)')
    <3>1. Line(r)' = Append(Line(r), b) /\ Line(r) \in Seq(CtrlBlk) /\ b \notin Within(Line(r)) /\ Distinct(Line(r))
      BY <1>0, <2>2, <2>4 DEF Apart
    <3>. QED  BY <3>1, AppendLine
  <2>6. \A q \in QueueType : q # r => Line(q)' = Line(q)
    BY <2>2
  <2>7. \A q \in QueueType : Distinct(Line(q)')
    BY <2>5, <2>6 DEF Apart
  <2>8. \A q \in QueueType : Within(Line(q)') \cap (free' \cup atFw') = {}
    BY <2>3, <2>5, <2>6 DEF Apart
  <2>9. Within(Line("MGMT")') \cap Within(Line("EAPOL")') = {}
    <3>1. CASE r = "MGMT"
      BY <2>4, <2>5, <2>6, <3>1 DEF Apart, QueueType
    <3>2. CASE r = "EAPOL"
      BY <2>4, <2>5, <2>6, <3>2 DEF Apart, QueueType
    <3>. QED  BY <3>1, <3>2 DEF QueueType
  <2>. QED  BY <2>3, <2>7, <2>8, <2>9 DEF Apart
<1>9. CASE ClearQueues
  <2>1. \A q \in QueueType : Line(q)' = << >> /\ Line(q) = aQueues[q]
    BY <1>9, ClearLine, Lines DEF ClearQueues, InHandWhileSending
  <2>2. free' = free \cup UNION {Within(Line(q)) : q \in QueueType} /\ atFw' = atFw
    BY <1>9, <2>1 DEF ClearQueues, Within
  <2>3. free' \cap atFw' = {}
    BY <2>2 DEF Apart
  <2>. QED  BY <2>1, <2>3, EmptyLine DEF Apart, QueueType
<1>. QED  BY <1>3, <1>4, <1>6, <1>7, <1>8, <1>9 DEF Next, Scheduling

(* In the queues a block of a line is at one place at most.                *)
LEMMA OwnerIsOne == ASSUME IndInv, Apart PROVE OneOwner
<1>. SUFFICES ASSUME NEW b \in CtrlBlk PROVE Places(b) <= 1
  BY DEF OneOwner
<1>. DEFINE Spots == {p \in QueueType \X (1..Depth) : LET s == aQueues[p[1]] IN p[2] <= Len(s) /\ s[p[2]] = b}
<1>1. \A q \in QueueType : /\ aQueues[q] \in Seq(CtrlBlk) /\ Distinct(aQueues[q])
                           /\ Within(aQueues[q]) \subseteq Within(Line(q))
                           /\ inHand # NoBlk /\ q = inQueue => inHand \in Within(Line(q)) /\ inHand \notin Within(aQueues[q])
  <2>. TAKE q \in QueueType
  <2>1. CASE inHand = NoBlk \/ inQueue # q
    BY <2>1, Lines DEF Apart
  <2>2. CASE inHand # NoBlk /\ inQueue = q
    <3>1. /\ Line(q) = <<inHand>> \o aQueues[q] /\ Line(q) # << >> /\ Tail(Line(q)) = aQueues[q]
          /\ Line(q) \in Seq(CtrlBlk) /\ Head(Line(q)) = inHand
      BY <2>2, Lines, InFront
    <3>2. Distinct(Line(q))
      BY DEF Apart
    <3>3. /\ Within(Line(q)) = Within(Tail(Line(q))) \cup {Head(Line(q))}
          /\ Distinct(Tail(Line(q))) /\ Head(Line(q)) \notin Within(Tail(Line(q)))
      BY <3>1, <3>2, TailLine
    <3>4. Within(Line(q)) = Within(aQueues[q]) \cup {inHand} /\ Distinct(aQueues[q]) /\ inHand \notin Within(aQueues[q])
      BY <3>1, <3>3
    <3>. QED  BY <2>2, <3>1, <3>4, Lines
  <2>. QED  BY <2>1, <2>2
<1>2. \A p \in Spots : p = <<p[1], p[2]>> /\ p[1] \in QueueType /\ p[2] \in 1..Len(aQueues[p[1]]) /\ aQueues[p[1]][p[2]] = b
  BY <1>1
<1>3. Spots # {} => \E q \in QueueType : b \in Within(aQueues[q])
  BY <1>2 DEF Within
<1>4. \A p, r \in Spots : p = r
  <2>. SUFFICES ASSUME NEW p \in Spots, NEW r \in Spots PROVE p[1] = r[1] /\ p[2] = r[2]
    BY <1>2
  <2>1. b \in Within(Line(p[1])) /\ b \in Within(Line(r[1]))
    <3>1. b \in Within(aQueues[p[1]]) /\ b \in Within(aQueues[r[1]])
      BY <1>2 DEF Within
    <3>2. p[1] \in QueueType /\ r[1] \in QueueType
      BY <1>2
    <3>. QED  BY <1>1, <3>1, <3>2
  <2>2. Within(Line("MGMT")) \cap Within(Line("EAPOL")) = {}
    BY DEF Apart
  <2>3. p[1] \in {"MGMT", "EAPOL"} /\ r[1] \in {"MGMT", "EAPOL"}
    BY <1>2 DEF QueueType
  <2>4. p[1] = r[1]
    BY <2>1, <2>2, <2>3
  <2>. QED  BY <1>1, <1>2, <2>4 DEF Distinct
<1>5. Spots = {} \/ \E p : Spots = {p}
  BY <1>4
<1>6. Cardinality(Spots) \in {0, 1} /\ (Spots = {} => Cardinality(Spots) = 0)
  BY <1>5, FS_EmptySet, FS_Singleton
<1>. HIDE DEF Spots
<1>7. inHand = b => inHand # NoBlk /\ inQueue \in QueueType
  BY Parts, DepthAssumption DEF OtherTypes
<1>8. b \in free => b \notin atFw /\ b # inHand /\ Spots = {}
  BY <1>1, <1>3, <1>7 DEF Apart
<1>9. b \in atFw => b \notin free /\ b # inHand /\ Spots = {}
  BY <1>1, <1>3, <1>7 DEF Apart
<1>10. b = inHand => Spots = {}
  <2>1. ASSUME b = inHand, NEW q \in QueueType PROVE b \notin Within(aQueues[q])
    <3>1. CASE q = inQueue
      BY <1>1, <1>7, <2>1, <3>1
    <3>2. CASE q # inQueue
      BY <1>1, <1>7, <2>1, <3>2 DEF Apart, QueueType
    <3>. QED  BY <3>1, <3>2
  <2>. QED  BY <1>3, <2>1
<1>11. Places(b) = Cardinality(Spots) + (IF b \in free THEN 1 ELSE 0) + (IF b \in atFw THEN 1 ELSE 0) + (IF b = inHand THEN 1 ELSE 0)
  BY DEF Places, Spots
<1>. QED  BY <1>6, <1>8, <1>9, <1>10, <1>11

(* The management queues, their port and their state machine agree, and no *)
(* packet has two owners: pool, firmware, the driver's hand, or one place  *)
(* of one queue, though refused packets return and full queues drop them.  *)
THEOREM OwnersAndPort == Spec => []Inv
<1>1. Init => IndInv /\ Apart
  BY InitInv, ApartInit
<1>2. IndInv /\ Apart /\ [Next]_vars => (IndInv /\ Apart)'
  BY StepInv, ApartStep
<1>3. IndInv /\ Apart => TypeOK /\ OneOwner
  BY OwnerIsOne DEF IndInv
<1>4. TypeOK /\ OneOwner /\ PortFollowsSm => Inv
  BY DEF Inv
<1>. QED  BY <1>1, <1>2, <1>3, <1>4, PortAgrees, PTL DEF Spec

-----------------------------------------------------------------------------
(* These queues, in turn, take blocks from such a pool and give them back: *)
(* what is neither free nor with the firmware is theirs.                   *)
Owner == [b \in CtrlBlk |-> IF b \in free THEN "free" ELSE IF b \in atFw THEN "fw" ELSE "queued"]
Borrowed == INSTANCE CtrlBlkPool WITH use <- Owner

LEMMA OwnerAfter ==
    /\ \A b \in CtrlBlk : Owner[b] = IF b \in free THEN "free" ELSE IF b \in atFw THEN "fw" ELSE "queued"
    /\ Owner' = [b \in CtrlBlk |-> IF b \in free' THEN "free" ELSE IF b \in atFw' THEN "fw" ELSE "queued"]
BY DEF Owner

(* Blocks that have the same owner are given back.                         *)
LEMMA GivenBack ==
    ASSUME NEW blks \in SUBSET CtrlBlk, NEW o \in {"queued", "fw"}, \A b \in blks : Owner[b] = o,
           free' = free \cup blks, atFw' = atFw \ blks
    PROVE  \E some \in SUBSET CtrlBlk : Borrowed!Free(some)
<1>1. Owner' = [b \in CtrlBlk |-> IF b \in blks THEN "free" ELSE Owner[b]]
  BY OwnerAfter
<1>. QED  BY <1>1 DEF Borrowed!Free

LEMMA BorrowStep == ASSUME IndInv, Apart, [Next]_vars PROVE [Borrowed!Next]_Owner
<1>. SUFFICES ASSUME ~UNCHANGED Owner PROVE Borrowed!Next
  OBVIOUS
<1>0. /\ free \subseteq CtrlBlk /\ atFw \subseteq CtrlBlk /\ inHand \in CtrlBlk \cup {NoBlk} /\ free \cap atFw = {}
      /\ \A q \in QueueType : Line(q) \in Seq(CtrlBlk) /\ Within(Line(q)) \cap (free \cup atFw) = {}
  <2>1. free \subseteq CtrlBlk /\ atFw \subseteq CtrlBlk /\ inHand \in CtrlBlk \cup {NoBlk}
    BY DEF IndInv, TypeOK
  <2>. QED  BY <2>1, Lines DEF Apart
<1>1. ASSUME UNCHANGED blkvars PROVE FALSE
  BY <1>1 DEF Owner, blkvars
<1>2. ASSUME Head(work) = "xmit", ~Idle PROVE inHand \in CtrlBlk \ (free \cup atFw)
  <2>1. inHand # NoBlk /\ inQueue \in QueueType
    BY <1>2 DEF IndInv, InHandWhileSending, TypeOK
  <2>2. Line(inQueue) = <<inHand>> \o aQueues[inQueue] /\ aQueues[inQueue] \in Seq(CtrlBlk) /\ inHand \in CtrlBlk
    BY <1>0, <2>1, Lines
  <2>3. Line(inQueue) # << >> /\ Head(Line(inQueue)) = inHand
    BY <2>2, InFront
  <2>4. inHand \in Within(Line(inQueue))
    BY <1>0, <2>1, <2>3, TailLine DEF Apart
  <2>. QED  BY <1>0, <2>1, <2>2, <2>4
<1>3. CASE XmitMgmt
  <2>1. inHand \in CtrlBlk /\ Owner[inHand] = "queued" /\ atFw' = atFw \cup {inHand} /\ free' = free
    BY <1>2, <1>3, OwnerAfter DEF XmitMgmt
  <2>2. Owner' = [Owner EXCEPT ![inHand] = "fw"]
    BY <1>2, <1>3, <2>1, OwnerAfter DEF Owner, XmitMgmt
  <2>. QED  BY <2>1, <2>2 DEF Borrowed!Send, Borrowed!Next
<1>4. CASE XmitMgmtError
  <2>1. /\ inHand \in CtrlBlk /\ Owner[inHand] = "queued"
        /\ free' = free \cup {inHand} /\ atFw' = atFw \ {inHand}
    BY <1>2, <1>4, OwnerAfter DEF XmitMgmtError
  <2>2. {inHand} \in SUBSET CtrlBlk /\ \A b \in {inHand} : Owner[b] = "queued"
    BY <2>1
  <2>. QED  BY <2>1, <2>2, GivenBack DEF Borrowed!Next
<1>5. ASSUME NEW b \in CtrlBlk, TxComplete(b) PROVE Borrowed!Next
  <2>1. Owner[b] = "fw" /\ free' = free \cup {b} /\ atFw' = atFw \ {b}
    BY <1>0, <1>5, OwnerAfter DEF TxComplete
  <2>2. {b} \in SUBSET CtrlBlk /\ \A f \in {b} : Owner[f] = "fw"
    BY <2>1
  <2>. QED  BY <2>1, <2>2, GivenBack DEF Borrowed!Next
<1>6. CASE NotifyFwReset
  <2>1. \A b \in atFw : Owner[b] = "fw"
    BY <1>0, OwnerAfter
  <2>2. free' = free \cup atFw /\ atFw' = atFw \ atFw /\ atFw \in SUBSET CtrlBlk
    BY <1>0, <1>6 DEF NotifyFwReset
  <2>. QED  BY <2>1, <2>2, GivenBack DEF Borrowed!Next
<1>7. CASE ClearQueues
  <2>. DEFINE blks == UNION {Within(Line(q)) : q \in QueueType}
  <2>1. \A q \in QueueType : Line(q) = aQueues[q]
    BY <1>7, Lines DEF ClearQueues, IndInv, InHandWhileSending
  <2>2. blks \subseteq CtrlBlk /\ blks \cap (free \cup atFw) = {}
    <3>1. \A q \in QueueType : Within(Line(q)) \subseteq CtrlBlk
      BY <1>0 DEF Within
    <3>. QED  BY <1>0, <3>1
  <2>3. free' = free \cup blks /\ atFw' = atFw \ blks
    BY <1>7, <2>1, <2>2 DEF ClearQueues, Within
  <2>4. \A b \in blks : Owner[b] = "queued"
    BY <2>2, OwnerAfter
  <2>. QED  BY <2>2, <2>3, <2>4, GivenBack DEF Borrowed!Next
<1>8. ASSUME NEW b \in CtrlBlk, Xmit(b) \/ XmitExternal(b) PROVE Borrowed!Next
  <2>1. b \in free /\ free' = free \ {b} /\ atFw' = atFw
    BY <1>8 DEF Xmit, XmitExternal, Enqueue
  <2>2. Owner[b] = "free" /\ Owner' = [Owner EXCEPT ![b] = "queued"]
    BY <1>0, <2>1, OwnerAfter DEF Owner
  <2>. QED  BY <2>2 DEF Borrowed!Alloc, Borrowed!Next
<1>9. CASE \/ Scheduling \/ XmitMgmtBusy \/ RequestSchedule \/ QueuesNotEmpty
           \/ \E s \in ConnState : SetConnState(s)
           \/ \E freed \in BOOLEAN : UpdateBackpressure(freed)
           \/ DataBusy \/ SuspendTx \/ ResumeTx \/ UNCHANGED vars
  BY <1>1, <1>9 DEF Scheduling, RunSchedulerNotFromSm, Recheck, Visit, Requeue, XmitMgmtBusy, RequestSchedule,
     QueuesNotEmpty, SetConnState, UpdateBackpressure, DataBusy, SuspendTx, ResumeTx, vars
<1>. QED  BY <1>3, <1>4, <1>5, <1>6, <1>7, <1>8, <1>9 DEF Next

(* The management queues treat the control blocks as the table expects of  *)
(* its users: only a free block is taken, the firmware gets it from the    *)
(* queues, and every return is by the block's one owner.                   *)
THEOREM QueuesUsePool == Spec => Borrowed!Spec
<1>1. Init => IndInv /\ Apart /\ Borrowed!Init
  BY InitInv, ApartInit DEF Init, Borrowed!Init, Owner
<1>2. IndInv /\ Apart /\ [Next]_vars => (IndInv /\ Apart)' /\ [Borrowed!Next]_Owner
  BY StepInv, ApartStep, BorrowStep
<1>. QED  BY <1>1, <1>2, PTL DEF Spec, Borrowed!Spec

-----------------------------------------------------------------------------
(* The table of control blocks that these queues, the network stack and    *)
(* the firmware share (txCtrlBlk.c), for every size.                       *)
LastOne == NumEntries - 1

(* The free list is a path without repetition from entry 0 to the last     *)
(* entry, which is never allocated.                                        *)
Linked(next, path, k) ==
    /\ k \in Nat /\ path \in [0..k -> Entries] /\ next \in [Entries -> Entries \cup {NULL}]
    /\ path[0] = 0 /\ path[k] = LastOne /\ next[LastOne] = NULL
    /\ \A i \in 0..k : i < k => next[path[i]] = path[i + 1]
    /\ \A i, j \in 0..k : path[i] = path[j] => i = j

On(path, k) == {path[i] : i \in 0..k}

FreeListed ==
    \E k \in Nat : \E path \in [0..k -> Entries] :
        /\ Linked(pNextFreeEntry, path, k)
        /\ On(path, k) = {e \in Entries : use[e] = "free"}

(* A context that has just unlinked an entry has it for itself: the link   *)
(* is not cleared yet, so that to free the entry has no effect.            *)
Taking ==
    \A c \in Context :
        /\ pc[c] # "idle" => blk[c] # NULL
        /\ pc[c] = "taken" => use[blk[c]] # "free" /\ pNextFreeEntry[blk[c]] # NULL
        /\ \A d \in Context : c # d /\ pc[c] = "taken" /\ pc[d] = "taken" => blk[c] # blk[d]

(* An entry in use is out of the list, once its allocation got that far.   *)
Unlinked ==
    \A e \in Entries :
        use[e] # "free" => pNextFreeEntry[e] = NULL \/ \E c \in Context : pc[c] = "taken" /\ blk[c] = e

(* The free list's invariant, whoever sends while a recovery ends.         *)
ListInv == TableTypeOK /\ FreeListed /\ Taking /\ Unlinked

(* The owners' part, which holds when no packet comes from the network     *)
(* stack while a recovery ends (~TxDuringReset).  A context that allocates *)
(* has an entry of its own, to the end of the allocation.                  *)
Allocating ==
    \A c \in Context :
        /\ blk[c] = NULL <=> pc[c] = "idle"
        /\ blk[c] # NULL => use[blk[c]] = "queued"
        /\ \A d \in Context : c # d /\ blk[c] = blk[d] => blk[c] = NULL

(* An entry in use is marked exactly when the firmware has it.             *)
Marked ==
    \A e \in Entries :
        /\ use[e] = "fw" => sentToFw[e]
        /\ use[e] = "queued" => ~sentToFw[e] \/ \E c \in Context : blk[c] = e

(* What the clean-up after a recovery has passed is not with the firmware. *)
CleanedUp ==
    resetEntry # NULL =>
        /\ \A c \in Context : pc[c] = "idle"
        /\ \A e \in Entries : e < resetEntry => use[e] # "fw"

TableIndInv == ListInv /\ Allocating /\ Marked /\ CleanedUp

LEMMA Ends == /\ LastOne \in Entries /\ 0 \in Entries /\ 0 # LastOne
              /\ NULL \notin Entries /\ Entries \subseteq Nat
BY TableAssumption DEF LastOne, Entries, NULL

LEMMA Smallest ==
    ASSUME NEW T \in SUBSET Nat, T # {}
    PROVE  \E n \in T : \A m \in T : n <= m
<1>. DEFINE R == OpToRel(<, Nat)
<1>0. IsWellFoundedOn(R, Nat)
  BY NatLessThanWellFounded, Zenon
<1>2. \A i, j \in Nat : i < j => <<i, j>> \in R
  BY DEF OpToRel
<1>. HIDE DEF R
<1>1. PICK n \in T : \A m \in T : ~ (<<m, n>> \in R)
  BY <1>0, WFMin
<1>3. \A m \in T : ~(m < n)
  BY <1>1, <1>2
<1>. QED  BY <1>3

(* The list without its first entry, with a further one, and what changes  *)
(* an entry out of it.                                                     *)
LEMMA Unlink ==
    ASSUME NEW next, NEW path, NEW k, Linked(next, path, k), next[next[0]] # NULL
    PROVE  \E j \in Nat : \E rest \in [0..j -> Entries] :
               /\ Linked([next EXCEPT ![0] = next[next[0]]], rest, j)
               /\ next[0] \in On(path, k) /\ next[0] # 0
               /\ On(rest, j) = On(path, k) \ {next[0]}
<1>1. /\ k \in Nat /\ path \in [0..k -> Entries] /\ path[0] = 0 /\ path[k] = LastOne /\ next[LastOne] = NULL
      /\ \A i \in 0..k : i < k => next[path[i]] = path[i + 1]
      /\ \A i, j \in 0..k : path[i] = path[j] => i = j
      /\ next \in [Entries -> Entries \cup {NULL}]
  BY DEF Linked
<1>2. k # 0 /\ next[0] = path[1] /\ 1 \in 0..k /\ 0 \in 0..k /\ k \in 0..k
  BY <1>1, Ends
<1>3. k # 1 /\ next[next[0]] = path[2] /\ 2 \in 0..k
  BY <1>1, <1>2
<1>. DEFINE j    == k - 1
            rest == [i \in 0..j |-> IF i = 0 THEN 0 ELSE path[i + 1]]
            new  == [next EXCEPT ![0] = path[2]]
<1>4. j \in Nat /\ j # 0 /\ j + 1 = k
  BY <1>1, <1>2, <1>3
<1>. HIDE DEF j
<1>5. /\ rest \in [0..j -> Entries] /\ rest[0] = 0
      /\ \A i \in 0..j : i # 0 => rest[i] = path[i + 1] /\ i + 1 \in 0..k
  BY <1>1, <1>4, Ends
<1>. HIDE DEF rest
<1>6. /\ new \in [Entries -> Entries \cup {NULL}] /\ new[0] = path[2]
      /\ \A e \in Entries : e # 0 => new[e] = next[e]
  BY <1>1, <1>3, Ends
<1>. HIDE DEF new
<1>7. rest[j] = LastOne /\ new[LastOne] = NULL
  BY <1>1, <1>4, <1>5, <1>6, Ends
<1>8. ASSUME NEW i \in 0..j, i < j PROVE new[rest[i]] = rest[i + 1]
  <2>1. i + 1 \in 0..j /\ i + 1 # 0 /\ rest[i + 1] = path[(i + 1) + 1]
    BY <1>4, <1>5, <1>8
  <2>2. CASE i = 0
    <3>1. (i + 1) + 1 = 2
      BY <2>2
    <3>. QED  BY <1>5, <1>6, <2>1, <2>2, <3>1
  <2>3. CASE i # 0
    <3>1. rest[i] = path[i + 1] /\ i + 1 \in 0..k /\ i + 1 < k /\ i + 1 # 0
      BY <1>4, <1>5, <1>8, <2>3
    <3>2. path[i + 1] # 0 /\ path[i + 1] \in Entries
      BY <1>1, <1>2, <3>1
    <3>3. next[path[i + 1]] = path[(i + 1) + 1]
      BY <1>1, <3>1
    <3>. QED  BY <1>6, <2>1, <3>1, <3>2, <3>3
  <2>. QED  BY <2>2, <2>3
<1>9. ASSUME NEW i \in 0..j, NEW n \in 0..j, rest[i] = rest[n] PROVE i = n
  <2>1. \A m \in 0..j : m # 0 => rest[m] # 0
    <3>. SUFFICES ASSUME NEW m \in 0..j, m # 0, rest[m] = 0 PROVE FALSE
      OBVIOUS
    <3>1. path[m + 1] = path[0] /\ m + 1 \in 0..k /\ m + 1 # 0
      BY <1>1, <1>4, <1>5
    <3>. QED  BY <1>1, <1>2, <3>1
  <2>2. CASE i # 0 /\ n # 0
    <3>1. path[i + 1] = path[n + 1] /\ i + 1 \in 0..k /\ n + 1 \in 0..k
      BY <1>5, <1>9, <2>2
    <3>2. i + 1 = n + 1
      BY <1>1, <3>1
    <3>. QED  BY <3>2
  <2>. QED  BY <1>5, <1>9, <2>1, <2>2
<1>10. On(rest, j) = On(path, k) \ {path[1]}
  <2>1. ASSUME NEW e \in On(rest, j) PROVE e \in On(path, k) \ {path[1]}
    <3>1. PICK i \in 0..j : e = rest[i]
      BY DEF On
    <3>2. CASE i = 0
      BY <1>1, <1>2, <1>5, <3>1, <3>2 DEF On
    <3>3. CASE i # 0
      <4>1. e = path[i + 1] /\ i + 1 \in 0..k /\ i + 1 # 1
        BY <1>5, <3>1, <3>3
      <4>. QED  BY <1>1, <1>2, <4>1 DEF On
    <3>. QED  BY <3>2, <3>3
  <2>2. ASSUME NEW e \in On(path, k), e # path[1] PROVE e \in On(rest, j)
    <3>1. PICK i \in 0..k : e = path[i]
      BY DEF On
    <3>2. CASE i = 0
      <4>1. e = rest[0] /\ 0 \in 0..j
        BY <1>1, <1>4, <1>5, <3>1, <3>2
      <4>. QED  BY <4>1 DEF On
    <3>3. CASE i # 0
      <4>1. i - 1 \in 0..j /\ i - 1 # 0 /\ (i - 1) + 1 = i
        BY <1>4, <2>2, <3>1, <3>3
      <4>2. e = rest[i - 1]
        BY <1>5, <3>1, <4>1
      <4>. QED  BY <4>1, <4>2 DEF On
    <3>. QED  BY <3>2, <3>3
  <2>. QED  BY <2>1, <2>2
<1>11. Linked(new, rest, j)
  BY <1>4, <1>5, <1>6, <1>7, <1>8, <1>9 DEF Linked
<1>12. new = [next EXCEPT ![0] = next[next[0]]]
  BY <1>3 DEF new
<1>13. path[1] \in On(path, k) /\ path[1] # 0
  BY <1>1, <1>2 DEF On
<1>. QED  BY <1>2, <1>4, <1>5, <1>10, <1>11, <1>12, <1>13

LEMMA Link ==
    ASSUME NEW next, NEW path, NEW k, Linked(next, path, k), NEW e \in Entries, e \notin On(path, k)
    PROVE  \E j \in Nat : \E more \in [0..j -> Entries] :
               /\ Linked([next EXCEPT ![0] = e, ![e] = next[0]], more, j)
               /\ On(more, j) = On(path, k) \cup {e}
<1>1. /\ k \in Nat /\ path \in [0..k -> Entries] /\ path[0] = 0 /\ path[k] = LastOne /\ next[LastOne] = NULL
      /\ \A i \in 0..k : i < k => next[path[i]] = path[i + 1]
      /\ \A i, j \in 0..k : path[i] = path[j] => i = j
      /\ next \in [Entries -> Entries \cup {NULL}]
  BY DEF Linked
<1>2. k # 0 /\ next[0] = path[1] /\ 1 \in 0..k /\ 0 \in 0..k /\ k \in 0..k
  BY <1>1, Ends
<1>3. /\ \A i \in 0..k : path[i] # e
      /\ e # 0 /\ e # LastOne
  <2>1. \A i \in 0..k : path[i] # e
    BY DEF On
  <2>. QED  BY <1>1, <1>2, <2>1
<1>. DEFINE j    == k + 1
            more == [i \in 0..j |-> IF i = 0 THEN 0 ELSE IF i = 1 THEN e ELSE path[i - 1]]
            new  == [next EXCEPT ![0] = e, ![e] = next[0]]
<1>4. j \in Nat /\ j # 0 /\ j # 1 /\ j - 1 = k
  BY <1>1, <1>2
<1>. HIDE DEF j
<1>5. /\ more \in [0..j -> Entries] /\ more[0] = 0 /\ more[1] = e
      /\ \A i \in 0..j : i # 0 /\ i # 1 => more[i] = path[i - 1] /\ i - 1 \in 0..k /\ i - 1 # 0
  BY <1>1, <1>4, Ends
<1>. HIDE DEF more
<1>6. /\ new \in [Entries -> Entries \cup {NULL}] /\ new[0] = e /\ new[e] = path[1]
      /\ \A f \in Entries : f # 0 /\ f # e => new[f] = next[f]
  BY <1>1, <1>2, <1>3, Ends
<1>. HIDE DEF new
<1>7. more[j] = LastOne /\ new[LastOne] = NULL
  BY <1>1, <1>3, <1>4, <1>5, <1>6, Ends
<1>8. ASSUME NEW i \in 0..j, i < j PROVE new[more[i]] = more[i + 1]
  <2>1. i + 1 \in 0..j /\ i + 1 # 0
    BY <1>4, <1>8
  <2>2. CASE i = 0
    BY <1>5, <1>6, <2>2
  <2>3. CASE i = 1
    <3>1. more[i + 1] = path[(i + 1) - 1] /\ (i + 1) - 1 = 1
      BY <1>5, <2>1, <2>3
    <3>. QED  BY <1>5, <1>6, <2>3, <3>1
  <2>4. CASE i # 0 /\ i # 1
    <3>1. more[i] = path[i - 1] /\ i - 1 \in 0..k /\ i - 1 < k /\ i - 1 # 0 /\ (i - 1) + 1 = (i + 1) - 1
      BY <1>4, <1>5, <1>8, <2>4
    <3>2. path[i - 1] # 0 /\ path[i - 1] # e /\ path[i - 1] \in Entries
      BY <1>1, <1>2, <1>3, <3>1
    <3>3. next[path[i - 1]] = path[(i - 1) + 1]
      BY <1>1, <3>1
    <3>4. more[i + 1] = path[(i + 1) - 1]
      BY <1>5, <2>1, <2>4
    <3>. QED  BY <1>6, <3>1, <3>2, <3>3, <3>4
  <2>. QED  BY <2>2, <2>3, <2>4
<1>9. ASSUME NEW i \in 0..j, NEW n \in 0..j, more[i] = more[n] PROVE i = n
  <2>1. \A m \in 0..j : m # 0 => more[m] # 0
    <3>. SUFFICES ASSUME NEW m \in 0..j, m # 0, more[m] = 0 PROVE FALSE
      OBVIOUS
    <3>1. path[m - 1] = path[0] /\ m - 1 \in 0..k /\ m - 1 # 0
      BY <1>1, <1>3, <1>5
    <3>. QED  BY <1>1, <1>2, <3>1
  <2>2. \A m \in 0..j : m # 0 /\ m # 1 => more[m] # e
    BY <1>3, <1>5
  <2>3. CASE i # 0 /\ n # 0 /\ i # 1 /\ n # 1
    <3>1. path[i - 1] = path[n - 1] /\ i - 1 \in 0..k /\ n - 1 \in 0..k
      BY <1>5, <1>9, <2>3
    <3>2. i - 1 = n - 1
      BY <1>1, <3>1
    <3>. QED  BY <3>2
  <2>. QED  BY <1>3, <1>5, <1>9, <2>1, <2>2, <2>3
<1>10. On(more, j) = On(path, k) \cup {e}
  <2>1. ASSUME NEW f \in On(more, j) PROVE f \in On(path, k) \cup {e}
    <3>1. PICK i \in 0..j : f = more[i]
      BY DEF On
    <3>2. CASE i = 0
      BY <1>1, <1>2, <1>5, <3>1, <3>2 DEF On
    <3>3. CASE i = 1
      BY <1>5, <3>1, <3>3
    <3>4. CASE i # 0 /\ i # 1
      BY <1>5, <3>1, <3>4 DEF On
    <3>. QED  BY <3>2, <3>3, <3>4
  <2>2. ASSUME NEW f \in On(path, k) PROVE f \in On(more, j)
    <3>1. PICK i \in 0..k : f = path[i]
      BY DEF On
    <3>2. CASE i = 0
      <4>1. f = more[0] /\ 0 \in 0..j
        BY <1>1, <1>4, <1>5, <3>1, <3>2
      <4>. QED  BY <4>1 DEF On
    <3>3. CASE i # 0
      <4>1. i + 1 \in 0..j /\ i + 1 # 0 /\ i + 1 # 1 /\ (i + 1) - 1 = i
        BY <1>4, <3>1, <3>3
      <4>2. f = more[i + 1]
        BY <1>5, <3>1, <4>1
      <4>. QED  BY <4>1, <4>2 DEF On
    <3>. QED  BY <3>2, <3>3
  <2>3. e \in On(more, j)
    <3>1. 1 \in 0..j
      BY <1>4
    <3>. QED  BY <1>5, <3>1 DEF On
  <2>. QED  BY <2>1, <2>2, <2>3
<1>11. Linked(new, more, j)
  BY <1>4, <1>5, <1>6, <1>7, <1>8, <1>9 DEF Linked
<1>12. new = [next EXCEPT ![0] = e, ![e] = next[0]]
  BY DEF new
<1>. QED  BY <1>4, <1>5, <1>10, <1>11, <1>12

LEMMA Aside ==
    ASSUME NEW next, NEW path, NEW k, Linked(next, path, k), NEW e \in Entries, e \notin On(path, k)
    PROVE  Linked([next EXCEPT ![e] = NULL], path, k)
<1>1. \A i \in 0..k : path[i] # e /\ path[i] \in Entries
  BY DEF On, Linked
<1>2. k \in 0..k /\ LastOne # e
  BY <1>1 DEF Linked
<1>. QED  BY <1>1, <1>2 DEF Linked

(* Where the list of free entries begins, and what is on it.               *)
LEMMA ListFacts ==
    ASSUME TableTypeOK, FreeListed
    PROVE  /\ use[0] = "free" /\ use[LastOne] = "free"
           /\ pNextFreeEntry[0] \in Entries /\ pNextFreeEntry[LastOne] = NULL
           /\ \A e \in Entries : use[e] = "free" /\ e # LastOne => pNextFreeEntry[e] # NULL
<1>1. PICK k \in Nat : \E path \in [0..k -> Entries] :
        /\ Linked(pNextFreeEntry, path, k)
        /\ On(path, k) = {e \in Entries : use[e] = "free"}
  BY DEF FreeListed
<1>2. PICK path \in [0..k -> Entries] :
        /\ Linked(pNextFreeEntry, path, k)
        /\ On(path, k) = {e \in Entries : use[e] = "free"}
  BY <1>1
<1>3. path[0] \in On(path, k) /\ path[k] \in On(path, k) /\ 0 \in 0..k
  <2>1. 0 \in 0..k /\ k \in 0..k
    OBVIOUS
  <2>. QED  BY <2>1 DEF On
<1>4. use[0] = "free" /\ use[LastOne] = "free"
  BY <1>2, <1>3 DEF Linked
<1>5. \A e \in Entries : use[e] = "free" /\ e # LastOne => pNextFreeEntry[e] \in Entries
  <2>. TAKE e \in Entries
  <2>. SUFFICES ASSUME use[e] = "free", e # LastOne PROVE pNextFreeEntry[e] \in Entries
    OBVIOUS
  <2>1. PICK i \in 0..k : e = path[i]
    BY <1>2 DEF On
  <2>2. i < k /\ i + 1 \in 0..k
    BY <1>2, <2>1 DEF Linked
  <2>. QED  BY <1>2, <2>1, <2>2 DEF Linked
<1>. QED  BY <1>2, <1>4, <1>5, Ends DEF Linked

(* The list as txCtrlBlk_Alloc would walk through it is that path.         *)
LEMMA NotLonger ==
    ASSUME NEW next, NEW path, NEW k, Linked(next, path, k)
    PROVE  k < NumEntries
<1>1. /\ IsFiniteSet(0..k) /\ Cardinality(0..k) = k + 1 /\ k \in Nat
      /\ IsFiniteSet(Entries) /\ Cardinality(Entries) = NumEntries /\ NumEntries \in Nat
  <2>1. k \in Nat /\ k \in Int /\ 0 \in Int /\ ~(0 > k) /\ (k - 0) + 1 = k + 1
    BY DEF Linked
  <2>2. NumEntries \in Nat /\ NumEntries - 1 \in Int /\ ~(0 > NumEntries - 1) /\ ((NumEntries - 1) - 0) + 1 = NumEntries
    BY TableAssumption
  <2>3. IsFiniteSet(0..k) /\ Cardinality(0..k) = (k - 0) + 1
    BY <2>1, FS_Interval, Zenon
  <2>4. IsFiniteSet(0..(NumEntries - 1)) /\ Cardinality(0..(NumEntries - 1)) = ((NumEntries - 1) - 0) + 1
    BY <2>1, <2>2, FS_Interval, Zenon
  <2>. QED  BY <2>1, <2>2, <2>3, <2>4 DEF Entries
<1>2. path \in Injection(0..k, Entries)
  BY DEF Linked, Injection, IsInjective
<1>3. Cardinality(0..k) <= Cardinality(Entries)
  BY <1>1, <1>2, FS_Injection, Zenon
<1>. QED  BY <1>1, <1>3

LEMMA Walk ==
    ASSUME NEW path, NEW k, Linked(pNextFreeEntry, path, k)
    PROVE  \A n \in 0..NumEntries : Nth[n] = IF n <= k THEN path[n] ELSE NULL
<1>1. /\ k \in Nat /\ path \in [0..k -> Entries] /\ path[0] = 0 /\ path[k] = LastOne
      /\ pNextFreeEntry[LastOne] = NULL /\ \A i \in 0..k : i < k => pNextFreeEntry[path[i]] = path[i + 1]
      /\ NumEntries \in Nat
  BY TableAssumption DEF Linked
<1>. DEFINE Step(f, n) == IF n = 0 THEN 0 ELSE IF f[n - 1] = NULL THEN NULL ELSE pNextFreeEntry[f[n - 1]]
            walk == [n \in 0..NumEntries |-> IF n <= k THEN path[n] ELSE NULL]
            nth  == CHOOSE f : f = [n \in 0..NumEntries |-> Step(f, n)]
<1>2. \A n \in 0..NumEntries : walk[n] = IF n <= k THEN path[n] ELSE NULL
  OBVIOUS
<1>3. ASSUME NEW n \in 0..NumEntries PROVE walk[n] = Step(walk, n)
  <2>1. CASE n = 0
    BY <1>1, <2>1
  <2>2. CASE n # 0
    <3>1. n - 1 \in 0..NumEntries /\ n - 1 \in Nat /\ (n - 1) + 1 = n
      BY <1>1, <2>2
    <3>2. CASE n - 1 < k
      <4>1. n - 1 \in 0..k /\ n \in 0..k /\ walk[n - 1] = path[n - 1] /\ walk[n] = path[n]
        BY <1>1, <1>2, <3>1, <3>2
      <4>2. path[n - 1] # NULL /\ pNextFreeEntry[path[n - 1]] = path[n]
        BY <1>1, <3>1, <3>2, <4>1, Ends
      <4>. QED  BY <2>2, <4>1, <4>2
    <3>3. CASE n - 1 = k
      <4>1. walk[n - 1] = LastOne /\ walk[n] = NULL
        BY <1>1, <1>2, <3>1, <3>3
      <4>. QED  BY <1>1, <2>2, <4>1, Ends
    <3>4. CASE n - 1 > k
      <4>1. walk[n - 1] = NULL /\ walk[n] = NULL
        BY <1>1, <1>2, <3>1, <3>4
      <4>. QED  BY <2>2, <4>1
    <3>. QED  BY <1>1, <3>1, <3>2, <3>3, <3>4
  <2>. QED  BY <2>1, <2>2
<1>4. walk = [n \in 0..NumEntries |-> Step(walk, n)]
  BY <1>3
<1>. HIDE DEF walk
<1>5. nth = [n \in 0..NumEntries |-> Step(nth, n)]
  BY <1>4
<1>6. Nth = nth
  BY DEF Nth
<1>. HIDE DEF nth
<1>7. \A n \in 0..NumEntries : nth[n] = Step(nth, n)
  BY <1>5
<1>8. \A n \in 0..NumEntries : nth[n] = walk[n]
  <2>. DEFINE Bad == {n \in 0..NumEntries : nth[n] # walk[n]}
  <2>. SUFFICES ASSUME Bad # {} PROVE FALSE
    OBVIOUS
  <2>1. Bad \in SUBSET Nat
    BY <1>1
  <2>2. PICK n \in Bad : \A m \in Bad : n <= m
    BY <2>1, Smallest
  <2>3. n # 0
    BY <1>3, <1>7
  <2>4. n - 1 \in 0..NumEntries /\ ~(n - 1 \in Bad)
    BY <1>1, <2>2, <2>3
  <2>5. nth[n - 1] = walk[n - 1]
    BY <2>4
  <2>. QED  BY <1>3, <1>7, <2>3, <2>5
<1>. QED  BY <1>2, <1>6, <1>8

LEMMA ListIsExact == TableTypeOK /\ FreeListed => FreeListExact
<1>. SUFFICES ASSUME TableTypeOK, FreeListed PROVE FreeListExact
  OBVIOUS
<1>1. PICK k \in Nat : \E path \in [0..k -> Entries] :
        /\ Linked(pNextFreeEntry, path, k)
        /\ On(path, k) = {e \in Entries : use[e] = "free"}
  BY DEF FreeListed
<1>2. PICK path \in [0..k -> Entries] :
        /\ Linked(pNextFreeEntry, path, k)
        /\ On(path, k) = {e \in Entries : use[e] = "free"}
  BY <1>1
<1>3. k < NumEntries /\ NumEntries \in Nat
  BY <1>2, NotLonger, TableAssumption
<1>4. \A n \in 0..NumEntries : Nth[n] = IF n <= k THEN path[n] ELSE NULL
  BY <1>2, Walk
<1>5. Nth[NumEntries] = NULL
  BY <1>3, <1>4
<1>6. {Nth[n] : n \in 1..NumEntries} \ {NULL} = {e \in Entries \ {0} : use[e] = "free"}
  <2>. DEFINE visited == {Nth[n] : n \in 1..NumEntries}
  <2>1. ASSUME NEW e \in visited, e # NULL PROVE e \in Entries /\ e # 0 /\ use[e] = "free"
    <3>1. PICK n \in 1..NumEntries : e = Nth[n]
      OBVIOUS
    <3>2. n \in 0..NumEntries /\ n # 0
      BY <1>3
    <3>3. n <= k /\ e = path[n]
      BY <1>4, <2>1, <3>1, <3>2
    <3>4. n \in 0..k /\ 0 \in 0..k
      BY <3>2, <3>3
    <3>5. e \in On(path, k) /\ path[n] # path[0]
      BY <1>2, <3>2, <3>3, <3>4 DEF On, Linked
    <3>. QED  BY <1>2, <3>3, <3>5 DEF Linked
  <2>2. ASSUME NEW e \in Entries, e # 0, use[e] = "free" PROVE e \in visited /\ e # NULL
    <3>1. PICK n \in 0..k : e = path[n]
      BY <1>2, <2>2 DEF On
    <3>2. n # 0 /\ n \in 0..NumEntries /\ n \in 1..NumEntries /\ n <= k
      BY <1>2, <1>3, <2>2, <3>1 DEF Linked
    <3>3. e = Nth[n]
      BY <1>4, <3>1, <3>2
    <3>. QED  BY <3>2, <3>3, Ends
  <2>. HIDE DEF visited
  <2>3. visited \ {NULL} = {e \in Entries \ {0} : use[e] = "free"}
    BY <2>1, <2>2
  <2>. QED  BY <2>3 DEF visited
<1>. QED  BY <1>5, <1>6 DEF FreeListExact

LEMMA TableInitInv == TableInit => TableIndInv
<1>. SUFFICES ASSUME TableInit PROVE TableIndInv
  OBVIOUS
<1>1. TableTypeOK
  BY TableAssumption DEF TableTypeOK, TableInit, Entries, NULL
<1>2. FreeListed
  <2>. DEFINE path == [i \in 0..LastOne |-> i]
  <2>1. LastOne \in Nat /\ Entries = 0..LastOne /\ NULL = LastOne + 1
    BY TableAssumption DEF LastOne, Entries, NULL
  <2>2. path \in [0..LastOne -> Entries] /\ \A i \in 0..LastOne : path[i] = i
    BY <2>1
  <2>. HIDE DEF path
  <2>3. Linked(pNextFreeEntry, path, LastOne)
    BY <1>1, <2>1, <2>2 DEF Linked, TableInit, TableTypeOK
  <2>4. On(path, LastOne) = {e \in Entries : use[e] = "free"}
    BY <2>1, <2>2 DEF On, TableInit
  <2>. QED  BY <2>1, <2>2, <2>3, <2>4 DEF FreeListed
<1>3. Taking /\ Allocating /\ Unlinked /\ Marked /\ CleanedUp
  BY DEF TableInit, Taking, Allocating, Unlinked, Marked, CleanedUp
<1>. QED  BY <1>1, <1>2, <1>3 DEF TableIndInv, ListInv

LEMMA TableTypes ==
    ASSUME TableTypeOK
    PROVE  /\ pNextFreeEntry \in [Entries -> Entries \cup {NULL}]
           /\ sentToFw \in [Entries -> BOOLEAN]
           /\ use \in [Entries -> {"free", "queued", "fw"}]
           /\ pc \in [Context -> {"idle", "taken", "unlinked"}]
           /\ blk \in [Context -> Entries \cup {NULL}]
           /\ resetEntry \in 0..(NumEntries - 2) \cup {NULL}
BY DEF TableTypeOK

(* The list stays when what happens is not in it.                          *)
LEMMA ListKept ==
    ASSUME FreeListed, UNCHANGED pNextFreeEntry,
           \A e \in Entries : use'[e] = "free" <=> use[e] = "free"
    PROVE  FreeListed'
BY DEF FreeListed

(* An entry that is given back becomes the list's first.                   *)
LEMMA ListFreed ==
    ASSUME TableTypeOK, FreeListed, NEW e \in Entries, use[e] # "free", pNextFreeEntry[e] = NULL,
           Free(e)
    PROVE  /\ FreeListed'
           /\ pNextFreeEntry' \in [Entries -> Entries \cup {NULL}]
           /\ use' = [use EXCEPT ![e] = "free"] /\ pNextFreeEntry'[e] # NULL
           /\ \A f \in Entries : f # 0 /\ f # e => pNextFreeEntry'[f] = pNextFreeEntry[f]
<1>1. /\ pNextFreeEntry' = [pNextFreeEntry EXCEPT ![0] = e, ![e] = pNextFreeEntry[0]]
      /\ use' = [use EXCEPT ![e] = "free"]
  BY DEF Free
<1>2. PICK k \in Nat : \E path \in [0..k -> Entries] :
        /\ Linked(pNextFreeEntry, path, k)
        /\ On(path, k) = {f \in Entries : use[f] = "free"}
  BY DEF FreeListed
<1>3. PICK path \in [0..k -> Entries] :
        /\ Linked(pNextFreeEntry, path, k)
        /\ On(path, k) = {f \in Entries : use[f] = "free"}
  BY <1>2
<1>4. e \notin On(path, k)
  BY <1>3
<1>5. \E j \in Nat : \E more \in [0..j -> Entries] :
        /\ Linked([pNextFreeEntry EXCEPT ![0] = e, ![e] = pNextFreeEntry[0]], more, j)
        /\ On(more, j) = On(path, k) \cup {e}
  BY <1>3, <1>4, Link
<1>6. {f \in Entries : use'[f] = "free"} = {f \in Entries : use[f] = "free"} \cup {e}
  BY <1>1, TableTypes
<1>7. FreeListed'
  <2>1. On(path, k) \cup {e} = {f \in Entries : use'[f] = "free"}
    BY <1>3, <1>6
  <2>. QED  BY <1>1, <1>5, <2>1 DEF FreeListed
<1>8. e # 0 /\ pNextFreeEntry[0] \in Entries
  BY ListFacts
<1>. QED  BY <1>1, <1>7, <1>8, TableTypes, Ends

(* What is taken is free and not the list's head.                          *)
LEMMA TakenIsFree ==
    ASSUME TableTypeOK, FreeListed, NEW c \in Context, Take(c)
    PROVE  pNextFreeEntry[0] \in Entries \ {0} /\ use[pNextFreeEntry[0]] = "free"
<1>. DEFINE e == pNextFreeEntry[0]
<1>1. pNextFreeEntry[e] # NULL /\ e \in Entries
  BY ListFacts DEF Take
<1>2. PICK k \in Nat : \E path \in [0..k -> Entries] :
        /\ Linked(pNextFreeEntry, path, k)
        /\ On(path, k) = {f \in Entries : use[f] = "free"}
  BY DEF FreeListed
<1>3. PICK path \in [0..k -> Entries] :
        /\ Linked(pNextFreeEntry, path, k)
        /\ On(path, k) = {f \in Entries : use[f] = "free"}
  BY <1>2
<1>4. pNextFreeEntry[0] \in On(path, k) /\ pNextFreeEntry[0] # 0
  BY <1>1, <1>3, Unlink
<1>. QED  BY <1>1, <1>3, <1>4

LEMMA TakeList == ASSUME ListInv, NEW c \in Context, Take(c) PROVE ListInv'
<1>. DEFINE e == pNextFreeEntry[0]
<1>1. /\ pc[c] = "idle"
      /\ pNextFreeEntry[e] # NULL /\ blk' = [blk EXCEPT ![c] = e]
      /\ pNextFreeEntry' = [pNextFreeEntry EXCEPT ![0] = pNextFreeEntry[e]]
      /\ use' = [use EXCEPT ![e] = "queued"] /\ pc' = [pc EXCEPT ![c] = "taken"]
      /\ UNCHANGED <<sentToFw, resetEntry>>
  BY DEF Take, Ready
<1>2. e \in Entries /\ TableTypeOK /\ FreeListed
  BY ListFacts DEF ListInv
<1>3. PICK k \in Nat : \E path \in [0..k -> Entries] :
        /\ Linked(pNextFreeEntry, path, k)
        /\ On(path, k) = {f \in Entries : use[f] = "free"}
  BY <1>2 DEF FreeListed
<1>4. PICK path \in [0..k -> Entries] :
        /\ Linked(pNextFreeEntry, path, k)
        /\ On(path, k) = {f \in Entries : use[f] = "free"}
  BY <1>3
<1>5. \E j \in Nat : \E rest \in [0..j -> Entries] :
        /\ Linked([pNextFreeEntry EXCEPT ![0] = pNextFreeEntry[e]], rest, j) /\ e \in On(path, k) /\ e # 0
        /\ On(rest, j) = On(path, k) \ {e}
  <2>1. Linked(pNextFreeEntry, path, k) /\ pNextFreeEntry[pNextFreeEntry[0]] # NULL
    BY <1>1, <1>4
  <2>2. \E j \in Nat : \E rest \in [0..j -> Entries] :
          /\ Linked([pNextFreeEntry EXCEPT ![0] = pNextFreeEntry[pNextFreeEntry[0]]], rest, j)
          /\ pNextFreeEntry[0] \in On(path, k) /\ pNextFreeEntry[0] # 0
          /\ On(rest, j) = On(path, k) \ {pNextFreeEntry[0]}
    BY <2>1, Unlink
  <2>. QED  BY <2>2
<1>6. use[e] = "free" /\ e # 0
  BY <1>4, <1>5
<1>. HIDE DEF e
<1>7. {f \in Entries : use'[f] = "free"} = {f \in Entries : use[f] = "free"} \ {e}
  BY <1>1, <1>2, TableTypes
<1>8. FreeListed'
  <2>1. On(path, k) \ {e} = {f \in Entries : use'[f] = "free"}
    BY <1>4, <1>7
  <2>. QED  BY <1>1, <1>5, <2>1 DEF FreeListed
<1>9. /\ pNextFreeEntry' \in [Entries -> Entries \cup {NULL}]
      /\ \A f \in Entries : f # 0 => pNextFreeEntry'[f] = pNextFreeEntry[f]
      /\ \A f \in Entries : f # e => use'[f] = use[f]
      /\ use'[e] = "queued" /\ blk'[c] = e /\ pc'[c] = "taken"
      /\ \A d \in Context : d # c => blk'[d] = blk[d] /\ pc'[d] = pc[d]
  BY <1>1, <1>2, TableTypes
<1>10. TableTypeOK'
  BY <1>1, <1>2, <1>9, TableTypes DEF TableTypeOK
<1>11. Taking'
  <2>1. e # NULL /\ pNextFreeEntry'[e] # NULL
    BY <1>1, <1>2, <1>6, <1>9, Ends
  <2>2. ASSUME NEW d \in Context, pc[d] = "taken"
        PROVE  blk[d] \in Entries /\ blk[d] # e /\ blk[d] # 0
    <3>1. use[blk[d]] # "free" /\ blk[d] # NULL
      BY <2>2 DEF ListInv, Taking
    <3>. QED  BY <1>2, <1>6, <3>1, TableTypes, ListFacts
  <2>3. ASSUME NEW d \in Context
        PROVE  /\ pc'[d] # "idle" => blk'[d] # NULL
               /\ pc'[d] = "taken" => use'[blk'[d]] # "free" /\ pNextFreeEntry'[blk'[d]] # NULL
    <3>1. CASE d = c
      BY <1>9, <2>1, <3>1
    <3>2. CASE d # c
      <4>1. pc'[d] = pc[d] /\ blk'[d] = blk[d]
        BY <1>9, <3>2
      <4>2. pc[d] = "taken" => use'[blk[d]] = use[blk[d]] /\ pNextFreeEntry'[blk[d]] = pNextFreeEntry[blk[d]]
        BY <1>9, <2>2
      <4>. QED  BY <4>1, <4>2 DEF ListInv, Taking
    <3>. QED  BY <3>1, <3>2
  <2>4. ASSUME NEW d \in Context, NEW f \in Context, d # f, pc'[d] = "taken", pc'[f] = "taken"
        PROVE  blk'[d] # blk'[f]
    <3>1. CASE d = c
      BY <1>9, <2>2, <2>4, <3>1
    <3>2. CASE f = c
      BY <1>9, <2>2, <2>4, <3>2
    <3>3. CASE d # c /\ f # c
      BY <1>9, <2>4, <3>3 DEF ListInv, Taking
    <3>. QED  BY <3>1, <3>2, <3>3
  <2>. QED  BY <2>3, <2>4 DEF Taking
<1>12. Unlinked'
  <2>. SUFFICES ASSUME NEW f \in Entries, use'[f] # "free"
                PROVE  pNextFreeEntry'[f] = NULL \/ \E d \in Context : pc'[d] = "taken" /\ blk'[d] = f
    BY DEF Unlinked
  <2>1. CASE f = e
    BY <1>9, <2>1
  <2>2. CASE f # e
    <3>1. use[f] # "free" /\ f # 0
      BY <1>2, <1>9, <2>2, ListFacts
    <3>2. pNextFreeEntry[f] = NULL \/ \E d \in Context : pc[d] = "taken" /\ blk[d] = f
      BY <3>1 DEF ListInv, Unlinked
    <3>. QED  BY <1>1, <1>9, <3>1, <3>2
  <2>. QED  BY <2>1, <2>2
<1>. QED  BY <1>8, <1>10, <1>11, <1>12 DEF ListInv

LEMMA ClearNextList == ASSUME ListInv, NEW c \in Context, ClearNext(c) PROVE ListInv'
<1>. DEFINE e == blk[c]
<1>1. /\ pc[c] = "taken" /\ pNextFreeEntry' = [pNextFreeEntry EXCEPT ![e] = NULL]
      /\ pc' = [pc EXCEPT ![c] = "unlinked"] /\ UNCHANGED <<sentToFw, use, blk, resetEntry>>
  BY DEF ClearNext
<1>2. TableTypeOK /\ FreeListed /\ Taking /\ Unlinked
  BY DEF ListInv
<1>3. e # NULL /\ e \in Entries /\ use[e] # "free"
  BY <1>1, <1>2, TableTypes DEF Taking
<1>. HIDE DEF e
<1>4. /\ pNextFreeEntry' \in [Entries -> Entries \cup {NULL}] /\ pNextFreeEntry'[e] = NULL
      /\ \A f \in Entries : f # e => pNextFreeEntry'[f] = pNextFreeEntry[f]
      /\ pc'[c] = "unlinked" /\ \A d \in Context : d # c => pc'[d] = pc[d]
  BY <1>1, <1>2, <1>3, TableTypes
<1>5. TableTypeOK'
  BY <1>1, <1>2, <1>4, TableTypes DEF TableTypeOK
<1>6. FreeListed'
  <2>1. PICK k \in Nat : \E path \in [0..k -> Entries] :
          /\ Linked(pNextFreeEntry, path, k)
          /\ On(path, k) = {f \in Entries : use[f] = "free"}
    BY <1>2 DEF FreeListed
  <2>2. PICK path \in [0..k -> Entries] :
          /\ Linked(pNextFreeEntry, path, k)
          /\ On(path, k) = {f \in Entries : use[f] = "free"}
    BY <2>1
  <2>3. e \notin On(path, k)
    BY <1>3, <2>2
  <2>4. Linked(pNextFreeEntry', path, k)
    BY <1>1, <1>3, <2>2, <2>3, Aside
  <2>. QED  BY <1>1, <2>2, <2>4 DEF FreeListed
<1>7. Taking'
  <2>1. \A d \in Context : pc'[d] = "taken" => pc[d] = "taken" /\ blk[d] # e
    BY <1>1, <1>2, <1>4 DEF Taking, e
  <2>2. \A d \in Context : pc'[d] = "taken" => pNextFreeEntry'[blk[d]] = pNextFreeEntry[blk[d]]
    <3>1. \A d \in Context : pc[d] = "taken" => blk[d] \in Entries
      BY <1>2, TableTypes DEF Taking
    <3>. QED  BY <1>4, <2>1, <3>1
  <2>3. \A d \in Context : pc'[d] # "idle" => blk[d] # NULL
    BY <1>1, <1>2, <1>4 DEF Taking
  <2>. QED  BY <1>1, <1>2, <2>1, <2>2, <2>3 DEF Taking
<1>8. Unlinked'
  <2>1. \A f \in Entries, d \in Context : f # e /\ blk[d] = f => d # c
    BY DEF e
  <2>. QED  BY <1>1, <1>2, <1>4, <2>1 DEF Unlinked
<1>. QED  BY <1>5, <1>6, <1>7, <1>8 DEF ListInv

LEMMA ClearFlagsList == ASSUME ListInv, NEW c \in Context, ClearFlags(c) PROVE ListInv'
<1>. DEFINE e == blk[c]
<1>1. /\ pc[c] = "unlinked" /\ sentToFw' = [sentToFw EXCEPT ![e] = FALSE]
      /\ pc' = [pc EXCEPT ![c] = "idle"] /\ blk' = [blk EXCEPT ![c] = NULL]
      /\ UNCHANGED <<pNextFreeEntry, use, resetEntry>>
  BY DEF ClearFlags
<1>2. TableTypeOK /\ FreeListed /\ Taking /\ Unlinked
  BY DEF ListInv
<1>3. e # NULL /\ e \in Entries
  BY <1>1, <1>2, TableTypes DEF Taking
<1>4. /\ sentToFw' \in [Entries -> BOOLEAN] /\ pc'[c] = "idle" /\ blk'[c] = NULL
      /\ \A d \in Context : d # c => pc'[d] = pc[d] /\ blk'[d] = blk[d]
  BY <1>1, <1>2, <1>3, TableTypes
<1>. HIDE DEF e
<1>5. TableTypeOK'
  BY <1>1, <1>2, <1>4, TableTypes DEF TableTypeOK
<1>6. FreeListed'
  BY <1>1, <1>2, ListKept
<1>7. Taking' /\ Unlinked'
  BY <1>1, <1>2, <1>4 DEF Taking, Unlinked
<1>. QED  BY <1>5, <1>6, <1>7 DEF ListInv

LEMMA SendList == ASSUME ListInv, NEW e \in Entries, Send(e) PROVE ListInv'
<1>1. /\ use[e] = "queued" /\ sentToFw' = [sentToFw EXCEPT ![e] = TRUE]
      /\ use' = [use EXCEPT ![e] = "fw"] /\ UNCHANGED <<pNextFreeEntry, pc, blk, resetEntry>>
  BY DEF Send, Queued
<1>2. TableTypeOK /\ FreeListed /\ Taking /\ Unlinked
  BY DEF ListInv
<1>3. /\ sentToFw' \in [Entries -> BOOLEAN] /\ use' \in [Entries -> {"free", "queued", "fw"}]
      /\ \A f \in Entries : use'[f] = "free" <=> use[f] = "free"
  BY <1>1, <1>2, TableTypes
<1>4. TableTypeOK'
  BY <1>1, <1>2, <1>3, TableTypes DEF TableTypeOK
<1>5. FreeListed'
  BY <1>1, <1>2, <1>3, ListKept
<1>6. Taking'
  <2>1. \A c \in Context : pc[c] = "taken" => blk[c] \in Entries
    BY <1>2, TableTypes DEF Taking
  <2>. QED  BY <1>1, <1>2, <1>3, <2>1 DEF Taking
<1>7. Unlinked'
  BY <1>1, <1>2, <1>3 DEF Unlinked
<1>. QED  BY <1>4, <1>5, <1>6, <1>7 DEF ListInv

(* An entry in use is given back; one that still looks free is left alone. *)
LEMMA FreeList ==
    ASSUME ListInv, NEW e \in Entries, use[e] # "free", Free(e), UNCHANGED <<pc, blk>>
    PROVE  /\ FreeListed' /\ Taking' /\ Unlinked'
           /\ pNextFreeEntry' \in [Entries -> Entries \cup {NULL}]
           /\ use' \in [Entries -> {"free", "queued", "fw"}]
<1>1. TableTypeOK /\ FreeListed /\ Taking /\ Unlinked
  BY DEF ListInv
<1>2. CASE pNextFreeEntry[e] # NULL
  <2>1. UNCHANGED <<pNextFreeEntry, use>>
    BY <1>2 DEF Free
  <2>. QED  BY <1>1, <2>1, TableTypes DEF FreeListed, Taking, Unlinked
<1>3. CASE pNextFreeEntry[e] = NULL
  <2>1. /\ FreeListed' /\ use' = [use EXCEPT ![e] = "free"]
        /\ pNextFreeEntry' \in [Entries -> Entries \cup {NULL}]
        /\ \A f \in Entries : f # 0 /\ f # e => pNextFreeEntry'[f] = pNextFreeEntry[f]
    BY <1>1, <1>3, ListFreed
  <2>2. /\ use' \in [Entries -> {"free", "queued", "fw"}] /\ use'[e] = "free"
        /\ \A f \in Entries : f # e => use'[f] = use[f]
    BY <1>1, <2>1, TableTypes
  <2>3. Taking'
    <3>1. ASSUME NEW c \in Context, pc[c] = "taken"
          PROVE  blk[c] \in Entries /\ blk[c] # e /\ blk[c] # 0
      <4>1. blk[c] # NULL /\ use[blk[c]] # "free" /\ pNextFreeEntry[blk[c]] # NULL
        BY <1>1, <3>1 DEF Taking
      <4>. QED  BY <1>1, <1>3, <4>1, TableTypes, ListFacts
    <3>2. \A c \in Context : pc[c] = "taken" =>
              use'[blk[c]] = use[blk[c]] /\ pNextFreeEntry'[blk[c]] = pNextFreeEntry[blk[c]]
      BY <2>1, <2>2, <3>1
    <3>. QED  BY <1>1, <3>2 DEF Taking
  <2>4. Unlinked'
    <3>1. \A f \in Entries : use'[f] # "free" => f # e /\ f # 0 /\ use[f] # "free"
      BY <1>1, <2>2, ListFacts
    <3>. QED  BY <1>1, <2>1, <3>1 DEF Unlinked
  <2>. QED  BY <2>1, <2>2, <2>3, <2>4
<1>. QED  BY <1>2, <1>3

(* txCtrlBlk_Free in any of the places it is called from.                  *)
LEMMA FreedList ==
    ASSUME ListInv, NEW e \in Entries, Complete(e) \/ \E c \in Context : Drop(c, e)
    PROVE  ListInv'
<1>1. use[e] # "free" /\ Free(e) /\ UNCHANGED <<sentToFw, pc, blk, resetEntry>>
  BY DEF Complete, Drop, Queued
<1>2. /\ FreeListed' /\ Taking' /\ Unlinked'
      /\ pNextFreeEntry' \in [Entries -> Entries \cup {NULL}]
      /\ use' \in [Entries -> {"free", "queued", "fw"}]
  BY <1>1, FreeList
<1>3. TableTypeOK'
  BY <1>1, <1>2, TableTypes DEF TableTypeOK, ListInv
<1>. QED  BY <1>2, <1>3 DEF ListInv

LEMMA ResetList == ASSUME ListInv, NotifyFwResetStart PROVE ListInv'
<1>1. resetEntry' = 0 /\ UNCHANGED <<pNextFreeEntry, sentToFw, use, pc, blk>>
  BY DEF NotifyFwResetStart
<1>2. 0 \in 0..(NumEntries - 2)
  BY TableAssumption
<1>3. TableTypeOK'
  BY <1>1, <1>2, TableTypes DEF TableTypeOK, ListInv
<1>. QED  BY <1>1, <1>3 DEF ListInv, FreeListed, Taking, Unlinked

(* What the clean-up frees is in use: of the free entries only the last,   *)
(* which the loop leaves out, could be taken for one of those.             *)
LEMMA FreesUsed ==
    ASSUME ListInv, NotifyFwResetEntry
    PROVE  /\ resetEntry \in Entries /\ resetEntry # LastOne
           /\ TestSentToFw(resetEntry) => use[resetEntry] # "free"
<1>1. TableTypeOK /\ FreeListed /\ resetEntry # NULL
  BY DEF ListInv, NotifyFwResetEntry
<1>2. resetEntry \in 0..(NumEntries - 2)
  BY <1>1, TableTypes
<1>3. resetEntry \in Entries /\ resetEntry # LastOne
  BY <1>2, TableAssumption DEF Entries, LastOne
<1>4. TestSentToFw(resetEntry) => pNextFreeEntry[resetEntry] = NULL
  BY DEF TestSentToFw
<1>. QED  BY <1>1, <1>3, <1>4, ListFacts

LEMMA ResetEntryList == ASSUME ListInv, NotifyFwResetEntry PROVE ListInv'
<1>1. /\ resetEntry # NULL /\ UNCHANGED <<sentToFw, pc, blk>>
      /\ IF TestSentToFw(resetEntry) THEN Free(resetEntry) ELSE UNCHANGED <<pNextFreeEntry, use>>
      /\ resetEntry' = IF resetEntry = NumEntries - 2 THEN NULL ELSE resetEntry + 1
  BY DEF NotifyFwResetEntry, LastEntry
<1>2. TableTypeOK /\ FreeListed /\ Taking /\ Unlinked
  BY DEF ListInv
<1>3. /\ FreeListed' /\ Taking' /\ Unlinked'
      /\ pNextFreeEntry' \in [Entries -> Entries \cup {NULL}]
      /\ use' \in [Entries -> {"free", "queued", "fw"}]
  <2>1. CASE TestSentToFw(resetEntry)
    <3>1. resetEntry \in Entries /\ use[resetEntry] # "free" /\ Free(resetEntry)
      BY <1>1, <2>1, FreesUsed
    <3>. QED  BY <1>1, <3>1, FreeList
  <2>2. CASE ~TestSentToFw(resetEntry)
    <3>1. UNCHANGED <<pNextFreeEntry, use>>
      BY <1>1, <2>2
    <3>. QED  BY <1>1, <1>2, <3>1, TableTypes DEF FreeListed, Taking, Unlinked
  <2>. QED  BY <2>1, <2>2
<1>4. resetEntry' \in 0..(NumEntries - 2) \cup {NULL}
  <2>1. resetEntry \in 0..(NumEntries - 2)
    BY <1>1, <1>2, TableTypes
  <2>. QED  BY <1>1, <2>1, TableAssumption
<1>5. TableTypeOK'
  BY <1>1, <1>2, <1>3, <1>4, TableTypes DEF TableTypeOK
<1>. QED  BY <1>3, <1>5 DEF ListInv

LEMMA ListStep == ASSUME ListInv, [TableNext]_tableVars PROVE ListInv'
<1>1. CASE UNCHANGED tableVars
  BY <1>1 DEF tableVars, ListInv, TableTypeOK, FreeListed, Taking, Unlinked
<1>2. CASE TableNext
  BY <1>2, TakeList, ClearNextList, ClearFlagsList, SendList, FreedList, ResetList, ResetEntryList DEF TableNext
<1>. QED  BY <1>1, <1>2

(* The free list, which starts at entry 0, holds exactly the free blocks   *)
(* however the allocations and frees of the driver's task, the network     *)
(* stack and the clean-up after a recovery interleave: no block is lost    *)
(* and none is in the list twice.                                          *)
THEOREM FreeListHolds == TableSpec => []TableInv
<1>1. TableInit => ListInv
  BY TableInitInv DEF TableIndInv
<1>2. ListInv /\ [TableNext]_tableVars => ListInv'
  BY ListStep
<1>3. ListInv => TableInv
  BY ListIsExact DEF ListInv, TableInv
<1>. QED  BY <1>1, <1>2, <1>3, PTL DEF TableSpec

(* The owners' part, with no packet from the network stack while a         *)
(* recovery ends.                                                          *)
LEMMA TakeStep ==
    ASSUME ~TxDuringReset, TableIndInv, NEW c \in Context, Take(c)
    PROVE  Allocating' /\ Marked' /\ CleanedUp'
<1>. DEFINE e == pNextFreeEntry[0]
<1>1. /\ resetEntry = NULL /\ pc[c] = "idle" /\ blk' = [blk EXCEPT ![c] = e]
      /\ use' = [use EXCEPT ![e] = "queued"] /\ pc' = [pc EXCEPT ![c] = "taken"]
      /\ UNCHANGED <<sentToFw, resetEntry>>
  BY TableAssumption DEF Take, Ready
<1>2. e \in Entries /\ use[e] = "free" /\ TableTypeOK
  BY TakenIsFree DEF TableIndInv, ListInv
<1>. HIDE DEF e
<1>3. /\ \A f \in Entries : f # e => use'[f] = use[f]
      /\ use'[e] = "queued" /\ blk'[c] = e /\ pc'[c] = "taken"
      /\ \A d \in Context : d # c => blk'[d] = blk[d] /\ pc'[d] = pc[d]
  BY <1>1, <1>2, TableTypes
<1>4. Allocating'
  <2>1. \A d \in Context : blk[d] # e
    BY <1>2, <1>2, Ends DEF TableIndInv, Allocating
  <2>2. e # NULL
    BY <1>2, Ends
  <2>3. ASSUME NEW d \in Context
        PROVE  (blk'[d] = NULL <=> pc'[d] = "idle") /\ (blk'[d] # NULL => use'[blk'[d]] = "queued")
    <3>1. CASE d = c
      BY <1>3, <2>2, <3>1
    <3>2. CASE d # c
      <4>1. blk[d] # NULL => blk[d] \in Entries
        BY <1>2, TableTypes
      <4>. QED  BY <1>3, <2>1, <3>2, <4>1 DEF TableIndInv, Allocating
    <3>. QED  BY <3>1, <3>2
  <2>4. ASSUME NEW d \in Context, NEW f \in Context, d # f, blk'[d] = blk'[f] PROVE blk'[d] = NULL
    <3>1. d # c /\ f # c
      BY <1>3, <2>1, <2>4
    <3>. QED  BY <1>3, <2>4, <3>1 DEF TableIndInv, Allocating
  <2>. QED  BY <2>3, <2>4 DEF Allocating
<1>5. Marked'
  <2>. SUFFICES ASSUME NEW f \in Entries
                PROVE  /\ use'[f] = "fw" => sentToFw[f]
                       /\ use'[f] = "queued" => ~sentToFw[f] \/ \E d \in Context : blk'[d] = f
    BY <1>1 DEF Marked
  <2>1. CASE f = e
    BY <1>3, <2>1
  <2>2. CASE f # e
    <3>1. \A d \in Context : blk[d] = f => d # c
      BY <1>1, Ends DEF TableIndInv, Allocating
    <3>. QED  BY <1>3, <2>2, <3>1 DEF TableIndInv, Marked
  <2>. QED  BY <2>1, <2>2
<1>6. CleanedUp'
  BY <1>1 DEF CleanedUp
<1>. QED  BY <1>4, <1>5, <1>6

LEMMA ClearNextStep ==
    ASSUME TableIndInv, NEW c \in Context, ClearNext(c)
    PROVE  Allocating' /\ Marked' /\ CleanedUp'
<1>1. /\ pc[c] = "taken" /\ pc' = [pc EXCEPT ![c] = "unlinked"]
      /\ UNCHANGED <<sentToFw, use, blk, resetEntry>>
  BY DEF ClearNext
<1>2. TableTypeOK /\ Allocating /\ Marked /\ CleanedUp
  BY DEF TableIndInv, ListInv
<1>3. resetEntry = NULL /\ pc'[c] = "unlinked" /\ \A d \in Context : d # c => pc'[d] = pc[d]
  BY <1>1, <1>2, TableTypes DEF CleanedUp
<1>. QED  BY <1>1, <1>2, <1>3 DEF Allocating, Marked, CleanedUp

LEMMA ClearFlagsStep ==
    ASSUME TableIndInv, NEW c \in Context, ClearFlags(c)
    PROVE  Allocating' /\ Marked' /\ CleanedUp'
<1>. DEFINE e == blk[c]
<1>1. /\ pc[c] = "unlinked" /\ sentToFw' = [sentToFw EXCEPT ![e] = FALSE]
      /\ pc' = [pc EXCEPT ![c] = "idle"] /\ blk' = [blk EXCEPT ![c] = NULL]
      /\ UNCHANGED <<pNextFreeEntry, use, resetEntry>>
  BY DEF ClearFlags
<1>2. TableTypeOK /\ Allocating /\ Marked /\ CleanedUp
  BY DEF TableIndInv, ListInv
<1>3. e # NULL /\ e \in Entries /\ use[e] = "queued" /\ resetEntry = NULL
  BY <1>1, <1>2, TableTypes DEF Allocating, CleanedUp
<1>4. /\ sentToFw' \in [Entries -> BOOLEAN] /\ ~sentToFw'[e]
      /\ \A f \in Entries : f # e => sentToFw'[f] = sentToFw[f]
      /\ pc'[c] = "idle" /\ blk'[c] = NULL
      /\ \A d \in Context : d # c => pc'[d] = pc[d] /\ blk'[d] = blk[d]
  BY <1>1, <1>2, <1>3, TableTypes
<1>5. \A f \in Entries, d \in Context : f # e /\ blk[d] = f => d # c
  OBVIOUS
<1>. HIDE DEF e
<1>6. Allocating' /\ CleanedUp'
  BY <1>1, <1>2, <1>3, <1>4 DEF Allocating, CleanedUp
<1>7. Marked'
  BY <1>1, <1>2, <1>3, <1>4, <1>5 DEF Marked
<1>. QED  BY <1>6, <1>7

LEMMA SendStep ==
    ASSUME TableIndInv, NEW e \in Entries, Send(e)
    PROVE  Allocating' /\ Marked' /\ CleanedUp'
<1>1. /\ resetEntry = NULL /\ use[e] = "queued" /\ \A c \in Context : blk[c] # e
      /\ sentToFw' = [sentToFw EXCEPT ![e] = TRUE] /\ use' = [use EXCEPT ![e] = "fw"]
      /\ UNCHANGED <<pc, blk, resetEntry>>
  BY DEF Send, DriverIdle, Queued
<1>2. TableTypeOK /\ Allocating /\ Marked /\ CleanedUp
  BY DEF TableIndInv, ListInv
<1>3. /\ sentToFw'[e] /\ use'[e] = "fw"
      /\ \A f \in Entries : f # e => sentToFw'[f] = sentToFw[f] /\ use'[f] = use[f]
  BY <1>1, <1>2, TableTypes
<1>4. Allocating'
  <2>1. \A c \in Context : blk[c] # NULL => blk[c] \in Entries
    BY <1>2, TableTypes
  <2>. QED  BY <1>1, <1>2, <1>3, <2>1 DEF Allocating
<1>5. Marked' /\ CleanedUp'
  BY <1>1, <1>2, <1>3 DEF Marked, CleanedUp
<1>. QED  BY <1>4, <1>5

(* An entry no context is allocating is given back.                        *)
LEMMA FreeStep ==
    ASSUME TableIndInv, NEW e \in Entries, use[e] # "free", \A c \in Context : blk[c] # e,
           Free(e), UNCHANGED <<sentToFw, pc, blk>>
    PROVE  /\ Allocating' /\ Marked' /\ use'[e] = "free"
           /\ \A f \in Entries : f # e => use'[f] = use[f]
<1>1. TableTypeOK /\ FreeListed /\ Allocating /\ Unlinked /\ Marked
  BY DEF TableIndInv, ListInv
<1>2. pNextFreeEntry[e] = NULL
  BY <1>1 DEF Unlinked
<1>3. use' = [use EXCEPT ![e] = "free"]
  BY <1>2 DEF Free
<1>4. /\ use'[e] = "free"
      /\ \A f \in Entries : f # e => use'[f] = use[f]
  BY <1>1, <1>3, TableTypes
<1>5. Allocating'
  <2>1. \A c \in Context : blk[c] # NULL => blk[c] \in Entries
    BY <1>1, TableTypes
  <2>. QED  BY <1>1, <1>4, <2>1 DEF Allocating
<1>6. Marked'
  BY <1>1, <1>4 DEF Marked
<1>. QED  BY <1>4, <1>5, <1>6

LEMMA CompleteStep ==
    ASSUME TableIndInv, NEW e \in Entries, Complete(e)
    PROVE  Allocating' /\ Marked' /\ CleanedUp'
<1>1. /\ resetEntry = NULL /\ use[e] = "fw" /\ Free(e) /\ UNCHANGED <<sentToFw, pc, blk, resetEntry>>
  BY DEF Complete, DriverIdle
<1>2. \A c \in Context : blk[c] # e
  BY <1>1, Ends DEF TableIndInv, Allocating
<1>3. Allocating' /\ Marked'
  BY <1>1, <1>2, FreeStep
<1>4. CleanedUp'
  BY <1>1 DEF CleanedUp
<1>. QED  BY <1>3, <1>4

LEMMA DropStep ==
    ASSUME ~TxDuringReset, TableIndInv, NEW c \in Context, NEW e \in Entries, Drop(c, e)
    PROVE  Allocating' /\ Marked' /\ CleanedUp'
<1>1. /\ resetEntry = NULL /\ use[e] = "queued" /\ \A d \in Context : blk[d] # e
      /\ Free(e) /\ UNCHANGED <<sentToFw, pc, blk, resetEntry>>
  BY TableAssumption DEF Drop, Ready, Queued
<1>2. Allocating' /\ Marked'
  BY <1>1, FreeStep
<1>3. CleanedUp'
  BY <1>1 DEF CleanedUp
<1>. QED  BY <1>2, <1>3

LEMMA ResetStep ==
    ASSUME ~TxDuringReset, TableIndInv, NotifyFwResetStart
    PROVE  Allocating' /\ Marked' /\ CleanedUp'
<1>1. /\ pc["driver"] = "idle" /\ pc["external"] = "idle" /\ resetEntry' = 0
      /\ UNCHANGED <<pNextFreeEntry, sentToFw, use, pc, blk>>
  BY TableAssumption DEF NotifyFwResetStart, DriverIdle
<1>2. Allocating' /\ Marked'
  BY <1>1 DEF TableIndInv, Allocating, Marked
<1>3. CleanedUp'
  <2>1. \A c \in Context : pc[c] = "idle"
    BY <1>1 DEF Context
  <2>2. \A e \in Entries : ~(e < 0)
    BY TableAssumption DEF Entries
  <2>. QED  BY <1>1, <2>1, <2>2 DEF CleanedUp
<1>. QED  BY <1>2, <1>3

(* Exactly the entries the firmware has are freed as the loop passes them. *)
LEMMA PassedOver ==
    ASSUME TableIndInv, NotifyFwResetEntry
    PROVE  /\ resetEntry \in Entries /\ resetEntry # LastOne
           /\ \A c \in Context : pc[c] = "idle" /\ blk[c] = NULL
           /\ TestSentToFw(resetEntry) <=> use[resetEntry] = "fw"
<1>1. TableTypeOK /\ FreeListed /\ Allocating /\ Unlinked /\ Marked /\ CleanedUp /\ resetEntry # NULL
  BY DEF TableIndInv, ListInv, NotifyFwResetEntry
<1>2. resetEntry \in Entries /\ resetEntry # LastOne
  BY FreesUsed DEF TableIndInv
<1>3. \A c \in Context : pc[c] = "idle" /\ blk[c] = NULL
  BY <1>1 DEF CleanedUp, Allocating
<1>4. TestSentToFw(resetEntry) <=> pNextFreeEntry[resetEntry] = NULL /\ sentToFw[resetEntry]
  BY DEF TestSentToFw
<1>5. CASE use[resetEntry] = "free"
  BY <1>1, <1>2, <1>4, <1>5, <1>3, ListFacts
<1>6. CASE use[resetEntry] = "queued"
  BY <1>1, <1>2, <1>3, <1>4, <1>6, Ends DEF Marked
<1>7. CASE use[resetEntry] = "fw"
  BY <1>1, <1>2, <1>3, <1>4, <1>7 DEF Marked, Unlinked
<1>8. use[resetEntry] \in {"free", "queued", "fw"}
  BY <1>1, <1>2, TableTypes
<1>. QED  BY <1>2, <1>3, <1>5, <1>6, <1>7, <1>8

LEMMA ResetEntryStep ==
    ASSUME TableIndInv, NotifyFwResetEntry
    PROVE  /\ Allocating' /\ Marked' /\ CleanedUp'
           /\ \A e \in Entries : use'[e] = IF e = resetEntry /\ use[e] = "fw" THEN "free" ELSE use[e]
           /\ resetEntry' = NULL => \A e \in Entries : use'[e] # "fw"
<1>. DEFINE r == resetEntry
<1>1. /\ r \in Entries /\ r # LastOne /\ \A c \in Context : pc[c] = "idle" /\ blk[c] = NULL
      /\ TestSentToFw(r) <=> use[r] = "fw"
  BY PassedOver
<1>2. /\ IF TestSentToFw(r) THEN Free(r) ELSE UNCHANGED <<pNextFreeEntry, use>>
      /\ resetEntry' = IF r = NumEntries - 2 THEN NULL ELSE r + 1
      /\ UNCHANGED <<sentToFw, pc, blk>>
  BY DEF NotifyFwResetEntry, LastEntry
<1>3. TableTypeOK /\ FreeListed /\ Allocating /\ Marked /\ CleanedUp /\ r # NULL
  BY DEF TableIndInv, ListInv, NotifyFwResetEntry
<1>4. /\ Allocating' /\ Marked'
      /\ \A e \in Entries : use'[e] = IF e = r /\ use[e] = "fw" THEN "free" ELSE use[e]
  <2>1. CASE use[r] = "fw"
    <3>1. use[r] # "free" /\ Free(r) /\ \A c \in Context : blk[c] # r
      BY <1>1, <1>2, <2>1, Ends
    <3>2. /\ Allocating' /\ Marked' /\ use'[r] = "free"
          /\ \A f \in Entries : f # r => use'[f] = use[f]
      BY <1>1, <1>2, <3>1, FreeStep
    <3>. QED  BY <2>1, <3>2
  <2>2. CASE use[r] # "fw"
    <3>1. UNCHANGED <<pNextFreeEntry, use>>
      BY <1>1, <1>2, <2>2
    <3>. QED  BY <1>2, <1>3, <2>2, <3>1, TableTypes DEF Allocating, Marked
  <2>. QED  BY <2>1, <2>2
<1>5. r \in Nat /\ r <= NumEntries - 2 /\ NumEntries \in Nat /\ NumEntries >= 3
  <2>1. r \in 0..(NumEntries - 2)
    BY <1>3, TableTypes
  <2>. QED  BY <2>1, TableAssumption
<1>. HIDE DEF r
<1>6. \A e \in Entries : e < r \/ e = r => use'[e] # "fw"
  BY <1>3, <1>4 DEF CleanedUp, r
<1>7. CleanedUp'
  <2>1. \A e \in Entries : resetEntry' # NULL /\ e < resetEntry' => e < r \/ e = r
    BY <1>2, <1>5, Ends DEF Entries
  <2>. QED  BY <1>1, <1>2, <1>6, <2>1 DEF CleanedUp
<1>8. resetEntry' = NULL => \A e \in Entries : use'[e] # "fw"
  <2>. SUFFICES ASSUME resetEntry' = NULL, NEW e \in Entries PROVE use'[e] # "fw"
    OBVIOUS
  <2>1. r = NumEntries - 2
    BY <1>2, <1>5 DEF NULL
  <2>2. e < r \/ e = r \/ e = LastOne
    BY <1>5, <2>1 DEF Entries, LastOne
  <2>3. use'[LastOne] # "fw"
    BY <1>1, <1>3, <1>4, ListFacts, Ends
  <2>. QED  BY <1>6, <2>2, <2>3
<1>. QED  BY <1>4, <1>7, <1>8 DEF r

LEMMA TableStep == ASSUME ~TxDuringReset, TableIndInv, [TableNext]_tableVars PROVE TableIndInv'
<1>1. ASSUME UNCHANGED tableVars PROVE Allocating' /\ Marked' /\ CleanedUp'
  BY <1>1 DEF tableVars, TableIndInv, Allocating, Marked, CleanedUp
<1>2. ASSUME NEW c \in Context, Take(c) \/ ClearNext(c) \/ ClearFlags(c)
      PROVE  Allocating' /\ Marked' /\ CleanedUp'
  BY <1>2, TakeStep, ClearNextStep, ClearFlagsStep
<1>3. ASSUME NEW e \in Entries, Send(e) \/ Complete(e) \/ \E c \in Context : Drop(c, e)
      PROVE  Allocating' /\ Marked' /\ CleanedUp'
  <2>1. CASE Send(e)
    BY <2>1, SendStep
  <2>2. CASE Complete(e)
    BY <2>2, CompleteStep
  <2>3. CASE \E c \in Context : Drop(c, e)
    BY <2>3, DropStep
  <2>. QED  BY <1>3, <2>1, <2>2, <2>3
<1>4. ASSUME NotifyFwResetStart PROVE Allocating' /\ Marked' /\ CleanedUp'
  BY <1>4, ResetStep
<1>5. ASSUME NotifyFwResetEntry PROVE Allocating' /\ Marked' /\ CleanedUp'
  BY <1>5, ResetEntryStep
<1>6. Allocating' /\ Marked' /\ CleanedUp'
  BY <1>1, <1>2, <1>3, <1>4, <1>5 DEF TableNext
<1>7. ListInv'
  BY ListStep DEF TableIndInv
<1>. QED  BY <1>6, <1>7 DEF TableIndInv

(* The clean-up after a recovery leaves no block with the firmware and     *)
(* takes none from the driver's queues.                                    *)
THEOREM ResetFreesSent == ~TxDuringReset => (TableSpec => ResetFreesExactlySent)
<1>. SUFFICES ASSUME ~TxDuringReset PROVE TableSpec => ResetFreesExactlySent
  OBVIOUS
<1>. DEFINE Freed == /\ resetEntry # NULL /\ resetEntry' = NULL => \A e \in Entries : use'[e] # "fw"
                     /\ NotifyFwResetEntry =>
                           \A e \in Entries : use[e] = "queued" => use'[e] = "queued"
<1>1. TableInit => TableIndInv
  BY TableInitInv
<1>2. TableIndInv /\ [TableNext]_tableVars => TableIndInv'
  BY TableStep
<1>3. TableIndInv /\ [TableNext]_tableVars => [Freed]_tableVars
  <2>. SUFFICES ASSUME TableIndInv, TableNext PROVE Freed
    OBVIOUS
  <2>1. CASE NotifyFwResetEntry
    <3>1. /\ \A e \in Entries : use'[e] = IF e = resetEntry /\ use[e] = "fw" THEN "free" ELSE use[e]
          /\ resetEntry' = NULL => \A e \in Entries : use'[e] # "fw"
      BY <2>1, ResetEntryStep
    <3>. QED  BY <3>1
  <2>2. CASE ~NotifyFwResetEntry
    <3>1. UNCHANGED resetEntry \/ resetEntry = NULL
      BY <2>2 DEF TableNext, Take, ClearNext, ClearFlags, Send, Complete, Drop, NotifyFwResetStart, DriverIdle
    <3>. QED  BY <2>2, <3>1
  <2>. QED  BY <2>1, <2>2
<1>. QED  BY <1>1, <1>2, <1>3, PTL DEF TableSpec, ResetFreesExactlySent

-----------------------------------------------------------------------------
(* The table provides the pool that its users rely on: every block but the *)
(* list's head.                                                            *)
Lent == INSTANCE CtrlBlkPool WITH CtrlBlk <- Entries \ {0}, use <- [e \in Entries \ {0} |-> use[e]]

LEMMA LentStep == ASSUME ListInv, [TableNext]_tableVars
                  PROVE  [Lent!Next]_([e \in Entries \ {0} |-> use[e]])
<1>. DEFINE Blk  == Entries \ {0}
            lent == [e \in Blk |-> use[e]]
<1>. SUFFICES ASSUME ~UNCHANGED lent, TableNext PROVE Lent!Next
  BY DEF tableVars
<1>0. TableTypeOK /\ FreeListed /\ use \in [Entries -> {"free", "queued", "fw"}]
  BY TableTypes DEF ListInv
<1>1. ASSUME NEW c \in Context, Take(c) PROVE \E b \in Blk : Lent!Alloc(b)
  <2>. DEFINE e == pNextFreeEntry[0]
  <2>1. e \in Blk /\ use[e] = "free"
    BY <1>0, <1>1, TakenIsFree
  <2>2. use' = [use EXCEPT ![e] = "queued"]
    BY <1>1 DEF Take
  <2>. HIDE DEF e
  <2>3. lent[e] = "free" /\ lent' = [lent EXCEPT ![e] = "queued"]
    BY <1>0, <2>1, <2>2
  <2>. QED  BY <2>1, <2>3 DEF Lent!Alloc
<1>2. ASSUME NEW e \in Entries, Send(e) PROVE \E b \in Blk : Lent!Send(b)
  <2>1. use[e] = "queued" /\ use' = [use EXCEPT ![e] = "fw"]
    BY <1>2 DEF Send, Queued
  <2>2. e \in Blk
    BY <1>0, <2>1, ListFacts
  <2>3. lent[e] = "queued" /\ lent' = [lent EXCEPT ![e] = "fw"]
    BY <1>0, <2>1, <2>2
  <2>. QED  BY <2>2, <2>3 DEF Lent!Send
<1>3. ASSUME NEW e \in Entries, Free(e), use[e] # "free"
      PROVE  \E blks \in SUBSET Blk : Lent!Free(blks)
  <2>1. use' = [use EXCEPT ![e] = "free"]
    BY <1>0, <1>3 DEF Free
  <2>2. e \in Blk /\ lent[e] \in {"queued", "fw"}
    BY <1>0, <1>3, ListFacts
  <2>3. lent' = [b \in Blk |-> IF b \in {e} THEN "free" ELSE lent[b]]
    BY <1>0, <2>1, <2>2
  <2>4. Lent!Free({e})
    BY <2>2, <2>3 DEF Lent!Free
  <2>. QED  BY <2>2, <2>4
<1>4. ASSUME NEW e \in Entries, Complete(e) \/ \E c \in Context : Drop(c, e)
      PROVE  Free(e) /\ use[e] # "free"
  BY <1>4 DEF Complete, Drop, Queued
<1>5. ASSUME NotifyFwResetEntry PROVE \E e \in Entries : Free(e) /\ use[e] # "free"
  <2>1. resetEntry \in Entries /\ (TestSentToFw(resetEntry) => use[resetEntry] # "free")
    BY <1>5, FreesUsed
  <2>2. TestSentToFw(resetEntry) /\ Free(resetEntry)
    BY <1>5 DEF NotifyFwResetEntry
  <2>. QED  BY <2>1, <2>2
<1>6. ~ \E c \in Context : ClearNext(c) \/ ClearFlags(c)
  BY DEF ClearNext, ClearFlags
<1>7. ~NotifyFwResetStart
  BY DEF NotifyFwResetStart
<1>. QED  BY <1>1, <1>2, <1>3, <1>4, <1>5, <1>6, <1>7 DEF TableNext, Lent!Next

(* To its users the table is a pool: a block is given to who asks when it  *)
(* is free, and has one owner until it is given back.                      *)
THEOREM TableIsPool == TableSpec => Lent!Spec
<1>1. TableInit => ListInv /\ Lent!Init
  BY TableInitInv DEF TableIndInv, TableInit, Lent!Init
<1>2. ListInv /\ [TableNext]_tableVars => ListInv' /\ [Lent!Next]_([e \in Entries \ {0} |-> use[e]])
  BY ListStep, LentStep
<1>. QED  BY <1>1, <1>2, PTL DEF TableSpec, Lent!Spec
=============================================================================
