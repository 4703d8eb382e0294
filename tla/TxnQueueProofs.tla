---------------------------- MODULE TxnQueueProofs ----------------------------
(***************************************************************************)
(* The scheduler of the bus transactions, proved for every set of          *)
(* transactions, all priorities, aggregations, restarts and failures.      *)
(***************************************************************************)
EXTENDS TxnQueue, FiniteSetTheorems, FunctionTheorems, TLAPS

-----------------------------------------------------------------------------
(* The scheduler runs within a call of the context it is said to run in,   *)
(* and nothing else happens in the driver's task while it waits for a      *)
(* restart.  What the other context reports is a transaction.              *)
OwnContext ==
    /\ bSchedulerBusy => (IF sched.ctx = "drv" THEN pc.drv ELSE pc.ext) = "sched"
    /\ eState = "RESTART" => pc.drv = "restart"
    /\ pc.ext = "txnDone" => pc.done # None

(* What is selected is a transaction, and none is current then.            *)
FreeToSelect ==
    /\ sched.at \in {"transact", "status"} => sched.txn # None
    /\ sched.at \in {"select", "transact"} => pCurrTxn = None

(* Once the scheduler has looked, what becomes selectable comes with a     *)
(* call, which is either yet to be made or noted as pending.               *)
Called == bSchedulerPend \/ "call" \in {pc.drv, pc.ext}

SelectableIsCalled ==
    sched.at \in {"status", "drain", "leave", "off"} /\ pCurrTxn = None /\ Selectable => Called

(* So does what is done after the TxnDone queue has been emptied; and if a *)
(* transaction is current all the same, it is the one that is done.        *)
DoneIsCalled ==
    hTxnDoneQueue # << >> =>
        /\ sched.at \in {"leave", "off"} => Called \/ pc.ext = "free"
        /\ sched.at \in {"check", "leave", "off"} /\ pCurrTxn # None => pc.ext = "free"

(* A transaction that the scheduler leaves behind as the current one is on *)
(* the bus or being reported.                                              *)
Reporting == pc.ext \in {"txnDone", "free"}

CurrentIsCarried ==
    \/ sched.at \in {"check", "drain", "leave", "off"}
    \/ sched.at = "status" /\ eCurrTxnStatus = "PENDING"
    => (pCurrTxn # None => inFlight # None \/ Reporting)

IndInv ==
    /\ TypeOK /\ OwnContext /\ FreeToSelect
    /\ SelectableIsCalled /\ DoneIsCalled /\ CurrentIsCarried

(* If every part of a transaction can be started, the bus is idle but for  *)
(* the current transaction, and reports one that is no longer in flight.   *)
BusIdle == inFlight = None /\ ~Reporting

OneAtATime ==
    /\ pCurrTxn = None => BusIdle
    /\ sched.at = "status" /\ eCurrTxnStatus # "PENDING" => BusIdle
    /\ Reporting => inFlight = None

Singly == failedStarts = 0 => OneAtATime

-----------------------------------------------------------------------------
LEMMA ElementTypes ==
    /\ Txn \subseteq AnyTxn /\ Elp \subseteq AnyTxn /\ None \in AnyTxn
    /\ None \notin Txn /\ None \notin Elp /\ None \notin Prio
    /\ Aggregated \subseteq Txn
BY TxnAssumption DEF AnyTxn

LEMMA HeadTail ==
    ASSUME NEW S, NEW s \in Seq(S), s # << >>
    PROVE  Head(s) \in S /\ Tail(s) \in Seq(S)
OBVIOUS

(* The fields that a step of the scheduler or of a context changes.        *)
At == {"off", "check", "select", "transact", "status", "drain", "leave"}
Rc == {"COMPLETE", "PENDING", "ERROR"}

LEMMA SchedFields ==
    ASSUME NEW s \in SchedType
    PROVE  /\ s.at \in At /\ s.ctx \in {"drv", "ext"} /\ s.rc \in Rc
           /\ s.input \in AnyTxn /\ s.txn \in AnyTxn
BY DEF SchedType, At, Rc

LEMMA SchedAt ==
    ASSUME NEW s \in SchedType, NEW p \in At, NEW s1, s1 = [s EXCEPT !.at = p]
    PROVE  s1 \in SchedType /\ s1.at = p /\ s1.ctx = s.ctx /\ s1.txn = s.txn
BY DEF SchedType, At

LEMMA SchedAgain ==
    ASSUME NEW s \in SchedType, NEW s1, s1 = [s EXCEPT !.at = "check", !.input = None, !.txn = None]
    PROVE  s1 \in SchedType /\ s1.at = "check" /\ s1.ctx = s.ctx
BY DEF SchedType, AnyTxn

LEMMA SchedOff == SchedulerOff \in SchedType
BY DEF SchedulerOff, SchedType, AnyTxn

LEMMA PcFields ==
    ASSUME NEW q \in PcType, NEW t \in AnyTxn,
           NEW d \in {"idle", "call", "sched", "restart"},
           NEW e \in {"idle", "txnDone", "free", "call", "sched"}
    PROVE  /\ [q EXCEPT !.drv = d] \in PcType
           /\ [q EXCEPT !.drv = d, !.input = t] \in PcType
           /\ [q EXCEPT !.ext = e] \in PcType
           /\ [q EXCEPT !.ext = e, !.done = t] \in PcType
           /\ [q EXCEPT !.ext = e, !.done = t, !.drv = d] \in PcType
           /\ q.drv \in {"idle", "call", "sched", "restart"}
           /\ q.ext \in {"idle", "txnDone", "free", "call", "sched"}
           /\ q.input \in AnyTxn /\ q.done \in AnyTxn
BY DEF PcType

LEMMA InitInv == Init => IndInv /\ OneAtATime
<1>. SUFFICES ASSUME Init PROVE IndInv /\ OneAtATime
  OBVIOUS
<1>. USE ElementTypes DEF Init, SchedulerOff, bSchedulerBusy
<1>1. TypeOK
  <2>1. /\ [p \in Prio |-> << >>] \in [Prio -> Seq(Txn)]
        /\ [t \in Txn |-> << >>] \in [Txn -> Seq(Aggregated)]
    OBVIOUS
  <2>2. sched \in SchedType /\ pc \in PcType
    BY SchedOff DEF PcType
  <2>3. /\ << >> \in Seq(Txn \cup Elp) /\ << >> \in Seq(Aggregated)
        /\ restarts \in 0..MaxRestarts /\ failedStarts \in 0..MaxFailedStarts
    BY TxnAssumption
  <2>. QED  BY <2>1, <2>2, <2>3 DEF TypeOK
<1>2. OwnContext /\ FreeToSelect /\ DoneIsCalled /\ CurrentIsCarried /\ OneAtATime
  BY DEF OwnContext, FreeToSelect, DoneIsCalled, CurrentIsCarried, OneAtATime, BusIdle, Reporting
<1>3. SelectableIsCalled
  BY DEF SelectableIsCalled, Selectable, Waiting
<1>. QED  BY <1>1, <1>2, <1>3 DEF IndInv

-----------------------------------------------------------------------------
(* The steps of the scheduler.  Each leaves the types as they are; and     *)
(* what remains of the invariant is named for short.                       *)
Wiring == OwnContext /\ FreeToSelect /\ SelectableIsCalled /\ DoneIsCalled /\ CurrentIsCarried

LEMMA SelectNothingInv ==
    ASSUME IndInv, Select, SelectNothing
    PROVE  IndInv'
<1>1. /\ sched.at = "select" /\ sched' = [sched EXCEPT !.at = "drain"]
      /\ UNCHANGED <<eState, aTxnQueues, pSingleStep, pAggregQueue, hTxnDoneQueue, pCurrTxn, bSchedulerPend>>
      /\ UNCHANGED <<busvars, pc, cltvars>>
  BY DEF Select, SelectNothing
<1>2. sched \in SchedType /\ TypeOK
  BY DEF IndInv, TypeOK
<1>3. ~Selectable
  <2>1. sched'.at = "drain"
    BY <1>1, <1>2 DEF SchedType
  <2>2. \A p \in Prio : ~SelectFromQueue(p)
    BY <1>2, <2>1 DEF SelectFromQueue, SchedType
  <2>3. [sched EXCEPT !.at = "transact", !.txn = pSingleStep].at = "transact"
    BY <1>2 DEF SchedType
  <2>4. Waiting \subseteq Prio /\ (IF 0 \in Waiting THEN 0 ELSE 1) \in Prio
    BY DEF Waiting, Prio
  <2>5. \/ pAggregQueue # None /\ pAggregQueue \notin Waiting
        \/ pAggregQueue = None /\ pSingleStep = None /\ (eState # "RUNNING" \/ Waiting = {})
    BY <2>1, <2>2, <2>3, <2>4 DEF Select, SelectTxn
  <2>. QED  BY <2>5 DEF Selectable
<1>4. TypeOK'
  <2>1. sched' \in SchedType
    BY <1>1, <1>2, SchedAt DEF At
  <2>. QED  BY <1>1, <1>2, <2>1 DEF TypeOK, busvars, cltvars, bSchedulerBusy
<1>5. Wiring'
  BY <1>1, <1>2, <1>3 DEF IndInv, Wiring, busvars, cltvars, bSchedulerBusy, SchedType, OwnContext, FreeToSelect,
     SelectableIsCalled, DoneIsCalled, CurrentIsCarried, Selectable, Waiting, Called, Reporting
<1>. QED  BY <1>4, <1>5 DEF IndInv, Wiring

LEMMA SelectOneInv ==
    ASSUME IndInv, Select, ~SelectNothing
    PROVE  IndInv'
<1>1. sched \in SchedType /\ TypeOK /\ sched.at = "select"
  BY DEF IndInv, TypeOK, Select
<1>2. ASSUME NEW p \in Prio, p \in Waiting, SelectFromQueue(p)
      PROVE  /\ aTxnQueues' \in [Prio -> Seq(Txn)]
             /\ \E t \in Txn : sched' = [sched EXCEPT !.at = "transact", !.txn = t]
  BY <1>1, <1>2, HeadTail DEF SelectFromQueue, Waiting, TypeOK
<1>3. Waiting \subseteq Prio /\ (Waiting # {} => (IF 0 \in Waiting THEN 0 ELSE 1) \in Waiting)
  BY DEF Waiting, Prio
<1>4. \/ \E p \in Waiting : SelectFromQueue(p) /\ UNCHANGED pSingleStep
      \/ /\ pSingleStep # None /\ sched' = [sched EXCEPT !.at = "transact", !.txn = pSingleStep]
         /\ pSingleStep' = None /\ UNCHANGED aTxnQueues
  BY <1>3 DEF Select, SelectTxn
<1>5. pAggregQueue' \in Prio \cup {None}
  BY <1>1, <1>3 DEF Select, SelectTxn, CloseAggregation, TypeOK
<1>6. PICK t \in Txn \cup Elp : sched' = [sched EXCEPT !.at = "transact", !.txn = t]
  BY <1>1, <1>2, <1>3, <1>4 DEF TypeOK
<1>7. aTxnQueues' \in [Prio -> Seq(Txn)] /\ pSingleStep' \in Elp \cup {None}
  BY <1>1, <1>2, <1>3, <1>4 DEF TypeOK
<1>8. TypeOK'
  <2>1. sched' \in SchedType /\ sched'.at = "transact"
    <3>1. t \in AnyTxn
      BY ElementTypes
    <3>2. sched \in SchedType /\ sched' = [sched EXCEPT !.at = "transact", !.txn = t]
      BY <1>1, <1>6
    <3>. QED  BY <3>1, <3>2 DEF SchedType
  <2>. QED  BY <1>1, <1>5, <1>7, <2>1 DEF Select, TypeOK, busvars, cltvars, bSchedulerBusy
<1>9. Wiring'
  BY <1>1, <1>6, ElementTypes DEF Select, IndInv, Wiring, busvars, bSchedulerBusy, SchedType, OwnContext,
     FreeToSelect, SelectableIsCalled, DoneIsCalled, CurrentIsCarried
<1>. QED  BY <1>8, <1>9 DEF IndInv, Wiring

LEMMA SchedulerInv ==
    ASSUME IndInv, Scheduler
    PROVE  IndInv'
<1>. USE ElementTypes DEF bSchedulerBusy
<1>0. sched \in SchedType /\ pc \in PcType /\ TypeOK /\ Wiring
  BY DEF IndInv, TypeOK, Wiring
<1>1. CASE RunAgain
  <2>1. sched' \in SchedType
    BY <1>0, <1>1, SchedAgain DEF RunAgain
  <2>2. TypeOK'
    BY <1>0, <1>1, <2>1 DEF RunAgain, TypeOK, busvars, cltvars
  <2>3. Wiring'
    BY <1>0, <1>1 DEF RunAgain, busvars, SchedType, Wiring, OwnContext, FreeToSelect, SelectableIsCalled,
       DoneIsCalled, CurrentIsCarried, Called, Reporting
  <2>. QED  BY <2>2, <2>3 DEF IndInv, Wiring
<1>2. CASE Leave
  <2>1. pc' \in PcType /\ sched.ctx \in {"drv", "ext"}
    BY <1>0, <1>2, SchedFields, PcFields DEF Leave, Returned
  <2>2. TypeOK'
    BY <1>0, <1>2, <2>1, SchedOff DEF Leave, MayLeave, TypeOK, txnqvars, busvars
  <2>3. ~bSchedulerPend /\ sched.at = "leave" /\ sched'.at = "off"
    BY <1>2 DEF Leave, MayLeave, SchedulerOff
  <2>4. /\ "call" \in {pc.drv, pc.ext} => "call" \in {pc'.drv, pc'.ext}
        /\ pc.ext \in {"txnDone", "free"} => pc'.ext = pc.ext
        /\ pc'.ext \in {pc.ext, "idle"} /\ pc'.done = pc.done
        /\ eState = "RESTART" => pc'.drv = "restart"
    BY <1>0, <1>2, <2>1 DEF Leave, MayLeave, Returned, PcType, Wiring, OwnContext
  <2>5. Wiring'
    BY <1>0, <1>2, <2>3, <2>4 DEF Leave, txnqvars, busvars, Wiring, OwnContext, FreeToSelect, SelectableIsCalled,
       DoneIsCalled, CurrentIsCarried, Called, Reporting, Selectable, Waiting
  <2>. QED  BY <2>2, <2>5 DEF IndInv, Wiring
<1>3. CASE Check
  <2>1. sched' \in SchedType /\ sched'.at # "off"
    <3>1. AfterCheck \in {"leave", "select"}
      BY DEF AfterCheck
    <3>. QED  BY <1>0, <1>3, <3>1, SchedAt DEF Check, At
  <2>2. TypeOK'
    BY <1>0, <1>3, <2>1 DEF Check, TypeOK, txnqvars, busvars, cltvars
  <2>3. Wiring'
    BY <1>0, <1>3 DEF Check, AfterCheck, txnqvars, busvars, SchedType, Wiring, OwnContext, FreeToSelect,
       SelectableIsCalled, DoneIsCalled, CurrentIsCarried, Called, Reporting, Selectable, Waiting
  <2>. QED  BY <2>2, <2>3 DEF IndInv, Wiring
<1>4. CASE Transact
  <2>0. sched' = [sched EXCEPT !.at = "status"]
    BY <1>4 DEF Transact
  <2>1. /\ sched' \in SchedType /\ sched'.at = "status"
        /\ sched'.ctx = sched.ctx /\ sched'.txn = sched.txn
    BY <1>0, <2>0, SchedAt DEF At
  <2>2. /\ pCurrTxn' \in AnyTxn /\ pCurrTxn' # None
        /\ eCurrTxnStatus' = "PENDING" => inFlight' # None
        /\ eCurrTxnStatus' \in {"COMPLETE", "PENDING", "ERROR"}
        /\ partsLeft' \in {0, 1} /\ inFlight' \in Txn \cup {None}
    <3>1. sched.txn \in AnyTxn /\ sched.txn # None
      BY <1>0, <1>4, SchedFields DEF Transact, Wiring, FreeToSelect
    <3>2. \/ eCurrTxnStatus' \in {"COMPLETE", "ERROR"} /\ UNCHANGED <<partsLeft, inFlight>>
          \/ eCurrTxnStatus' = "PENDING" /\ inFlight' = sched.txn /\ partsLeft' \in {0, 1}
             /\ sched.txn \in Txn
      BY <1>4 DEF Transact
    <3>3. pCurrTxn' = sched.txn /\ partsLeft \in {0, 1} /\ inFlight \in Txn \cup {None}
      BY <1>0, <1>4 DEF Transact, TypeOK
    <3>. QED  BY <3>1, <3>2, <3>3
  <2>3. uTxnLength' \in Seq(Aggregated)
    BY <1>0, <1>4 DEF Transact, TypeOK
  <2>4. TypeOK'
    BY <1>0, <1>4, <2>1, <2>2, <2>3 DEF Transact, TypeOK, cltvars
  <2>5. Wiring'
    BY <1>0, <1>4, <2>1, <2>2 DEF Transact, SchedType, Wiring, OwnContext, FreeToSelect, SelectableIsCalled,
       DoneIsCalled, CurrentIsCarried
  <2>. QED  BY <2>4, <2>5 DEF IndInv, Wiring
<1>5. CASE Status
  <2>1. /\ sched' \in SchedType
        /\ eCurrTxnStatus = "PENDING" => sched'.at = "drain" /\ UNCHANGED <<pCurrTxn, hTxnDoneQueue>>
        /\ eCurrTxnStatus # "PENDING" => sched'.at = "select" /\ pCurrTxn' = None
        /\ sched'.ctx = sched.ctx
    <3>1. CASE eCurrTxnStatus = "PENDING"
      <4>1. sched' = [sched EXCEPT !.at = "drain", !.txn = None]
        BY <1>5, <3>1 DEF Status
      <4>2. sched' \in SchedType /\ sched'.at = "drain" /\ sched'.ctx = sched.ctx
        BY <1>0, <4>1 DEF SchedType
      <4>. QED  BY <1>5, <3>1, <4>2 DEF Status
    <3>2. CASE eCurrTxnStatus # "PENDING"
      <4>1. PICK r \in Rc :
               sched' = [sched EXCEPT !.at = "select", !.txn = None, !.rc = r]
        <5>1. sched.rc \in Rc /\ eCurrTxnStatus \in Rc
          BY <1>0, SchedFields DEF TypeOK, Rc
        <5>. QED  BY <1>5, <3>2, <5>1 DEF Status
      <4>2. sched' \in SchedType /\ sched'.at = "select" /\ sched'.ctx = sched.ctx
        BY <1>0, <4>1 DEF SchedType, Rc
      <4>. QED  BY <1>5, <3>2, <4>2 DEF Status
    <3>. QED  BY <3>1, <3>2
  <2>2. pCurrTxn' \in AnyTxn /\ hTxnDoneQueue' \in Seq(Txn \cup Elp)
    <3>1. sched.txn \in Txn \cup Elp
      BY <1>0, <1>5, SchedFields DEF AnyTxn, Status, Wiring, FreeToSelect
    <3>2. /\ pCurrTxn' \in {pCurrTxn, None}
          /\ hTxnDoneQueue' \in {hTxnDoneQueue, Append(hTxnDoneQueue, sched.txn)}
      BY <1>5 DEF Status
    <3>3. pCurrTxn \in AnyTxn /\ hTxnDoneQueue \in Seq(Txn \cup Elp)
      BY <1>0 DEF TypeOK
    <3>. QED  BY <3>1, <3>2, <3>3
  <2>3. TypeOK'
    BY <1>0, <1>5, <2>1, <2>2 DEF Status, TypeOK, busvars, cltvars
  <2>4. Wiring'
    BY <1>0, <1>5, <2>1 DEF Status, busvars, Wiring, OwnContext, FreeToSelect, SelectableIsCalled,
       DoneIsCalled, CurrentIsCarried, Called, Reporting, Selectable, Waiting
  <2>. QED  BY <2>3, <2>4 DEF IndInv, Wiring
<1>6. CASE Drain
  <2>1. /\ sched' \in SchedType /\ sched'.at # "off" /\ sched'.ctx = sched.ctx
        /\ hTxnDoneQueue' \in Seq(Txn \cup Elp) /\ issued' \subseteq issued
        /\ sched'.at = "leave" => hTxnDoneQueue' = << >>
        /\ sched'.at \in {"drain", "leave"}
    <3>1. CASE hTxnDoneQueue = << >>
      <4>1. sched' = [sched EXCEPT !.at = "leave"] /\ UNCHANGED <<hTxnDoneQueue, issued>>
        BY <1>6, <3>1 DEF Drain
      <4>2. sched' \in SchedType /\ sched'.at = "leave" /\ sched'.ctx = sched.ctx
        BY <1>0, <4>1, SchedAt DEF At
      <4>. QED  BY <1>0, <3>1, <4>1, <4>2 DEF TypeOK
    <3>2. CASE hTxnDoneQueue # << >>
      <4>1. hTxnDoneQueue' = Tail(hTxnDoneQueue) /\ issued' \subseteq issued /\ UNCHANGED sched
            /\ sched.at = "drain"
        BY <1>6, <3>2 DEF Drain
      <4>2. hTxnDoneQueue \in Seq(Txn \cup Elp)
        BY <1>0 DEF TypeOK
      <4>. QED  BY <1>0, <3>2, <4>1, <4>2, HeadTail
    <3>. QED  BY <3>1, <3>2
  <2>2. TypeOK'
    BY <1>0, <1>6, <2>1 DEF Drain, TypeOK, busvars
  <2>3. Wiring'
    BY <1>0, <1>6, <2>1 DEF Drain, busvars, Wiring, OwnContext, FreeToSelect, SelectableIsCalled,
       DoneIsCalled, CurrentIsCarried, Called, Reporting, Selectable, Waiting
  <2>. QED  BY <2>2, <2>3 DEF IndInv, Wiring
<1>. QED  BY <1>1, <1>2, <1>3, <1>4, <1>5, <1>6, SelectNothingInv, SelectOneInv DEF Scheduler

-----------------------------------------------------------------------------
(* The calls of the scheduler, the bus and the client.                     *)
LEMMA CallsInv ==
    ASSUME IndInv, NEW c \in {"drv", "ext"}, CallBusy(c) \/ Call(c)
    PROVE  IndInv'
<1>. USE ElementTypes DEF bSchedulerBusy
<1>0. sched \in SchedType /\ pc \in PcType /\ TypeOK /\ Wiring
  BY DEF IndInv, TypeOK, Wiring
<1>1. CASE CallBusy(c)
  <2>1. /\ pc' \in PcType
        /\ bSchedulerPend' /\ sched.at # "off"
        /\ c = "drv" => pc.drv = "call" /\ pc'.drv = "idle" /\ pc'.ext = pc.ext /\ pc'.done = pc.done
        /\ c = "ext" => pc.ext = "call" /\ pc'.ext = "idle" /\ pc'.drv = pc.drv
        /\ pc'.done = pc.done
    <3>1. CASE c = "drv"
      <4>1. pc' = [pc EXCEPT !.drv = "idle", !.input = None] /\ pc.drv = "call"
        BY <1>1, <3>1 DEF CallBusy, Returned
      <4>. QED  BY <1>0, <1>1, <3>1, <4>1 DEF CallBusy, PendCall, PcType
    <3>2. CASE c = "ext"
      <4>1. pc' = [pc EXCEPT !.ext = "idle"] /\ pc.ext = "call"
        BY <1>1, <3>2 DEF CallBusy, Returned
      <4>. QED  BY <1>0, <1>1, <3>2, <4>1 DEF CallBusy, PendCall, PcType
    <3>. QED  BY <3>1, <3>2
  <2>2. TypeOK'
    BY <1>0, <1>1, <2>1 DEF CallBusy, PendCall, TypeOK, busvars, cltvars
  <2>3. Wiring'
    BY <1>0, <1>1, <2>1 DEF CallBusy, busvars, SchedType, Wiring, OwnContext, FreeToSelect, SelectableIsCalled,
       DoneIsCalled, CurrentIsCarried, Called, Reporting
  <2>. QED  BY <2>2, <2>3 DEF IndInv, Wiring
<1>2. CASE Call(c)
  <2>1. /\ sched' \in SchedType /\ sched.at = "off" /\ sched'.at = "check" /\ sched'.ctx = c
        /\ pc' \in PcType
        /\ c = "drv" => pc.drv = "call" /\ pc'.drv = "sched" /\ pc'.ext = pc.ext
        /\ c = "ext" => pc.ext = "call" /\ pc'.ext = "sched" /\ pc'.drv = pc.drv
        /\ pc'.done = pc.done
    <3>1. /\ sched.at = "off"
          /\ sched' = [at |-> "check", ctx |-> c, input |-> IF c = "drv" THEN pc.input ELSE None,
                       txn |-> None, rc |-> "PENDING"]
      BY <1>2 DEF Call
    <3>2. sched' \in SchedType /\ sched'.at = "check" /\ sched'.ctx = c
      BY <1>0, <3>1, PcFields DEF SchedType
    <3>3. CASE c = "drv"
      <4>1. pc' = [pc EXCEPT !.drv = "sched"] /\ pc.drv = "call"
        BY <1>2, <3>3 DEF Call
      <4>. QED  BY <1>0, <3>1, <3>2, <3>3, <4>1 DEF PcType
    <3>4. CASE c = "ext"
      <4>1. pc' = [pc EXCEPT !.ext = "sched"] /\ pc.ext = "call"
        BY <1>2, <3>4 DEF Call
      <4>. QED  BY <1>0, <3>1, <3>2, <3>4, <4>1 DEF PcType
    <3>. QED  BY <3>3, <3>4
  <2>2. TypeOK'
    BY <1>0, <1>2, <2>1 DEF Call, TypeOK, txnqvars, busvars, cltvars
  <2>3. Wiring'
    BY <1>0, <1>2, <2>1 DEF Call, txnqvars, busvars, Wiring, OwnContext, FreeToSelect, SelectableIsCalled,
       DoneIsCalled, CurrentIsCarried, Called, Reporting
  <2>. QED  BY <2>2, <2>3 DEF IndInv, Wiring
<1>. QED  BY <1>1, <1>2

LEMMA BusInv ==
    ASSUME IndInv, PartDone \/ TxnDone
    PROVE  IndInv'
<1>. USE ElementTypes DEF bSchedulerBusy
<1>0. pc \in PcType /\ TypeOK /\ Wiring
  BY DEF IndInv, TypeOK, Wiring
<1>1. CASE PartDone
  <2>1. /\ pc' \in PcType /\ pc.ext = "idle" /\ pc'.drv = pc.drv
        /\ \/ inFlight' # None /\ pc' = pc
           \/ pc'.ext = "txnDone" /\ pc'.done # None
    <3>1. inFlight \in AnyTxn
      BY <1>0 DEF TypeOK, AnyTxn
    <3>2. /\ inFlight # None /\ pc.ext = "idle"
          /\ \/ inFlight' # None /\ pc' = pc
             \/ pc' = [pc EXCEPT !.ext = "txnDone", !.done = inFlight]
      BY <1>1 DEF PartDone
    <3>3. CASE pc' = pc
      BY <1>0, <1>1, <3>2, <3>3 DEF PartDone, PcType
    <3>4. CASE pc' = [pc EXCEPT !.ext = "txnDone", !.done = inFlight]
      BY <1>0, <3>1, <3>2, <3>4 DEF PcType
    <3>. QED  BY <3>2, <3>3, <3>4
  <2>2. /\ eCurrTxnStatus' \in {"COMPLETE", "PENDING", "ERROR"} /\ partsLeft' \in {0, 1}
        /\ inFlight' \in Txn \cup {None} /\ failedStarts' \in 0..MaxFailedStarts
    <3>1. /\ failedStarts \in 0..MaxFailedStarts /\ MaxFailedStarts \in Nat
          /\ partsLeft \in {0, 1} /\ inFlight \in Txn \cup {None}
          /\ eCurrTxnStatus \in {"COMPLETE", "PENDING", "ERROR"}
      BY <1>0, TxnAssumption DEF TypeOK
    <3>. QED  BY <1>1, <3>1 DEF PartDone
  <2>3. TypeOK'
    BY <1>0, <1>1, <2>1, <2>2 DEF PartDone, TypeOK, txnqvars, cltvars
  <2>4. Wiring'
    BY <1>0, <1>1, <2>1 DEF PartDone, txnqvars, Wiring, OwnContext, FreeToSelect, SelectableIsCalled,
       DoneIsCalled, CurrentIsCarried, Called, Reporting, Selectable, Waiting
  <2>. QED  BY <2>3, <2>4 DEF IndInv, Wiring
<1>2. CASE TxnDoneCb
  <2>1. /\ pc' \in PcType /\ pc.ext = "txnDone" /\ pc'.ext = "free" /\ pc'.drv = pc.drv
    BY <1>0, <1>2 DEF TxnDoneCb, PcType
  <2>2. hTxnDoneQueue' \in Seq(Txn \cup Elp)
    <3>1. pc.done \in Txn \cup Elp
      BY <1>0, <2>1, PcFields DEF Wiring, OwnContext, AnyTxn
    <3>2. hTxnDoneQueue \in Seq(Txn \cup Elp)
      BY <1>0 DEF TypeOK
    <3>. QED  BY <1>2, <3>1, <3>2 DEF TxnDoneCb
  <2>3. TypeOK'
    BY <1>0, <1>2, <2>1, <2>2 DEF TxnDoneCb, TypeOK, busvars, cltvars
  <2>4. Wiring'
    BY <1>0, <1>2, <2>1 DEF TxnDoneCb, busvars, Wiring, OwnContext, FreeToSelect, SelectableIsCalled,
       DoneIsCalled, CurrentIsCarried, Called, Reporting, Selectable, Waiting
  <2>. QED  BY <2>3, <2>4 DEF IndInv, Wiring
<1>3. CASE RestartDone
  <2>1. /\ pc' \in PcType /\ pc.ext = "txnDone" /\ pc'.ext = "free"
        /\ pc.drv = "restart" /\ pc'.drv = "idle"
    BY <1>0, <1>3 DEF RestartDone, PcType, Wiring, OwnContext
  <2>2. TypeOK' /\ ~Selectable'
    BY <1>0, <1>3, <2>1 DEF RestartDone, ClearQueues, TypeOK, busvars, Selectable, Waiting
  <2>3. Wiring'
    BY <1>0, <1>3, <2>1, <2>2 DEF RestartDone, ClearQueues, busvars, Wiring, OwnContext, FreeToSelect,
       SelectableIsCalled, DoneIsCalled, CurrentIsCarried, Called, Reporting
  <2>. QED  BY <2>2, <2>3 DEF IndInv, Wiring
<1>4. CASE BusFree
  <2>1. /\ pc' \in PcType /\ pc.ext = "free" /\ pc'.ext = "call" /\ pc'.drv = pc.drv
    BY <1>0, <1>4 DEF BusFree, PcType
  <2>2. TypeOK'
    BY <1>0, <1>4, <2>1 DEF BusFree, TypeOK, busvars, cltvars
  <2>3. Wiring'
    BY <1>0, <1>4, <2>1 DEF BusFree, busvars, Wiring, OwnContext, FreeToSelect,
       SelectableIsCalled, DoneIsCalled, CurrentIsCarried, Called
  <2>. QED  BY <2>2, <2>3 DEF IndInv, Wiring
<1>. QED  BY <1>1, <1>2, <1>3, <1>4 DEF TxnDone

LEMMA ClientInv ==
    ASSUME IndInv,
           \/ \E t \in Txn : TransactRegular(t)
           \/ \E t \in Elp : TransactSingleStep(t)
           \/ Run \/ Stop \/ Restart \/ RestartTimeout
    PROVE  IndInv'
<1>. USE ElementTypes DEF bSchedulerBusy
<1>0. pc \in PcType /\ TypeOK /\ Wiring
  BY DEF IndInv, TypeOK, Wiring
<1>1. ASSUME NEW t \in AnyTxn, pc.drv = "idle", ClientCalls(t)
      PROVE  pc' \in PcType /\ pc'.drv = "call" /\ pc'.ext = pc.ext /\ pc'.done = pc.done
  BY <1>0, <1>1 DEF ClientCalls, PcType
<1>2. ASSUME NEW t \in Txn, TransactRegular(t)
      PROVE  IndInv'
  <2>1. pc.drv = "idle" /\ pc' \in PcType /\ pc'.drv = "call" /\ pc'.ext = pc.ext /\ pc'.done = pc.done
    BY <1>1, <1>2 DEF TransactRegular
  <2>2. /\ aTxnQueues' \in [Prio -> Seq(Txn)]
        /\ inTurn' \in Seq(Aggregated) /\ aggregate' \in [Txn -> Seq(Aggregated)]
    <3>1. /\ aTxnQueues \in [Prio -> Seq(Txn)] /\ inTurn \in Seq(Aggregated)
          /\ aggregate \in [Txn -> Seq(Aggregated)] /\ prio[t] \in Prio
      BY <1>0, TxnAssumption DEF TypeOK
    <3>2. Append(aTxnQueues[prio[t]], t) \in Seq(Txn)
      BY <3>1
    <3>3. inTurn' \in Seq(Aggregated)
      BY <1>2, <3>1 DEF TransactRegular
    <3>. QED  BY <1>2, <3>1, <3>2, <3>3 DEF TransactRegular
  <2>3. TypeOK'
    BY <1>0, <1>2, <2>1, <2>2 DEF TransactRegular, TypeOK, busvars
  <2>4. Wiring'
    BY <1>0, <1>2, <2>1 DEF TransactRegular, busvars, Wiring, OwnContext, FreeToSelect,
       SelectableIsCalled, DoneIsCalled, CurrentIsCarried, Called, Reporting
  <2>. QED  BY <2>3, <2>4 DEF IndInv, Wiring
<1>3. ASSUME NEW t \in Elp, TransactSingleStep(t)
      PROVE  IndInv'
  <2>1. pc.drv = "idle" /\ pc' \in PcType /\ pc'.drv = "call" /\ pc'.ext = pc.ext /\ pc'.done = pc.done
    BY <1>1, <1>3 DEF TransactSingleStep
  <2>2. TypeOK'
    BY <1>0, <1>3, <2>1 DEF TransactSingleStep, TypeOK, busvars
  <2>3. Wiring'
    BY <1>0, <1>3, <2>1 DEF TransactSingleStep, busvars, Wiring, OwnContext, FreeToSelect,
       SelectableIsCalled, DoneIsCalled, CurrentIsCarried, Called, Reporting
  <2>. QED  BY <2>2, <2>3 DEF IndInv, Wiring
<1>4. CASE Run
  <2>1. pc.drv = "idle" /\ pc' \in PcType /\ pc'.drv = "call" /\ pc'.ext = pc.ext /\ pc'.done = pc.done
    BY <1>1, <1>4 DEF Run
  <2>2. TypeOK'
    BY <1>0, <1>4, <2>1 DEF Run, TypeOK, busvars, cltvars
  <2>3. Wiring'
    BY <1>0, <1>4, <2>1 DEF Run, busvars, Wiring, OwnContext, FreeToSelect,
       SelectableIsCalled, DoneIsCalled, CurrentIsCarried, Called, Reporting
  <2>. QED  BY <2>2, <2>3 DEF IndInv, Wiring
<1>5. CASE Stop
  <2>1. TypeOK' /\ (Selectable' => Selectable)
    BY <1>0, <1>5 DEF Stop, TypeOK, busvars, cltvars, Selectable, Waiting
  <2>2. Wiring'
    BY <1>0, <1>5, <2>1 DEF Stop, busvars, Wiring, OwnContext, FreeToSelect,
       SelectableIsCalled, DoneIsCalled, CurrentIsCarried, Called, Reporting
  <2>. QED  BY <2>1, <2>2 DEF IndInv, Wiring
<1>9. ASSUME Restart PROVE restarts' \in 0..MaxRestarts
  <2>1. restarts \in 0..MaxRestarts /\ MaxRestarts \in Nat
    BY <1>0, TxnAssumption DEF TypeOK
  <2>. QED  BY <1>9, <2>1 DEF Restart
<1>6. CASE Restart /\ pCurrTxn = None
  <2>0. ClearQueues /\ UNCHANGED <<pc, sched, busvars>>
    BY <1>6 DEF Restart
  <2>1. TypeOK' /\ ~Selectable'
    BY <1>0, <1>6, <1>9, <2>0 DEF ClearQueues, TypeOK, busvars, Selectable, Waiting
  <2>2. Wiring'
    BY <1>0, <1>6, <2>1 DEF Restart, ClearQueues, busvars, Wiring, OwnContext, FreeToSelect,
       SelectableIsCalled, DoneIsCalled, CurrentIsCarried, Called, Reporting
  <2>. QED  BY <2>1, <2>2 DEF IndInv, Wiring
<1>7. CASE Restart /\ pCurrTxn # None
  <2>1. pc.drv = "idle" /\ pc' \in PcType /\ pc'.drv = "restart" /\ pc'.ext = pc.ext /\ pc'.done = pc.done
    BY <1>0, <1>7 DEF Restart, PcType
  <2>2. TypeOK'
    BY <1>0, <1>7, <1>9, <2>1 DEF Restart, TypeOK, busvars
  <2>3. Wiring'
    BY <1>0, <1>7, <2>1 DEF Restart, busvars, Wiring, OwnContext, FreeToSelect,
       SelectableIsCalled, DoneIsCalled, CurrentIsCarried, Called, Reporting
  <2>. QED  BY <2>2, <2>3 DEF IndInv, Wiring
<1>8. CASE RestartTimeout
  <2>1. pc.drv = "restart" /\ pc' \in PcType /\ pc'.drv = "idle" /\ pc'.ext = pc.ext /\ pc'.done = pc.done
    BY <1>0, <1>8 DEF RestartTimeout, PcType
  <2>2. TypeOK' /\ ~Selectable'
    BY <1>0, <1>8, <2>1 DEF RestartTimeout, ClearQueues, TypeOK, busvars, Selectable, Waiting
  <2>3. Wiring'
    BY <1>0, <1>8, <2>1, <2>2 DEF RestartTimeout, ClearQueues, busvars, Wiring, OwnContext, FreeToSelect,
       SelectableIsCalled, DoneIsCalled, CurrentIsCarried, Called, Reporting
  <2>. QED  BY <2>2, <2>3 DEF IndInv, Wiring
<1>. QED  BY <1>2, <1>3, <1>4, <1>5, <1>6, <1>7, <1>8

LEMMA StepInv == IndInv /\ [Next]_vars => IndInv'
<1>. SUFFICES ASSUME IndInv, [Next]_vars PROVE IndInv'
  OBVIOUS
<1>1. CASE UNCHANGED vars
  BY <1>1 DEF vars, txnqvars, busvars, cltvars, IndInv, TypeOK, OwnContext, FreeToSelect, SelectableIsCalled,
     DoneIsCalled, CurrentIsCarried, Called, Reporting, Selectable, Waiting, bSchedulerBusy
<1>. QED  BY <1>1, SchedulerInv, CallsInv, BusInv, ClientInv DEF Next

-----------------------------------------------------------------------------
(* The scheduler's types, and which calls it still owes, hold in every     *)
(* state, whatever contexts, restarts and failures do.                     *)
THEOREM SchedulerInvariant == Spec => []IndInv
BY InitInv, StepInv, PTL DEF Spec

(* Whatever can be sent or reported when txnQ_RunScheduler has returned is *)
(* on the bus, or a context is about to call it: no wake-up is lost.       *)
THEOREM NoWakeupIsLost == Spec => []NoLostWakeup
<1>1. IndInv => NoLostWakeup
  BY ElementTypes DEF IndInv, NoLostWakeup, TypeOK, PcType, SelectableIsCalled, DoneIsCalled, CurrentIsCarried,
     Called, Reporting, Selectable, bSchedulerBusy
<1>. QED  BY <1>1, SchedulerInvariant, PTL

-----------------------------------------------------------------------------
(* Only the start of a transaction takes the bus, and only its end frees   *)
(* it, unless the start of a second part fails: then the end is reported   *)
(* in both contexts.                                                       *)
LEMMA OneAtATimeStep ==
    ASSUME IndInv, OneAtATime, [Next]_vars, failedStarts = 0, failedStarts' = 0
    PROVE  OneAtATime'
<1>. USE DEF OneAtATime, BusIdle, Reporting
<1>0. sched \in SchedType /\ pc \in PcType /\ TypeOK /\ FreeToSelect
  BY DEF IndInv, TypeOK
<1>1. CASE RunAgain
  <2>1. sched'.at = "check"
    BY <1>0, <1>1, SchedAgain DEF RunAgain
  <2>. QED  BY <1>1, <2>1 DEF RunAgain, busvars
<1>2. CASE Leave
  <2>1. sched'.at = "off" /\ (pc'.ext = pc.ext \/ pc'.ext = "idle")
    BY <1>0, <1>2 DEF Leave, Returned, SchedulerOff, PcType
  <2>. QED  BY <1>2, <2>1 DEF Leave, txnqvars, busvars
<1>3. CASE Check \/ Select
  <2>1. pc' = pc /\ UNCHANGED <<pCurrTxn, busvars>>
    BY <1>3 DEF Check, Select, txnqvars
  <2>2. sched'.at # "status"
    BY <1>0, <1>3 DEF Check, AfterCheck, Select, SelectTxn, SelectFromQueue, SelectNothing, SchedType
  <2>. QED  BY <2>1, <2>2 DEF busvars
<1>4. CASE Transact
  <2>1. BusIdle /\ pCurrTxn' # None /\ pc' = pc
    BY <1>4 DEF Transact, FreeToSelect, IndInv
  <2>2. eCurrTxnStatus' # "PENDING" => inFlight' = inFlight
    BY <1>4 DEF Transact
  <2>. QED  BY <2>1, <2>2
<1>5. CASE Status
  <2>1. pc' = pc /\ UNCHANGED busvars /\ sched.at = "status"
    BY <1>5 DEF Status
  <2>2. /\ eCurrTxnStatus = "PENDING" => pCurrTxn' = pCurrTxn
        /\ sched'.at # "status"
    BY <1>0, <1>5 DEF Status, SchedType
  <2>. QED  BY <2>1, <2>2 DEF busvars
<1>6. CASE Drain
  <2>1. sched'.at # "status"
    BY <1>0, <1>6 DEF Drain, SchedType
  <2>. QED  BY <1>6, <2>1 DEF Drain, busvars
<1>7. ASSUME NEW c \in {"drv", "ext"}, CallBusy(c) \/ Call(c)
      PROVE  OneAtATime'
  <2>1. /\ UNCHANGED <<pCurrTxn, busvars>>
        /\ sched'.at = "status" => sched' = sched
    BY <1>7 DEF CallBusy, Call, txnqvars
  <2>2. pc'.ext = pc.ext \/ pc'.ext \in {"idle", "sched"}
    BY <1>0, <1>7 DEF CallBusy, Call, Returned, PcType
  <2>. QED  BY <2>1, <2>2 DEF busvars
<1>8. CASE PartDone
  <2>1. /\ inFlight # None /\ UNCHANGED <<pCurrTxn, sched>>
        /\ pc'.ext \in {"txnDone", "free"} => inFlight' = None
    BY <1>0, <1>8 DEF PartDone, PcType, txnqvars
  <2>2. eCurrTxnStatus' \in {eCurrTxnStatus, "PENDING"}
    BY <1>0, <1>8 DEF PartDone
  <2>. QED  BY <2>1, <2>2
<1>9. CASE TxnDoneCb \/ RestartDone
  <2>1. pc.ext = "txnDone" /\ pc'.ext = "free" /\ UNCHANGED <<pCurrTxn, sched, busvars>>
    BY <1>0, <1>9 DEF TxnDoneCb, RestartDone, ClearQueues, PcType
  <2>. QED  BY <2>1 DEF busvars
<1>10. CASE BusFree
  <2>1. pc.ext = "free" /\ pc'.ext = "call" /\ UNCHANGED <<sched, busvars>>
    BY <1>0, <1>10 DEF BusFree, PcType
  <2>. QED  BY <2>1 DEF busvars
<1>11. CASE \/ \E t \in Txn : TransactRegular(t)
            \/ \E t \in Elp : TransactSingleStep(t)
            \/ Run \/ Stop \/ Restart \/ RestartTimeout
  <2>1. pc'.ext = pc.ext /\ UNCHANGED <<pCurrTxn, sched, busvars>>
    BY <1>0, <1>11 DEF TransactRegular, TransactSingleStep, Run, Stop, Restart, RestartTimeout, ClientCalls,
       ClearQueues, PcType
  <2>. QED  BY <2>1 DEF busvars
<1>12. CASE UNCHANGED vars
  BY <1>12 DEF vars, txnqvars, busvars
<1>. QED  BY <1>1, <1>2, <1>3, <1>4, <1>5, <1>6, <1>7, <1>8, <1>9, <1>10, <1>11, <1>12 DEF Next, Scheduler, TxnDone

LEMMA FailuresCounted ==
    ASSUME IndInv, [Next]_vars, failedStarts' = 0
    PROVE  failedStarts = 0
<1>1. failedStarts \in Nat
  BY TxnAssumption DEF IndInv, TypeOK
<1>2. failedStarts' \in {failedStarts, failedStarts + 1}
  BY DEF Next, vars, txnqvars, busvars, CallBusy, Call, Scheduler, RunAgain, Leave, Check, Select, Transact,
     Status, Drain, PartDone, TxnDone, TxnDoneCb, RestartDone, BusFree, TransactRegular, TransactSingleStep,
     Run, Stop, Restart, RestartTimeout
<1>. QED  BY <1>1, <1>2

LEMMA SinglyStep == IndInv /\ Singly /\ [Next]_vars => Singly'
BY OneAtATimeStep, FailuresCounted DEF Singly

(* busDrv_Transact is called only when the previous transaction is done,   *)
(* provided that no part of a transaction fails to start.                  *)
THEOREM BusCalledWhenIdle == MaxFailedStarts = 0 => (Spec => []Inv)
<1>. SUFFICES ASSUME MaxFailedStarts = 0 PROVE Spec => []Inv
  OBVIOUS
<1>1. Init => IndInv /\ Singly
  BY InitInv DEF Singly
<1>2. IndInv /\ Singly /\ [Next]_vars => (IndInv /\ Singly)'
  BY StepInv, SinglyStep
<1>3. IndInv /\ Singly => TypeOK /\ CalledWhenIdle
  <2>1. IndInv => failedStarts = 0 /\ FreeToSelect /\ TypeOK
    BY DEF IndInv, TypeOK
  <2>. QED  BY <2>1 DEF Singly, FreeToSelect, OneAtATime, BusIdle, Reporting, CalledWhenIdle
<1>4. TypeOK /\ CalledWhenIdle /\ NoLostWakeup => Inv
  BY DEF Inv
<1>. QED  BY <1>1, <1>2, <1>3, <1>4, NoWakeupIsLost, PTL DEF Spec

-----------------------------------------------------------------------------
(* How often a transaction is in a queue; the sum of the places where it   *)
(* can be.                                                                 *)
Positions(s, t) == {i \in 1..Len(s) : s[i] = t}
Count(s, t)     == Cardinality(Positions(s, t))

LEMMA PositionsFinite ==
    ASSUME NEW S, NEW s \in Seq(S), NEW t
    PROVE  IsFiniteSet(Positions(s, t)) /\ Count(s, t) \in Nat
<1>1. IsFiniteSet(Positions(s, t))
  <2>1. IsFiniteSet(1..Len(s)) /\ Positions(s, t) \subseteq 1..Len(s)
    BY FS_Interval DEF Positions
  <2>. QED  BY <2>1, FS_Subset
<1>. QED  BY <1>1, FS_CardinalityType DEF Count

LEMMA CountEmpty ==
    ASSUME NEW t
    PROVE  Count(<< >>, t) = 0
<1>1. Positions(<< >>, t) = {}
  BY DEF Positions
<1>. QED  BY <1>1, FS_EmptySet DEF Count

LEMMA CountAppend ==
    ASSUME NEW S, NEW s \in Seq(S), NEW u \in S, NEW t
    PROVE  Count(Append(s, u), t) = IF u = t THEN Count(s, t) + 1 ELSE Count(s, t)
<1>1. /\ Len(Append(s, u)) = Len(s) + 1 /\ Append(s, u)[Len(s) + 1] = u
      /\ \A i \in 1..Len(s) : Append(s, u)[i] = s[i]
  OBVIOUS
<1>2. Len(s) \in Nat /\ Len(s) + 1 \notin Positions(s, t)
  BY DEF Positions
<1>3. Positions(Append(s, u), t) = IF u = t THEN Positions(s, t) \cup {Len(s) + 1} ELSE Positions(s, t)
  BY <1>1, <1>2 DEF Positions
<1>. QED  BY <1>2, <1>3, PositionsFinite, FS_AddElement DEF Count

LEMMA CountTail ==
    ASSUME NEW S, NEW s \in Seq(S), s # << >>, NEW t
    PROVE  Count(Tail(s), t) = IF Head(s) = t THEN Count(s, t) - 1 ELSE Count(s, t)
<1>. DEFINE P == Positions(s, t) \ {1}
            f == [i \in P |-> i - 1]
<1>1. /\ Len(s) \in Nat /\ Len(s) >= 1 /\ Len(Tail(s)) = Len(s) - 1 /\ Tail(s) \in Seq(S)
      /\ \A i \in 1..(Len(s) - 1) : Tail(s)[i] = s[i + 1]
  OBVIOUS
<1>2. f \in Bijection(P, Positions(Tail(s), t))
  <2>1. f \in [P -> Positions(Tail(s), t)]
    BY <1>1 DEF Positions
  <2>2. \A i, j \in P : f[i] = f[j] => i = j
    BY <1>1 DEF Positions
  <2>3. ASSUME NEW j \in Positions(Tail(s), t) PROVE \E i \in P : f[i] = j
    <3>1. j + 1 \in P /\ f[j + 1] = j
      BY <1>1 DEF Positions
    <3>. QED  BY <3>1
  <2>. QED  BY <2>1, <2>2, <2>3, Fun_IsBij
<1>3. IsFiniteSet(Positions(s, t)) /\ Count(s, t) \in Nat /\ IsFiniteSet(P)
  BY PositionsFinite, FS_RemoveElement
<1>4. Cardinality(P) = Count(Tail(s), t)
  BY <1>2, <1>3, FS_Bijection DEF Count, ExistsBijection
<1>5. 1 \in Positions(s, t) <=> Head(s) = t
  BY <1>1 DEF Positions
<1>6. CASE Head(s) = t
  BY <1>3, <1>4, <1>5, <1>6, FS_RemoveElement DEF Count
<1>7. CASE Head(s) # t
  <2>1. P = Positions(s, t)
    BY <1>5, <1>7
  <2>. QED  BY <1>4, <1>7, <2>1 DEF Count
<1>. QED  BY <1>6, <1>7

LEMMA CountPositive ==
    ASSUME NEW S, NEW s \in Seq(S), NEW i \in 1..Len(s)
    PROVE  Count(s, s[i]) > 0
<1>1. Positions(s, s[i]) # {}
  BY DEF Positions
<1>. QED  BY <1>1, PositionsFinite, FS_EmptySet DEF Count

InSched(t)    == IF sched.txn = t /\ ~(sched.at = "status" /\ eCurrTxnStatus = "PENDING") THEN 1 ELSE 0
InSlot(t)     == IF pSingleStep = t THEN 1 ELSE 0
InFlight(t)   == IF inFlight = t THEN 1 ELSE 0
InReport(t)   == IF pc.done = t THEN 1 ELSE 0
InInput(t)    == IF pc.input = t /\ bSchedulerBusy /\ sched.rc # "PENDING" THEN 1 ELSE 0

Queued(t) == Count(aTxnQueues[0], t) + Count(aTxnQueues[1], t)
Held(t)   == Queued(t) + Count(hTxnDoneQueue, t)
             + InSched(t) + InSlot(t) + InFlight(t) + InReport(t) + InInput(t)

LEMMA PlacesHeld == \A t : Places(t) = Held(t)
BY DEF Places, Held, Queued, Count, Positions, InSched, InSlot, InFlight, InReport, InInput

-----------------------------------------------------------------------------
(* What the scheduler's local variables and those of the reports hold.     *)
Locals ==
    /\ sched.at \notin {"transact", "status"} => sched.txn = None
    /\ sched.rc # "PENDING" => bSchedulerBusy /\ sched.ctx = "drv"
    /\ bSchedulerBusy => sched.input \in (IF sched.ctx = "drv" THEN {None, pc.input} ELSE {None})
    /\ pc.ext # "txnDone" => pc.done = None
    /\ pc.drv = "restart" => MaxRestarts # 0

LEMMA InitLocals == Init => Locals
BY DEF Init, Locals, SchedulerOff, bSchedulerBusy

LEMMA LocalsStep ==
    ASSUME IndInv, Locals, [Next]_vars
    PROVE  Locals'
<1>. USE DEF Locals, bSchedulerBusy
<1>0. sched \in SchedType /\ pc \in PcType /\ TypeOK /\ OwnContext /\ FreeToSelect
  BY DEF IndInv, TypeOK
<1>1. CASE RunAgain
  BY <1>0, <1>1 DEF RunAgain, SchedType
<1>2. CASE Leave
  <2>1. sched' = SchedulerOff /\ pc'.done = pc.done /\ (pc'.ext = "txnDone" <=> pc.ext = "txnDone")
        /\ (pc'.drv = "restart" => pc.drv = "restart")
    BY <1>0, <1>2 DEF Leave, MayLeave, Returned, PcType, SchedType, OwnContext
  <2>. QED  BY <2>1 DEF SchedulerOff
<1>3. CASE Check
  BY <1>0, <1>3 DEF Check, AfterCheck, SchedType
<1>4. CASE Select
  <2>1. pc' = pc /\ sched.at = "select"
    BY <1>4 DEF Select
  <2>2. PICK p \in {"transact", "drain"}, u \in AnyTxn :
           sched' = [sched EXCEPT !.at = p, !.txn = u] /\ (p = "drain" => u = None)
    <3>1. CASE SelectNothing
      <4>1. sched' = [sched EXCEPT !.at = "drain", !.txn = None]
        BY <1>0, <2>1, <3>1 DEF SelectNothing, SchedType
      <4>. QED  BY <4>1 DEF AnyTxn
    <3>2. CASE ~SelectNothing
      <4>1. PICK u : /\ sched' = [sched EXCEPT !.at = "transact", !.txn = u]
                     /\ u = pSingleStep \/ \E p \in Waiting : u = Head(aTxnQueues[p])
        <5>1. Waiting \subseteq Prio /\ (Waiting # {} => (IF 0 \in Waiting THEN 0 ELSE 1) \in Waiting) /\ 0 \in Prio
          BY DEF Waiting, Prio
        <5>. QED  BY <1>4, <3>2, <5>1 DEF Select, SelectTxn, SelectFromQueue
      <4>2. u \in AnyTxn
        BY <1>0, <4>1, HeadTail DEF TypeOK, AnyTxn, Waiting
      <4>. QED  BY <4>1, <4>2
    <3>. QED  BY <3>1, <3>2
  <2>. QED  BY <1>0, <2>1, <2>2 DEF SchedType
<1>5. CASE Transact
  BY <1>0, <1>5 DEF Transact, SchedType
<1>6. CASE Status
  <2>1. CASE eCurrTxnStatus = "PENDING"
    BY <1>0, <1>6, <2>1 DEF Status, SchedType
  <2>2. CASE eCurrTxnStatus # "PENDING"
    <3>1. PICK r \in Rc : sched' = [sched EXCEPT !.at = "select", !.txn = None, !.rc = r]
                          /\ (r = sched.rc \/ sched.input = sched.txn)
      BY <1>0, <1>6, <2>2, SchedFields DEF Status, TypeOK, Rc
    <3>2. sched.txn # None /\ pc' = pc
      BY <1>0, <1>6 DEF Status, FreeToSelect
    <3>3. sched'.at = "select" /\ sched'.txn = None /\ sched'.rc = r /\ sched'.ctx = sched.ctx
          /\ sched'.input = sched.input /\ sched.ctx \in {"drv", "ext"}
      BY <1>0, <3>1 DEF SchedType
    <3>. QED  BY <1>6, <3>1, <3>2, <3>3 DEF Status
  <2>. QED  BY <2>1, <2>2
<1>7. CASE Drain
  BY <1>0, <1>7 DEF Drain, SchedType
<1>8. ASSUME NEW c \in {"drv", "ext"}, CallBusy(c)
      PROVE  Locals'
  <2>1. /\ UNCHANGED sched /\ pc'.done = pc.done
        /\ pc.ext = "txnDone" => pc'.ext = "txnDone"
        /\ c = "drv" => pc.drv = "call"
        /\ c = "ext" => pc'.input = pc.input
        /\ pc'.drv = "restart" => pc.drv = "restart"
    BY <1>0, <1>8 DEF CallBusy, Returned, PcType
  <2>2. bSchedulerBusy /\ sched.ctx = "drv" => c = "ext"
    BY <1>0, <2>1 DEF OwnContext
  <2>. QED  BY <2>1, <2>2
<1>9. ASSUME NEW c \in {"drv", "ext"}, Call(c)
      PROVE  Locals'
  <2>1. /\ pc'.done = pc.done /\ pc'.input = pc.input
        /\ pc.ext = "txnDone" => pc'.ext = "txnDone"
        /\ pc'.drv = "restart" => pc.drv = "restart"
    <3>1. CASE c = "drv"
      BY <1>0, <1>9, <3>1 DEF Call, PcType
    <3>2. CASE c = "ext"
      BY <1>0, <1>9, <3>2 DEF Call, PcType
    <3>. QED  BY <3>1, <3>2
  <2>. QED  BY <1>9, <2>1 DEF Call
<1>10. CASE PartDone
  BY <1>0, <1>10 DEF PartDone, PcType
<1>11. CASE TxnDone
  BY <1>0, <1>11 DEF TxnDone, TxnDoneCb, RestartDone, BusFree, PcType
<1>12. CASE \/ \E t \in Txn : TransactRegular(t)
            \/ \E t \in Elp : TransactSingleStep(t)
            \/ Run
  <2>1. /\ UNCHANGED sched /\ pc.drv = "idle" /\ pc'.drv = "call" /\ pc'.ext = pc.ext /\ pc'.done = pc.done
    BY <1>0, <1>12 DEF TransactRegular, TransactSingleStep, Run, ClientCalls, PcType
  <2>2. ~(bSchedulerBusy /\ sched.ctx = "drv")
    BY <1>0, <2>1 DEF OwnContext
  <2>. QED  BY <2>1, <2>2
<1>13. CASE Stop \/ Restart \/ RestartTimeout
  <2>1. /\ UNCHANGED sched /\ pc'.ext = pc.ext /\ pc'.done = pc.done /\ pc'.input = pc.input
        /\ pc'.drv = "restart" => pc.drv = "restart" \/ restarts < MaxRestarts
    BY <1>0, <1>13 DEF Stop, Restart, RestartTimeout, ClearQueues, PcType
  <2>2. restarts < MaxRestarts => MaxRestarts # 0
    BY <1>0, TxnAssumption DEF TypeOK
  <2>. QED  BY <2>1, <2>2
<1>14. CASE UNCHANGED vars
  BY <1>14 DEF vars
<1>. QED  BY <1>1, <1>2, <1>3, <1>4, <1>5, <1>6, <1>7, <1>8, <1>9, <1>10, <1>11, <1>12, <1>13, <1>14 DEF Next, Scheduler

-----------------------------------------------------------------------------
LEMMA HeldTypes ==
    ASSUME TypeOK, NEW t
    PROVE  /\ Count(aTxnQueues[0], t) \in Nat /\ Count(aTxnQueues[1], t) \in Nat /\ Count(hTxnDoneQueue, t) \in Nat
           /\ InSched(t) \in {0, 1} /\ InSlot(t) \in {0, 1} /\ InFlight(t) \in {0, 1}
           /\ InReport(t) \in {0, 1} /\ InInput(t) \in {0, 1} /\ Queued(t) \in Nat /\ Held(t) \in Nat
<1>1. aTxnQueues[0] \in Seq(Txn) /\ aTxnQueues[1] \in Seq(Txn) /\ hTxnDoneQueue \in Seq(Txn \cup Elp)
  BY DEF TypeOK, Prio
<1>2. Count(aTxnQueues[0], t) \in Nat /\ Count(aTxnQueues[1], t) \in Nat /\ Count(hTxnDoneQueue, t) \in Nat
  BY <1>1, PositionsFinite
<1>3. /\ InSched(t) \in {0, 1} /\ InSlot(t) \in {0, 1} /\ InFlight(t) \in {0, 1}
      /\ InReport(t) \in {0, 1} /\ InInput(t) \in {0, 1}
  BY DEF InSched, InSlot, InFlight, InReport, InInput
<1>. QED  BY <1>2, <1>3 DEF Held, Queued

(* What a step does to the places of a transaction and to whether the      *)
(* client waits for it.                                                    *)
Waits(t)   == t \in issued
Moves(t)   == Held(t)' = Held(t) /\ Waits(t)' = Waits(t)
Enters(t)  == Held(t)' = Held(t) + 1 /\ ~Waits(t) /\ Waits(t)'
Ends(t)    == Held(t)' = Held(t) - 1 /\ ~Waits(t)'
Revives(t) == Held(t)' = Held(t) /\ Held(t) >= 1 /\ ~Waits(t) /\ Waits(t)'
Merges(t)  == Held(t) >= 2 /\ Held(t)' >= 1 /\ Waits(t)' = Waits(t)
Cleared    == MaxRestarts # 0 /\ issued' = {}

Tracks(t) == Moves(t) \/ Enters(t) \/ Ends(t) \/ Revives(t) \/ Merges(t) \/ Cleared

LEMMA NotItsInput ==
    ASSUME IndInv, Locals, NEW t, pc.drv # "sched"
    PROVE  InInput(t) = 0
BY DEF IndInv, OwnContext, Locals, InInput, bSchedulerBusy

LEMMA SelectPlaces ==
    ASSUME IndInv, Locals, Select, NEW t \in Txn \cup Elp
    PROVE  Moves(t)
<1>0. sched \in SchedType /\ TypeOK /\ IndInv' /\ TypeOK' /\ sched.at = "select" /\ sched.txn = None
  BY SchedulerInv DEF IndInv, TypeOK, Select, Scheduler, Locals
<1>1. /\ UNCHANGED <<hTxnDoneQueue, issued, inFlight, eCurrTxnStatus, pc>>
      /\ sched'.rc = sched.rc /\ sched'.at # "off" /\ sched'.at # "status"
  BY <1>0 DEF Select, SelectTxn, SelectFromQueue, SelectNothing, busvars, cltvars, SchedType
<1>2. /\ Count(hTxnDoneQueue, t)' = Count(hTxnDoneQueue, t) /\ InFlight(t)' = InFlight(t)
      /\ InReport(t)' = InReport(t) /\ InInput(t)' = InInput(t) /\ Waits(t)' = Waits(t)
  BY <1>0, <1>1 DEF InFlight, InReport, InInput, Waits, bSchedulerBusy
<1>3. t # None /\ InSched(t) = 0
  BY <1>0, ElementTypes DEF InSched
<1>4. CASE SelectNothing
  <2>1. sched'.txn = None /\ UNCHANGED <<aTxnQueues, pSingleStep>>
    BY <1>0, <1>4 DEF SelectNothing, SchedType
  <2>2. InSched(t)' = 0 /\ InSlot(t)' = InSlot(t) /\ Queued(t)' = Queued(t)
    BY <1>3, <2>1 DEF InSched, InSlot, Queued
  <2>. QED  BY <1>2, <1>3, <2>2 DEF Moves, Held
<1>5. CASE /\ pSingleStep # None /\ sched' = [sched EXCEPT !.at = "transact", !.txn = pSingleStep]
           /\ pSingleStep' = None /\ UNCHANGED aTxnQueues
  <2>1. sched'.txn = pSingleStep /\ sched'.at = "transact"
    BY <1>0, <1>5 DEF SchedType
  <2>2. InSched(t)' = InSlot(t) /\ InSlot(t)' = 0 /\ Queued(t)' = Queued(t)
    BY <1>3, <1>5, <2>1 DEF InSched, InSlot, Queued
  <2>. QED  BY <1>0, <1>2, <1>3, <2>2, HeldTypes DEF Moves, Held
<1>6. ASSUME NEW p \in Waiting, SelectFromQueue(p), UNCHANGED pSingleStep
      PROVE  Moves(t)
  <2>1. p \in {0, 1} /\ aTxnQueues[p] # << >> /\ aTxnQueues[p] \in Seq(Txn)
    BY <1>0, <1>6 DEF Waiting, Prio, TypeOK
  <2>2. sched'.txn = Head(aTxnQueues[p]) /\ sched'.at = "transact"
        /\ aTxnQueues' = [aTxnQueues EXCEPT ![p] = Tail(@)]
    BY <1>0, <1>6 DEF SelectFromQueue, SchedType
  <2>3. /\ aTxnQueues'[p] = Tail(aTxnQueues[p])
        /\ \A r \in {0, 1} \ {p} : aTxnQueues'[r] = aTxnQueues[r]
    BY <1>0, <2>1, <2>2 DEF TypeOK, Prio
  <2>4. Count(aTxnQueues[p], t)' =
           IF Head(aTxnQueues[p]) = t THEN Count(aTxnQueues[p], t) - 1 ELSE Count(aTxnQueues[p], t)
    BY <2>1, <2>3, CountTail
  <2>5. InSched(t)' = (IF Head(aTxnQueues[p]) = t THEN 1 ELSE 0) /\ InSlot(t)' = InSlot(t)
    BY <1>6, <2>2 DEF InSched, InSlot
  <2>6. Queued(t)' = Queued(t) - InSched(t)'
    <3>1. CASE p = 0
      <4>1. Count(aTxnQueues[1], t)' = Count(aTxnQueues[1], t)
        BY <2>3, <3>1
      <4>. QED  BY <1>0, <2>4, <2>5, <3>1, <4>1, HeldTypes DEF Queued
    <3>2. CASE p = 1
      <4>1. Count(aTxnQueues[0], t)' = Count(aTxnQueues[0], t)
        BY <2>3, <3>2
      <4>. QED  BY <1>0, <2>4, <2>5, <3>2, <4>1, HeldTypes DEF Queued
    <3>. QED  BY <2>1, <3>1, <3>2
  <2>7. InSched(t)' \in {0, 1}
    BY <2>5
  <2>. QED  BY <1>0, <1>2, <1>3, <2>5, <2>6, <2>7, HeldTypes DEF Moves, Held
<1>7. Waiting \subseteq Prio /\ (Waiting # {} => (IF 0 \in Waiting THEN 0 ELSE 1) \in Waiting)
  BY DEF Waiting, Prio
<1>. QED  BY <1>4, <1>5, <1>6, <1>7 DEF Select, SelectTxn

LEMMA TransactPlaces ==
    ASSUME IndInv, Locals, OneAtATime, Transact, NEW t \in Txn \cup Elp
    PROVE  Moves(t)
<1>0. sched \in SchedType /\ TypeOK /\ TypeOK' /\ sched.at = "transact" /\ inFlight = None
  BY SchedulerInv DEF IndInv, TypeOK, Transact, Scheduler, FreeToSelect, OneAtATime, BusIdle
<1>1. /\ UNCHANGED <<aTxnQueues, hTxnDoneQueue, pSingleStep, issued, pc>>
      /\ sched' = [sched EXCEPT !.at = "status"]
  BY DEF Transact, cltvars
<1>2. sched'.at = "status" /\ sched'.txn = sched.txn /\ sched'.rc = sched.rc
  BY <1>0, <1>1 DEF SchedType
<1>3. /\ Queued(t)' = Queued(t) /\ Count(hTxnDoneQueue, t)' = Count(hTxnDoneQueue, t)
      /\ InSlot(t)' = InSlot(t) /\ InReport(t)' = InReport(t) /\ InInput(t)' = InInput(t)
      /\ Waits(t)' = Waits(t)
  BY <1>0, <1>1, <1>2 DEF Queued, InSlot, InReport, InInput, Waits, bSchedulerBusy
<1>4. InSched(t)' + InFlight(t)' = InSched(t) + InFlight(t)
  <2>1. t # None /\ InFlight(t) = 0 /\ InSched(t) = IF sched.txn = t THEN 1 ELSE 0
    BY <1>0, ElementTypes DEF InFlight, InSched
  <2>2. CASE eCurrTxnStatus' \in {"COMPLETE", "ERROR"} /\ UNCHANGED inFlight
    <3>1. InFlight(t)' = 0 /\ InSched(t)' = IF sched.txn = t THEN 1 ELSE 0
      BY <1>0, <1>2, <2>1, <2>2 DEF InFlight, InSched
    <3>. QED  BY <2>1, <3>1
  <2>3. CASE eCurrTxnStatus' = "PENDING" /\ inFlight' = sched.txn
    <3>1. InSched(t)' = 0 /\ InFlight(t)' = IF sched.txn = t THEN 1 ELSE 0
      BY <1>0, <1>2, <2>1, <2>3 DEF InFlight, InSched
    <3>. QED  BY <2>1, <3>1
  <2>. QED  BY <2>2, <2>3 DEF Transact
<1>5. InSched(t)' \in {0, 1} /\ InFlight(t)' \in {0, 1}
  BY DEF InSched, InFlight
<1>. QED  BY <1>0, <1>3, <1>4, <1>5, HeldTypes DEF Moves, Held

LEMMA StatusPlaces ==
    ASSUME IndInv, Locals, Status, NEW t \in Txn \cup Elp
    PROVE  Moves(t) \/ Merges(t)
<1>0. sched \in SchedType /\ TypeOK /\ TypeOK' /\ sched.at = "status" /\ sched.txn # None /\ t # None
  BY SchedulerInv, ElementTypes DEF IndInv, TypeOK, Status, Scheduler, FreeToSelect
<1>1. UNCHANGED <<aTxnQueues, pSingleStep, inFlight, eCurrTxnStatus, issued, pc>>
  BY DEF Status, cltvars, busvars
<1>2. /\ Queued(t)' = Queued(t) /\ InFlight(t)' = InFlight(t)
      /\ InSlot(t)' = InSlot(t) /\ InReport(t)' = InReport(t)
      /\ Waits(t)' = Waits(t)
  BY <1>1 DEF Queued, InSlot, InReport, InFlight, Waits
<1>3. InSched(t)' = 0
  <2>1. sched'.txn = None
    BY <1>0 DEF Status, SchedType
  <2>. QED  BY <1>0, <2>1 DEF InSched
<1>4. CASE eCurrTxnStatus = "PENDING"
  <2>1. /\ UNCHANGED hTxnDoneQueue /\ sched'.rc = sched.rc /\ sched'.at = "drain"
    BY <1>0, <1>4 DEF Status, SchedType
  <2>2. InSched(t) = 0 /\ InInput(t)' = InInput(t) /\ Count(hTxnDoneQueue, t)' = Count(hTxnDoneQueue, t)
    BY <1>0, <1>1, <1>4, <2>1 DEF InSched, InInput, bSchedulerBusy
  <2>. QED  BY <1>2, <1>3, <2>2 DEF Moves, Held
<1>5. CASE eCurrTxnStatus # "PENDING" /\ sched.txn # sched.input
  <2>1. /\ hTxnDoneQueue' = Append(hTxnDoneQueue, sched.txn)
        /\ sched'.rc = sched.rc /\ sched'.at = "select"
    BY <1>0, <1>5 DEF Status, NotTheInputTxn, SchedType
  <2>2. sched.txn \in Txn \cup Elp /\ hTxnDoneQueue \in Seq(Txn \cup Elp)
    BY <1>0 DEF SchedType, AnyTxn, TypeOK
  <2>3. InInput(t)' = InInput(t) /\ InSched(t) = IF sched.txn = t THEN 1 ELSE 0
    BY <1>0, <1>1, <1>5, <2>1 DEF InInput, InSched, bSchedulerBusy
  <2>4. Count(hTxnDoneQueue, t)' = Count(hTxnDoneQueue, t) + InSched(t)
    <3>1. Count(hTxnDoneQueue, t) \in Nat
      BY <1>0, HeldTypes
    <3>. QED  BY <2>1, <2>2, <2>3, <3>1, CountAppend
  <2>. QED  BY <1>0, <1>2, <1>3, <2>3, <2>4, HeldTypes DEF Moves, Held
<1>6. CASE eCurrTxnStatus # "PENDING" /\ sched.txn = sched.input
  <2>1. /\ UNCHANGED hTxnDoneQueue /\ sched'.rc = eCurrTxnStatus /\ sched'.at = "select"
    BY <1>0, <1>6 DEF Status, NotTheInputTxn, SchedType
  <2>2. sched.input = pc.input /\ InSched(t) = IF sched.txn = t THEN 1 ELSE 0
    BY <1>0, <1>6 DEF InSched, Locals, bSchedulerBusy
  <2>3. Count(hTxnDoneQueue, t)' = Count(hTxnDoneQueue, t)
    BY <2>1
  <2>4. InInput(t)' = IF sched.txn = t THEN 1 ELSE 0
    BY <1>1, <1>6, <2>1, <2>2 DEF InInput, bSchedulerBusy
  <2>5. CASE sched.txn = t
    <3>1. InSched(t) = 1 /\ InInput(t)' = 1
      BY <2>2, <2>4, <2>5
    <3>2. Held(t)' = Queued(t) + Count(hTxnDoneQueue, t) + InSlot(t) + InFlight(t) + InReport(t) + 1
      BY <1>0, <1>2, <1>3, <2>3, <3>1, HeldTypes DEF Held
    <3>3. Held(t) = Queued(t) + Count(hTxnDoneQueue, t) + InSlot(t) + InFlight(t) + InReport(t) + 1 + InInput(t)
      BY <1>0, <3>1, HeldTypes DEF Held
    <3>4. CASE InInput(t) = 0
      BY <1>0, <1>2, <3>2, <3>3, <3>4, HeldTypes DEF Moves
    <3>5. CASE InInput(t) = 1
      BY <1>0, <1>2, <3>2, <3>3, <3>5, HeldTypes DEF Merges
    <3>. QED  BY <1>0, <3>4, <3>5, HeldTypes
  <2>6. CASE sched.txn # t
    <3>1. InSched(t) = 0 /\ InInput(t)' = 0 /\ InInput(t) = 0
      BY <1>6, <2>2, <2>4, <2>6 DEF InInput
    <3>. QED  BY <1>2, <1>3, <2>3, <3>1 DEF Moves, Held
  <2>. QED  BY <2>5, <2>6
<1>. QED  BY <1>4, <1>5, <1>6

LEMMA DrainPlaces ==
    ASSUME IndInv, Locals, Drain, NEW t \in Txn \cup Elp
    PROVE  Moves(t) \/ Ends(t)
<1>0. sched \in SchedType /\ TypeOK /\ TypeOK' /\ sched.at = "drain" /\ sched.txn = None /\ t # None
  BY SchedulerInv, ElementTypes DEF IndInv, TypeOK, Drain, Scheduler, Locals
<1>1. /\ UNCHANGED <<aTxnQueues, pSingleStep, inFlight, eCurrTxnStatus, pc>>
      /\ sched'.txn = None /\ sched'.rc = sched.rc /\ sched'.at # "off"
  BY <1>0 DEF Drain, busvars, SchedType
<1>2. /\ Queued(t)' = Queued(t) /\ InFlight(t)' = InFlight(t) /\ InSched(t)' = InSched(t)
      /\ InSlot(t)' = InSlot(t) /\ InReport(t)' = InReport(t) /\ InInput(t)' = InInput(t)
  BY <1>0, <1>1 DEF Queued, InSched, InSlot, InReport, InFlight, InInput, bSchedulerBusy
<1>3. CASE hTxnDoneQueue = << >>
  <2>1. UNCHANGED <<hTxnDoneQueue, issued>>
    BY <1>3 DEF Drain
  <2>. QED  BY <1>2, <2>1 DEF Moves, Held, Waits
<1>4. CASE hTxnDoneQueue # << >>
  <2>1. hTxnDoneQueue' = Tail(hTxnDoneQueue) /\ issued' = issued \ {Head(hTxnDoneQueue)}
    BY <1>4 DEF Drain
  <2>2. Count(hTxnDoneQueue, t)' =
           IF Head(hTxnDoneQueue) = t THEN Count(hTxnDoneQueue, t) - 1 ELSE Count(hTxnDoneQueue, t)
    BY <1>0, <1>4, <2>1, CountTail DEF TypeOK
  <2>3. CASE Head(hTxnDoneQueue) = t
    <3>1. ~Waits(t)'
      BY <2>1, <2>3 DEF Waits
    <3>. QED  BY <1>0, <1>2, <2>2, <2>3, <3>1, HeldTypes DEF Ends, Held
  <2>4. CASE Head(hTxnDoneQueue) # t
    <3>1. Waits(t)' = Waits(t)
      BY <2>1, <2>4 DEF Waits
    <3>. QED  BY <1>2, <2>2, <2>4, <3>1 DEF Moves, Held
  <2>. QED  BY <2>3, <2>4
<1>. QED  BY <1>3, <1>4

-----------------------------------------------------------------------------
(* A step that leaves the queues and the scheduler's places alone.         *)
LEMMA SamePlaces ==
    ASSUME UNCHANGED <<aTxnQueues, hTxnDoneQueue, pSingleStep, inFlight, issued>>, NEW t,
           InSched(t)' = InSched(t), InReport(t)' = InReport(t), InInput(t)' = InInput(t)
    PROVE  Moves(t)
BY DEF Moves, Held, Queued, InSlot, InFlight, Waits

LEMMA CallPlaces ==
    ASSUME IndInv, Locals, NEW t \in Txn \cup Elp,
           \/ \E c \in {"drv", "ext"} : CallBusy(c) \/ Call(c)
           \/ RunAgain \/ Check \/ BusFree \/ Run \/ Stop
    PROVE  Moves(t)
<1>0. sched \in SchedType /\ pc \in PcType /\ OwnContext /\ t # None
  BY ElementTypes DEF IndInv, TypeOK
<1>1. UNCHANGED <<aTxnQueues, hTxnDoneQueue, pSingleStep, inFlight, issued, eCurrTxnStatus>>
  BY DEF CallBusy, Call, RunAgain, Check, BusFree, Run, Stop, txnqvars, busvars, cltvars
<1>2. CASE RunAgain \/ Check
  <2>1. sched.at # "status" /\ sched.at # "off" /\ sched'.at # "off" /\ sched'.txn = None /\ sched.txn = None
    BY <1>0, <1>2 DEF RunAgain, Check, AfterCheck, SchedType, Locals
  <2>2. UNCHANGED pc /\ sched'.rc = sched.rc
    BY <1>0, <1>2 DEF RunAgain, Check, SchedType
  <2>3. InSched(t)' = InSched(t) /\ InReport(t)' = InReport(t) /\ InInput(t)' = InInput(t)
    BY <1>0, <2>1, <2>2 DEF InSched, InReport, InInput, bSchedulerBusy
  <2>. QED  BY <1>1, <2>3, SamePlaces
<1>3. ASSUME NEW c \in {"drv", "ext"}, CallBusy(c)
      PROVE  Moves(t)
  <2>1. /\ UNCHANGED sched /\ pc'.done = pc.done /\ pc[c] = "call"
        /\ c = "ext" => pc'.input = pc.input
        /\ c = "drv" => pc.drv = "call" /\ pc'.drv = "idle"
    BY <1>0, <1>3 DEF CallBusy, Returned, PcType
  <2>2. InInput(t)' = InInput(t)
    <3>1. CASE c = "ext"
      BY <2>1, <3>1 DEF InInput, bSchedulerBusy
    <3>2. CASE c = "drv"
      <4>1. InInput(t) = 0 /\ (bSchedulerBusy => sched.rc = "PENDING")
        BY <1>0, <2>1, <3>2 DEF Locals, InInput, OwnContext
      <4>. QED  BY <2>1, <4>1 DEF InInput, bSchedulerBusy
    <3>. QED  BY <3>1, <3>2
  <2>3. InSched(t)' = InSched(t) /\ InReport(t)' = InReport(t)
    BY <1>1, <2>1 DEF InSched, InReport
  <2>. QED  BY <1>1, <2>2, <2>3, SamePlaces
<1>4. ASSUME NEW c \in {"drv", "ext"}, Call(c)
      PROVE  Moves(t)
  <2>1. /\ sched.at = "off" /\ sched.txn = None /\ sched'.txn = None /\ sched'.rc = "PENDING"
        /\ pc'.done = pc.done
    <3>1. pc'.done = pc.done
      <4>1. pc' = [pc EXCEPT ![c] = "sched"]
        BY <1>4 DEF Call
      <4>. QED  BY <1>0, <4>1 DEF PcType
    <3>. QED  BY <1>4, <3>1 DEF Call, Locals, bSchedulerBusy
  <2>2. InSched(t)' = InSched(t) /\ InReport(t)' = InReport(t) /\ InInput(t)' = InInput(t)
    BY <1>0, <2>1 DEF InSched, InReport, InInput, bSchedulerBusy
  <2>. QED  BY <1>1, <2>2, SamePlaces
<1>5. CASE BusFree \/ Stop
  <2>1. UNCHANGED sched /\ pc'.input = pc.input /\ pc'.done = pc.done
    BY <1>0, <1>5 DEF BusFree, Stop, PcType
  <2>2. InSched(t)' = InSched(t) /\ InReport(t)' = InReport(t) /\ InInput(t)' = InInput(t)
    BY <1>1, <2>1 DEF InSched, InReport, InInput, bSchedulerBusy
  <2>. QED  BY <1>1, <2>2, SamePlaces
<1>6. CASE Run
  <2>1. UNCHANGED sched /\ pc.drv = "idle" /\ pc'.done = pc.done
    BY <1>0, <1>6 DEF Run, ClientCalls, PcType
  <2>2. InInput(t) = 0 /\ (bSchedulerBusy => sched.rc = "PENDING")
    BY <1>0, <2>1 DEF Locals, InInput, OwnContext
  <2>3. InSched(t)' = InSched(t) /\ InReport(t)' = InReport(t) /\ InInput(t)' = InInput(t)
    BY <1>1, <2>1, <2>2 DEF InSched, InReport, InInput, bSchedulerBusy
  <2>. QED  BY <1>1, <2>3, SamePlaces
<1>. QED  BY <1>2, <1>3, <1>4, <1>5, <1>6

LEMMA LeavePlaces ==
    ASSUME IndInv, Locals, Leave, NEW t \in Txn \cup Elp
    PROVE  Moves(t) \/ Ends(t)
<1>0. /\ sched \in SchedType /\ pc \in PcType /\ TypeOK /\ t # None
      /\ sched.at = "leave" /\ sched.txn = None /\ sched' = SchedulerOff
  BY ElementTypes DEF IndInv, TypeOK, Leave, MayLeave, Locals
<1>1. /\ UNCHANGED <<aTxnQueues, hTxnDoneQueue, pSingleStep, inFlight>>
      /\ issued' = IF sched.rc # "PENDING" THEN issued \ {pc.input} ELSE issued
  BY DEF Leave, txnqvars, busvars
<1>2. pc'.done = pc.done
  BY <1>0 DEF Leave, Returned, PcType
<1>3. /\ Queued(t)' = Queued(t) /\ Count(hTxnDoneQueue, t)' = Count(hTxnDoneQueue, t)
      /\ InSlot(t)' = InSlot(t) /\ InFlight(t)' = InFlight(t) /\ InReport(t)' = InReport(t)
      /\ InSched(t)' = 0 /\ InSched(t) = 0 /\ InInput(t)' = 0
  BY <1>0, <1>1, <1>2 DEF Queued, InSlot, InFlight, InReport, InSched, InInput, SchedulerOff, bSchedulerBusy
<1>4. CASE InInput(t) = 1
  <2>1. ~Waits(t)'
    BY <1>1, <1>4 DEF InInput, Waits
  <2>. QED  BY <1>0, <1>3, <1>4, <2>1, HeldTypes DEF Ends, Held
<1>5. CASE InInput(t) = 0
  <2>1. Waits(t)' = Waits(t)
    BY <1>0, <1>1, <1>5 DEF InInput, Waits, bSchedulerBusy
  <2>. QED  BY <1>3, <1>5, <2>1 DEF Moves, Held
<1>. QED  BY <1>0, <1>4, <1>5, HeldTypes

LEMMA BusPlaces ==
    ASSUME IndInv, Locals, OneAtATime, failedStarts = 0, failedStarts' = 0, NEW t \in Txn \cup Elp,
           PartDone \/ TxnDoneCb
    PROVE  Moves(t)
<1>0. sched \in SchedType /\ pc \in PcType /\ TypeOK /\ t # None /\ OwnContext
  BY ElementTypes DEF IndInv, TypeOK
<1>1. UNCHANGED <<aTxnQueues, pSingleStep, sched, issued>> /\ pc'.input = pc.input
  BY <1>0 DEF PartDone, TxnDoneCb, txnqvars, cltvars, PcType
<1>2. /\ Queued(t)' = Queued(t) /\ InSlot(t)' = InSlot(t) /\ InInput(t)' = InInput(t)
      /\ Waits(t)' = Waits(t)
  BY <1>1 DEF Queued, InSlot, InInput, Waits, bSchedulerBusy
<1>3. CASE PartDone
  <2>1. /\ inFlight # None /\ pc.done = None /\ UNCHANGED hTxnDoneQueue
        /\ eCurrTxnStatus' \in {eCurrTxnStatus, "PENDING"}
    BY <1>3 DEF PartDone, Locals, txnqvars
  <2>2. InSched(t)' = InSched(t)
    BY <1>1, <2>1 DEF InSched, OneAtATime, BusIdle
  <2>3. \/ pc' = pc /\ inFlight' = inFlight
        \/ pc'.done = inFlight /\ inFlight' = None
    BY <1>0, <1>3 DEF PartDone, PcType
  <2>4. InFlight(t)' + InReport(t)' = InFlight(t) + InReport(t)
    BY <1>0, <2>1, <2>3 DEF InFlight, InReport
  <2>5. InFlight(t)' \in {0, 1} /\ InReport(t)' \in {0, 1}
    BY DEF InFlight, InReport
  <2>6. Count(hTxnDoneQueue, t)' = Count(hTxnDoneQueue, t)
    BY <2>1
  <2>. QED  BY <1>0, <1>2, <2>2, <2>4, <2>5, <2>6, HeldTypes DEF Moves, Held
<1>4. CASE TxnDoneCb
  <2>1. /\ pc.ext = "txnDone" /\ pc.done # None /\ pc'.done = None /\ UNCHANGED <<inFlight, eCurrTxnStatus>>
        /\ hTxnDoneQueue' = Append(hTxnDoneQueue, pc.done)
    BY <1>0, <1>4 DEF TxnDoneCb, OwnContext, busvars, PcType
  <2>2. InSched(t)' = InSched(t) /\ InFlight(t)' = InFlight(t) /\ InReport(t)' = 0
    BY <1>0, <1>1, <2>1 DEF InSched, InFlight, InReport
  <2>3. pc.done \in Txn \cup Elp /\ hTxnDoneQueue \in Seq(Txn \cup Elp)
    BY <1>0, <2>1, PcFields DEF TypeOK, AnyTxn
  <2>4. Count(hTxnDoneQueue, t)' = Count(hTxnDoneQueue, t) + InReport(t)
    <3>1. Count(hTxnDoneQueue, t) \in Nat /\ InReport(t) = IF pc.done = t THEN 1 ELSE 0
      BY <1>0, HeldTypes DEF InReport
    <3>. QED  BY <2>1, <2>3, <3>1, CountAppend
  <2>. QED  BY <1>0, <1>2, <2>2, <2>4, HeldTypes DEF Moves, Held
<1>. QED  BY <1>3, <1>4

LEMMA ClientPlaces ==
    ASSUME IndInv, Locals, NEW t \in Txn \cup Elp,
           (\E u \in Txn : TransactRegular(u)) \/ (\E u \in Elp : TransactSingleStep(u))
    PROVE  Tracks(t)
<1>0. sched \in SchedType /\ pc \in PcType /\ TypeOK /\ t # None /\ OwnContext
  BY ElementTypes DEF IndInv, TypeOK
<1>1. /\ UNCHANGED <<hTxnDoneQueue, inFlight, sched, eCurrTxnStatus>> /\ pc.drv = "idle" /\ pc'.done = pc.done
  BY <1>0 DEF TransactRegular, TransactSingleStep, ClientCalls, busvars, PcType
<1>2. InInput(t) = 0 /\ (bSchedulerBusy => sched.rc = "PENDING")
  BY <1>0, <1>1 DEF Locals, InInput, OwnContext
<1>3. /\ Count(hTxnDoneQueue, t)' = Count(hTxnDoneQueue, t) /\ InFlight(t)' = InFlight(t)
      /\ InSched(t)' = InSched(t) /\ InReport(t)' = InReport(t) /\ InInput(t)' = InInput(t)
  BY <1>1, <1>2 DEF InFlight, InSched, InReport, InInput, bSchedulerBusy
<1>4. ASSUME NEW u \in Txn, TransactRegular(u)
      PROVE  Tracks(t)
  <2>1. /\ aTxnQueues' = [aTxnQueues EXCEPT ![prio[u]] = Append(@, u)] /\ UNCHANGED pSingleStep
        /\ u \notin issued /\ issued' = issued \cup {u}
    BY <1>4 DEF TransactRegular
  <2>2. prio[u] \in {0, 1} /\ aTxnQueues[0] \in Seq(Txn) /\ aTxnQueues[1] \in Seq(Txn)
    BY <1>0, TxnAssumption DEF TypeOK, Prio
  <2>3. /\ aTxnQueues'[prio[u]] = Append(aTxnQueues[prio[u]], u)
        /\ \A r \in {0, 1} \ {prio[u]} : aTxnQueues'[r] = aTxnQueues[r]
    BY <1>0, <2>1, <2>2 DEF TypeOK, Prio
  <2>4. Queued(t)' = IF u = t THEN Queued(t) + 1 ELSE Queued(t)
    <3>1. CASE prio[u] = 0
      <4>1. aTxnQueues'[1] = aTxnQueues[1] /\ aTxnQueues'[0] = Append(aTxnQueues[0], u)
        BY <2>3, <3>1
      <4>2. Count(aTxnQueues[1], t)' = Count(aTxnQueues[1], t)
        BY <4>1
      <4>3. Count(aTxnQueues[0], t)' = IF u = t THEN Count(aTxnQueues[0], t) + 1 ELSE Count(aTxnQueues[0], t)
        BY <2>2, <4>1, CountAppend
      <4>. QED  BY <1>0, <4>2, <4>3, HeldTypes DEF Queued
    <3>2. CASE prio[u] = 1
      <4>1. aTxnQueues'[0] = aTxnQueues[0] /\ aTxnQueues'[1] = Append(aTxnQueues[1], u)
        BY <2>3, <3>2
      <4>2. Count(aTxnQueues[0], t)' = Count(aTxnQueues[0], t)
        BY <4>1
      <4>3. Count(aTxnQueues[1], t)' = IF u = t THEN Count(aTxnQueues[1], t) + 1 ELSE Count(aTxnQueues[1], t)
        BY <2>2, <4>1, CountAppend
      <4>. QED  BY <1>0, <4>2, <4>3, HeldTypes DEF Queued
    <3>. QED  BY <2>2, <3>1, <3>2
  <2>5. InSlot(t)' = InSlot(t)
    BY <2>1 DEF InSlot
  <2>6. CASE u = t
    <3>1. ~Waits(t) /\ Waits(t)'
      BY <2>1, <2>6 DEF Waits
    <3>. QED  BY <1>0, <1>3, <2>4, <2>5, <2>6, <3>1, HeldTypes DEF Tracks, Enters, Held
  <2>7. CASE u # t
    <3>1. Waits(t)' = Waits(t)
      BY <2>1, <2>7 DEF Waits
    <3>. QED  BY <1>3, <2>4, <2>5, <2>7, <3>1 DEF Tracks, Moves, Held
  <2>. QED  BY <2>6, <2>7
<1>5. ASSUME NEW u \in Elp, TransactSingleStep(u)
      PROVE  Tracks(t)
  <2>1. /\ UNCHANGED aTxnQueues /\ pSingleStep' = u /\ u \notin issued
        /\ issued' = (issued \ {pSingleStep}) \cup {u}
    BY <1>5 DEF TransactSingleStep
  <2>2. Queued(t)' = Queued(t) /\ InSlot(t)' = IF u = t THEN 1 ELSE 0
    BY <2>1 DEF Queued, InSlot
  <2>3. CASE u = t /\ pSingleStep = t
    <3>1. ~Waits(t) /\ Waits(t)' /\ InSlot(t) = 1
      BY <2>1, <2>3 DEF Waits, InSlot
    <3>2. Held(t) >= 1
      BY <1>0, <3>1, HeldTypes DEF Held
    <3>. QED  BY <1>3, <2>2, <2>3, <3>1, <3>2 DEF Tracks, Revives, Held
  <2>4. CASE u = t /\ pSingleStep # t
    <3>1. ~Waits(t) /\ Waits(t)' /\ InSlot(t) = 0
      BY <2>1, <2>4 DEF Waits, InSlot
    <3>. QED  BY <1>0, <1>3, <2>2, <2>4, <3>1, HeldTypes DEF Tracks, Enters, Held
  <2>5. CASE u # t /\ pSingleStep = t
    <3>1. ~Waits(t)' /\ InSlot(t) = 1
      BY <2>1, <2>5 DEF Waits, InSlot
    <3>. QED  BY <1>0, <1>3, <2>2, <2>5, <3>1, HeldTypes DEF Tracks, Ends, Held
  <2>6. CASE u # t /\ pSingleStep # t
    <3>1. Waits(t)' = Waits(t) /\ InSlot(t) = 0
      BY <2>1, <2>6 DEF Waits, InSlot
    <3>. QED  BY <1>3, <2>2, <2>6, <3>1 DEF Tracks, Moves, Held
  <2>. QED  BY <2>3, <2>4, <2>5, <2>6
<1>. QED  BY <1>4, <1>5

LEMMA RestartPlaces ==
    ASSUME IndInv, Locals, NEW t \in Txn \cup Elp, RestartDone \/ Restart \/ RestartTimeout
    PROVE  Moves(t) \/ Cleared
<1>0. sched \in SchedType /\ pc \in PcType /\ TypeOK /\ OwnContext
  BY DEF IndInv, TypeOK
<1>1. MaxRestarts # 0
  <2>1. restarts < MaxRestarts => MaxRestarts # 0
    BY <1>0, TxnAssumption DEF TypeOK
  <2>. QED  BY <1>0, <2>1 DEF RestartDone, Restart, RestartTimeout, OwnContext, Locals
<1>2. CASE ClearQueues
  BY <1>1, <1>2 DEF ClearQueues, Cleared
<1>3. CASE ~ClearQueues
  <2>1. /\ UNCHANGED <<aTxnQueues, hTxnDoneQueue, pSingleStep, inFlight, issued, eCurrTxnStatus, sched>>
        /\ pc'.input = pc.input /\ pc'.done = pc.done
    BY <1>0, <1>3 DEF RestartDone, Restart, RestartTimeout, busvars, PcType
  <2>2. InSched(t)' = InSched(t) /\ InReport(t)' = InReport(t) /\ InInput(t)' = InInput(t)
    BY <2>1 DEF InSched, InReport, InInput, bSchedulerBusy
  <2>. QED  BY <2>1, <2>2, SamePlaces
<1>. QED  BY <1>2, <1>3

LEMMA PlacesStep ==
    ASSUME IndInv, Locals, OneAtATime, [Next]_vars, failedStarts = 0, failedStarts' = 0, NEW t \in Txn \cup Elp
    PROVE  Tracks(t)
<1>1. CASE UNCHANGED vars
  BY <1>1, SamePlaces DEF vars, txnqvars, busvars, cltvars, Tracks, InSched, InReport, InInput, bSchedulerBusy
<1>. QED  BY <1>1, SelectPlaces, TransactPlaces, StatusPlaces, DrainPlaces, CallPlaces, LeavePlaces, BusPlaces,
             ClientPlaces, RestartPlaces DEF Next, Scheduler, TxnDone, Tracks

(* Until a part of a transaction fails to start, one that the client waits *)
(* for is somewhere; without restarts, it is in one place and any other is *)
(* nowhere.                                                                *)
Somewhere == failedStarts = 0 => \A t \in issued : Held(t) > 0
OnePlace  == failedStarts = 0 => \A t \in Txn \cup Elp : Held(t) = IF t \in issued THEN 1 ELSE 0

LEMMA InitPlaces == Init => \A t \in Txn \cup Elp : Held(t) = 0
<1>. SUFFICES ASSUME Init, NEW t \in Txn \cup Elp PROVE Held(t) = 0
  OBVIOUS
<1>1. Count(aTxnQueues[0], t) = 0 /\ Count(aTxnQueues[1], t) = 0 /\ Count(hTxnDoneQueue, t) = 0
  BY CountEmpty DEF Init, Prio
<1>2. InSched(t) = 0 /\ InSlot(t) = 0 /\ InFlight(t) = 0 /\ InReport(t) = 0 /\ InInput(t) = 0
  BY ElementTypes DEF Init, SchedulerOff, InSched, InSlot, InFlight, InReport, InInput
<1>. QED  BY <1>1, <1>2 DEF Held, Queued

LEMMA HeldIsNat == TypeOK => \A t : Held(t) \in Nat
BY HeldTypes

LEMMA HeldIsNatNext == TypeOK' => (\A t : Held(t) \in Nat)'
BY HeldIsNat, PTL

LEMMA SomewhereStep == IndInv /\ Singly /\ Locals /\ Somewhere /\ [Next]_vars => Somewhere'
<1>. SUFFICES ASSUME IndInv, Singly, Locals, Somewhere, [Next]_vars, failedStarts' = 0, NEW t \in issued'
              PROVE  Held(t)' > 0
  BY DEF Somewhere
<1>1. failedStarts = 0 /\ OneAtATime
  BY FailuresCounted DEF Singly
<1>2. t \in Txn \cup Elp /\ TypeOK
  BY StepInv DEF IndInv, TypeOK
<1>3. Tracks(t) /\ Held(t) \in Nat
  BY <1>1, <1>2, PlacesStep, HeldTypes
<1>4. t \in issued => Held(t) > 0
  BY <1>1 DEF Somewhere
<1>5. CASE Moves(t)
  <2>1. t \in issued
    BY <1>5 DEF Moves, Waits
  <2>. QED  BY <1>4, <1>5, <2>1 DEF Moves
<1>6. CASE Enters(t) \/ Revives(t) \/ Merges(t)
  <2>1. Held(t)' \in Nat
    BY StepInv, HeldIsNatNext DEF IndInv
  <2>. QED  BY <1>3, <1>6, <2>1 DEF Enters, Revives, Merges
<1>7. ~Ends(t) /\ ~Cleared
  BY DEF Ends, Cleared, Waits
<1>. QED  BY <1>3, <1>5, <1>6, <1>7 DEF Tracks

LEMMA OnePlaceStep ==
    ASSUME MaxRestarts = 0, IndInv, Singly, Locals, OnePlace, [Next]_vars
    PROVE  OnePlace'
<1>. SUFFICES ASSUME failedStarts' = 0, NEW t \in Txn \cup Elp
              PROVE  Held(t)' = IF t \in issued' THEN 1 ELSE 0
  BY DEF OnePlace
<1>1. failedStarts = 0 /\ OneAtATime /\ TypeOK
  BY FailuresCounted DEF Singly, IndInv
<1>2. Tracks(t) /\ Held(t) = (IF t \in issued THEN 1 ELSE 0) /\ Held(t)' \in Nat
  <2>1. Held(t)' \in Nat
    BY StepInv, HeldIsNatNext DEF IndInv
  <2>. QED  BY <1>1, <2>1, PlacesStep DEF OnePlace
<1>. QED  BY <1>2 DEF Tracks, Moves, Enters, Ends, Revives, Merges, Cleared, Waits

-----------------------------------------------------------------------------
(* What an aggregation has put into the bus driver's buffer when t has     *)
(* been copied there, and, at any time, when the transaction that is       *)
(* selected has been.                                                      *)
Rest(f, t) == IF t \in Aggregated THEN Append(f[t], t) ELSE << >>

Pending ==
    IF sched.at = "transact"
    THEN IF sched.txn \in Aggregated THEN Append(uTxnLength, sched.txn) ELSE << >>
    ELSE uTxnLength

(* Each queue goes on where the buffer is: every transaction of it with    *)
(* the one before, the first with the buffer if the aggregation is of this *)
(* queue, and the client's next one with the last.                         *)
Base(p)  == IF pAggregQueue = p THEN Pending ELSE << >>
EndOf(p) == LET q == aTxnQueues[p] IN IF q = << >> THEN Base(p) ELSE Rest(aggregate, q[Len(q)])
Turn(p)  == IF inTurn # << >> /\ prio[inTurn[1]] = p THEN inTurn ELSE << >>

Linked(p) ==
    LET q == aTxnQueues[p]
    IN  \A i \in 1..Len(q) : aggregate[q[i]] = IF i = 1 THEN Base(p) ELSE Rest(aggregate, q[i - 1])

Buffered ==
    /\ pAggregQueue = None => Pending = << >>
    /\ sched.at = "transact" /\ sched.txn \in Txn => uTxnLength = aggregate[sched.txn]
    /\ sched.at = "transact" /\ sched.txn \in Elp => uTxnLength = << >>

Chained == Buffered /\ \A p \in Prio : Linked(p) /\ EndOf(p) = Turn(p)

LEMMA InitChained == Init => Chained
<1>. SUFFICES ASSUME Init PROVE Chained
  OBVIOUS
<1>1. /\ sched.at = "off" /\ uTxnLength = << >> /\ inTurn = << >> /\ pAggregQueue = None
      /\ \A p \in Prio : aTxnQueues[p] = << >>
  BY DEF Init, SchedulerOff
<1>2. Buffered /\ Pending = << >>
  BY <1>1 DEF Buffered, Pending
<1>3. ASSUME NEW p \in Prio PROVE Linked(p) /\ EndOf(p) = Turn(p)
  <2>1. Base(p) = << >> /\ aTxnQueues[p] = << >> /\ Turn(p) = << >>
    BY <1>1, <1>2 DEF Base, Turn
  <2>2. EndOf(p) = << >>
    BY <2>1 DEF EndOf
  <2>. QED  BY <2>1, <2>2 DEF Linked
<1>. QED  BY <1>2, <1>3 DEF Chained

(* Where the buffer stays as the queues see it, so does the chain.         *)
LEMMA ChainKept ==
    ASSUME Chained, Buffered', UNCHANGED <<aTxnQueues, inTurn, aggregate, pAggregQueue>>,
           pAggregQueue # None => Pending' = Pending
    PROVE  Chained'
<1>1. ASSUME NEW p \in Prio PROVE (Linked(p) /\ EndOf(p) = Turn(p))'
  <2>1. Linked(p) /\ EndOf(p) = Turn(p)
    BY DEF Chained
  <2>2. Base(p)' = Base(p)
    BY ElementTypes DEF Base
  <2>3. Turn(p)' = Turn(p) /\ EndOf(p)' = EndOf(p)
    BY <2>2 DEF Turn, EndOf, Rest
  <2>4. Linked(p)'
    BY <2>1, <2>2 DEF Linked, Rest
  <2>. QED  BY <2>1, <2>3, <2>4
<1>. QED  BY <1>1 DEF Chained

LEMMA ChainLeft ==
    ASSUME Chained, UNCHANGED <<aTxnQueues, inTurn, aggregate, pAggregQueue, uTxnLength>>,
           sched' = sched \/ (sched.at # "transact" /\ sched'.at # "transact")
    PROVE  Chained'
<1>1. Pending' = Pending
  BY DEF Pending
<1>2. Buffered'
  BY <1>1 DEF Chained, Buffered
<1>. QED  BY <1>1, <1>2, ChainKept

LEMMA ChainTransact ==
    ASSUME IndInv, Chained, Transact
    PROVE  Chained'
<1>1. sched.at = "transact" /\ sched'.at = "status"
  BY DEF IndInv, TypeOK, Transact, SchedType
<1>2. UNCHANGED <<aTxnQueues, inTurn, aggregate, pAggregQueue>>
  BY DEF Transact, cltvars
<1>3. Pending' = Pending
  BY <1>1 DEF Pending, Transact
<1>4. Buffered'
  BY <1>1, <1>2, <1>3 DEF Chained, Buffered
<1>. QED  BY <1>2, <1>3, <1>4, ChainKept

LEMMA EmptyLength ==
    ASSUME NEW S, NEW s \in Seq(S)
    PROVE  Len(s) \in Nat /\ (s = << >> <=> Len(s) = 0)
OBVIOUS

LEMMA Lengths ==
    ASSUME NEW S, NEW s \in Seq(S)
    PROVE  /\ s # << >> => Len(s) \in 1..Len(s) /\ 1 \in 1..Len(s)
           /\ s # << >> => Tail(s) \in Seq(S) /\ (Tail(s) = << >> <=> Len(s) = 1)
           /\ Len(s) \in Nat
           /\ \A u \in S : Append(s, u) # << >> /\ Append(s, u)[1] = IF s = << >> THEN u ELSE s[1]
<1>1. Len(s) \in Nat /\ (s = << >> <=> Len(s) = 0)
  OBVIOUS
<1>2. ASSUME s # << >>
      PROVE  Tail(s) \in Seq(S) /\ Len(Tail(s)) = Len(s) - 1 /\ (Tail(s) = << >> <=> Len(Tail(s)) = 0)
  <2>1. Tail(s) \in Seq(S) /\ Len(Tail(s)) = Len(s) - 1
    BY <1>2
  <2>. QED  BY <2>1, EmptyLength
<1>3. ASSUME NEW u \in S
      PROVE  Append(s, u) # << >> /\ Append(s, u)[1] = IF s = << >> THEN u ELSE s[1]
  <2>1. Len(Append(s, u)) = Len(s) + 1 /\ Append(s, u)[Len(s) + 1] = u /\ Append(s, u) \in Seq(S)
    OBVIOUS
  <2>2. s # << >> => Append(s, u)[1] = s[1]
    BY <1>1
  <2>3. Append(s, u) # << >>
    BY <1>1, <2>1
  <2>. QED  BY <1>1, <2>1, <2>2, <2>3
<1>. QED  BY <1>1, <1>2, <1>3

LEMMA ChainSelect ==
    ASSUME IndInv, Chained, Select
    PROVE  Chained'
<1>0. sched \in SchedType /\ TypeOK /\ sched.at = "select" /\ UNCHANGED <<uTxnLength, inTurn, aggregate>>
  BY DEF IndInv, TypeOK, Select, busvars, cltvars
<1>1. CASE SelectNothing
  <2>1. sched'.at = "drain" /\ UNCHANGED <<aTxnQueues, pAggregQueue>>
    BY <1>0, <1>1 DEF SelectNothing, SchedType
  <2>. QED  BY <1>0, <2>1, ChainLeft
<1>2. CASE /\ pAggregQueue = None /\ pSingleStep # None
           /\ sched' = [sched EXCEPT !.at = "transact", !.txn = pSingleStep]
           /\ UNCHANGED <<aTxnQueues, pAggregQueue>>
  <2>1. sched'.at = "transact" /\ sched'.txn \in Elp /\ sched'.txn \notin Txn /\ sched'.txn \notin Aggregated
    BY <1>0, <1>2, TxnAssumption DEF TypeOK, SchedType
  <2>2. Pending' = << >> /\ uTxnLength = << >>
    BY <1>0, <1>2, <2>1 DEF Pending, Chained, Buffered
  <2>3. Buffered'
    BY <1>0, <2>1, <2>2 DEF Buffered
  <2>. QED  BY <1>0, <1>2, <2>3, ChainKept
<1>3. ASSUME NEW p \in Waiting, SelectFromQueue(p), pAggregQueue \in {None, p},
             pAggregQueue' = IF sched'.txn \in Aggregated THEN p ELSE None
      PROVE  Chained'
  <2>. DEFINE q == aTxnQueues[p]
              h == Head(q)
  <2>1. p \in Prio /\ q \in Seq(Txn) /\ q # << >> /\ h = q[1] /\ h \in Txn /\ h \notin Elp /\ p # None
    BY <1>0, TxnAssumption DEF Waiting, TypeOK
  <2>2. sched'.at = "transact" /\ sched'.txn = h /\ aTxnQueues' = [aTxnQueues EXCEPT ![p] = Tail(q)]
    BY <1>0, <1>3 DEF SelectFromQueue, SchedType
  <2>3. aTxnQueues'[p] = Tail(q) /\ (\A r \in Prio \ {p} : aTxnQueues'[r] = aTxnQueues[r])
    BY <1>0, <2>1, <2>2 DEF TypeOK
  <2>4. Linked(p) /\ EndOf(p) = Turn(p) /\ 1 \in 1..Len(q)
    BY <2>1 DEF Chained
  <2>5. aggregate[h] = Base(p)
    BY <2>1, <2>4 DEF Linked
  <2>6. uTxnLength = Base(p)
    BY <1>0, <1>3 DEF Base, Pending, Chained, Buffered
  <2>7. Pending' = Rest(aggregate, h)
    BY <1>0, <2>2, <2>5, <2>6 DEF Pending, Rest
  <2>8. Base(p)' = Rest(aggregate, h)
    BY <1>3, <2>1, <2>2, <2>7 DEF Base, Rest
  <2>9. Buffered'
    BY <1>0, <1>3, <2>1, <2>2, <2>5, <2>6, <2>7 DEF Buffered, Rest
  <2>10. /\ Len(Tail(q)) = Len(q) - 1 /\ Len(q) \in Nat
         /\ \A i \in 1..(Len(q) - 1) : Tail(q)[i] = q[i + 1]
    BY <2>1
  <2>11. Linked(p)'
    <3>. DEFINE s == Tail(q)
    <3>1. SUFFICES ASSUME NEW i \in 1..Len(s)
                   PROVE  aggregate[s[i]] = IF i = 1 THEN Rest(aggregate, h) ELSE Rest(aggregate, s[i - 1])
      BY <1>0, <2>3, <2>8 DEF Linked, Rest
    <3>2. i + 1 \in 1..Len(q) /\ s[i] = q[i + 1] /\ i + 1 # 1 /\ (i + 1) - 1 = i
      BY <2>10
    <3>3. aggregate[s[i]] = Rest(aggregate, q[i])
      BY <2>4, <3>2 DEF Linked
    <3>4. i # 1 => s[i - 1] = q[i]
      <4>1. i # 1 => i - 1 \in 1..(Len(q) - 1) /\ (i - 1) + 1 = i
        BY <2>10
      <4>. QED  BY <2>10, <4>1
    <3>. QED  BY <2>1, <3>3, <3>4
  <2>12. EndOf(p)' = EndOf(p) /\ Turn(p)' = Turn(p)
    <3>1. EndOf(p) = Rest(aggregate, q[Len(q)])
      BY <2>1 DEF EndOf
    <3>2. CASE Tail(q) = << >>
      <4>1. Len(q) = 1
        BY <2>1, <3>2, Lengths
      <4>2. EndOf(p)' = Rest(aggregate, h)
        BY <2>3, <2>8, <3>2 DEF EndOf
      <4>. QED  BY <1>0, <2>1, <3>1, <4>1, <4>2 DEF Turn
    <3>3. CASE Tail(q) # << >>
      <4>1. Len(Tail(q)) \in 1..(Len(q) - 1) /\ (Len(q) - 1) + 1 = Len(q)
        <5>1. Len(Tail(q)) # 0 /\ Len(q) >= 1
          <6>1. Tail(q) \in Seq(Txn)
            BY <2>1, Lengths
          <6>2. Len(Tail(q)) \in Nat /\ Len(Tail(q)) # 0
            BY <3>3, <6>1, EmptyLength
          <6>3. Len(q) \in Nat /\ Len(q) # 0
            BY <2>1, EmptyLength
          <6>. QED  BY <6>2, <6>3
        <5>2. Len(q) \in Nat /\ Len(Tail(q)) = Len(q) - 1
          BY <2>10
        <5>3. \A m, n \in Nat : n = m - 1 /\ n # 0 => n \in 1..(m - 1) /\ (m - 1) + 1 = m
          OBVIOUS
        <5>4. Len(Tail(q)) \in Nat
          BY <2>1, Lengths, EmptyLength
        <5>. QED  BY <5>1, <5>2, <5>3, <5>4
      <4>2. Tail(q)[Len(Tail(q))] = q[Len(q)]
        BY <2>10, <4>1
      <4>3. EndOf(p)' = Rest(aggregate', Tail(q)[Len(Tail(q))])
        BY <2>3, <3>3 DEF EndOf
      <4>4. EndOf(p)' = Rest(aggregate, q[Len(q)])
        BY <1>0, <2>3, <4>2, <4>3 DEF Rest
      <4>. QED  BY <1>0, <3>1, <4>4 DEF Turn
    <3>. QED  BY <3>2, <3>3
  <2>13. ASSUME NEW r \in Prio, r # p PROVE (Linked(r) /\ EndOf(r) = Turn(r))'
    <3>1. aTxnQueues'[r] = aTxnQueues[r] /\ Linked(r) /\ EndOf(r) = Turn(r)
      BY <2>3, <2>13 DEF Chained
    <3>2. Base(r) = << >> /\ Base(r)' = << >>
      BY <1>3, <2>13, ElementTypes DEF Base
    <3>3. Turn(r)' = Turn(r) /\ EndOf(r)' = EndOf(r)
      BY <1>0, <3>1, <3>2 DEF Turn, EndOf, Rest
    <3>4. Linked(r)'
      BY <1>0, <3>1, <3>2 DEF Linked, Rest
    <3>. QED  BY <3>1, <3>3, <3>4
  <2>14. ASSUME NEW r \in Prio PROVE (Linked(r) /\ EndOf(r) = Turn(r))'
    BY <2>4, <2>11, <2>12, <2>13
  <2>. QED  BY <2>9, <2>14 DEF Chained
<1>4. Waiting \subseteq Prio /\ (Waiting # {} => (IF 0 \in Waiting THEN 0 ELSE 1) \in Waiting)
  BY DEF Waiting, Prio
<1>5. \/ SelectNothing
      \/ /\ pAggregQueue = None /\ pSingleStep # None
         /\ sched' = [sched EXCEPT !.at = "transact", !.txn = pSingleStep]
         /\ UNCHANGED <<aTxnQueues, pAggregQueue>>
      \/ \E p \in Waiting :
            /\ SelectFromQueue(p) /\ pAggregQueue \in {None, p}
            /\ pAggregQueue' = IF sched'.txn \in Aggregated THEN p ELSE None
  <2>1. SelectTxn
    BY DEF Select
  <2>. QED  BY <1>4, <2>1 DEF SelectTxn, CloseAggregation
<1>. QED  BY <1>1, <1>2, <1>3, <1>5

(* A transaction that is nowhere is in no queue and not selected.          *)
LEMMA NotQueued ==
    ASSUME TypeOK, NEW t \in Txn, Held(t) = 0
    PROVE  /\ \A p \in Prio : \A i \in 1..Len(aTxnQueues[p]) : aTxnQueues[p][i] # t
           /\ ~(sched.at = "transact" /\ sched.txn = t)
<1>1. Count(aTxnQueues[0], t) = 0 /\ Count(aTxnQueues[1], t) = 0 /\ InSched(t) = 0
  <2>1. Count(aTxnQueues[0], t) + Count(aTxnQueues[1], t) + Count(hTxnDoneQueue, t)
           + InSched(t) + InSlot(t) + InFlight(t) + InReport(t) + InInput(t) = 0
    BY DEF Held, Queued
  <2>. QED  BY <2>1, HeldTypes
<1>2. \A p \in Prio : aTxnQueues[p] \in Seq(Txn) /\ Count(aTxnQueues[p], t) = 0
  BY <1>1 DEF TypeOK, Prio
<1>3. ASSUME NEW p \in Prio, NEW i \in 1..Len(aTxnQueues[p]), aTxnQueues[p][i] = t PROVE FALSE
  BY <1>2, <1>3, CountPositive
<1>. QED  BY <1>1, <1>3 DEF InSched

LEMMA ChainIssue ==
    ASSUME IndInv, Chained, NEW t \in Txn, TransactRegular(t), Held(t) = 0
    PROVE  Chained'
<1>. DEFINE p == prio[t]
            q == aTxnQueues[p]
<1>0. /\ TypeOK /\ p \in Prio /\ q \in Seq(Txn) /\ inTurn \in Seq(Txn) /\ aggregate \in [Txn -> Seq(Aggregated)]
      /\ \A r \in Prio : aTxnQueues[r] \in Seq(Txn)
  BY TxnAssumption DEF IndInv, TypeOK
<1>1. /\ UNCHANGED <<sched, uTxnLength, pAggregQueue>> /\ aTxnQueues' = [aTxnQueues EXCEPT ![p] = Append(q, t)]
      /\ inTurn' = (IF t \in Aggregated THEN Append(inTurn, t) ELSE << >>)
      /\ aggregate' = [aggregate EXCEPT ![t] = inTurn]
      /\ \A i \in 1..Len(inTurn) : prio[inTurn[i]] = p
  BY DEF TransactRegular, busvars
<1>2. /\ \A r \in Prio : \A i \in 1..Len(aTxnQueues[r]) : aTxnQueues[r][i] # t
      /\ ~(sched.at = "transact" /\ sched.txn = t)
  BY <1>0, NotQueued
<1>3. aggregate'[t] = inTurn /\ (\A u \in Txn \ {t} : aggregate'[u] = aggregate[u] /\ Rest(aggregate', u) = Rest(aggregate, u))
  <2>1. aggregate'[t] = inTurn /\ (\A u \in Txn \ {t} : aggregate'[u] = aggregate[u])
    BY <1>0, <1>1
  <2>. QED  BY <2>1 DEF Rest
<1>4. Pending' = Pending /\ (\A r \in Prio : Base(r)' = Base(r))
  <2>1. Pending' = Pending
    BY <1>1 DEF Pending
  <2>. QED  BY <1>1, <2>1 DEF Base
<1>5. Buffered'
  BY <1>1, <1>2, <1>3, <1>4 DEF Chained, Buffered
<1>6. aTxnQueues'[p] = Append(q, t) /\ (\A r \in Prio \ {p} : aTxnQueues'[r] = aTxnQueues[r])
  BY <1>0, <1>1 DEF TypeOK
<1>7. EndOf(p) = inTurn /\ Linked(p)
  <2>1. Turn(p) = inTurn
    <3>1. inTurn # << >> => 1 \in 1..Len(inTurn)
      BY <1>0
    <3>. QED  BY <1>1, <3>1 DEF Turn
  <2>. QED  BY <1>0, <2>1 DEF Chained
<1>8. /\ Len(Append(q, t)) = Len(q) + 1 /\ Len(q) \in Nat /\ Append(q, t)[Len(q) + 1] = t
      /\ \A i \in 1..Len(q) : Append(q, t)[i] = q[i] /\ q[i] \in Txn /\ q[i] # t
  <2>1. /\ Len(Append(q, t)) = Len(q) + 1 /\ Len(q) \in Nat /\ Append(q, t)[Len(q) + 1] = t
        /\ \A i \in 1..Len(q) : Append(q, t)[i] = q[i] /\ q[i] \in Txn
    BY <1>0
  <2>. QED  BY <1>0, <1>2, <2>1
<1>9. Linked(p)'
  <2>. DEFINE s == Append(q, t)
  <2>1. SUFFICES ASSUME NEW i \in 1..Len(s)
                 PROVE  aggregate'[s[i]] = IF i = 1 THEN Base(p) ELSE Rest(aggregate', s[i - 1])
    <3>1. Base(p)' = Base(p)
      BY <1>0, <1>4
    <3>2. aTxnQueues'[p] = s
      BY <1>6
    <3>. QED  BY <3>1, <3>2 DEF Linked, Rest
  <2>2. i # 1 => i - 1 \in 1..Len(q) /\ s[i - 1] = q[i - 1] /\ Rest(aggregate', s[i - 1]) = Rest(aggregate, q[i - 1])
    <3>1. i # 1 => i - 1 \in 1..Len(q)
      BY <1>8
    <3>2. i # 1 => s[i - 1] = q[i - 1] /\ q[i - 1] \in Txn \ {t}
      BY <1>8, <3>1
    <3>. QED  BY <1>3, <3>1, <3>2 DEF Rest
  <2>3. CASE i \in 1..Len(q)
    <3>1. s[i] = q[i] /\ aggregate'[q[i]] = aggregate[q[i]]
      BY <1>3, <1>8, <2>3
    <3>. QED  BY <1>7, <2>2, <2>3, <3>1 DEF Linked
  <2>4. CASE i = Len(q) + 1
    <3>1. aggregate'[s[i]] = inTurn
      BY <1>3, <1>8, <2>4
    <3>2. i = 1 <=> q = << >>
      <4>1. q # << >> => Len(q) \in 1..Len(q)
        BY <1>0, Lengths
      <4>. QED  BY <1>8, <2>4, <4>1
    <3>3. i # 1 => i - 1 = Len(q)
      BY <1>8, <2>4
    <3>. QED  BY <1>7, <2>2, <3>1, <3>2, <3>3 DEF EndOf
  <2>. QED  BY <1>8, <2>3, <2>4
<1>10. EndOf(p)' = Turn(p)'
  <2>1. Append(q, t) # << >>
    <3>1. Append(q, t) \in Seq(Txn) /\ Len(Append(q, t)) # 0
      BY <1>0, <1>8
    <3>. QED  BY <3>1, EmptyLength
  <2>2. EndOf(p)' = Rest(aggregate', Append(q, t)[Len(Append(q, t))])
    BY <1>6, <2>1 DEF EndOf, Rest
  <2>3. EndOf(p)' = IF t \in Aggregated THEN Append(inTurn, t) ELSE << >>
    <3>1. Append(q, t)[Len(Append(q, t))] = t
      BY <1>8
    <3>2. aggregate'[t] = inTurn
      BY <1>3
    <3>. QED  BY <2>2, <3>1, <3>2 DEF Rest
  <2>4. t \in Aggregated => inTurn' # << >> /\ inTurn'[1] \in {t, inTurn[1]} /\ (inTurn = << >> => inTurn'[1] = t)
    <3>. SUFFICES ASSUME t \in Aggregated
                  PROVE  inTurn' # << >> /\ inTurn'[1] \in {t, inTurn[1]} /\ (inTurn = << >> => inTurn'[1] = t)
      OBVIOUS
    <3>1. inTurn' = Append(inTurn, t)
      BY <1>1
    <3>2. Append(inTurn, t) # << >>
      <4>1. Append(inTurn, t) \in Seq(Txn) /\ Len(Append(inTurn, t)) # 0
        BY <1>0
      <4>. QED  BY <4>1, EmptyLength
    <3>3. inTurn = << >> => Append(inTurn, t)[1] = t
      OBVIOUS
    <3>4. inTurn # << >> => Append(inTurn, t)[1] = inTurn[1]
      BY <1>0
    <3>. QED  BY <3>1, <3>2, <3>3, <3>4
  <2>5. inTurn # << >> => prio[inTurn[1]] = p
    <3>1. inTurn # << >> => 1 \in 1..Len(inTurn)
      BY <1>0
    <3>. QED  BY <1>1, <3>1
  <2>. QED  BY <1>1, <2>3, <2>4, <2>5 DEF Turn
<1>11. ASSUME NEW r \in Prio, r # p PROVE (Linked(r) /\ EndOf(r) = Turn(r))'
  <2>. DEFINE s == aTxnQueues[r]
  <2>1. /\ aTxnQueues'[r] = s /\ s \in Seq(Txn) /\ Linked(r) /\ EndOf(r) = Turn(r) /\ Base(r)' = Base(r)
        /\ \A i \in 1..Len(s) : s[i] \in Txn \ {t}
    BY <1>0, <1>2, <1>4, <1>6, <1>11 DEF Chained
  <2>2. Turn(r) = << >>
    <3>1. inTurn # << >> => 1 \in 1..Len(inTurn)
      BY <1>0
    <3>. QED  BY <1>1, <1>11, <3>1 DEF Turn
  <2>3. Turn(r)' = << >>
    <3>1. inTurn' # << >> => t \in Aggregated
      BY <1>1
    <3>2. inTurn # << >> => prio[inTurn[1]] = p
      <4>1. inTurn # << >> => 1 \in 1..Len(inTurn)
        BY <1>0
      <4>. QED  BY <1>1, <4>1
    <3>3. t \in Aggregated => inTurn'[1] \in {t, inTurn[1]} /\ (inTurn = << >> => inTurn'[1] = t)
      BY <1>0, <1>1, Lengths
    <3>. QED  BY <1>11, <3>1, <3>2, <3>3 DEF Turn
  <2>4. EndOf(r)' = EndOf(r)
    <3>1. CASE s = << >>
      BY <2>1, <3>1 DEF EndOf
    <3>2. CASE s # << >>
      <4>1. s[Len(s)] \in Txn \ {t}
        BY <2>1, <3>2
      <4>2. EndOf(r)' = Rest(aggregate', s[Len(s)])
        BY <2>1, <3>2 DEF EndOf, Rest
      <4>3. EndOf(r) = Rest(aggregate, s[Len(s)])
        BY <3>2 DEF EndOf
      <4>4. Rest(aggregate', s[Len(s)]) = Rest(aggregate, s[Len(s)])
        BY <1>3, <2>1, <4>1 DEF Rest
      <4>. QED  BY <4>2, <4>3, <4>4
    <3>. QED  BY <3>1, <3>2
  <2>5. Linked(r)'
    <3>1. SUFFICES ASSUME NEW i \in 1..Len(s)
                   PROVE  aggregate'[s[i]] = IF i = 1 THEN Base(r) ELSE Rest(aggregate', s[i - 1])
      BY <2>1 DEF Linked, Rest
    <3>2. aggregate'[s[i]] = aggregate[s[i]]
      BY <1>3, <2>1
    <3>3. i # 1 => i - 1 \in 1..Len(s)
      BY <2>1
    <3>4. i # 1 => Rest(aggregate', s[i - 1]) = Rest(aggregate, s[i - 1])
      BY <1>3, <2>1, <3>3 DEF Rest
    <3>. QED  BY <2>1, <3>2, <3>4 DEF Linked
  <2>. QED  BY <2>1, <2>2, <2>3, <2>4, <2>5
<1>12. ASSUME NEW r \in Prio PROVE (Linked(r) /\ EndOf(r) = Turn(r))'
  BY <1>9, <1>10, <1>11
<1>. QED  BY <1>5, <1>12 DEF Chained

-----------------------------------------------------------------------------
(* As long as nothing is cleared and every part starts.                    *)
Whole == failedStarts = 0 => Chained

LEMMA WholeStep ==
    ASSUME MaxRestarts = 0, IndInv, Locals, OnePlace, Whole, [Next]_vars
    PROVE  Whole'
<1>. SUFFICES ASSUME failedStarts' = 0 PROVE Chained'
  BY DEF Whole
<1>0. failedStarts = 0 /\ Chained /\ TypeOK /\ sched \in SchedType /\ OwnContext
  BY FailuresCounted DEF Whole, IndInv, TypeOK
<1>1. CASE Select
  BY <1>0, <1>1, ChainSelect
<1>2. CASE Transact
  BY <1>0, <1>2, ChainTransact
<1>3. CASE RunAgain \/ Leave \/ Check \/ Status \/ Drain
  <2>1. UNCHANGED <<aTxnQueues, inTurn, aggregate, pAggregQueue, uTxnLength>>
    BY <1>3 DEF RunAgain, Leave, Check, Status, Drain, txnqvars, busvars, cltvars
  <2>2. sched.at # "transact" /\ sched'.at # "transact"
    <3>1. CASE Status
      BY <1>0, <3>1 DEF Status, SchedType
    <3>2. CASE RunAgain
      BY <1>0, <3>2 DEF RunAgain, SchedType
    <3>4. CASE Leave
      BY <3>4 DEF Leave, MayLeave, SchedulerOff
    <3>3. CASE Check \/ Drain
      BY <1>0, <3>3 DEF Check, AfterCheck, Drain, SchedType
    <3>. QED  BY <1>3, <3>1, <3>2, <3>3, <3>4
  <2>. QED  BY <1>0, <2>1, <2>2, ChainLeft
<1>4. CASE \E c \in {"drv", "ext"} : CallBusy(c) \/ Call(c)
  <2>1. UNCHANGED <<aTxnQueues, inTurn, aggregate, pAggregQueue, uTxnLength>>
    BY <1>4 DEF CallBusy, Call, txnqvars, busvars, cltvars
  <2>2. sched' = sched \/ (sched.at = "off" /\ sched'.at = "check")
    BY <1>4 DEF CallBusy, Call, bSchedulerBusy
  <2>. QED  BY <1>0, <2>1, <2>2, ChainLeft
<1>5. CASE PartDone \/ TxnDoneCb \/ BusFree \/ (\E t \in Elp : TransactSingleStep(t)) \/ Run \/ Stop
  <2>1. UNCHANGED <<aTxnQueues, inTurn, aggregate, pAggregQueue, uTxnLength, sched>>
    BY <1>5 DEF PartDone, TxnDoneCb, BusFree, TransactSingleStep, Run, Stop, txnqvars, busvars, cltvars
  <2>. QED  BY <1>0, <2>1, ChainLeft
<1>6. ASSUME NEW t \in Txn, TransactRegular(t)
      PROVE  Chained'
  <2>1. Held(t) = 0
    BY <1>0, <1>6 DEF TransactRegular, OnePlace
  <2>. QED  BY <1>0, <1>6, <2>1, ChainIssue
<1>7. ~(RestartDone \/ Restart \/ RestartTimeout)
  <2>1. ~(restarts < MaxRestarts)
    BY <1>0 DEF TypeOK
  <2>. QED  BY <1>0, <2>1 DEF RestartDone, Restart, RestartTimeout, OwnContext, Locals
<1>8. CASE UNCHANGED vars
  <2>1. UNCHANGED <<aTxnQueues, inTurn, aggregate, pAggregQueue, uTxnLength, sched>>
    BY <1>8 DEF vars, txnqvars, busvars, cltvars
  <2>. QED  BY <1>0, <2>1, ChainLeft
<1>. QED  BY <1>1, <1>2, <1>3, <1>4, <1>5, <1>6, <1>7, <1>8 DEF Next, Scheduler, TxnDone

TrackInv == IndInv /\ Singly /\ Locals /\ Somewhere

LEMMA Tracked == Spec => []TrackInv
<1>1. Init => TrackInv
  BY InitInv, InitLocals DEF TrackInv, Singly, Somewhere, Init
<1>2. TrackInv /\ [Next]_vars => TrackInv'
  BY StepInv, SinglyStep, LocalsStep, SomewhereStep DEF TrackInv
<1>. QED  BY <1>1, <1>2, PTL DEF Spec

(* A transaction that the client has issued since the last restart is in   *)
(* some queue, on the bus or being reported, whatever contexts interleave  *)
(* and restarts time out, until the second part of one fails to start.     *)
THEOREM NoTxnIsLost == Spec => []NothingLost
<1>1. TrackInv => NothingLost
  BY PlacesHeld DEF TrackInv, Somewhere, NothingLost
<1>. QED  BY <1>1, Tracked, PTL

OrderInv == TrackInv /\ OnePlace /\ Whole

LEMMA Ordered == MaxRestarts = 0 => (Spec => []OrderInv)
<1>. SUFFICES ASSUME MaxRestarts = 0 PROVE Spec => []OrderInv
  OBVIOUS
<1>1. Init => OrderInv
  BY InitInv, InitLocals, InitPlaces, InitChained DEF OrderInv, TrackInv, Singly, Somewhere, OnePlace, Whole, Init
<1>2. OrderInv /\ [Next]_vars => OrderInv'
  BY StepInv, SinglyStep, LocalsStep, SomewhereStep, OnePlaceStep, WholeStep DEF OrderInv, TrackInv
<1>. QED  BY <1>1, <1>2, PTL DEF Spec

(* Without restarts no transaction is in two places either, so that none   *)
(* is sent or reported twice.                                              *)
THEOREM NoTxnIsCopied == MaxRestarts = 0 => (Spec => [](failedStarts = 0 => InOnePlace))
<1>. SUFFICES ASSUME MaxRestarts = 0 PROVE Spec => [](failedStarts = 0 => InOnePlace)
  OBVIOUS
<1>1. OrderInv => (failedStarts = 0 => InOnePlace)
  BY PlacesHeld DEF OrderInv, OnePlace, InOnePlace
<1>. QED  BY <1>1, Ordered, PTL

(* And what is sent is an aggregation as the client issued it, in every    *)
(* order of the queues, the single steps and the two contexts.             *)
THEOREM AggregatesStayWhole == MaxRestarts = 0 => (Spec => [](failedStarts = 0 => AggregateSentWhole))
<1>. SUFFICES ASSUME MaxRestarts = 0 PROVE Spec => [](failedStarts = 0 => AggregateSentWhole)
  OBVIOUS
<1>1. OrderInv => (failedStarts = 0 => AggregateSentWhole)
  BY DEF OrderInv, Whole, Chained, Buffered, AggregateSentWhole
<1>. QED  BY <1>1, Ordered, PTL
=============================================================================
