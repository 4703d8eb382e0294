----------------------------- MODULE TwIfProofs -----------------------------
(***************************************************************************)
(* The transaction interface, proved for any number of clients, requests,  *)
(* events of the firmware and failures, and any interleaving of the bus,   *)
(* the chip, the timer and the driver's task.                              *)
(*                                                                         *)
(* What is fresh belongs to this life of the driver.  The invariant says   *)
(* where a fresh transaction may be, what its place implies for the state  *)
(* machines of TwIf and FwEvent, and that a chip that interrupts is going  *)
(* to be read.  Once a remainder of an earlier life came into this one     *)
(* (late) only the types and the requests to be awake are left of it.      *)
(***************************************************************************)
EXTENDS TwIf, FiniteSetTheorems, TLAPS

(* The transactions of this life that are in a queue, and the one on the   *)
(* bus; those the chip has not answered yet, and all of them.              *)
FreshIn(s) == {s[i].txn : i \in {k \in 1..Len(s) : s[k].fresh}}
BusFresh   == IF onBus # None /\ ~busDone /\ onBus.fresh THEN {onBus.txn} ELSE {}
Unread     == FreshIn(queue) \cup BusFresh
Out        == Unread \cup FreshIn(reported) \cup FreshIn(hTxnDoneQueue)

Once(s)       == \A i, j \in 1..Len(s) : s[i].fresh /\ s[j].fresh /\ s[i].txn = s[j].txn => i = j
AllFresh(s)   == \A i \in 1..Len(s) : s[i].fresh
Names(s)      == {s[i].txn : i \in 1..Len(s)}
Called(s)     == \A i \in 1..Len(s) : s[i].txn = "status" => s[i].cb
FailedRead(s) == \E i \in 1..Len(s) : s[i].txn = "status" /\ s[i].fresh /\ s[i].status = "ERROR"

SmTypes ==
    /\ eState \in {"AWAKE", "SLEEP", "WAIT_HW"} /\ txnQState \in {"RUNNING", "STOPPED", "RESTART"}
    /\ pSingleStep \in {"AWAKE", "SLEEP", None} /\ elp \in {"AWAKE", "SLEEP"}
ChipTypes ==
    /\ intr \subseteq Events \cup {"hw"} /\ irq \in BOOLEAN
    /\ waking \in BOOLEAN /\ (waking => intr = {})
CountTypes ==
    /\ uAwakeReqCount \in Nat /\ uPendingTxnCount \in Nat
    /\ holders \in 0..MaxHolders /\ errors \in 0..MaxErrors
BusTypes ==
    /\ queue \in Seq(BusEntry) /\ onBus \in BusEntry \cup {None} /\ busDone \in BOOLEAN
    /\ reported \in Seq(DoneEntry) /\ hTxnDoneQueue \in Seq(DoneEntry)
FwTypes ==
    /\ eSmState \in {"IDLE", "WAIT_INTR_INFO", "WAIT_HANDLE_COMPLT"} /\ bIntrPending \in BOOLEAN
    /\ uEventVector \subseteq Events /\ uEventMask \subseteq Events
    /\ pc \in {"idle", "done", "check", "fw", "fwRead", "handlers"} /\ ret \in {"idle", "check"}
DrvTypes ==
    /\ bTxnDoneInRecovery \in BOOLEAN /\ twifPending \in BOOLEAN
    /\ guardTicking \in BOOLEAN /\ guardQueued \in BOOLEAN
    /\ phase \in {"off", "boot", "config", "run", "stopping"}
    /\ failed \in BOOLEAN /\ late \in BOOLEAN /\ elpLost \in BOOLEAN
Types == SmTypes /\ ChipTypes /\ CountTypes /\ BusTypes /\ FwTypes /\ DrvTypes

Handlers ==
    /\ todo \subseteq Events /\ uNumPendHndlrs \in Nat
    /\ uNumPendHndlrs <= Cardinality(Events)
    /\ pc = "handlers" => eSmState = "WAIT_INTR_INFO" /\ uNumPendHndlrs + Cardinality(todo) <= Cardinality(Events)

(* The requests to be awake are those of the clients, the boot and FwEvent; *)
(* a failure may leave some behind.                                        *)
Boots == One(phase \in {"boot", "config"})
Needed ==
    /\ uAwakeReqCount >= holders + Boots + One(FwBusy)
    /\ ~failed => uAwakeReqCount = holders + Boots + One(FwBusy)

(* A fresh transaction is in one place, once, and nothing that was         *)
(* reported is still to be sent; only a restart leaves old ones to be sent. *)
QueueFresh == txnQState # "RESTART" => AllFresh(queue)

Places ==
    /\ AllFresh(hTxnDoneQueue)
    /\ Once(queue) /\ Once(reported) /\ Once(hTxnDoneQueue)
    /\ FreshIn(queue) \cap BusFresh = {} /\ (busDone => onBus # None)
    /\ Unread \cap Names(reported) = {} /\ Unread \cap FreshIn(hTxnDoneQueue) = {}
    /\ FreshIn(reported) \cap FreshIn(hTxnDoneQueue) = {}

Counted == uPendingTxnCount = Cardinality(Out)

(* FwEvent waits for the transactions of the handlers it called, and calls *)
(* none whose last one is outstanding.                                     *)
Handling ==
    /\ Out \cap Events = {} \/ Cardinality(Out \cap Events) <= uNumPendHndlrs
    /\ eSmState # "WAIT_HANDLE_COMPLT" /\ pc # "handlers" => Out \cap Events = {}
    /\ eSmState = "WAIT_HANDLE_COMPLT" /\ pc \in {"fw", "fwRead"} => Out \cap Events = {}
    /\ pc = "handlers" => Out \cap todo = {}

(* Nothing of a life is left when it has ended but what the restart waits  *)
(* for.                                                                    *)
Down ==
    /\ txnQState = "RESTART" => phase = "stopping" /\ ~bTxnDoneInRecovery
    /\ ~Up => /\ eState = "SLEEP" /\ eSmState = "IDLE" /\ pc \in {"idle", "done", "check"}
              /\ Out = {} /\ holders = 0 /\ ~failed
              /\ txnQState = "RESTART" \/ queue = << >>

(* Where FwEvent is while it reads the interrupt status.                   *)
Reading ==
    /\ eSmState = "IDLE" => ~bIntrPending
    /\ uEventVector # {} => eSmState = "WAIT_INTR_INFO" /\ "status" \notin Unread /\ pc \notin {"fwRead", "handlers"}
    /\ "status" \in Out => eSmState = "WAIT_INTR_INFO" /\ pc \notin {"fw", "fwRead", "handlers"}
    /\ pc = "fwRead" => eSmState \in {"IDLE", "WAIT_HANDLE_COMPLT"} /\ ~bIntrPending

(* An interrupt of the chip was taken and its status is going to be read,  *)
(* unless the read has failed.                                             *)
ToRead == (pc = "fw" /\ eSmState = "IDLE") \/ pc = "fwRead" \/ bIntrPending \/ "status" \in Unread

ReadLost ==
    /\ eSmState = "WAIT_INTR_INFO" /\ pc \in {"idle", "done", "check"}
    /\ (failed /\ "status" \notin Out) \/ FailedRead(reported) \/ FailedRead(hTxnDoneQueue)
ReadRefused ==
    /\ eSmState = "IDLE" /\ pc \in {"idle", "done", "check"} /\ failed /\ eState = "AWAKE"
    /\ uAwakeReqCount >= holders + Boots + 1

Interrupts ==
    Up => /\ irq => intr # {}
          /\ ToRead => intr # {} /\ ~irq
          /\ bIntrPending => "status" \notin Unread
          /\ intr # {} /\ ~irq => ToRead \/ ReadLost \/ ReadRefused

(* The read of the status has its callback wherever it is.                 *)
Calls == Called(queue) /\ Called(reported) /\ (onBus # None /\ onBus.txn = "status" => onBus.cb)

(* TwIf sleeps only when nothing is pending, and what it waits for when it *)
(* waits for the chip.                                                     *)
Sleeping ==
    Up => /\ (txnQState = "STOPPED") = (eState # "AWAKE")
          /\ eState = "SLEEP" => uPendingTxnCount = 0
          /\ eState # "AWAKE" => eSmState = "IDLE" /\ pc # "fwRead" /\ BusFresh = {}
          /\ eState = "WAIT_HW" =>
                /\ pSingleStep # "SLEEP"
                /\ pSingleStep = "AWAKE" \/ waking \/ irq \/ pc = "fw" \/ elpLost
                /\ pSingleStep = None => elp = "AWAKE" \/ elpLost

(* The chip of an awake TwIf is awake, or a write that wakes it up is the  *)
(* next thing on the bus.                                                  *)
Waken ==
    Up => /\ pSingleStep # None => BusFresh = {}
          /\ eState = "AWAKE" /\ ~elpLost =>
                IF pSingleStep = None THEN elp = "AWAKE" /\ ~waking ELSE pSingleStep = "AWAKE" /\ intr # {}

Good == Places /\ QueueFresh /\ Counted /\ Handling /\ Down /\ Reading /\ Interrupts /\ Calls /\ Sleeping /\ Waken
IndInv == Types /\ Handlers /\ Needed /\ (late \/ Good)

-----------------------------------------------------------------------------
(* What the queues' operations do to the transactions in them.             *)
Shown(e) == IF e.fresh THEN {e.txn} ELSE {}

LEMMA EmptySeq == FreshIn(<< >>) = {} /\ Once(<< >>) /\ AllFresh(<< >>) /\ Names(<< >>) = {}
BY DEF FreshIn, Once, AllFresh, Names

LEMMA FreshTyped ==
    ASSUME NEW s, s \in Seq(BusEntry) \/ s \in Seq(DoneEntry)
    PROVE  FreshIn(s) \subseteq Names(s) /\ Names(s) \subseteq Txn
<1>1. CASE s \in Seq(BusEntry)
  <2>1. \A i \in 1..Len(s) : s[i] \in BusEntry
    BY <1>1
  <2>2. \A i \in 1..Len(s) : s[i].txn \in Txn
    BY <2>1 DEF BusEntry
  <2>. QED  BY <2>2 DEF FreshIn, Names
<1>2. CASE s \in Seq(DoneEntry)
  <2>1. \A i \in 1..Len(s) : s[i] \in DoneEntry
    BY <1>2
  <2>2. \A i \in 1..Len(s) : s[i].txn \in Txn
    BY <2>1 DEF DoneEntry
  <2>. QED  BY <2>2 DEF FreshIn, Names
<1>. QED  BY <1>1, <1>2

LEMMA AllFreshNames == ASSUME NEW s, AllFresh(s) PROVE FreshIn(s) = Names(s)
BY DEF FreshIn, Names, AllFresh

LEMMA AppendSeq ==
    ASSUME NEW S, NEW s \in Seq(S), NEW e \in S
    PROVE  /\ FreshIn(Append(s, e)) = FreshIn(s) \cup Shown(e)
           /\ Names(Append(s, e)) = Names(s) \cup {e.txn}
           /\ Once(s) /\ (FreshIn(s) \cap Shown(e) = {}) => Once(Append(s, e))
           /\ AllFresh(s) /\ e.fresh => AllFresh(Append(s, e))
           /\ FailedRead(s) => FailedRead(Append(s, e))
           /\ e.txn = "status" /\ e.fresh /\ e.status = "ERROR" => FailedRead(Append(s, e))
<1>. DEFINE t == Append(s, e)
<1>1. Len(s) \in Nat /\ Len(t) = Len(s) + 1 /\ t[Len(t)] = e
  OBVIOUS
<1>2. \A i \in 1..Len(s) : t[i] = s[i]
  OBVIOUS
<1>3. \A i \in 1..Len(t) : i \in 1..Len(s) \/ i = Len(t)
  BY <1>1
<1>4. 1..Len(s) \subseteq 1..Len(t) /\ Len(t) \in 1..Len(t) /\ Len(t) \notin 1..Len(s)
  BY <1>1
<1>. HIDE DEF t
<1>5. FreshIn(t) = FreshIn(s) \cup Shown(e)
  BY <1>1, <1>2, <1>3, <1>4 DEF FreshIn, Shown
<1>6. Names(t) = Names(s) \cup {e.txn}
  BY <1>1, <1>2, <1>3, <1>4 DEF Names
<1>7. ASSUME Once(s), FreshIn(s) \cap Shown(e) = {} PROVE Once(t)
  BY <1>1, <1>2, <1>3, <1>4, <1>7 DEF Once, FreshIn, Shown
<1>8. AllFresh(s) /\ e.fresh => AllFresh(t)
  BY <1>1, <1>2, <1>3 DEF AllFresh
<1>9. /\ FailedRead(s) => FailedRead(t)
      /\ e.txn = "status" /\ e.fresh /\ e.status = "ERROR" => FailedRead(t)
  BY <1>1, <1>2, <1>4 DEF FailedRead
<1>. QED  BY <1>5, <1>6, <1>7, <1>8, <1>9 DEF t

LEMMA PrependSeq ==
    ASSUME NEW S, NEW s \in Seq(S), NEW e \in S
    PROVE  /\ <<e>> \o s \in Seq(S)
           /\ FreshIn(<<e>> \o s) = FreshIn(s) \cup Shown(e)
           /\ Once(s) /\ (FreshIn(s) \cap Shown(e) = {}) => Once(<<e>> \o s)
           /\ AllFresh(s) /\ e.fresh => AllFresh(<<e>> \o s)
<1>. DEFINE t == <<e>> \o s
<1>1. Len(s) \in Nat /\ t \in Seq(S) /\ Len(t) = Len(s) + 1 /\ t[1] = e
  OBVIOUS
<1>2. \A i \in 1..Len(s) : t[i + 1] = s[i] /\ i + 1 \in 1..Len(t) /\ i + 1 # 1
  BY <1>1
<1>3. \A i \in 1..Len(t) : i = 1 \/ (i - 1 \in 1..Len(s) /\ t[i] = s[i - 1])
  BY <1>1
<1>4. 1 \in 1..Len(t) /\ \A i, j \in 1..Len(t) : i - 1 = j - 1 => i = j
  BY <1>1
<1>. HIDE DEF t
<1>5. FreshIn(t) = FreshIn(s) \cup Shown(e)
  <2>1. FreshIn(t) \subseteq FreshIn(s) \cup Shown(e)
    BY <1>1, <1>3 DEF FreshIn, Shown
  <2>2. FreshIn(s) \cup Shown(e) \subseteq FreshIn(t)
    BY <1>1, <1>2, <1>4 DEF FreshIn, Shown
  <2>. QED  BY <2>1, <2>2
<1>7. ASSUME Once(s), FreshIn(s) \cap Shown(e) = {} PROVE Once(t)
  <2>. SUFFICES ASSUME NEW i \in 1..Len(t), NEW j \in 1..Len(t), t[i].fresh, t[j].fresh, t[i].txn = t[j].txn
                PROVE  i = j
    BY DEF Once
  <2>1. \A k \in 1..Len(s) : s[k].fresh /\ e.fresh => s[k].txn # e.txn
    BY <1>7 DEF FreshIn, Shown
  <2>2. CASE i = 1 \/ j = 1
    BY <1>1, <1>3, <2>1, <2>2
  <2>3. CASE i # 1 /\ j # 1
    <3>1. i - 1 \in 1..Len(s) /\ j - 1 \in 1..Len(s) /\ s[i - 1] = t[i] /\ s[j - 1] = t[j]
      BY <1>3, <2>3
    <3>2. i - 1 = j - 1
      BY <1>7, <3>1 DEF Once
    <3>. QED  BY <1>4, <3>2
  <2>. QED  BY <2>2, <2>3
<1>8. AllFresh(s) /\ e.fresh => AllFresh(t)
  BY <1>1, <1>3 DEF AllFresh
<1>. QED  BY <1>1, <1>5, <1>7, <1>8 DEF t

LEMMA TailSeq ==
    ASSUME NEW S, NEW s \in Seq(S), s # << >>
    PROVE  /\ Head(s) \in S /\ Tail(s) \in Seq(S)
           /\ FreshIn(s) = FreshIn(Tail(s)) \cup Shown(Head(s))
           /\ Names(s) = Names(Tail(s)) \cup {Head(s).txn}
           /\ Once(s) => Once(Tail(s)) /\ (FreshIn(Tail(s)) \cap Shown(Head(s)) = {})
           /\ AllFresh(s) => AllFresh(Tail(s)) /\ Head(s).fresh
           /\ FailedRead(s) =>
                \/ FailedRead(Tail(s))
                \/ Head(s).txn = "status" /\ Head(s).fresh /\ Head(s).status = "ERROR"
<1>. DEFINE t == Tail(s)
            e == Head(s)
<1>1. Len(s) \in Nat \ {0} /\ e \in S /\ t \in Seq(S) /\ Len(t) = Len(s) - 1 /\ s[1] = e
  OBVIOUS
<1>2. \A i \in 1..Len(t) : s[i + 1] = t[i] /\ i + 1 \in 1..Len(s) /\ i + 1 # 1
  BY <1>1
<1>3. \A i \in 1..Len(s) : i = 1 \/ (i - 1 \in 1..Len(t) /\ s[i] = t[i - 1])
  BY <1>1
<1>4. 1 \in 1..Len(s) /\ \A i, j \in 1..Len(t) : i + 1 = j + 1 => i = j
  BY <1>1
<1>. HIDE DEF t, e
<1>5. FreshIn(s) = FreshIn(t) \cup Shown(e)
  <2>1. ASSUME NEW i \in 1..Len(s), s[i].fresh PROVE s[i].txn \in FreshIn(t) \cup Shown(e)
    <3>1. CASE i = 1
      BY <1>1, <2>1, <3>1 DEF Shown
    <3>2. CASE i - 1 \in 1..Len(t) /\ s[i] = t[i - 1]
      BY <2>1, <3>2 DEF FreshIn
    <3>. QED  BY <1>3, <3>1, <3>2
  <2>2. FreshIn(s) \subseteq FreshIn(t) \cup Shown(e)
    BY <2>1 DEF FreshIn
  <2>3. FreshIn(t) \subseteq FreshIn(s)
    BY <1>2 DEF FreshIn
  <2>4. Shown(e) \subseteq FreshIn(s)
    BY <1>1, <1>4 DEF FreshIn, Shown
  <2>. QED  BY <2>2, <2>3, <2>4
<1>6. Names(s) = Names(t) \cup {e.txn}
  <2>1. Names(s) \subseteq Names(t) \cup {e.txn}
    BY <1>1, <1>3 DEF Names
  <2>2. Names(t) \cup {e.txn} \subseteq Names(s)
    BY <1>1, <1>2, <1>4 DEF Names
  <2>. QED  BY <2>1, <2>2
<1>7. ASSUME Once(s) PROVE Once(t) /\ FreshIn(t) \cap Shown(e) = {}
  <2>1. Once(t)
    BY <1>1, <1>2, <1>4, <1>7 DEF Once
  <2>2. \A k \in 1..Len(t) : t[k].fresh /\ e.fresh => t[k].txn # e.txn
    BY <1>1, <1>2, <1>4, <1>7 DEF Once
  <2>. QED  BY <2>1, <2>2 DEF FreshIn, Shown
<1>8. AllFresh(s) => AllFresh(t) /\ e.fresh
  BY <1>1, <1>2, <1>4 DEF AllFresh
<1>9. FailedRead(s) => FailedRead(t) \/ (e.txn = "status" /\ e.fresh /\ e.status = "ERROR")
  BY <1>1, <1>3 DEF FailedRead
<1>. QED  BY <1>1, <1>5, <1>6, <1>7, <1>8, <1>9 DEF t, e

LEMMA OldBus == ASSUME NEW e \in BusEntry PROVE Old(e) \in BusEntry /\ ~Old(e).fresh
BY DEF Old, BusEntry

LEMMA OldSeq ==
    ASSUME NEW s, s \in Seq(BusEntry) \/ s \in Seq(DoneEntry)
    PROVE  /\ s \in Seq(BusEntry) => OldAll(s) \in Seq(BusEntry)
           /\ s \in Seq(DoneEntry) => OldAll(s) \in Seq(DoneEntry)
           /\ FreshIn(OldAll(s)) = {} /\ Once(OldAll(s))
<1>1. Len(s) \in Nat
  OBVIOUS
<1>2. \A i \in 1..Len(s) : ~Old(s[i]).fresh
  BY DEF Old, BusEntry, DoneEntry
<1>3. s \in Seq(BusEntry) => \A i \in 1..Len(s) : Old(s[i]) \in BusEntry
  BY OldBus
<1>4. s \in Seq(DoneEntry) => \A i \in 1..Len(s) : Old(s[i]) \in DoneEntry
  <2>1. s \in Seq(DoneEntry) => \A i \in 1..Len(s) : s[i] \in DoneEntry
    OBVIOUS
  <2>2. \A e \in DoneEntry : Old(e) \in DoneEntry
    BY DEF Old, DoneEntry
  <2>. QED  BY <2>1, <2>2
<1>5. DOMAIN OldAll(s) = 1..Len(s) /\ \A i \in 1..Len(s) : OldAll(s)[i] = Old(s[i])
  BY DEF OldAll
<1>6. s \in Seq(BusEntry) => OldAll(s) \in Seq(BusEntry)
  BY <1>1, <1>3 DEF OldAll
<1>7. s \in Seq(DoneEntry) => OldAll(s) \in Seq(DoneEntry)
  BY <1>1, <1>4 DEF OldAll
<1>8. Len(OldAll(s)) = Len(s)
  BY <1>1 DEF OldAll
<1>9. FreshIn(OldAll(s)) = {} /\ Once(OldAll(s))
  BY <1>2, <1>5, <1>8 DEF FreshIn, Once
<1>. QED  BY <1>6, <1>7, <1>9

-----------------------------------------------------------------------------
LEMMA TxnFinite ==
    /\ IsFiniteSet(Txn) /\ "status" \in Txn /\ "status" \notin Events /\ "hw" \notin Events
    /\ Events \subseteq Txn /\ Requests \subseteq Txn /\ Requests \cap Events = {} /\ "status" \notin Requests
<1>1. IsFiniteSet({"status"})
  BY FS_Singleton
<1>2. IsFiniteSet({"status"} \cup Events \cup Requests)
  BY <1>1, FS_Union, TwIfAssumption
<1>. QED  BY <1>2, TwIfAssumption DEF Txn

LEMMA OutTyped == ASSUME Types PROVE Out \subseteq Txn /\ Unread \subseteq Out /\ IsFiniteSet(Out)
<1>1. FreshIn(queue) \subseteq Txn /\ FreshIn(reported) \subseteq Txn /\ FreshIn(hTxnDoneQueue) \subseteq Txn
  BY FreshTyped DEF Types, BusTypes
<1>2. BusFresh \subseteq Txn
  BY DEF Types, BusTypes, BusFresh, BusEntry
<1>3. Out \subseteq Txn
  BY <1>1, <1>2 DEF Out, Unread
<1>. QED  BY <1>3, TxnFinite, FS_Subset DEF Out

LEMMA OutstandingIsOut == Outstanding = Out
<1>1. Outstanding \subseteq Out
  BY DEF Outstanding, Entries, Out, Unread, BusFresh, FreshIn
<1>2. Out \subseteq Outstanding
  <2>1. FreshIn(queue) \subseteq Outstanding
    BY DEF Outstanding, Entries, FreshIn
  <2>2. FreshIn(reported) \subseteq Outstanding
    BY DEF Outstanding, Entries, FreshIn
  <2>3. FreshIn(hTxnDoneQueue) \subseteq Outstanding
    BY DEF Outstanding, Entries, FreshIn
  <2>4. BusFresh \subseteq Outstanding
    BY DEF Outstanding, Entries, BusFresh
  <2>. QED  BY <2>1, <2>2, <2>3, <2>4 DEF Out, Unread
<1>. QED  BY <1>1, <1>2

LEMMA EntryTyped ==
    /\ \A t \in Txn, cb \in BOOLEAN : /\ Entry(t, cb) \in BusEntry /\ Entry(t, cb).fresh
                                       /\ Entry(t, cb).txn = t /\ Entry(t, cb).cb = cb
    /\ Read \in BusEntry /\ Read.fresh /\ Read.txn = "status"
BY TxnFinite DEF Entry, BusEntry, Read

(* A transaction is reported with its status and without a second entry.    *)
Done(e, status) == [txn |-> e.txn, cb |-> e.cb, fresh |-> e.fresh, status |-> status]

LEMMA ReportTyped ==
    ASSUME Types, NEW e \in BusEntry, NEW status \in {"OK", "ERROR"}, Report(e, status)
    PROVE  /\ reported' \in Seq(DoneEntry)
           /\ Done(e, status) \in DoneEntry
           /\ reported' = IF LinkedBelow(e.txn) THEN reported ELSE Append(reported, Done(e, status))
<1>1. Done(e, status) \in DoneEntry
  BY DEF Done, BusEntry, DoneEntry
<1>2. reported' = IF LinkedBelow(e.txn) THEN reported ELSE Append(reported, Done(e, status))
  BY DEF Report, Done
<1>3. Append(reported, Done(e, status)) \in Seq(DoneEntry)
  BY <1>1 DEF Types, BusTypes
<1>. QED  BY <1>1, <1>2, <1>3 DEF Types, BusTypes

LEMMA LinkedNames == ASSUME NEW t PROVE (Linked(t) <=> t \in Names(hTxnDoneQueue)) /\ (LinkedBelow(t) <=> t \in Names(reported))
BY DEF Linked, LinkedBelow, Names

-----------------------------------------------------------------------------
(* What each group of actions leaves alone.                                *)
LeavesQueues == ClientAwake \/ ClientSleep \/ SendElp \/ HandleRecovery \/ HandleTxnDone
    \/ CheckSleep \/ NewEvent \/ FwIdle \/ FwHandleEvents \/ FwHandled \/ FwReadAgain \/ FwFinished
    \/ ChipWakes \/ (\E e \in Events : ChipRaises(e)) \/ GuardExpires \/ InitHw \/ EnableInterrupts
    \/ EnableExternalEvents \/ UNCHANGED vars
LEMMA QueuesLeft == ASSUME LeavesQueues PROVE UNCHANGED <<queue, onBus, reported, hTxnDoneQueue, busDone>>
BY DEF LeavesQueues, ClientAwake, quevars, busvars, ClientSleep, SendElp, twifvars, HandleRecovery,
   HandleTxnDone, CheckSleep, NewEvent, FwIdle, FwHandleEvents, FwHandled, FwReadAgain, FwFinished,
   ChipWakes, ChipRaises, GuardExpires, InitHw, EnableInterrupts, EnableExternalEvents, vars

LeavesSm == ClientAwake \/ SendNext \/ BusDone \/ BusFree \/ TxnDoneCb \/ HandleRecovery
    \/ HandleTxnDone \/ Dequeue \/ NewEvent \/ FwHandleEvents \/ FwHandled \/ ChipWakes
    \/ (\E e \in Events : ChipRaises(e)) \/ GuardExpires \/ EnableInterrupts \/ UNCHANGED vars
LEMMA SmLeft == ASSUME LeavesSm PROVE UNCHANGED <<eState, txnQState, pSingleStep, elp>>
BY DEF LeavesSm, ClientAwake, quevars, chipvars, SendNext, twifvars, BusDone, BusFree, TxnDoneCb,
   HandleRecovery, HandleTxnDone, Dequeue, NewEvent, FwHandleEvents, FwHandled, ChipWakes, ChipRaises,
   GuardExpires, EnableInterrupts, vars

LeavesChip == ClientAwake \/ RestartDone \/ BusFree \/ TxnDoneCb \/ HandleRecovery \/ HandleTxnDone
    \/ Dequeue \/ FwHandleEvents \/ FwHandled \/ Restart \/ GuardExpires \/ PendRestartTimeout
    \/ EnableInterrupts \/ UNCHANGED vars
LEMMA ChipLeft == ASSUME LeavesChip PROVE UNCHANGED <<waking, intr, irq>>
BY DEF LeavesChip, ClientAwake, chipvars, RestartDone, BusFree, TxnDoneCb, HandleRecovery,
   HandleTxnDone, Dequeue, FwHandleEvents, FwHandled, Restart, GuardExpires, PendRestartTimeout,
   EnableInterrupts, vars

LeavesCounts == RestartDone \/ BusFree \/ HandleRecovery \/ HandleTxnDone \/ CheckSleep \/ NewEvent
    \/ FwHandleEvents \/ FwHandled \/ FwReadAgain \/ ChipWakes \/ (\E e \in Events : ChipRaises(e))
    \/ GuardExpires \/ PendRestartTimeout \/ EnableInterrupts \/ UNCHANGED vars
LEMMA CountsLeft == ASSUME LeavesCounts PROVE UNCHANGED <<uAwakeReqCount, uPendingTxnCount, holders, errors>>
BY DEF LeavesCounts, RestartDone, drvvars, errvars, BusFree, twifvars, HandleRecovery, HandleTxnDone,
   CheckSleep, NewEvent, FwHandleEvents, FwHandled, FwReadAgain, ChipWakes, ChipRaises, GuardExpires,
   PendRestartTimeout, EnableInterrupts, vars

LeavesFw == (\E t \in Requests, cb \in BOOLEAN : ClientSends(t, cb)) \/ ClientAwake \/ ClientSleep
    \/ SendElp \/ RestartDone \/ BusFree \/ TxnDoneCb \/ HandleRecovery
    \/ (\E e \in Events : FwHandler(e)) \/ ChipWakes \/ (\E e \in Events : ChipRaises(e))
    \/ GuardExpires \/ PendRestartTimeout \/ InitHw \/ EnableExternalEvents \/ UNCHANGED vars
LEMMA FwLeft == ASSUME LeavesFw PROVE UNCHANGED <<eSmState, bIntrPending, uEventVector, uEventMask, pc, ret>>
BY DEF LeavesFw, ClientSends, fwvars, taskvars, ClientAwake, ClientSleep, SendElp, RestartDone, BusFree,
   TxnDoneCb, HandleRecovery, FwHandler, ChipWakes, ChipRaises, GuardExpires, PendRestartTimeout,
   InitHw, EnableExternalEvents, vars

LeavesDrv == ClientAwake \/ ClientSleep \/ SendNext \/ BusFree \/ CheckSleep \/ NewEvent \/ FwIdle
    \/ FwHandleEvents \/ FwHandled \/ FwReadAgain \/ FwFinished \/ ChipWakes
    \/ (\E e \in Events : ChipRaises(e)) \/ UNCHANGED vars
LEMMA DrvLeft == ASSUME LeavesDrv PROVE UNCHANGED <<phase, bTxnDoneInRecovery, twifPending, guardTicking, guardQueued, failed, late, elpLost>>
BY DEF LeavesDrv, ClientAwake, guardvars, errvars, ClientSleep, SendNext, twifvars, drvvars, BusFree,
   CheckSleep, NewEvent, FwIdle, FwHandleEvents, FwHandled, FwReadAgain, FwFinished, ChipWakes,
   ChipRaises, vars

-----------------------------------------------------------------------------
(* The types.                                                              *)
LEMMA Bounds == MaxHolders \in Nat /\ MaxErrors \in Nat
BY TwIfAssumption

LEMMA WriteTyped ==
    ASSUME SmTypes, ChipTypes, NEW v \in {"AWAKE", "SLEEP"}, WriteElpReg(v)
    PROVE  /\ pSingleStep' \in {"AWAKE", "SLEEP", None} /\ elp' \in {"AWAKE", "SLEEP"}
           /\ waking' \in BOOLEAN /\ (waking' => intr = {})
<1>1. pSingleStep' \in {"AWAKE", "SLEEP", None}
  BY DEF WriteElpReg
<1>2. elp' \in {"AWAKE", "SLEEP"} /\ waking' \in BOOLEAN
  BY DEF SmTypes, ChipTypes, WriteElpReg, Written
<1>3. waking' => intr = {}
  BY DEF ChipTypes, WriteElpReg, Written
<1>. QED  BY <1>1, <1>2, <1>3

LEMMA SmTyped ==
    ASSUME SmTypes, ChipTypes,
           SmStart \/ SmHwAvailable \/ SmSleep \/ \E a, n : SleepIfUnused(a, n)
    PROVE  SmTypes' /\ waking' \in BOOLEAN /\ (waking' => intr = {})
<1>1. CASE SmStart
  BY <1>1, WriteTyped DEF SmTypes, ChipTypes, SmStart
<1>2. CASE SmHwAvailable
  BY <1>2, WriteTyped DEF SmTypes, ChipTypes, SmHwAvailable, RunOnceAwake
<1>3. CASE SmSleep
  BY <1>3, WriteTyped DEF SmTypes, ChipTypes, SmSleep, StopTxnQ
<1>4. CASE \E a, n : SleepIfUnused(a, n)
  <2>1. CASE SmSleep
    BY <2>1, <1>3
  <2>2. CASE UNCHANGED <<eState, txnQState, pSingleStep, elp, waking>>
    BY <2>2 DEF SmTypes, ChipTypes
  <2>. QED  BY <1>4, <2>1, <2>2 DEF SleepIfUnused
<1>. QED  BY <1>1, <1>2, <1>3, <1>4

LEMMA SendTyped ==
    ASSUME Types, NEW e \in BusEntry, SendPending(e) \/ SendComplete(e) \/ SendError(e)
    PROVE  /\ SmTypes' /\ waking' \in BOOLEAN /\ (waking' => intr = {})
           /\ queue' \in Seq(BusEntry) /\ uPendingTxnCount' \in Nat
           /\ errors' \in 0..MaxErrors /\ failed' \in BOOLEAN
<1>1. SmTypes' /\ waking' \in BOOLEAN /\ (waking' => intr = {})
  BY SmTyped DEF SendPending, SendComplete, SendError, Types
<1>2. queue' \in Seq(BusEntry)
  <2>1. Append(queue, e) \in Seq(BusEntry) /\ <<e>> \o queue \in Seq(BusEntry)
    BY DEF Types, BusTypes
  <2>. QED  BY <2>1 DEF SendPending, SendComplete, SendError, Types, BusTypes
<1>3. uPendingTxnCount' \in Nat
  BY DEF SendPending, SendComplete, SendError, Types, CountTypes
<1>4. errors' \in 0..MaxErrors
  BY Bounds DEF SendPending, SendComplete, SendError, Types, CountTypes
<1>5. failed' \in BOOLEAN
  BY DEF SendPending, SendComplete, SendError, Types, DrvTypes
<1>. QED  BY <1>1, <1>2, <1>3, <1>4, <1>5

(* What the clients, FwEvent and its handlers send.                        *)
LEMMA Sends ==
    /\ \A t \in Requests, cb \in BOOLEAN : Entry(t, cb) \in BusEntry
    /\ \A e \in Events : Entry(e, TRUE) \in BusEntry
    /\ Read \in BusEntry
BY EntryTyped, TxnFinite

LEMMA SmTypesStep == ASSUME Types, [Next]_vars PROVE SmTypes'
<1>1. CASE LeavesSm
  BY <1>1, SmLeft DEF Types, SmTypes
<1>2. ASSUME NEW t \in Requests, NEW cb \in BOOLEAN, ClientSends(t, cb) PROVE SmTypes'
  BY <1>2, Sends, SendTyped DEF ClientSends
<1>3. ASSUME NEW e \in Events, FwHandler(e) PROVE SmTypes'
  BY <1>3, Sends, SendTyped DEF FwHandler
<1>4. CASE FwRead
  BY <1>4, Sends, SendTyped DEF FwRead
<1>5. CASE ClientSleep \/ CheckSleep \/ FwIdle \/ FwReadAgain \/ FwFinished \/ EnableExternalEvents
  <2>1. SmHwAvailable \/ \E a, n : SleepIfUnused(a, n)
    BY <1>5 DEF ClientSleep, CheckSleep, FwIdle, FwReadAgain, FwFinished, EnableExternalEvents, Sleep
  <2>. QED  BY <2>1, SmTyped DEF Types
<1>6. CASE SendElp
  BY <1>6 DEF SendElp, twifvars, Written, Types, SmTypes
<1>7. CASE RestartDone \/ PendRestartTimeout \/ Restart
  BY <1>7 DEF RestartDone, PendRestartTimeout, Restart, ClearQueues, twifvars, chipvars, Types, SmTypes
<1>8. CASE InitHw
  BY <1>8 DEF InitHw, Types, SmTypes
<1>. QED  BY <1>1, <1>2, <1>3, <1>4, <1>5, <1>6, <1>7, <1>8
          DEF Next, Bus, TwIfTask, FwEvent, Boot, LeavesSm

LEMMA ChipTypesStep == ASSUME Types, [Next]_vars PROVE ChipTypes'
<1>1. CASE LeavesChip
  BY <1>1, ChipLeft DEF Types, ChipTypes
<1>2. ASSUME NEW t \in Requests, NEW cb \in BOOLEAN, ClientSends(t, cb) PROVE ChipTypes'
  <2>1. waking' \in BOOLEAN /\ (waking' => intr = {})
    BY <1>2, Sends, SendTyped DEF ClientSends
  <2>. QED  BY <1>2, <2>1 DEF ClientSends, Types, ChipTypes
<1>3. ASSUME NEW e \in Events, FwHandler(e) PROVE ChipTypes'
  <2>1. waking' \in BOOLEAN /\ (waking' => intr = {})
    BY <1>3, Sends, SendTyped DEF FwHandler
  <2>. QED  BY <1>3, <2>1 DEF FwHandler, Types, ChipTypes
<1>4. CASE FwRead
  <2>1. waking' \in BOOLEAN /\ (waking' => intr = {})
    BY <1>4, Sends, SendTyped DEF FwRead
  <2>2. (intr' = intr \/ intr' = {}) /\ irq' = irq
    BY <1>4 DEF FwRead, Transferred
  <2>. QED  BY <2>1, <2>2 DEF Types, ChipTypes
<1>5. CASE ClientSleep \/ CheckSleep \/ FwIdle \/ FwReadAgain \/ FwFinished \/ EnableExternalEvents
  <2>1. SmHwAvailable \/ \E a, n : SleepIfUnused(a, n)
    BY <1>5 DEF ClientSleep, CheckSleep, FwIdle, FwReadAgain, FwFinished, EnableExternalEvents, Sleep
  <2>2. UNCHANGED <<intr, irq>>
    BY <1>5 DEF ClientSleep, CheckSleep, FwIdle, FwReadAgain, FwFinished, EnableExternalEvents
  <2>3. waking' \in BOOLEAN /\ (waking' => intr = {})
    BY <2>1, SmTyped DEF Types
  <2>. QED  BY <2>2, <2>3 DEF Types, ChipTypes
<1>6. CASE SendElp
  <2>1. waking' \in BOOLEAN /\ UNCHANGED <<intr, irq>>
    BY <1>6 DEF SendElp, Written, Types, ChipTypes
  <2>2. waking' => intr = {}
    BY <1>6 DEF SendElp, Written, Types, ChipTypes
  <2>. QED  BY <2>1, <2>2 DEF Types, ChipTypes
<1>7. CASE SendNext \/ BusDone
  BY <1>7 DEF SendNext, BusDone, Transferred, Types, ChipTypes
<1>8. CASE NewEvent
  BY <1>8 DEF NewEvent, Types, ChipTypes
<1>9. CASE ChipWakes
  BY <1>9 DEF ChipWakes, Raises, Types, ChipTypes
<1>10. ASSUME NEW e \in Events, ChipRaises(e) PROVE ChipTypes'
  BY <1>10 DEF ChipRaises, Raises, Types, ChipTypes
<1>11. CASE InitHw
  BY <1>11 DEF InitHw, ChipTypes
<1>. QED  BY <1>1, <1>2, <1>3, <1>4, <1>5, <1>6, <1>7, <1>8, <1>9, <1>10, <1>11
          DEF Next, Bus, TwIfTask, FwEvent, Boot, LeavesChip

LEMMA CountTypesStep == ASSUME Types, [Next]_vars PROVE CountTypes'
<1>1. CASE LeavesCounts
  BY <1>1, CountsLeft DEF Types, CountTypes
<1>2. ASSUME NEW t \in Requests, NEW cb \in BOOLEAN, ClientSends(t, cb) PROVE CountTypes'
  BY <1>2, Sends, SendTyped DEF ClientSends, drvvars, Types, CountTypes
<1>3. ASSUME NEW e \in Events, FwHandler(e) PROVE CountTypes'
  BY <1>3, Sends, SendTyped DEF FwHandler, drvvars, Types, CountTypes
<1>4. CASE FwRead
  BY <1>4, Sends, SendTyped DEF FwRead, drvvars, Types, CountTypes
<1>5. CASE ClientAwake \/ FwIdle \/ InitHw
  BY <1>5, Bounds DEF ClientAwake, FwIdle, InitHw, Awake, drvvars, errvars, Types, CountTypes
<1>6. CASE ClientSleep
  BY <1>6, Bounds DEF ClientSleep, Sleep, LessOne, errvars, Types, CountTypes
<1>7. CASE FwFinished \/ EnableExternalEvents
  BY <1>7 DEF FwFinished, EnableExternalEvents, Sleep, LessOne, drvvars, errvars, Types, CountTypes
<1>8. CASE SendElp \/ SendNext \/ BusDone
  BY <1>8, Bounds DEF SendElp, SendNext, BusDone, Fails, twifvars, drvvars, Types, CountTypes
<1>9. CASE TxnDoneCb \/ Dequeue
  <2>1. uPendingTxnCount' = uPendingTxnCount \/ uPendingTxnCount' = Less(uPendingTxnCount)
    BY <1>9 DEF TxnDoneCb, Dequeue
  <2>2. UNCHANGED <<uAwakeReqCount, holders, errors>>
    BY <1>9 DEF TxnDoneCb, Dequeue, drvvars
  <2>. QED  BY <2>1, <2>2 DEF Less, Types, CountTypes
<1>10. CASE Restart
  BY <1>10, Bounds DEF Restart, ResetCount, Fails, Types, CountTypes
<1>. QED  BY <1>1, <1>2, <1>3, <1>4, <1>5, <1>6, <1>7, <1>8, <1>9, <1>10
          DEF Next, Bus, TwIfTask, FwEvent, Boot, LeavesCounts

LEMMA BusTypesStep == ASSUME Types, [Next]_vars PROVE BusTypes'
<1>1. CASE LeavesQueues
  BY <1>1, QueuesLeft DEF Types, BusTypes
<1>2. ASSUME NEW t \in Requests, NEW cb \in BOOLEAN, ClientSends(t, cb) PROVE BusTypes'
  BY <1>2, Sends, SendTyped DEF ClientSends, busvars, Types, BusTypes
<1>3. ASSUME NEW e \in Events, FwHandler(e) PROVE BusTypes'
  BY <1>3, Sends, SendTyped DEF FwHandler, busvars, Types, BusTypes
<1>4. CASE FwRead
  BY <1>4, Sends, SendTyped DEF FwRead, busvars, Types, BusTypes
<1>5. CASE SendNext
  <2>1. Head(queue) \in BusEntry /\ Tail(queue) \in Seq(BusEntry)
    BY <1>5 DEF SendNext, Types, BusTypes
  <2>2. reported' \in Seq(DoneEntry) /\ (onBus' = onBus \/ onBus' = Head(queue))
    BY <1>5, <2>1, ReportTyped DEF SendNext, Types, BusTypes
  <2>. QED  BY <1>5, <2>1, <2>2 DEF SendNext, twifvars, Types, BusTypes
<1>6. CASE BusDone
  <2>1. onBus \in BusEntry
    BY <1>6 DEF BusDone, Types, BusTypes
  <2>2. reported' \in Seq(DoneEntry)
    BY <1>6, <2>1, ReportTyped DEF BusDone
  <2>. QED  BY <1>6, <2>2 DEF BusDone, twifvars, quevars, Types, BusTypes
<1>7. CASE RestartDone
  BY <1>7 DEF RestartDone, ClearQueues, Types, BusTypes
<1>11. CASE PendRestartTimeout
  BY <1>11 DEF PendRestartTimeout, ClearQueues, twifvars, busvars, Types, BusTypes
<1>12. CASE BusFree
  BY <1>12 DEF BusFree, twifvars, quevars, Types, BusTypes
<1>8. CASE TxnDoneCb
  <2>1. Head(reported) \in DoneEntry /\ Tail(reported) \in Seq(DoneEntry)
    BY <1>8 DEF TxnDoneCb, Types, BusTypes
  <2>2. Append(hTxnDoneQueue, Head(reported)) \in Seq(DoneEntry)
    BY <2>1 DEF Types, BusTypes
  <2>. QED  BY <1>8, <2>1, <2>2 DEF TxnDoneCb, quevars, Types, BusTypes
<1>9. CASE Dequeue
  BY <1>9 DEF Dequeue, quevars, busvars, Types, BusTypes
<1>10. CASE Restart
  <2>1. OldAll(queue) \in Seq(BusEntry) /\ OldAll(reported) \in Seq(DoneEntry)
    BY OldSeq DEF Types, BusTypes
  <2>2. onBus # None => Old(onBus) \in BusEntry
    BY OldBus DEF Types, BusTypes
  <2>3. onBus' = onBus \/ (onBus # None /\ onBus' = Old(onBus))
    BY <1>10 DEF Restart
  <2>4. queue' \in {<< >>, OldAll(queue)}
    BY <1>10 DEF Restart, ClearQueues
  <2>5. onBus' \in BusEntry \cup {None}
    BY <2>2, <2>3 DEF Types, BusTypes
  <2>6. << >> \in Seq(BusEntry)
    OBVIOUS
  <2>7. queue' \in Seq(BusEntry)
    BY <2>1, <2>4, <2>6
  <2>8. reported' = OldAll(reported) /\ hTxnDoneQueue' = << >> /\ busDone' = busDone
    BY <1>10 DEF Restart
  <2>9. reported' \in Seq(DoneEntry) /\ hTxnDoneQueue' \in Seq(DoneEntry)
    BY <2>1, <2>8
  <2>. QED  BY <2>5, <2>7, <2>8, <2>9 DEF Types, BusTypes
<1>. QED  BY <1>1, <1>2, <1>3, <1>4, <1>5, <1>6, <1>7, <1>8, <1>9, <1>10, <1>11, <1>12
          DEF Next, Bus, TwIfTask, FwEvent, Boot, LeavesQueues

(* What may follow a completion.                                           *)
LEMMA DequeueOutcomes ==
    ASSUME Types, Dequeue
    PROVE  \/ Head(hTxnDoneQueue).status = "ERROR" /\ pc' = "idle" /\ UNCHANGED <<uNumPendHndlrs, ret>> /\ failed'
           \/ /\ Head(hTxnDoneQueue).status = "OK" /\ failed' = failed
              /\ \/ Head(hTxnDoneQueue).txn = "status" /\ pc' = "fw" /\ ret' = "check" /\ UNCHANGED uNumPendHndlrs
                 \/ Head(hTxnDoneQueue).txn \in Events /\ CountDown
                        /\ uNumPendHndlrs # 0 /\ eSmState = "WAIT_HANDLE_COMPLT"
                 \/ Head(hTxnDoneQueue).txn \in Events /\ ThenCheck
                        /\ (uNumPendHndlrs = 0 \/ eSmState # "WAIT_HANDLE_COMPLT")
                 \/ Head(hTxnDoneQueue).txn \in Requests /\ ThenCheck
<1>. DEFINE e == Head(hTxnDoneQueue)
<1>1. e \in DoneEntry
  BY DEF Dequeue, Types, BusTypes
<1>2. e.status \in {"OK", "ERROR"} /\ e.txn \in Txn
  BY <1>1 DEF DoneEntry
<1>. HIDE DEF e
<1>3. CASE e.status = "ERROR"
  BY <1>3 DEF Dequeue, e, Types, DrvTypes
<1>4. CASE e.status = "OK"
  <2>0. failed' = failed
    BY <1>4 DEF Dequeue, e, Types, DrvTypes
  <2>1. CASE e.txn = "status"
    BY <1>4, <2>0, <2>1, TxnFinite DEF Dequeue, e
  <2>2. CASE e.txn \in Events
    <3>1. HandlerCompleted
      BY <1>4, <2>2, TxnFinite DEF Dequeue, e
    <3>. QED  BY <1>4, <2>0, <2>2, <3>1 DEF HandlerCompleted, e
  <2>3. CASE e.txn \in Requests
    BY <1>4, <2>0, <2>3, TxnFinite DEF Dequeue, e
  <2>. QED  BY <1>2, <2>1, <2>2, <2>3 DEF Txn
<1>. QED  BY <1>2, <1>3, <1>4

LEMMA FwTypesStep == ASSUME Types, [Next]_vars PROVE FwTypes'
<1>1. CASE LeavesFw
  BY <1>1, FwLeft DEF Types, FwTypes
<1>2. CASE SendNext \/ BusDone
  BY <1>2 DEF SendNext, BusDone, Transferred, taskvars, Types, ChipTypes, FwTypes
<1>3. CASE HandleTxnDone \/ CheckSleep
  BY <1>3 DEF HandleTxnDone, CheckSleep, fwvars, Types, FwTypes
<1>4. CASE Dequeue
  <2>1. pc' \in {"idle", "done", "check", "fw", "fwRead", "handlers"} /\ ret' \in {"idle", "check"}
    BY <1>4, DequeueOutcomes DEF ThenCheck, CountDown, Types, FwTypes
  <2>. QED  BY <1>4, <2>1 DEF Dequeue, Types, FwTypes
<1>5. CASE NewEvent
  BY <1>5 DEF NewEvent, KeepPending, taskvars, Types, FwTypes
<1>6. CASE FwIdle \/ FwHandled \/ FwHandleEvents
  BY <1>6 DEF FwIdle, FwHandled, FwHandleEvents, fwvars, Types, FwTypes
<1>7. CASE FwReadAgain \/ FwFinished \/ EnableInterrupts
  BY <1>7 DEF FwReadAgain, FwFinished, EnableInterrupts, fwvars, taskvars, Types, FwTypes
<1>8. CASE FwRead
  <2>1. pc' \in {"idle", "done", "check", "fw", "fwRead", "handlers"} /\ ret' \in {"idle", "check"}
    BY <1>8 DEF FwRead, Types, FwTypes
  <2>2. eSmState' \in {"IDLE", "WAIT_INTR_INFO", "WAIT_HANDLE_COMPLT"} /\ bIntrPending' \in BOOLEAN
    BY <1>8 DEF FwRead, FwStop, AwaitInfo, Types, FwTypes
  <2>3. uEventVector' \subseteq Events /\ uEventMask' \subseteq Events
    BY <1>8 DEF FwRead, FwStop, Transferred, Types, FwTypes, ChipTypes
  <2>. QED  BY <2>1, <2>2, <2>3 DEF FwTypes
<1>9. CASE Restart
  BY <1>9 DEF Restart, FwStop, taskvars, Types, FwTypes
<1>. QED  BY <1>1, <1>2, <1>3, <1>4, <1>5, <1>6, <1>7, <1>8, <1>9
          DEF Next, Bus, TwIfTask, FwEvent, Boot, LeavesFw

LEMMA DrvTypesStep == ASSUME Types, [Next]_vars PROVE DrvTypes'
<1>1. CASE LeavesDrv
  BY <1>1, DrvLeft DEF Types, DrvTypes
<1>2. ASSUME NEW t \in Requests, NEW cb \in BOOLEAN, ClientSends(t, cb) PROVE DrvTypes'
  BY <1>2, Sends, SendTyped DEF ClientSends, guardvars, drvvars, Types, DrvTypes
<1>3. ASSUME NEW e \in Events, FwHandler(e) PROVE DrvTypes'
  BY <1>3, Sends, SendTyped DEF FwHandler, guardvars, drvvars, Types, DrvTypes
<1>4. CASE FwRead
  BY <1>4, Sends, SendTyped DEF FwRead, guardvars, drvvars, Types, DrvTypes
<1>5. CASE SendElp
  BY <1>5 DEF SendElp, twifvars, guardvars, drvvars, Types, DrvTypes
<1>6. CASE BusDone
  <2>1. onBus.fresh \in BOOLEAN
    BY <1>6 DEF BusDone, Types, BusTypes, BusEntry
  <2>. QED  BY <1>6, <2>1 DEF BusDone, twifvars, guardvars, drvvars, Types, DrvTypes
<1>7. CASE RestartDone
  BY <1>7 DEF RestartDone, guardvars, drvvars, errvars, Types, DrvTypes
<1>8. CASE TxnDoneCb
  <2>1. Head(reported) \in DoneEntry
    BY <1>8 DEF TxnDoneCb, Types, BusTypes
  <2>2. Head(reported).fresh \in BOOLEAN
    BY <2>1 DEF DoneEntry
  <2>. QED  BY <1>8, <2>2 DEF TxnDoneCb, guardvars, drvvars, Types, DrvTypes
<1>9. CASE HandleRecovery \/ PendRestartTimeout
  BY <1>9 DEF HandleRecovery, PendRestartTimeout, RecoveryCb, Up, twifvars, Types, DrvTypes
<1>10. CASE HandleTxnDone
  BY <1>10 DEF HandleTxnDone, guardvars, drvvars, errvars, Types, DrvTypes
<1>11. CASE Dequeue
  BY <1>11 DEF Dequeue, guardvars, drvvars, Types, DrvTypes
<1>12. CASE Restart
  BY <1>12 DEF Restart, StartGuard, Types, DrvTypes
<1>13. CASE GuardExpires \/ InitHw \/ EnableInterrupts \/ EnableExternalEvents
  BY <1>13 DEF GuardExpires, InitHw, EnableInterrupts, EnableExternalEvents, twifvars, guardvars, drvvars, errvars,
     Types, DrvTypes
<1>. QED  BY <1>1, <1>2, <1>3, <1>4, <1>5, <1>6, <1>7, <1>8, <1>9, <1>10, <1>11, <1>12, <1>13
          DEF Next, Bus, TwIfTask, FwEvent, Boot, LeavesDrv

LEMMA TypesStep == ASSUME Types, [Next]_vars PROVE Types'
BY SmTypesStep, ChipTypesStep, CountTypesStep, BusTypesStep, FwTypesStep, DrvTypesStep DEF Types

-----------------------------------------------------------------------------
(* The handlers FwEvent waits for.                                         *)
LeavesHandlers == (\E t \in Requests, cb \in BOOLEAN : ClientSends(t, cb)) \/ ClientAwake
    \/ ClientSleep \/ SendElp \/ SendNext \/ BusDone \/ RestartDone \/ BusFree \/ TxnDoneCb
    \/ HandleRecovery \/ ChipWakes \/ (\E e \in Events : ChipRaises(e)) \/ GuardExpires
    \/ PendRestartTimeout \/ InitHw \/ EnableInterrupts \/ EnableExternalEvents \/ UNCHANGED vars
LEMMA HandlersLeft == ASSUME LeavesHandlers PROVE UNCHANGED <<todo, uNumPendHndlrs, pc, eSmState>>
BY DEF LeavesHandlers, ClientSends, fwvars, taskvars, ClientAwake, ClientSleep, SendElp, SendNext,
   BusDone, RestartDone, BusFree, TxnDoneCb, HandleRecovery, ChipWakes, ChipRaises, GuardExpires,
   PendRestartTimeout, InitHw, EnableInterrupts, EnableExternalEvents, vars

LEMMA EventSets ==
    ASSUME NEW S \in SUBSET Events
    PROVE  /\ IsFiniteSet(S) /\ Cardinality(S) \in Nat /\ Cardinality(S) <= Cardinality(Events)
           /\ \A e \in S : Cardinality(S \ {e}) = Cardinality(S) - 1
<1>1. IsFiniteSet(Events) /\ Cardinality(Events) \in Nat
  BY TwIfAssumption, FS_CardinalityType
<1>2. IsFiniteSet(S) /\ Cardinality(S) <= Cardinality(Events)
  BY <1>1, FS_Subset
<1>3. Cardinality(S) \in Nat
  BY <1>2, FS_CardinalityType
<1>4. \A e \in S : Cardinality(S \ {e}) = Cardinality(S) - 1
  BY <1>2, FS_RemoveElement
<1>. QED  BY <1>2, <1>3, <1>4

LEMMA HandlersStep == ASSUME Types, Handlers, [Next]_vars PROVE Handlers'
<1>1. CASE LeavesHandlers
  BY <1>1, HandlersLeft DEF Handlers
<1>2. CASE HandleTxnDone \/ CheckSleep
  BY <1>2 DEF HandleTxnDone, CheckSleep, fwvars, Handlers
<1>3. CASE Dequeue
  <2>1. uNumPendHndlrs' = uNumPendHndlrs \/ (uNumPendHndlrs # 0 /\ uNumPendHndlrs' = uNumPendHndlrs - 1)
    BY <1>3, DequeueOutcomes DEF ThenCheck, CountDown
  <2>2. pc' # "handlers"
    BY <1>3, DequeueOutcomes DEF ThenCheck, CountDown
  <2>3. todo' = todo
    BY <1>3 DEF Dequeue
  <2>4. Cardinality(Events) \in Nat
    BY EventSets
  <2>. QED  BY <2>1, <2>2, <2>3, <2>4 DEF Handlers
<1>4. CASE NewEvent \/ FwIdle
  BY <1>4 DEF NewEvent, FwIdle, fwvars, taskvars, Handlers
<1>5. CASE FwRead
  BY <1>5, EventSets DEF FwRead, FwStop, Handlers, Types, FwTypes
<1>6. CASE FwHandleEvents
  <2>1. todo' \subseteq Events /\ uNumPendHndlrs' = 0 /\ eSmState' = "WAIT_INTR_INFO"
    BY <1>6 DEF FwHandleEvents, Types, FwTypes
  <2>. QED  BY <2>1, EventSets DEF Handlers
<1>7. ASSUME NEW e \in Events, FwHandler(e) PROVE Handlers'
  <2>1. e \in todo /\ todo' = todo \ {e} /\ uNumPendHndlrs' \in {uNumPendHndlrs, uNumPendHndlrs + 1} /\ pc = "handlers"
    BY <1>7 DEF FwHandler
  <2>2. Cardinality(todo) \in Nat /\ Cardinality(todo') = Cardinality(todo) - 1 /\ Cardinality(todo') \in Nat
    BY <2>1, EventSets DEF Handlers
  <2>3. Cardinality(Events) \in Nat
    BY EventSets
  <2>4. pc' = pc /\ eSmState' = eSmState
    BY <1>7 DEF FwHandler, taskvars
  <2>. QED  BY <2>1, <2>2, <2>3, <2>4 DEF Handlers
<1>8. CASE FwHandled \/ FwReadAgain \/ FwFinished
  BY <1>8 DEF FwHandled, FwReadAgain, FwFinished, Handlers, Types, FwTypes
<1>9. CASE Restart
  BY <1>9, EventSets DEF Restart, FwStop, TaskFree, taskvars, Handlers
<1>. QED  BY <1>1, <1>2, <1>3, <1>4, <1>5, <1>6, <1>7, <1>8, <1>9
          DEF Next, Bus, TwIfTask, FwEvent, Boot, LeavesHandlers

-----------------------------------------------------------------------------
(* The requests to be awake.                                               *)
LeavesNeeded == SendElp \/ SendNext \/ BusDone \/ RestartDone \/ BusFree \/ TxnDoneCb \/ ChipWakes
    \/ (\E e \in Events : ChipRaises(e)) \/ GuardExpires \/ UNCHANGED vars
LEMMA NeededLeft == ASSUME LeavesNeeded PROVE UNCHANGED <<uAwakeReqCount, holders, phase, eSmState, pc, failed>>
BY DEF LeavesNeeded, SendElp, twifvars, fwvars, taskvars, drvvars, SendNext, BusDone, RestartDone,
   errvars, BusFree, TxnDoneCb, ChipWakes, ChipRaises, GuardExpires, vars

LEMMA NeededStep == ASSUME Types, Handlers, Needed, [Next]_vars PROVE Needed'
<1>. USE DEF Needed, Boots, FwBusy, One, Types
<1>1. CASE LeavesNeeded
  BY <1>1, NeededLeft
<1>2. ASSUME NEW t \in Requests, NEW cb \in BOOLEAN, ClientSends(t, cb) PROVE Needed'
  BY <1>2 DEF ClientSends, SendPending, SendComplete, SendError, fwvars, taskvars, drvvars
<1>3. ASSUME NEW e \in Events, FwHandler(e) PROVE Needed'
  <2>1. UNCHANGED <<uAwakeReqCount, holders, phase, eSmState, pc>>
    BY <1>3 DEF FwHandler, taskvars, drvvars
  <2>2. failed' = failed \/ failed'
    BY <1>3 DEF FwHandler, SendPending, SendComplete, SendError
  <2>. QED  BY <2>1, <2>2
<1>4. CASE ClientAwake
  BY <1>4 DEF ClientAwake, Awake, fwvars, taskvars, errvars, CountTypes
<1>5. CASE ClientSleep
  BY <1>5 DEF ClientSleep, Sleep, LessOne, fwvars, taskvars, errvars, CountTypes
<1>6. CASE HandleRecovery \/ PendRestartTimeout
  BY <1>6 DEF HandleRecovery, PendRestartTimeout, RecoveryCb, twifvars, fwvars, taskvars, CountTypes
<1>7. CASE HandleTxnDone \/ CheckSleep
  BY <1>7 DEF HandleTxnDone, CheckSleep, fwvars, drvvars, errvars
<1>8. CASE Dequeue
  <2>1. pc = "done" /\ pc' \in {"idle", "check", "fw"} /\ (failed' = failed \/ failed')
    BY <1>8, DequeueOutcomes DEF Dequeue, ThenCheck, CountDown
  <2>2. UNCHANGED <<uAwakeReqCount, holders, phase, eSmState>>
    BY <1>8 DEF Dequeue, drvvars
  <2>. QED  BY <2>1, <2>2
<1>9. CASE NewEvent
  BY <1>9 DEF NewEvent, twifvars, taskvars, drvvars, errvars
<1>10. CASE FwIdle
  BY <1>10 DEF FwIdle, Awake, fwvars, drvvars, errvars, CountTypes
<1>11. CASE FwRead
  <2>1. pc = "fwRead" /\ pc' # "fwRead" /\ UNCHANGED <<uAwakeReqCount, holders, phase>>
    BY <1>11 DEF FwRead, drvvars, FwTypes
  <2>2. \/ eSmState' = "WAIT_INTR_INFO" /\ failed' = failed
        \/ eSmState' = "IDLE" /\ failed'
    BY <1>11 DEF FwRead, AwaitInfo, FwStop, SendPending, SendComplete, SendError
  <2>. QED  BY <2>1, <2>2 DEF CountTypes
<1>12. CASE FwHandleEvents \/ FwHandled
  BY <1>12 DEF FwHandleEvents, FwHandled, twifvars, drvvars, errvars, FwTypes, Handlers
<1>13. CASE FwReadAgain
  BY <1>13 DEF FwReadAgain, drvvars, errvars
<1>14. CASE FwFinished
  BY <1>14 DEF FwFinished, Sleep, LessOne, drvvars, errvars, CountTypes, FwTypes
<1>15. CASE Restart
  BY <1>15 DEF Restart, FwStop, ClearQueues, TaskFree, taskvars
<1>16. CASE InitHw
  BY <1>16 DEF InitHw, Awake, fwvars, taskvars, errvars, CountTypes
<1>17. CASE EnableInterrupts
  BY <1>17 DEF EnableInterrupts, twifvars, taskvars, errvars
<1>18. CASE EnableExternalEvents
  BY <1>18 DEF EnableExternalEvents, Sleep, LessOne, fwvars, taskvars, errvars, CountTypes
<1>. QED  BY <1>1, <1>2, <1>3, <1>4, <1>5, <1>6, <1>7, <1>8, <1>9, <1>10, <1>11, <1>12, <1>13, <1>14, <1>15, <1>16,
             <1>17, <1>18 DEF Next, Bus, TwIfTask, FwEvent, Boot, LeavesNeeded

-----------------------------------------------------------------------------
(* Once late, always late: a life with a remainder in it is not followed.  *)
LEMMA LateStays == ASSUME Types, [Next]_vars, late PROVE late'
<1>1. CASE LeavesDrv
  BY <1>1, DrvLeft
<1>2. ASSUME NEW t \in Requests, NEW cb \in BOOLEAN, ClientSends(t, cb) PROVE late'
  BY <1>2 DEF ClientSends
<1>3. ASSUME NEW e \in Events, FwHandler(e) PROVE late'
  BY <1>3 DEF FwHandler
<1>4. CASE Restart
  BY <1>4 DEF Restart, Followed
<1>5. CASE FwRead \/ SendElp \/ BusDone \/ RestartDone \/ TxnDoneCb \/ HandleRecovery
  BY <1>5 DEF FwRead, SendElp, BusDone, RestartDone, TxnDoneCb, HandleRecovery, errvars
<1>6. CASE PendRestartTimeout \/ HandleTxnDone \/ Dequeue \/ GuardExpires \/ InitHw \/ EnableInterrupts \/ EnableExternalEvents
  BY <1>6 DEF PendRestartTimeout, HandleTxnDone, Dequeue, GuardExpires, InitHw, EnableInterrupts,
     EnableExternalEvents, errvars
<1>. QED  BY <1>1, <1>2, <1>3, <1>4, <1>5, <1>6 DEF Next, Bus, TwIfTask, FwEvent, Boot, LeavesDrv

-----------------------------------------------------------------------------
(* How the transactions move.                                              *)
LEMMA QueuesLeftEffect ==
    ASSUME Places, UNCHANGED <<queue, onBus, reported, hTxnDoneQueue, busDone>>
    PROVE  Places' /\ Out' = Out /\ Unread' = Unread /\ BusFresh' = BusFresh
<1>1. Out' = Out /\ Unread' = Unread /\ BusFresh' = BusFresh
  BY DEF Out, Unread, BusFresh
<1>. QED  BY <1>1 DEF Places

LEMMA SendEffect ==
    ASSUME Types, Places, NEW e \in BusEntry, e.fresh, e.txn \notin Out,
           SendPending(e), UNCHANGED <<onBus, reported, hTxnDoneQueue, busDone>>
    PROVE  /\ Places' /\ (QueueFresh /\ (txnQState' = txnQState) => QueueFresh')
           /\ Out' = Out \cup {e.txn} /\ Unread' = Unread \cup {e.txn} /\ BusFresh' = BusFresh
<1>1. queue \in Seq(BusEntry)
  BY DEF Types, BusTypes
<1>2. queue' = <<e>> \o queue \/ queue' = Append(queue, e)
  BY DEF SendPending
<1>3. e.txn \notin FreshIn(queue) /\ Shown(e) = {e.txn} /\ e.txn \notin Names(reported) /\ e.txn \notin BusFresh
  BY LinkedNames DEF Out, Unread, SendPending, Refused, Shown
<1>4. FreshIn(queue') = FreshIn(queue) \cup {e.txn} /\ (Once(queue) => Once(queue')) /\ (AllFresh(queue) => AllFresh(queue'))
  <2>1. FreshIn(queue) \cap Shown(e) = {}
    BY <1>3
  <2>2. CASE queue' = <<e>> \o queue
    BY <1>1, <1>3, <2>1, <2>2, PrependSeq
  <2>3. CASE queue' = Append(queue, e)
    BY <1>1, <1>3, <2>1, <2>3, AppendSeq
  <2>. QED  BY <1>2, <2>2, <2>3
<1>5. BusFresh' = BusFresh
  BY DEF BusFresh
<1>6. Unread' = Unread \cup {e.txn}
  BY <1>4, <1>5 DEF Unread
<1>7. Out' = Out \cup {e.txn}
  BY <1>6 DEF Out
<1>8. Places'
  <2>1. AllFresh(hTxnDoneQueue)' /\ Once(queue)' /\ Once(reported)' /\ Once(hTxnDoneQueue)'
    BY <1>4 DEF Places
  <2>2. (FreshIn(queue) \cap BusFresh)' = {}
    BY <1>3, <1>4, <1>5 DEF Places
  <2>3. (Unread \cap Names(reported))' = {}
    BY <1>3, <1>6 DEF Places
  <2>4. (Unread \cap FreshIn(hTxnDoneQueue))' = {}
    BY <1>6 DEF Places, Out
  <2>5. (FreshIn(reported) \cap FreshIn(hTxnDoneQueue))' = {}
    BY DEF Places
  <2>. QED  BY <2>1, <2>2, <2>3, <2>4, <2>5 DEF Places
<1>. QED  BY <1>4, <1>5, <1>6, <1>7, <1>8 DEF QueueFresh

(* A fresh transaction that the chip has answered is reported.             *)
LEMMA ReportEffect ==
    ASSUME Types, Places, NEW e \in BusEntry, e.fresh, e.txn \in Unread, NEW status \in {"OK", "ERROR"},
           Report(e, status), UNCHANGED hTxnDoneQueue, Unread' = Unread \ {e.txn},
           Once(queue'), FreshIn(queue') \cap BusFresh' = {}, (busDone => onBus # None)'
    PROVE  Places' /\ Out' = Out /\ reported' = Append(reported, Done(e, status))
<1>1. e.txn \notin Names(reported) /\ e.txn \notin FreshIn(hTxnDoneQueue)
  BY DEF Places
<1>2. reported' = Append(reported, Done(e, status)) /\ Done(e, status) \in DoneEntry
  BY <1>1, ReportTyped, LinkedNames
<1>3. Done(e, status).txn = e.txn /\ Done(e, status).fresh
  BY DEF Done
<1>4. reported \in Seq(DoneEntry)
  BY DEF Types, BusTypes
<1>5. FreshIn(reported) \subseteq Names(reported)
  BY <1>4, FreshTyped
<1>6. /\ FreshIn(reported') = FreshIn(reported) \cup {e.txn}
      /\ Names(reported') = Names(reported) \cup {e.txn}
      /\ Once(reported) => Once(reported')
  <2>1. Shown(Done(e, status)) = {e.txn}
    BY <1>3 DEF Shown
  <2>. QED  BY <1>1, <1>2, <1>3, <1>4, <1>5, <2>1, AppendSeq
<1>7. Out' = Out
  BY <1>6 DEF Out
<1>8. Places'
  <2>1. AllFresh(hTxnDoneQueue)' /\ Once(queue)' /\ Once(reported)' /\ Once(hTxnDoneQueue)'
    BY <1>6 DEF Places
  <2>2. (Unread \cap Names(reported))' = {}
    BY <1>6 DEF Places
  <2>3. (Unread \cap FreshIn(hTxnDoneQueue))' = {}
    BY DEF Places
  <2>4. (FreshIn(reported) \cap FreshIn(hTxnDoneQueue))' = {}
    BY <1>1, <1>6 DEF Places
  <2>. QED  BY <2>1, <2>2, <2>3, <2>4 DEF Places
<1>. QED  BY <1>2, <1>7, <1>8

LEMMA SendNextEffect ==
    ASSUME Types, Places, QueueFresh, SendNext
    PROVE  LET e == Head(queue)
           IN  /\ Places' /\ QueueFresh' /\ Out' = Out /\ e.txn \in Unread /\ BusFresh = {}
               /\ e \in BusEntry /\ e.fresh
               /\ \/ Unread' = Unread /\ UNCHANGED <<reported, errors, uEventVector, intr>>
                  \/ /\ Unread' = Unread \ {e.txn} /\ BusFresh' = {}
                     /\ \/ reported' = Append(reported, Done(e, "OK")) /\ Transferred(e)
                        \/ reported' = Append(reported, Done(e, "ERROR")) /\ UNCHANGED <<uEventVector, intr>>
<1>. DEFINE e == Head(queue)
<1>1. queue \in Seq(BusEntry) /\ queue # << >> /\ queue' = Tail(queue) /\ onBus = None
  BY DEF SendNext, Types, BusTypes
<1>2. UNCHANGED <<hTxnDoneQueue, busDone, txnQState>> /\ txnQState = "RUNNING"
  BY DEF SendNext, twifvars
<1>3. AllFresh(queue)
  BY <1>2 DEF QueueFresh
<1>4. /\ e \in BusEntry /\ e.fresh /\ FreshIn(queue) = FreshIn(queue') \cup {e.txn} /\ e.txn \notin FreshIn(queue')
      /\ Once(queue') /\ AllFresh(queue')
  BY <1>1, <1>3, TailSeq DEF Places, Shown
<1>5. BusFresh = {} /\ e.txn \in Unread
  BY <1>1, <1>4 DEF BusFresh, Unread
<1>6. QueueFresh'
  BY <1>4 DEF QueueFresh
<1>. HIDE DEF e
<1>7. CASE onBus' = e /\ UNCHANGED <<reported, errors, uEventVector, intr>>
  <2>1. e # None /\ ~busDone
    BY <1>1, <1>4, TwIfAssumption DEF Places
  <2>2. BusFresh' = {e.txn}
    BY <1>2, <1>4, <1>7, <2>1 DEF BusFresh
  <2>3. Unread' = Unread
    BY <1>4, <1>5, <2>2 DEF Unread
  <2>4. Out' = Out
    BY <1>2, <1>7, <2>3 DEF Out
  <2>5. Places'
    <3>1. AllFresh(hTxnDoneQueue)' /\ Once(queue)' /\ Once(reported)' /\ Once(hTxnDoneQueue)'
      BY <1>2, <1>4, <1>7 DEF Places
    <3>2. (FreshIn(queue) \cap BusFresh)' = {} /\ (busDone => onBus # None)'
      BY <1>2, <1>4, <2>1, <2>2
    <3>3. (Unread \cap Names(reported))' = {} /\ (Unread \cap FreshIn(hTxnDoneQueue))' = {}
           /\ (FreshIn(reported) \cap FreshIn(hTxnDoneQueue))' = {}
      BY <1>2, <1>7, <2>3 DEF Places
    <3>. QED  BY <3>1, <3>2, <3>3 DEF Places
  <2>. QED  BY <1>4, <1>5, <1>6, <1>7, <2>3, <2>4, <2>5 DEF e
<1>8. ASSUME NEW status \in {"OK", "ERROR"}, Report(e, status), onBus' = onBus
      PROVE  Places' /\ Out' = Out /\ reported' = Append(reported, Done(e, status))
             /\ Unread' = Unread \ {e.txn} /\ BusFresh' = {}
  <2>1. BusFresh' = {}
    BY <1>1, <1>8 DEF BusFresh
  <2>2. Unread' = Unread \ {e.txn}
    BY <1>4, <1>5, <2>1 DEF Unread
  <2>3. (busDone => onBus # None)'
    BY <1>2, <1>8 DEF Places
  <2>. QED  BY <1>2, <1>4, <1>5, <1>8, <2>1, <2>2, <2>3, ReportEffect
<1>9. CASE Report(e, "OK") /\ Transferred(e) /\ UNCHANGED <<onBus, errors>>
  BY <1>4, <1>5, <1>6, <1>8, <1>9 DEF e
<1>10. CASE Report(e, "ERROR") /\ Fails /\ UNCHANGED <<onBus, uEventVector, intr>>
  BY <1>4, <1>5, <1>6, <1>8, <1>10 DEF e
<1>. QED  BY <1>7, <1>9, <1>10 DEF SendNext, e

LEMMA BusDoneEffect ==
    ASSUME Types, Places, BusDone, ~late'
    PROVE  /\ Places' /\ Out' = Out /\ Unread' = Unread \ BusFresh /\ BusFresh' = {}
           /\ onBus \in BusEntry /\ onBus.fresh /\ BusFresh = {onBus.txn}
           /\ \/ reported' = Append(reported, Done(onBus, "OK")) /\ Transferred(onBus)
              \/ reported' = Append(reported, Done(onBus, "ERROR")) /\ UNCHANGED <<uEventVector, intr>>
<1>1. onBus \in BusEntry /\ onBus.fresh /\ onBus # None /\ ~busDone /\ busDone' /\ onBus' = onBus
  BY DEF BusDone, Types, BusTypes
<1>2. UNCHANGED <<queue, hTxnDoneQueue>>
  BY DEF BusDone, twifvars, quevars
<1>3. BusFresh = {onBus.txn} /\ BusFresh' = {}
  BY <1>1 DEF BusFresh
<1>4. Unread' = Unread \ {onBus.txn} /\ onBus.txn \in Unread
  BY <1>2, <1>3 DEF Unread, Places
<1>5. ASSUME NEW status \in {"OK", "ERROR"}, Report(onBus, status)
      PROVE  Places' /\ Out' = Out /\ reported' = Append(reported, Done(onBus, status))
  <2>1. Once(queue') /\ FreshIn(queue') \cap BusFresh' = {} /\ (busDone => onBus # None)'
    BY <1>1, <1>2, <1>3 DEF Places
  <2>. QED  BY <1>1, <1>2, <1>4, <1>5, <2>1, ReportEffect
<1>6. CASE Report(onBus, "OK") /\ Transferred(onBus)
  BY <1>1, <1>3, <1>4, <1>5, <1>6
<1>7. CASE Report(onBus, "ERROR") /\ UNCHANGED <<uEventVector, intr>>
  BY <1>1, <1>3, <1>4, <1>5, <1>7
<1>. QED  BY <1>6, <1>7 DEF BusDone

(* A completion passes to the driver's task, or is only counted.           *)
LEMMA TxnDoneEffect ==
    ASSUME Types, Places, TxnDoneCb, ~late'
    PROVE  LET e == Head(reported)
           IN  /\ Places' /\ Unread' = Unread /\ BusFresh' = BusFresh
               /\ e \in DoneEntry /\ e.fresh /\ e.txn \in Out
               /\ reported' = Tail(reported) /\ e.txn \notin FreshIn(hTxnDoneQueue)
               /\ \/ /\ ~e.cb /\ Out' = Out \ {e.txn} /\ uPendingTxnCount' = Less(uPendingTxnCount)
                     /\ UNCHANGED hTxnDoneQueue
                  \/ /\ e.cb /\ Out' = Out /\ UNCHANGED uPendingTxnCount
                     /\ hTxnDoneQueue' = Append(hTxnDoneQueue, e)
<1>. DEFINE e == Head(reported)
<1>1. reported \in Seq(DoneEntry) /\ hTxnDoneQueue \in Seq(DoneEntry) /\ reported # << >> /\ reported' = Tail(reported)
      /\ e.fresh /\ UNCHANGED <<queue, onBus, busDone>>
  BY DEF TxnDoneCb, Types, BusTypes, quevars
<1>2. e \in DoneEntry /\ Tail(reported) \in Seq(DoneEntry)
  BY <1>1, TailSeq
<1>3. /\ FreshIn(reported) = FreshIn(reported') \cup {e.txn} /\ e.txn \notin FreshIn(reported')
      /\ Names(reported) = Names(reported') \cup {e.txn} /\ Once(reported')
  BY <1>1, TailSeq DEF Places, Shown
<1>4. Unread' = Unread /\ BusFresh' = BusFresh
  BY <1>1 DEF Unread, BusFresh
<1>5. e.txn \in Out /\ e.txn \notin Unread /\ e.txn \notin FreshIn(hTxnDoneQueue)
  BY <1>3 DEF Out, Places
<1>6. ~Linked(e.txn)
  BY <1>5, LinkedNames, AllFreshNames DEF Places
<1>7. CASE ~e.cb
  <2>1. UNCHANGED hTxnDoneQueue /\ uPendingTxnCount' = Less(uPendingTxnCount)
    BY <1>7 DEF TxnDoneCb
  <2>2. Out' = Out \ {e.txn}
    BY <1>3, <1>4, <1>5, <2>1 DEF Out
  <2>3. Places'
    BY <1>1, <1>3, <1>4, <2>1 DEF Places
  <2>. QED  BY <1>1, <1>2, <1>4, <1>5, <1>7, <2>1, <2>2, <2>3
<1>8. CASE e.cb
  <2>1. hTxnDoneQueue' = Append(hTxnDoneQueue, e) /\ UNCHANGED uPendingTxnCount
    BY <1>6, <1>8 DEF TxnDoneCb
  <2>2. FreshIn(hTxnDoneQueue) \cap Shown(e) = {} /\ Shown(e) = {e.txn}
    BY <1>1, <1>5 DEF Shown
  <2>3. /\ FreshIn(hTxnDoneQueue') = FreshIn(hTxnDoneQueue) \cup {e.txn}
        /\ Once(hTxnDoneQueue') /\ AllFresh(hTxnDoneQueue')
    BY <1>1, <1>2, <2>1, <2>2, AppendSeq DEF Places
  <2>4. Out' = Out
    BY <1>3, <1>4, <2>3 DEF Out
  <2>5. Places'
    <3>1. Once(queue)' /\ (FreshIn(queue) \cap BusFresh)' = {} /\ (busDone => onBus # None)'
      BY <1>1, <1>4 DEF Places
    <3>2. (Unread \cap Names(reported))' = {} /\ (Unread \cap FreshIn(hTxnDoneQueue))' = {}
      BY <1>3, <1>4, <1>5, <2>3 DEF Places
    <3>3. (FreshIn(reported) \cap FreshIn(hTxnDoneQueue))' = {}
      BY <1>3, <2>3 DEF Places
    <3>. QED  BY <1>3, <2>3, <3>1, <3>2, <3>3 DEF Places
  <2>. QED  BY <1>1, <1>2, <1>4, <1>5, <1>8, <2>1, <2>4, <2>5
<1>. QED  BY <1>7, <1>8

LEMMA DequeueEffect ==
    ASSUME Types, Places, Dequeue
    PROVE  LET e == Head(hTxnDoneQueue)
           IN  /\ Places' /\ Unread' = Unread /\ BusFresh' = BusFresh /\ Out' = Out \ {e.txn}
               /\ e \in DoneEntry /\ e.fresh /\ e.txn \in Out
               /\ hTxnDoneQueue' = Tail(hTxnDoneQueue) /\ UNCHANGED reported
<1>. DEFINE e == Head(hTxnDoneQueue)
<1>1. hTxnDoneQueue \in Seq(DoneEntry) /\ hTxnDoneQueue # << >> /\ hTxnDoneQueue' = Tail(hTxnDoneQueue)
      /\ UNCHANGED <<queue, onBus, busDone, reported>>
  BY DEF Dequeue, Types, BusTypes, quevars, busvars
<1>2. e \in DoneEntry /\ e.fresh /\ AllFresh(hTxnDoneQueue')
  BY <1>1, TailSeq DEF Places
<1>3. /\ FreshIn(hTxnDoneQueue) = FreshIn(hTxnDoneQueue') \cup {e.txn} /\ e.txn \notin FreshIn(hTxnDoneQueue')
      /\ Once(hTxnDoneQueue')
  BY <1>1, <1>2, TailSeq DEF Places, Shown
<1>4. Unread' = Unread /\ BusFresh' = BusFresh
  BY <1>1 DEF Unread, BusFresh
<1>5. e.txn \in Out /\ e.txn \notin Unread /\ e.txn \notin FreshIn(reported)
  BY <1>3 DEF Out, Places
<1>6. Out' = Out \ {e.txn}
  BY <1>1, <1>3, <1>4, <1>5 DEF Out
<1>7. Places'
  BY <1>1, <1>2, <1>3, <1>4 DEF Places
<1>. QED  BY <1>1, <1>2, <1>4, <1>5, <1>6, <1>7

(* At the end of a life everything is old, and then it is forgotten.       *)
LEMMA RestartEffect ==
    ASSUME Types, Places, Restart
    PROVE  Places' /\ QueueFresh' /\ Out' = {} /\ Unread' = {} /\ BusFresh' = {}
<1>1. FreshIn(OldAll(queue)) = {} /\ Once(OldAll(queue)) /\ FreshIn(OldAll(reported)) = {} /\ Once(OldAll(reported))
  BY OldSeq DEF Types, BusTypes
<1>2. reported' = OldAll(reported) /\ hTxnDoneQueue' = << >> /\ busDone' = busDone
  BY DEF Restart
<1>3. \/ onBus = None /\ onBus' = None /\ queue' = << >>
      \/ onBus # None /\ onBus' = Old(onBus) /\ queue' = OldAll(queue) /\ txnQState' = "RESTART"
  BY DEF Restart, ClearQueues
<1>4. onBus # None => Old(onBus) \in BusEntry /\ ~Old(onBus).fresh /\ Old(onBus) # None
  BY OldBus, TwIfAssumption DEF Types, BusTypes
<1>5. BusFresh' = {} /\ (busDone => onBus # None)'
  BY <1>2, <1>3, <1>4 DEF BusFresh, Places
<1>6. FreshIn(queue') = {} /\ Once(queue') /\ QueueFresh'
  BY <1>1, <1>3, EmptySeq DEF QueueFresh
<1>7. Unread' = {} /\ Out' = {}
  BY <1>1, <1>2, <1>5, <1>6, EmptySeq DEF Unread, Out
<1>8. Places'
  BY <1>1, <1>2, <1>5, <1>6, <1>7, EmptySeq DEF Places
<1>. QED  BY <1>5, <1>6, <1>7, <1>8

LEMMA ClearEffect ==
    ASSUME Types, Places, Out = {}, ClearQueues, UNCHANGED <<onBus, reported, hTxnDoneQueue>>,
           busDone' = busDone \/ (busDone' /\ onBus # None)
    PROVE  Places' /\ QueueFresh' /\ Out' = {} /\ Unread' = {} /\ BusFresh' = {}
<1>1. BusFresh = {} /\ FreshIn(reported) = {} /\ FreshIn(hTxnDoneQueue) = {}
  BY DEF Out, Unread
<1>2. BusFresh' = {} /\ (busDone => onBus # None)'
  BY <1>1 DEF BusFresh, Places
<1>3. queue' = << >>
  BY DEF ClearQueues
<1>4. Unread' = {} /\ Out' = {}
  BY <1>1, <1>2, <1>3, EmptySeq DEF Unread, Out
<1>5. Places'
  BY <1>1, <1>2, <1>3, <1>4, EmptySeq DEF Places
<1>. QED  BY <1>2, <1>3, <1>4, <1>5, EmptySeq DEF QueueFresh

LEMMA BusFreeEffect ==
    ASSUME Types, Places, BusFree
    PROVE  Places' /\ Out' = Out /\ Unread' = Unread /\ BusFresh' = BusFresh /\ BusFresh = {}
<1>1. BusFresh = {} /\ BusFresh' = {}
  BY DEF BusFree, BusFresh
<1>2. UNCHANGED <<queue, reported, hTxnDoneQueue>> /\ ~busDone'
  BY DEF BusFree, quevars, twifvars, Types, BusTypes
<1>3. Unread' = Unread /\ Out' = Out
  BY <1>1, <1>2 DEF Unread, Out
<1>. QED  BY <1>1, <1>2, <1>3 DEF Places

-----------------------------------------------------------------------------
(* The same of the actions, in a life that is followed.                    *)
Fine == Types /\ Handlers /\ Needed /\ Good

LEMMA RestartDoneEffect ==
    ASSUME Fine, RestartDone
    PROVE  Places' /\ QueueFresh' /\ ~Up /\ Out = {} /\ Out' = {} /\ Unread' = {} /\ BusFresh' = {}
<1>1. ~Up /\ Out = {}
  BY DEF RestartDone, Fine, Good, Down, Up
<1>2. ClearQueues /\ UNCHANGED <<onBus, reported, hTxnDoneQueue>> /\ busDone' /\ onBus # None
  BY DEF RestartDone
<1>. QED  BY <1>1, <1>2, ClearEffect DEF Fine, Good

LEMMA PendRestartTimeoutEffect ==
    ASSUME Fine, PendRestartTimeout, ~late'
    PROVE  Places' /\ QueueFresh' /\ ~Up /\ Out = {} /\ Out' = {} /\ Unread' = {} /\ BusFresh' = {}
<1>1. ~Up /\ Out = {}
  BY DEF PendRestartTimeout, Fine, Good, Down, Types, DrvTypes
<1>2. ClearQueues /\ UNCHANGED <<onBus, reported, hTxnDoneQueue, busDone>>
  BY DEF PendRestartTimeout, twifvars, busvars
<1>. QED  BY <1>1, <1>2, ClearEffect DEF Fine, Good

SentEffect(e) ==
    /\ Places' /\ BusFresh' = BusFresh /\ e.txn \notin Out
    /\ \/ SendPending(e) /\ Out' = Out \cup {e.txn} /\ Unread' = Unread \cup {e.txn}
       \/ (SendComplete(e) \/ SendError(e)) /\ Out' = Out /\ Unread' = Unread

LEMMA AnySendEffect ==
    ASSUME Fine, NEW e \in BusEntry, e.fresh, e.txn \notin Out, UNCHANGED <<onBus, reported, hTxnDoneQueue, busDone>>,
           SendPending(e) \/ SendComplete(e) \/ SendError(e)
    PROVE  SentEffect(e)
<1>1. CASE SendPending(e)
  BY <1>1, SendEffect DEF SentEffect, Fine, Good
<1>2. CASE SendComplete(e) \/ SendError(e)
  <2>1. UNCHANGED queue
    BY <1>2 DEF SendComplete, SendError
  <2>. QED  BY <1>2, <2>1, QueuesLeftEffect DEF SentEffect, Fine, Good
<1>. QED  BY <1>1, <1>2

LEMMA ClientSendsEffect ==
    ASSUME Fine, NEW t \in Requests, NEW cb \in BOOLEAN, ClientSends(t, cb)
    PROVE  SentEffect(Entry(t, cb)) /\ Entry(t, cb).txn = t
<1>1. Entry(t, cb) \in BusEntry /\ Entry(t, cb).fresh /\ Entry(t, cb).txn = t
  BY EntryTyped, TxnFinite
<1>2. t \notin Out
  BY OutstandingIsOut DEF ClientSends
<1>3. UNCHANGED <<onBus, reported, hTxnDoneQueue, busDone>>
  BY DEF ClientSends, busvars
<1>4. SendPending(Entry(t, cb)) \/ SendComplete(Entry(t, cb)) \/ SendError(Entry(t, cb))
  BY DEF ClientSends
<1>. QED  BY <1>1, <1>2, <1>3, <1>4, AnySendEffect

LEMMA FwReadEffect == ASSUME Fine, FwRead PROVE SentEffect(Read) /\ Read.txn = "status" /\ "status" \notin Out
<1>1. Read \in BusEntry /\ Read.fresh /\ Read.txn = "status"
  BY EntryTyped
<1>2. "status" \notin Out
  BY DEF FwRead, Fine, Good, Reading
<1>3. UNCHANGED <<onBus, reported, hTxnDoneQueue, busDone>>
  BY DEF FwRead, busvars
<1>4. SendPending(Read) \/ SendComplete(Read) \/ SendError(Read)
  BY DEF FwRead
<1>. QED  BY <1>1, <1>2, <1>3, <1>4, AnySendEffect

LEMMA FwHandlerEffect ==
    ASSUME Fine, NEW e \in Events, FwHandler(e)
    PROVE  SentEffect(Entry(e, TRUE)) /\ Entry(e, TRUE).txn = e
<1>1. Entry(e, TRUE) \in BusEntry /\ Entry(e, TRUE).fresh /\ Entry(e, TRUE).txn = e
  BY EntryTyped, TxnFinite
<1>2. e \notin Out
  BY DEF FwHandler, Fine, Good, Handling
<1>3. UNCHANGED <<onBus, reported, hTxnDoneQueue, busDone>>
  BY DEF FwHandler, busvars
<1>4. SendPending(Entry(e, TRUE)) \/ SendComplete(Entry(e, TRUE)) \/ SendError(Entry(e, TRUE))
  BY DEF FwHandler
<1>. QED  BY <1>1, <1>2, <1>3, <1>4, AnySendEffect

LEMMA PlacesStep == ASSUME Fine, [Next]_vars, ~late' PROVE Places'
<1>. USE DEF Fine, Good
<1>1. CASE LeavesQueues
  BY <1>1, QueuesLeft, QueuesLeftEffect
<1>2. ASSUME NEW t \in Requests, NEW cb \in BOOLEAN, ClientSends(t, cb) PROVE Places'
  BY <1>2, ClientSendsEffect DEF SentEffect
<1>3. ASSUME NEW e \in Events, FwHandler(e) PROVE Places'
  BY <1>3, FwHandlerEffect DEF SentEffect
<1>4. CASE FwRead
  BY <1>4, FwReadEffect DEF SentEffect
<1>5. CASE SendNext
  BY <1>5, SendNextEffect
<1>6. CASE BusDone
  BY <1>6, BusDoneEffect
<1>7. CASE TxnDoneCb
  BY <1>7, TxnDoneEffect
<1>8. CASE Dequeue
  BY <1>8, DequeueEffect
<1>9. CASE Restart
  BY <1>9, RestartEffect
<1>10. CASE RestartDone \/ PendRestartTimeout
  BY <1>10, RestartDoneEffect, PendRestartTimeoutEffect
<1>11. CASE BusFree
  BY <1>11, BusFreeEffect
<1>. QED  BY <1>1, <1>2, <1>3, <1>4, <1>5, <1>6, <1>7, <1>8, <1>9, <1>10, <1>11
          DEF Next, Bus, TwIfTask, FwEvent, Boot, LeavesQueues

(* TwIf changes the state of the queues only in a life that goes on.       *)
LEMMA TxnQAlive ==
    ASSUME Fine, \/ ClientSleep \/ CheckSleep \/ FwIdle \/ FwReadAgain \/ FwFinished \/ EnableExternalEvents
                 \/ FwRead \/ \E e \in Events : FwHandler(e)
    PROVE  Up \/ (CheckSleep /\ UNCHANGED <<eState, txnQState, pSingleStep, elp, waking>>)
<1>. USE DEF Fine, Good, Down
<1>1. CASE CheckSleep
  BY <1>1 DEF CheckSleep, SleepIfUnused, SmSleep
<1>2. CASE ClientSleep \/ EnableExternalEvents
  BY <1>2 DEF ClientSleep, EnableExternalEvents, Up
<1>3. CASE FwIdle \/ FwReadAgain \/ FwFinished \/ FwRead \/ \E e \in Events : FwHandler(e)
  BY <1>3 DEF FwIdle, FwReadAgain, FwFinished, FwRead, FwHandler
<1>. QED  BY <1>1, <1>2, <1>3

LEMMA QueueFreshStep == ASSUME Fine, [Next]_vars, ~late' PROVE QueueFresh'
<1>. USE DEF Fine, Good
<1>1. ASSUME queue' = queue, txnQState' = txnQState \/ txnQState # "RESTART" PROVE QueueFresh'
  BY <1>1 DEF QueueFresh
<1>2. Up => txnQState # "RESTART"
  BY DEF Down, Up
<1>3. CASE LeavesSm /\ LeavesQueues
  BY <1>1, <1>3, SmLeft, QueuesLeft
<1>4. ASSUME NEW e \in BusEntry, e.fresh, SentEffect(e), UNCHANGED <<onBus, reported, hTxnDoneQueue, busDone>>,
             Up
      PROVE  QueueFresh'
  <2>1. CASE SendPending(e)
    <3>1. txnQState' = txnQState
      BY <2>1 DEF SendPending, SmStart
    <3>. QED  BY <1>4, <2>1, <3>1, SendEffect DEF SentEffect
  <2>2. CASE SendComplete(e) \/ SendError(e)
    <3>1. queue' = queue
      BY <2>2 DEF SendComplete, SendError
    <3>. QED  BY <1>1, <1>2, <1>4, <3>1
  <2>. QED  BY <1>4, <2>1, <2>2 DEF SentEffect
<1>5. ASSUME NEW t \in Requests, NEW cb \in BOOLEAN, ClientSends(t, cb) PROVE QueueFresh'
  BY <1>4, <1>5, ClientSendsEffect, EntryTyped, TxnFinite DEF ClientSends, busvars
<1>6. ASSUME NEW e \in Events, FwHandler(e) PROVE QueueFresh'
  BY <1>4, <1>6, FwHandlerEffect, EntryTyped, TxnFinite, TxnQAlive DEF FwHandler, busvars, CheckSleep
<1>7. CASE FwRead
  BY <1>4, <1>7, FwReadEffect, EntryTyped, TxnQAlive DEF FwRead, busvars, CheckSleep
<1>8. CASE ClientSleep \/ CheckSleep \/ FwIdle \/ FwReadAgain \/ FwFinished \/ EnableExternalEvents
  <2>1. LeavesQueues
    BY <1>8 DEF LeavesQueues
  <2>. QED  BY <1>1, <1>2, <1>8, <2>1, QueuesLeft, TxnQAlive
<1>9. CASE SendNext
  BY <1>9, SendNextEffect
<1>10. CASE BusDone \/ BusFree \/ TxnDoneCb \/ Dequeue \/ SendElp
  BY <1>1, <1>10 DEF BusDone, BusFree, TxnDoneCb, Dequeue, SendElp, quevars
<1>11. CASE RestartDone \/ PendRestartTimeout
  BY <1>11, RestartDoneEffect, PendRestartTimeoutEffect
<1>12. CASE Restart
  BY <1>12, RestartEffect
<1>13. CASE InitHw
  <2>1. txnQState # "RESTART" /\ queue' = queue
    BY <1>13 DEF InitHw, Down
  <2>. QED  BY <1>1, <2>1
<1>. QED  BY <1>3, <1>5, <1>6, <1>7, <1>8, <1>9, <1>10, <1>11, <1>12, <1>13
          DEF Next, Bus, TwIfTask, FwEvent, Boot, LeavesQueues, LeavesSm

-----------------------------------------------------------------------------
(* The count of what is pending.                                           *)
LEMMA OutCounted ==
    ASSUME Types
    PROVE  /\ Cardinality(Out) \in Nat /\ (Cardinality(Out) = 0 <=> Out = {})
           /\ \A t : t \notin Out => Cardinality(Out \cup {t}) = Cardinality(Out) + 1
           /\ \A t \in Out : Cardinality(Out \ {t}) = Cardinality(Out) - 1 /\ Cardinality(Out) > 0
<1>1. IsFiniteSet(Out)
  BY OutTyped
<1>2. Cardinality(Out) \in Nat /\ (Cardinality(Out) = 0 <=> Out = {})
  BY <1>1, FS_CardinalityType, FS_EmptySet
<1>3. \A t : t \notin Out => Cardinality(Out \cup {t}) = Cardinality(Out) + 1
  BY <1>1, FS_AddElement
<1>4. \A t \in Out : Cardinality(Out \ {t}) = Cardinality(Out) - 1
  BY <1>1, FS_RemoveElement
<1>. QED  BY <1>2, <1>3, <1>4

LEMMA NothingCounted == ASSUME Types', Counted', uPendingTxnCount' = 0 PROVE Out' = {}
<1>1. FreshIn(queue') \subseteq Txn /\ FreshIn(reported') \subseteq Txn /\ FreshIn(hTxnDoneQueue') \subseteq Txn
  BY FreshTyped DEF Types, BusTypes
<1>2. BusFresh' \subseteq Txn
  BY DEF Types, BusTypes, BusFresh, BusEntry
<1>3. Out' \subseteq Txn
  BY <1>1, <1>2 DEF Out, Unread
<1>4. IsFiniteSet(Out')
  BY <1>3, TxnFinite, FS_Subset
<1>. QED  BY <1>4, FS_EmptySet DEF Counted

LEMMA CountedStep == ASSUME Fine, [Next]_vars, ~late' PROVE Counted'
<1>. USE DEF Fine, Good
<1>1. ASSUME Out' = Out, uPendingTxnCount' = uPendingTxnCount PROVE Counted'
  BY <1>1 DEF Counted
<1>2. ASSUME NEW t \in Out, Out' = Out \ {t}, uPendingTxnCount' = Less(uPendingTxnCount) PROVE Counted'
  BY <1>2, OutCounted DEF Counted, Less
<1>3. ASSUME NEW e, SentEffect(e) PROVE Counted'
  <2>1. CASE SendPending(e) /\ Out' = Out \cup {e.txn}
    <3>1. uPendingTxnCount' = uPendingTxnCount + 1 /\ e.txn \notin Out
      BY <1>3, <2>1 DEF SendPending, SentEffect
    <3>. QED  BY <2>1, <3>1, OutCounted DEF Counted
  <2>2. CASE (SendComplete(e) \/ SendError(e)) /\ Out' = Out
    BY <1>1, <2>2 DEF SendComplete, SendError
  <2>. QED  BY <1>3, <2>1, <2>2 DEF SentEffect
<1>4. CASE LeavesQueues
  <2>1. Out' = Out
    BY <1>4, QueuesLeft, QueuesLeftEffect
  <2>2. uPendingTxnCount' = uPendingTxnCount
    BY <1>4 DEF LeavesQueues, ClientAwake, ClientSleep, SendElp, HandleRecovery, HandleTxnDone, CheckSleep, NewEvent,
       FwIdle, FwHandleEvents, FwHandled, FwReadAgain, FwFinished, ChipWakes, ChipRaises, GuardExpires, InitHw,
       EnableInterrupts, EnableExternalEvents, twifvars, vars
  <2>. QED  BY <1>1, <2>1, <2>2
<1>5. ASSUME NEW t \in Requests, NEW cb \in BOOLEAN, ClientSends(t, cb) PROVE Counted'
  BY <1>3, <1>5, ClientSendsEffect
<1>6. ASSUME NEW e \in Events, FwHandler(e) PROVE Counted'
  BY <1>3, <1>6, FwHandlerEffect
<1>7. CASE FwRead
  BY <1>3, <1>7, FwReadEffect
<1>8. CASE SendNext
  BY <1>1, <1>8, SendNextEffect DEF SendNext, twifvars
<1>9. CASE BusDone
  BY <1>1, <1>9, BusDoneEffect DEF BusDone, twifvars
<1>10. CASE BusFree
  BY <1>1, <1>10, BusFreeEffect DEF BusFree, twifvars
<1>11. CASE TxnDoneCb
  BY <1>1, <1>2, <1>11, TxnDoneEffect
<1>12. CASE Dequeue
  <2>1. uPendingTxnCount' = Less(uPendingTxnCount)
    BY <1>12 DEF Dequeue
  <2>. QED  BY <1>2, <1>12, <2>1, DequeueEffect
<1>13. CASE RestartDone
  BY <1>1, <1>13, RestartDoneEffect DEF RestartDone
<1>14. CASE PendRestartTimeout
  BY <1>1, <1>14, PendRestartTimeoutEffect DEF PendRestartTimeout, twifvars
<1>15. CASE Restart
  <2>1. Out' = {} /\ uPendingTxnCount' = 0
    BY <1>15, RestartEffect DEF Restart, ResetCount
  <2>. QED  BY <2>1, FS_EmptySet DEF Counted
<1>. QED  BY <1>4, <1>5, <1>6, <1>7, <1>8, <1>9, <1>10, <1>11, <1>12, <1>13, <1>14, <1>15
          DEF Next, Bus, TwIfTask, FwEvent, Boot, LeavesQueues

-----------------------------------------------------------------------------
(* The handlers whose transactions are outstanding.                        *)
LEMMA OnlyPendingCounts ==
    ASSUME NEW e, uPendingTxnCount \in Nat, uPendingTxnCount' = uPendingTxnCount + 1
    PROVE  ~SendComplete(e) /\ ~SendError(e)
<1>1. uPendingTxnCount' # uPendingTxnCount
  OBVIOUS
<1>. QED  BY <1>1 DEF SendComplete, SendError

LEMMA OutShrinks ==
    ASSUME Types, Handlers, Handling, Out' \subseteq Out, UNCHANGED <<uNumPendHndlrs, eSmState, todo>>,
           pc' = pc \/ (pc # "handlers" /\ pc' \in {"idle", "done", "check"})
    PROVE  Handling'
<1>1. Out' \cap Events \subseteq Out \cap Events
  OBVIOUS
<1>2. IsFiniteSet(Out \cap Events) /\ Cardinality(Out \cap Events) \in Nat
  BY EventSets
<1>3. Cardinality(Out' \cap Events) <= Cardinality(Out \cap Events) /\ Cardinality(Out' \cap Events) \in Nat
  BY <1>1, <1>2, FS_Subset, FS_CardinalityType
<1>4. Out' \cap Events = {} \/ Cardinality(Out' \cap Events) <= uNumPendHndlrs
  BY <1>1, <1>2, <1>3 DEF Handling, Handlers
<1>5. Out' \cap todo = {} \/ pc' # "handlers"
  BY DEF Handling
<1>. QED  BY <1>1, <1>4, <1>5 DEF Handling

LEMMA HandlingStep == ASSUME Fine, [Next]_vars, ~late' PROVE Handling'
<1>. USE DEF Fine, Good
<1>0. "status" \notin Events /\ Requests \cap Events = {}
  BY TxnFinite
<1>1. ASSUME Out' \cap Events = Out \cap Events, UNCHANGED <<uNumPendHndlrs, eSmState, pc, todo>> PROVE Handling'
  BY <1>1 DEF Handling, Handlers
<1>2. ASSUME Out' \cap Events = Out \cap Events, UNCHANGED <<uNumPendHndlrs, eSmState, todo>>,
             pc' \in {"idle", "done", "check"}, pc # "handlers"
      PROVE  Handling'
  BY <1>2 DEF Handling
<1>3. ASSUME Out' \cap Events = {} PROVE Handling'
  BY <1>3, HandlersStep DEF Handling, Handlers
<1>4. CASE LeavesQueues
  <2>1. Out' = Out
    BY <1>4, QueuesLeft, QueuesLeftEffect
  <2>2. CASE LeavesHandlers
    BY <1>1, <2>1, <2>2, HandlersLeft
  <2>3. CASE HandleTxnDone \/ CheckSleep
    BY <1>2, <2>1, <2>3 DEF HandleTxnDone, CheckSleep, fwvars
  <2>4. CASE NewEvent
    BY <2>1, <2>4 DEF NewEvent, taskvars, Handling, Reading
  <2>5. CASE FwIdle \/ FwHandleEvents
    BY <1>3, <2>1, <2>5 DEF FwIdle, FwHandleEvents, Handling
  <2>6. CASE FwReadAgain \/ FwFinished
    BY <1>3, <2>1, <2>6 DEF FwReadAgain, FwFinished, Handling
  <2>7. CASE FwHandled
    <3>1. pc = "handlers" /\ eSmState' = "WAIT_HANDLE_COMPLT" /\ uNumPendHndlrs' = uNumPendHndlrs
          /\ pc' = IF uNumPendHndlrs = 0 THEN "fw" ELSE ret
      BY <2>7 DEF FwHandled
    <3>2. CASE Out \cap Events = {}
      BY <1>3, <2>1, <3>2
    <3>3. CASE Out \cap Events # {}
      <4>1. Cardinality(Out \cap Events) # 0 /\ Cardinality(Out \cap Events) \in Nat
        BY <3>3, EventSets, FS_EmptySet
      <4>2. uNumPendHndlrs # 0
        BY <3>3, <4>1 DEF Handling, Handlers
      <4>. QED  BY <2>1, <3>1, <4>2 DEF Handling, Types, FwTypes
    <3>. QED  BY <3>2, <3>3
  <2>. QED  BY <1>4, <2>2, <2>3, <2>4, <2>5, <2>6, <2>7 DEF LeavesQueues, LeavesHandlers
<1>5. ASSUME NEW t \in Requests, NEW cb \in BOOLEAN, ClientSends(t, cb) PROVE Handling'
  <2>1. Out' \cap Events = Out \cap Events
    BY <1>0, <1>5, ClientSendsEffect DEF SentEffect
  <2>. QED  BY <1>1, <1>5, <2>1 DEF ClientSends, fwvars, taskvars
<1>6. ASSUME NEW e \in Events, FwHandler(e) PROVE Handling'
  <2>1. pc = "handlers" /\ pc' = pc /\ e \in todo /\ todo' = todo \ {e} /\ eSmState' = eSmState
    BY <1>6 DEF FwHandler, taskvars
  <2>2. uNumPendHndlrs \in Nat /\ uPendingTxnCount \in Nat /\ eSmState = "WAIT_INTR_INFO"
    BY <2>1 DEF Handlers, Types, CountTypes
  <2>4. CASE SendPending(Entry(e, TRUE)) /\ Out' = Out \cup {e} /\ e \notin Out
    <3>1. uPendingTxnCount' = uPendingTxnCount + 1
      BY <2>4 DEF SendPending
    <3>2. uNumPendHndlrs' = uNumPendHndlrs + 1
      BY <1>6, <2>2, <3>1, OnlyPendingCounts DEF FwHandler
    <3>3. Out' \cap Events = (Out \cap Events) \cup {e} /\ e \notin Out \cap Events
      BY <2>4
    <3>4. IsFiniteSet(Out \cap Events) /\ Cardinality(Out \cap Events) \in Nat
      BY EventSets
    <3>5. Cardinality(Out' \cap Events) = Cardinality(Out \cap Events) + 1
      BY <3>3, <3>4, FS_AddElement
    <3>6. Cardinality(Out \cap Events) <= uNumPendHndlrs
      <4>1. Out \cap Events = {} => Cardinality(Out \cap Events) = 0
        BY FS_EmptySet
      <4>. QED  BY <2>2, <4>1 DEF Handling
    <3>7. Cardinality(Out' \cap Events) <= uNumPendHndlrs'
      BY <2>2, <3>2, <3>4, <3>5, <3>6
    <3>8. Out' \cap todo' = {}
      BY <2>1, <2>4 DEF Handling
    <3>. QED  BY <2>1, <2>2, <3>7, <3>8 DEF Handling
  <2>5. CASE Out' = Out
    <3>0. uNumPendHndlrs' \in {uNumPendHndlrs, uNumPendHndlrs + 1}
      BY <1>6 DEF FwHandler
    <3>1. uNumPendHndlrs <= uNumPendHndlrs' /\ uNumPendHndlrs' \in Nat
      BY <2>2, <3>0
    <3>2. Out \cap Events = {} \/ Cardinality(Out \cap Events) <= uNumPendHndlrs'
      BY <2>2, <3>1, EventSets DEF Handling
    <3>3. Out' \cap todo' = {}
      BY <2>1, <2>5 DEF Handling
    <3>. QED  BY <2>1, <2>2, <2>5, <3>2, <3>3 DEF Handling
  <2>. QED  BY <1>6, <2>4, <2>5, FwHandlerEffect DEF SentEffect
<1>7. CASE FwRead
  <2>1. Out \cap Events = {}
    BY <1>7 DEF FwRead, Handling, Reading
  <2>2. Out' \cap Events = {}
    BY <1>0, <1>7, <2>1, FwReadEffect DEF SentEffect
  <2>. QED  BY <1>3, <2>2
<1>8. CASE SendNext
  BY <1>1, <1>8, SendNextEffect DEF SendNext, taskvars
<1>9. CASE BusDone
  BY <1>1, <1>9, BusDoneEffect DEF BusDone, taskvars
<1>10. CASE BusFree
  BY <1>1, <1>10, BusFreeEffect DEF BusFree, fwvars, taskvars
<1>11. CASE TxnDoneCb
  <2>1. UNCHANGED <<uNumPendHndlrs, eSmState, pc, todo>>
    BY <1>11 DEF TxnDoneCb, fwvars, taskvars
  <2>2. Out' \subseteq Out
    BY <1>11, TxnDoneEffect
  <2>. QED  BY <2>1, <2>2, OutShrinks
<1>12. CASE Dequeue
  <2>1. Out' \subseteq Out /\ UNCHANGED <<eSmState, todo>> /\ pc = "done"
    BY <1>12, DequeueEffect DEF Dequeue
  <2>2. CASE uNumPendHndlrs' = uNumPendHndlrs /\ pc' \in {"idle", "check"}
    BY <2>1, <2>2, OutShrinks
  <2>3. CASE Head(hTxnDoneQueue).txn = "status" /\ pc' = "fw"
    <3>1. "status" \in Out
      BY <1>12, <2>3, DequeueEffect
    <3>2. Out \cap Events = {}
      BY <2>1, <3>1 DEF Handling, Reading
    <3>. QED  BY <1>3, <2>1, <3>2
  <2>4. CASE Head(hTxnDoneQueue).txn \in Events /\ CountDown /\ uNumPendHndlrs # 0 /\ eSmState = "WAIT_HANDLE_COMPLT"
    <3>. DEFINE e == Head(hTxnDoneQueue).txn
    <3>1. e \in Out \cap Events /\ Out' = Out \ {e}
      BY <1>12, <2>4, DequeueEffect
    <3>2. Out' \cap Events = (Out \cap Events) \ {e}
      BY <3>1
    <3>3. Cardinality(Out' \cap Events) = Cardinality(Out \cap Events) - 1 /\ Cardinality(Out \cap Events) \in Nat
      BY <3>1, <3>2, EventSets
    <3>4. Cardinality(Out \cap Events) <= uNumPendHndlrs /\ uNumPendHndlrs \in Nat
      BY <3>1 DEF Handling, Handlers
    <3>5. uNumPendHndlrs' = uNumPendHndlrs - 1 /\ pc' = IF uNumPendHndlrs = 1 THEN "fw" ELSE "check"
      BY <2>4 DEF CountDown
    <3>6. CASE uNumPendHndlrs = 1
      <4>1. Cardinality(Out' \cap Events) = 0
        BY <3>3, <3>4, <3>6, EventSets
      <4>2. Out' \cap Events = {}
        BY <4>1, EventSets, FS_EmptySet
      <4>. QED  BY <1>3, <4>2
    <3>7. CASE uNumPendHndlrs # 1
      BY <2>1, <2>4, <3>3, <3>4, <3>5, <3>7 DEF Handling
    <3>. QED  BY <3>6, <3>7
  <2>. QED  BY <1>12, <2>2, <2>3, <2>4, DequeueOutcomes DEF ThenCheck
<1>13. CASE RestartDone
  BY <1>3, <1>13, RestartDoneEffect
<1>14. CASE PendRestartTimeout
  BY <1>3, <1>14, PendRestartTimeoutEffect
<1>15. CASE Restart
  BY <1>3, <1>15, RestartEffect
<1>. QED  BY <1>4, <1>5, <1>6, <1>7, <1>8, <1>9, <1>10, <1>11, <1>12, <1>13, <1>14, <1>15
          DEF Next, Bus, TwIfTask, FwEvent, Boot, LeavesQueues

-----------------------------------------------------------------------------
(* Lives begin with InitHw and end with Restart; between them only the     *)
(* restart, its guard and what is left of the chip go on.                  *)
LeavesPhase == (\E t \in Requests, cb \in BOOLEAN : ClientSends(t, cb)) \/ ClientAwake \/ ClientSleep
    \/ SendElp \/ SendNext \/ BusDone \/ RestartDone \/ BusFree \/ TxnDoneCb \/ HandleTxnDone \/ Dequeue
    \/ CheckSleep \/ NewEvent \/ FwIdle \/ FwRead \/ FwHandleEvents \/ (\E e \in Events : FwHandler(e))
    \/ FwHandled \/ FwReadAgain \/ FwFinished \/ ChipWakes \/ (\E e \in Events : ChipRaises(e))
    \/ GuardExpires \/ UNCHANGED vars
LEMMA PhaseLeft == ASSUME LeavesPhase PROVE UNCHANGED <<phase>>
BY DEF LeavesPhase, ClientSends, drvvars, ClientAwake, ClientSleep, SendElp, SendNext, BusDone,
   RestartDone, BusFree, TxnDoneCb, HandleTxnDone, Dequeue, CheckSleep, NewEvent, FwIdle, FwRead,
   FwHandleEvents, FwHandler, FwHandled, FwReadAgain, FwFinished, ChipWakes, ChipRaises, GuardExpires,
   vars

LEMMA Life ==
    ASSUME Fine, [Next]_vars, ~late'
    PROVE  /\ Up' => (Up /\ ~Restart) \/ InitHw
           /\ Up /\ ~Restart => Up' /\ txnQState' # "RESTART" /\ txnQState # "RESTART"
           /\ Restart => Up /\ ~Up'
<1>. USE DEF Fine, Good
<1>1. Restart => Up /\ ~Up'
  BY DEF Restart, Up
<1>2. Up => txnQState # "RESTART"
  BY DEF Down, Up
<1>3. ASSUME LeavesPhase PROVE (Up' <=> Up) /\ ~Restart
  <2>1. phase' = phase
    BY <1>3, PhaseLeft
  <2>2. Up' <=> Up
    BY <2>1 DEF Up
  <2>. QED  BY <1>1, <2>2
<1>4. ASSUME HandleRecovery \/ PendRestartTimeout PROVE ~Up /\ ~Up'
  BY <1>4 DEF HandleRecovery, PendRestartTimeout, RecoveryCb, Up, Types, DrvTypes
<1>5. ASSUME EnableInterrupts \/ EnableExternalEvents PROVE Up /\ Up'
  BY <1>5 DEF EnableInterrupts, EnableExternalEvents, Up
<1>6. ASSUME InitHw PROVE ~Up /\ Up'
  BY <1>6 DEF InitHw, Up
<1>9. LeavesPhase \/ HandleRecovery \/ PendRestartTimeout \/ EnableInterrupts \/ EnableExternalEvents \/ InitHw \/ Restart
  BY DEF Next, Bus, TwIfTask, FwEvent, Boot, LeavesPhase
<1>7. Up' => (Up /\ ~Restart) \/ InitHw
  BY <1>1, <1>3, <1>4, <1>5, <1>9
<1>8. ASSUME Up, ~Restart PROVE Up' /\ txnQState' # "RESTART"
  <2>1. Up'
    BY <1>3, <1>4, <1>5, <1>6, <1>8, <1>9
  <2>2. CASE LeavesSm
    <3>1. txnQState' = txnQState
      BY <2>2, SmLeft
    <3>. QED  BY <1>2, <1>8, <2>1, <3>1
  <2>3. CASE ClientSleep \/ CheckSleep \/ EnableExternalEvents \/ FwFinished
    <3>1. txnQState' = txnQState \/ txnQState' = "STOPPED"
      BY <2>3 DEF ClientSleep, CheckSleep, EnableExternalEvents, FwFinished, Sleep, SleepIfUnused, SmSleep, StopTxnQ
    <3>. QED  BY <1>2, <1>8, <2>1, <3>1
  <2>4. CASE FwIdle \/ FwReadAgain
    <3>1. txnQState' = txnQState \/ txnQState' = "RUNNING"
      BY <2>4 DEF FwIdle, FwReadAgain, SmHwAvailable, RunOnceAwake
    <3>. QED  BY <1>2, <1>8, <2>1, <3>1
  <2>5. ASSUME NEW e, SendPending(e) \/ SendComplete(e) \/ SendError(e) PROVE txnQState' # "RESTART"
    <3>1. txnQState' = txnQState \/ txnQState' = "STOPPED"
      BY <2>5 DEF SendPending, SendComplete, SendError, SmStart, SleepIfUnused, SmSleep, StopTxnQ
    <3>. QED  BY <1>2, <1>8, <3>1
  <2>6. CASE FwRead
    BY <2>1, <2>5, <2>6 DEF FwRead
  <2>7. ASSUME NEW t \in Requests, NEW cb \in BOOLEAN, ClientSends(t, cb) PROVE txnQState' # "RESTART"
    BY <2>5, <2>7 DEF ClientSends
  <2>8. ASSUME NEW e \in Events, FwHandler(e) PROVE txnQState' # "RESTART"
    BY <2>5, <2>8 DEF FwHandler
  <2>9. CASE SendElp \/ RestartDone \/ PendRestartTimeout \/ InitHw
    <3>1. txnQState' = txnQState \/ txnQState' = "RUNNING"
      BY <2>9 DEF SendElp, RestartDone, PendRestartTimeout, InitHw, ClearQueues
    <3>. QED  BY <1>2, <1>8, <2>1, <3>1
  <2>. QED  BY <1>8, <2>1, <2>2, <2>3, <2>4, <2>6, <2>7, <2>8, <2>9
            DEF Next, Bus, TwIfTask, FwEvent, Boot, LeavesSm
<1>. QED  BY <1>1, <1>2, <1>7, <1>8

LEMMA DownSteps ==
    ASSUME Fine, [Next]_vars, ~late', ~Up
    PROVE  \/ SendElp \/ RestartDone \/ BusFree \/ HandleRecovery \/ HandleTxnDone
           \/ CheckSleep /\ UNCHANGED <<eState, txnQState, pSingleStep, elp, waking>>
           \/ ChipWakes \/ GuardExpires \/ PendRestartTimeout \/ InitHw \/ UNCHANGED vars
<1>. USE DEF Fine, Good, Down
<1>1. Out = {} /\ pc \in {"idle", "done", "check"}
  OBVIOUS
<1>2. /\ ~ClientAwake /\ ~ClientSleep /\ ~EnableInterrupts /\ ~EnableExternalEvents /\ ~NewEvent
      /\ \A t \in Requests, cb \in BOOLEAN : ~ClientSends(t, cb)
      /\ \A e \in Events : ~ChipRaises(e)
  BY DEF ClientAwake, ClientSleep, EnableInterrupts, EnableExternalEvents, NewEvent, ClientSends, ChipRaises, Up
<1>3. ~FwEvent
  BY <1>1 DEF FwEvent, FwIdle, FwRead, FwHandleEvents, FwHandler, FwHandled, FwReadAgain, FwFinished
<1>4. ~SendNext
  BY DEF SendNext
<1>5. ~BusDone
  BY <1>1, BusDoneEffect DEF Out, Unread
<1>6. ~TxnDoneCb /\ ~Dequeue
  BY <1>1, TxnDoneEffect, DequeueEffect
<1>7. ~Restart
  BY DEF Restart
<1>8. CheckSleep => UNCHANGED <<eState, txnQState, pSingleStep, elp, waking>>
  BY TxnQAlive
<1>. QED  BY <1>2, <1>3, <1>4, <1>5, <1>6, <1>7, <1>8 DEF Next, Bus, TwIfTask, Boot

LEMMA DownStep == ASSUME Fine, [Next]_vars, ~late' PROVE Down'
<1>. USE DEF Fine, Good
<1>1. CASE Up'
  BY <1>1, Life DEF Down, InitHw, Up
<1>2. CASE Restart
  <2>1. Out' = {} /\ ~Up'
    BY <1>2, RestartEffect, Life
  <2>2. ~bTxnDoneInRecovery'
    BY <1>2 DEF Restart
  <2>3. eState' = "SLEEP" /\ eSmState' = "IDLE" /\ pc' \in {"idle", "done", "check"} /\ holders' = 0 /\ ~failed'
    BY <1>2 DEF Restart, FwStop, TaskFree, taskvars
  <2>4. \/ txnQState' = "RUNNING" /\ queue' = << >>
        \/ txnQState' = "RESTART" /\ phase' = "stopping"
    BY <1>2 DEF Restart, ClearQueues
  <2>. QED  BY <2>1, <2>2, <2>3, <2>4 DEF Down
<1>3. CASE ~Up /\ ~Up'
  <2>. USE <1>3 DEF Down
  <2>1. CASE SendElp
    <3>1. Out' = Out
      BY <2>1, QueuesLeft, QueuesLeftEffect DEF LeavesQueues
    <3>. QED  BY <2>1, <3>1 DEF SendElp, twifvars, fwvars, taskvars, drvvars
  <2>2. CASE RestartDone
    <3>1. txnQState' = "RUNNING" /\ queue' = << >> /\ Out' = {}
      BY <2>2, RestartDoneEffect DEF RestartDone, ClearQueues
    <3>2. UNCHANGED <<eState, eSmState, pc, holders, failed>>
      BY <2>2 DEF RestartDone, fwvars, taskvars, drvvars, errvars
    <3>. QED  BY <3>1, <3>2
  <2>3. CASE BusFree
    BY <2>3, BusFreeEffect DEF BusFree, twifvars, quevars, fwvars, taskvars, drvvars, errvars
  <2>4. CASE HandleRecovery
    <3>1. Out' = Out
      BY <2>4, QueuesLeft, QueuesLeftEffect DEF LeavesQueues
    <3>2. UNCHANGED <<eState, eSmState, pc, holders, failed, txnQState, queue>> /\ bTxnDoneInRecovery
      BY <2>4 DEF HandleRecovery, quevars, fwvars, taskvars
    <3>. QED  BY <3>1, <3>2
  <2>5. CASE HandleTxnDone \/ GuardExpires \/ ChipWakes
    <3>1. Out' = Out
      BY <2>5, QueuesLeft, QueuesLeftEffect DEF LeavesQueues
    <3>2. pc' \in {"idle", "done", "check"}
      BY <2>5 DEF HandleTxnDone, GuardExpires, ChipWakes, taskvars
    <3>3. UNCHANGED <<phase, txnQState, queue, bTxnDoneInRecovery, eState, eSmState, holders, failed>>
      BY <2>5 DEF HandleTxnDone, GuardExpires, ChipWakes, twifvars, quevars, fwvars, drvvars, errvars
    <3>. QED  BY <3>1, <3>2, <3>3
  <2>6. CASE CheckSleep /\ UNCHANGED <<eState, txnQState, pSingleStep, elp, waking>>
    <3>1. Out' = Out
      BY <2>6, QueuesLeft, QueuesLeftEffect DEF LeavesQueues
    <3>. QED  BY <2>6, <3>1 DEF CheckSleep, fwvars, drvvars, errvars
  <2>7. CASE PendRestartTimeout
    BY <2>7, PendRestartTimeoutEffect DEF PendRestartTimeout, ClearQueues, twifvars, fwvars, taskvars
  <2>8. CASE UNCHANGED vars
    <3>1. Out' = Out
      BY <2>8, QueuesLeft, QueuesLeftEffect DEF LeavesQueues
    <3>. QED  BY <2>8, <3>1 DEF vars, twifvars, quevars, fwvars, taskvars, drvvars, errvars
  <2>9. ~InitHw
    BY <1>3, Life DEF InitHw, Up
  <2>. QED  BY <1>3, <2>1, <2>2, <2>3, <2>4, <2>5, <2>6, <2>7, <2>8, <2>9, DownSteps
<1>. QED  BY <1>1, <1>2, <1>3, Life

-----------------------------------------------------------------------------
(* How FwEvent reads the interrupt status.                                 *)
LeavesReading == (\E t \in Requests, cb \in BOOLEAN : ClientSends(t, cb)) \/ ClientAwake
    \/ ClientSleep \/ SendElp \/ RestartDone \/ BusFree \/ TxnDoneCb \/ HandleRecovery
    \/ (\E e \in Events : FwHandler(e)) \/ ChipWakes \/ (\E e \in Events : ChipRaises(e))
    \/ GuardExpires \/ PendRestartTimeout \/ InitHw \/ EnableInterrupts \/ EnableExternalEvents
    \/ UNCHANGED vars
LEMMA ReadingLeft == ASSUME LeavesReading PROVE UNCHANGED <<eSmState, bIntrPending, uEventVector, pc>>
BY DEF LeavesReading, ClientSends, fwvars, taskvars, ClientAwake, ClientSleep, SendElp, RestartDone,
   BusFree, TxnDoneCb, HandleRecovery, FwHandler, ChipWakes, ChipRaises, GuardExpires,
   PendRestartTimeout, InitHw, EnableInterrupts, EnableExternalEvents, vars

LEMMA ReadingStep == ASSUME Fine, [Next]_vars, ~late' PROVE Reading'
<1>. USE DEF Fine, Good
<1>0. "status" \notin Events /\ "status" \notin Requests /\ Unread \subseteq Out
  BY TxnFinite, OutTyped
<1>1. ASSUME UNCHANGED <<eSmState, bIntrPending, uEventVector, pc>>,
             "status" \in Out' => "status" \in Out, "status" \in Unread' => "status" \in Unread
      PROVE  Reading'
  BY <1>1 DEF Reading
<1>2. ASSUME UNCHANGED <<eSmState, bIntrPending, uEventVector>>, pc' \in {"idle", "done", "check"},
             "status" \in Out' => "status" \in Out, "status" \in Unread' => "status" \in Unread
      PROVE  Reading'
  BY <1>2 DEF Reading
<1>3. ASSUME LeavesQueues PROVE Out' = Out /\ Unread' = Unread
  BY <1>3, QueuesLeft, QueuesLeftEffect
<1>4. CASE LeavesReading /\ LeavesQueues
  BY <1>1, <1>3, <1>4, ReadingLeft
<1>5. ASSUME NEW t \in Requests, NEW cb \in BOOLEAN, ClientSends(t, cb) PROVE Reading'
  <2>1. UNCHANGED <<eSmState, bIntrPending, uEventVector, pc>>
    BY <1>5 DEF ClientSends, fwvars, taskvars
  <2>2. Out' \in {Out, Out \cup {t}} /\ Unread' \in {Unread, Unread \cup {t}}
    BY <1>5, ClientSendsEffect DEF SentEffect
  <2>. QED  BY <1>0, <1>1, <2>1, <2>2
<1>6. ASSUME NEW e \in Events, FwHandler(e) PROVE Reading'
  <2>1. UNCHANGED <<eSmState, bIntrPending, uEventVector, pc>>
    BY <1>6 DEF FwHandler, taskvars
  <2>2. Out' \in {Out, Out \cup {e}} /\ Unread' \in {Unread, Unread \cup {e}}
    BY <1>6, FwHandlerEffect DEF SentEffect
  <2>. QED  BY <1>0, <1>1, <2>1, <2>2
<1>7. CASE FwRead
  <2>1. pc = "fwRead" /\ uEventVector = {} /\ "status" \notin Out /\ "status" \notin Unread /\ ~bIntrPending
    BY <1>0, <1>7, FwReadEffect DEF FwRead, Reading
  <2>2. CASE SendPending(Read) /\ AwaitInfo /\ pc' = ret /\ UNCHANGED <<bIntrPending, uEventVector>>
    BY <2>1, <2>2 DEF AwaitInfo, Reading, Types, FwTypes
  <2>3. CASE /\ (SendComplete(Read) /\ AwaitInfo /\ pc' = "fw" /\ UNCHANGED bIntrPending)
             \/ (SendError(Read) /\ FwStop /\ pc' = ret)
    <3>1. queue' = queue
      BY <2>3 DEF SendComplete, SendError
    <3>2. Out' = Out /\ Unread' = Unread
      BY <1>7, <3>1, QueuesLeftEffect DEF FwRead, busvars
    <3>. QED  BY <2>1, <2>3, <3>2 DEF AwaitInfo, FwStop, Reading, Types, FwTypes
  <2>. QED  BY <1>7, <2>2, <2>3 DEF FwRead
<1>8. CASE SendNext
  <2>1. UNCHANGED <<eSmState, bIntrPending, pc>> /\ Out' = Out /\ Unread' \subseteq Unread
    BY <1>8, SendNextEffect DEF SendNext, taskvars
  <2>2. CASE uEventVector' = uEventVector
    BY <1>1, <2>1, <2>2
  <2>3. CASE Head(queue) = Read
    <3>1. "status" \in Out
      BY <1>0, <1>8, <2>3, SendNextEffect, EntryTyped
    <3>2. uEventVector' = uEventVector \/ "status" \notin Unread'
      BY <1>8, <2>3, SendNextEffect, EntryTyped
    <3>. QED  BY <2>1, <2>2, <3>1, <3>2 DEF Reading
  <2>. QED  BY <1>8, <2>2, <2>3, SendNextEffect DEF Transferred
<1>9. CASE BusDone
  <2>1. UNCHANGED <<eSmState, bIntrPending, pc>> /\ Out' = Out /\ Unread' = Unread \ {onBus.txn} /\ onBus.txn \in Out
    BY <1>9, BusDoneEffect DEF BusDone, taskvars, Out, Unread
  <2>2. CASE uEventVector' = uEventVector
    BY <1>1, <2>1, <2>2
  <2>3. CASE onBus = Read
    <3>1. onBus.txn = "status"
      BY <2>3, EntryTyped
    <3>. QED  BY <2>1, <3>1 DEF Reading
  <2>. QED  BY <1>9, <2>2, <2>3, BusDoneEffect DEF Transferred
<1>10. CASE BusFree
  BY <1>1, <1>10, BusFreeEffect DEF BusFree, fwvars, taskvars
<1>11. CASE TxnDoneCb
  BY <1>1, <1>11, TxnDoneEffect DEF TxnDoneCb, fwvars, taskvars
<1>12. CASE Dequeue
  <2>1. Out' = Out \ {Head(hTxnDoneQueue).txn} /\ Unread' = Unread
    BY <1>12, DequeueEffect
  <2>2. UNCHANGED <<eSmState, bIntrPending, uEventVector>>
    BY <1>12 DEF Dequeue
  <2>3. CASE pc' \in {"idle", "check"}
    BY <1>2, <2>1, <2>2, <2>3
  <2>4. CASE pc' = "fw"
    <3>1. Head(hTxnDoneQueue).txn = "status" \/ eSmState = "WAIT_HANDLE_COMPLT"
      BY <1>12, <2>4, DequeueOutcomes DEF ThenCheck
    <3>2. "status" \notin Out'
      BY <2>1, <3>1 DEF Reading
    <3>. QED  BY <2>1, <2>2, <2>4, <3>2 DEF Reading
  <2>. QED  BY <1>12, <2>3, <2>4, DequeueOutcomes DEF ThenCheck, CountDown
<1>13. CASE RestartDone
  BY <1>1, <1>13, RestartDoneEffect, ReadingLeft DEF LeavesReading
<1>14. CASE PendRestartTimeout
  BY <1>1, <1>14, PendRestartTimeoutEffect, ReadingLeft DEF LeavesReading
<1>15. CASE Restart
  <2>1. eSmState' = "IDLE" /\ ~bIntrPending' /\ uEventVector' = {} /\ pc' # "fwRead"
    BY <1>15 DEF Restart, FwStop, TaskFree, taskvars
  <2>. QED  BY <1>15, <2>1, RestartEffect DEF Reading
<1>16. CASE HandleTxnDone \/ CheckSleep
  <2>1. Out' = Out /\ Unread' = Unread
    BY <1>3, <1>16 DEF LeavesQueues
  <2>. QED  BY <1>2, <1>16, <2>1 DEF HandleTxnDone, CheckSleep, fwvars
<1>17. CASE NewEvent
  <2>1. Out' = Out /\ Unread' = Unread
    BY <1>3, <1>17 DEF LeavesQueues
  <2>. QED  BY <1>17, <2>1 DEF NewEvent, KeepPending, taskvars, Reading
<1>18. CASE FwIdle \/ FwReadAgain
  <2>1. Out' = Out /\ Unread' = Unread
    BY <1>3, <1>18 DEF LeavesQueues
  <2>. QED  BY <1>18, <2>1 DEF FwIdle, FwReadAgain, fwvars, Reading
<1>19. CASE FwHandleEvents \/ FwHandled \/ FwFinished
  <2>1. Out' = Out /\ Unread' = Unread
    BY <1>3, <1>19 DEF LeavesQueues
  <2>2. CASE FwHandleEvents
    BY <2>1, <2>2 DEF FwHandleEvents, Reading
  <2>3. CASE FwHandled
    <3>1. "status" \notin Out /\ uEventVector = {} /\ pc' # "fwRead"
      BY <2>3 DEF FwHandled, Reading, Types, FwTypes
    <3>. QED  BY <2>1, <2>3, <3>1 DEF FwHandled, Reading
  <2>4. CASE FwFinished
    <3>1. "status" \notin Out /\ uEventVector = {} /\ pc' # "fwRead" /\ ~bIntrPending
      BY <2>4 DEF FwFinished, Reading, Types, FwTypes
    <3>. QED  BY <2>1, <2>4, <3>1 DEF FwFinished, Reading
  <2>. QED  BY <1>19, <2>2, <2>3, <2>4
<1>. QED  BY <1>4, <1>5, <1>6, <1>7, <1>8, <1>9, <1>10, <1>11, <1>12, <1>13, <1>14, <1>15, <1>16, <1>17, <1>18, <1>19
          DEF Next, Bus, TwIfTask, FwEvent, Boot, LeavesQueues, LeavesReading

-----------------------------------------------------------------------------
(* TwIf, the queues and the chip.                                          *)
LEMMA KeepsSm ==
    ASSUME Sleeping, Waken, Up, UNCHANGED <<eState, txnQState, pSingleStep, elp, waking>>, elpLost => elpLost',
           eState = "SLEEP" => uPendingTxnCount' = 0,
           eState # "AWAKE" => eSmState' = "IDLE" /\ pc' # "fwRead",
           BusFresh' = BusFresh \/ BusFresh' = {},
           eState = "WAIT_HW" /\ (irq \/ pc = "fw") => irq' \/ pc' = "fw",
           intr' = {} => intr = {} \/ pSingleStep = None
    PROVE  Sleeping' /\ Waken'
<1>1. Sleeping'
  <2>1. (txnQState' = "STOPPED") = (eState' # "AWAKE")
    BY DEF Sleeping
  <2>2. eState' # "AWAKE" => eSmState' = "IDLE" /\ pc' # "fwRead" /\ BusFresh' = {}
    BY DEF Sleeping
  <2>3. eState' = "WAIT_HW" =>
          /\ pSingleStep' # "SLEEP"
          /\ pSingleStep' = "AWAKE" \/ waking' \/ irq' \/ pc' = "fw" \/ elpLost'
          /\ pSingleStep' = None => elp' = "AWAKE" \/ elpLost'
    BY DEF Sleeping
  <2>. QED  BY <2>1, <2>2, <2>3 DEF Sleeping
<1>2. Waken'
  BY DEF Waken
<1>. QED  BY <1>1, <1>2

LEMMA SleepOrKeep ==
    ASSUME Types', Needed', Counted', SleepIfUnused(uAwakeReqCount', uPendingTxnCount')
    PROVE  \/ Sleeping' /\ Waken'
           \/ UNCHANGED <<eState, txnQState, pSingleStep, elp, waking>>
<1>1. CASE UNCHANGED <<eState, txnQState, pSingleStep, elp, waking>>
  BY <1>1
<1>2. CASE /\ uAwakeReqCount' = 0 /\ uPendingTxnCount' = 0
           /\ eState' = "SLEEP" /\ txnQState' = "STOPPED"
  <2>1. ~FwBusy'
    <3>1. holders' \in Nat /\ Boots' \in {0, 1}
      BY Bounds DEF Types, CountTypes, Boots, One
    <3>2. One(FwBusy') \in {0, 1} /\ 0 >= holders' + Boots' + One(FwBusy')
      BY <1>2 DEF Needed, One
    <3>3. One(FwBusy') = 0
      BY <3>1, <3>2
    <3>. QED  BY <3>3 DEF One
  <2>2. eSmState' = "IDLE" /\ pc' # "fwRead"
    BY <2>1 DEF FwBusy
  <2>3. Out' = {}
    BY <1>2, NothingCounted
  <2>4. BusFresh' = {}
    BY <2>3 DEF Out, Unread
  <2>5. Sleeping'
    BY <1>2, <2>2, <2>4 DEF Sleeping
  <2>6. Waken'
    BY <1>2, <2>4 DEF Waken
  <2>. QED  BY <2>5, <2>6
<1>. QED  BY <1>1, <1>2 DEF SleepIfUnused, SmSleep, StopTxnQ

(* While TwIf does not take the chip to be awake, an interrupt is either   *)
(* waiting or just being taken.                                            *)
LEMMA AsleepInterrupted ==
    ASSUME Fine, Up, eState # "AWAKE", intr # {}
    PROVE  irq \/ pc = "fw"
<1>. USE DEF Fine, Good
<1>1. eSmState = "IDLE" /\ pc # "fwRead"
  BY DEF Sleeping
<1>2. ~bIntrPending /\ "status" \notin Unread
  BY <1>1, OutTyped DEF Reading
<1>3. ~ReadLost /\ ~ReadRefused
  BY <1>1 DEF ReadLost, ReadRefused
<1>. QED  BY <1>1, <1>2, <1>3 DEF Interrupts, ToRead

(* The first to send asks for the wake-up.                                 *)
LEMMA StartsSm ==
    ASSUME Fine, Up, Up', SmStart, UNCHANGED <<irq, intr, pc, eSmState, elpLost>>, BusFresh' = BusFresh
    PROVE  Sleeping' /\ Waken'
<1>. USE DEF Fine, Good
<1>1. CASE eState = "SLEEP"
  <2>1. eState' = "WAIT_HW" /\ txnQState' = txnQState /\ txnQState = "STOPPED" /\ BusFresh = {}
        /\ eSmState' = "IDLE" /\ pc' # "fwRead"
    BY <1>1 DEF SmStart, Sleeping
  <2>2. intr = {} \/ irq' \/ pc' = "fw"
    BY <1>1, AsleepInterrupted
  <2>3. \/ elp' = "AWAKE" /\ waking' = (intr = {}) /\ pSingleStep' = None
        \/ pSingleStep' = "AWAKE"
    BY <1>1 DEF SmStart, WriteElpReg, Written
  <2>4. pSingleStep' # "SLEEP"
    BY <2>3, TwIfAssumption
  <2>5. pSingleStep' = "AWAKE" \/ waking' \/ irq' \/ pc' = "fw"
    BY <2>2, <2>3
  <2>6. pSingleStep' = None => elp' = "AWAKE"
    BY <2>3, TwIfAssumption
  <2>7. Sleeping'
    BY <2>1, <2>4, <2>5, <2>6 DEF Sleeping
  <2>8. Waken'
    BY <2>1 DEF Waken
  <2>. QED  BY <2>7, <2>8
<1>2. CASE eState # "SLEEP"
  <2>1. UNCHANGED <<eState, txnQState, pSingleStep, elp, waking>>
    BY <1>2 DEF SmStart, Types, ChipTypes
  <2>2. eState # "AWAKE" => eSmState' = "IDLE" /\ pc' # "fwRead"
    BY DEF Sleeping
  <2>. QED  BY <1>2, <2>1, <2>2, KeepsSm
<1>. QED  BY <1>1, <1>2

(* FwEvent goes on with the chip that interrupted it.                      *)
LEMMA AvailableSm ==
    ASSUME Fine, Up, SmHwAvailable, ToRead, UNCHANGED <<intr, elpLost>>, BusFresh' = BusFresh
    PROVE  Sleeping' /\ Waken'
<1>. USE DEF Fine, Good
<1>1. eState' = "AWAKE" /\ txnQState' # "STOPPED"
  BY DEF SmHwAvailable, RunOnceAwake, Sleeping
<1>2. intr # {}
  BY DEF Interrupts
<1>3. Sleeping'
  BY <1>1 DEF Sleeping
<1>4. CASE eState = "SLEEP"
  <2>1. BusFresh' = {}
    BY <1>4 DEF Sleeping
  <2>2. \/ elp' = "AWAKE" /\ waking' = (intr = {}) /\ pSingleStep' = None
        \/ pSingleStep' = "AWAKE"
    BY <1>4 DEF SmHwAvailable, WriteElpReg, Written
  <2>. QED  BY <1>1, <1>2, <1>3, <2>1, <2>2, TwIfAssumption DEF Waken
<1>5. CASE eState = "WAIT_HW"
  <2>1. UNCHANGED <<pSingleStep, elp, waking>> /\ BusFresh' = {}
    BY <1>5 DEF SmHwAvailable, Sleeping
  <2>2. ~waking
    BY <1>2 DEF Types, ChipTypes
  <2>3. pSingleStep \in {"AWAKE", None} /\ (pSingleStep = None => elp = "AWAKE" \/ elpLost)
    BY <1>5 DEF Sleeping, Types, SmTypes
  <2>. QED  BY <1>1, <1>2, <1>3, <2>1, <2>2, <2>3, TwIfAssumption DEF Waken
<1>6. CASE eState = "AWAKE"
  <2>1. UNCHANGED <<pSingleStep, elp, waking>>
    BY <1>6 DEF SmHwAvailable
  <2>2. Waken'
    BY <1>1, <1>2, <1>6, <2>1 DEF Waken
  <2>. QED  BY <1>3, <2>2
<1>. QED  BY <1>4, <1>5, <1>6 DEF Types, SmTypes

(* With requests to be awake, TwIf does not let the chip sleep.            *)
LEMMA BusyKeeps ==
    ASSUME Types, Needed, FwBusy, NEW n, SleepIfUnused(uAwakeReqCount, n)
    PROVE  UNCHANGED <<eState, txnQState, pSingleStep, elp, waking>>
<1>1. holders \in Nat /\ Boots \in Nat
  BY Bounds DEF Types, CountTypes, Boots, One
<1>2. uAwakeReqCount \in Nat
  BY DEF Types, CountTypes
<1>3. uAwakeReqCount >= holders + Boots + 1
  BY DEF Needed, One
<1>4. uAwakeReqCount # 0
  BY <1>1, <1>2, <1>3
<1>. QED  BY <1>4 DEF SleepIfUnused

LEMMA FwBusyAwake == ASSUME Fine, Up, FwBusy PROVE eState = "AWAKE" /\ txnQState # "STOPPED"
BY DEF Fine, Good, Sleeping, FwBusy

(* What FwEvent sends, it sends to an awake chip.                          *)
LEMMA BusySends ==
    ASSUME Fine, Up, FwBusy, NEW e, SendPending(e) \/ SendComplete(e) \/ SendError(e)
    PROVE  UNCHANGED <<eState, txnQState, pSingleStep, elp, waking>>
<1>1. eState = "AWAKE"
  BY FwBusyAwake
<1>2. CASE SendPending(e)
  BY <1>1, <1>2 DEF SendPending, SmStart
<1>3. CASE SendComplete(e) \/ SendError(e)
  BY <1>3, BusyKeeps DEF SendComplete, SendError, Fine
<1>. QED  BY <1>2, <1>3

SmKept == UNCHANGED <<eState, txnQState, pSingleStep, elp, waking>>

LEMMA SleepsSm ==
    ASSUME Fine, [Next]_vars, ~late', Up, SleepIfUnused(uAwakeReqCount', uPendingTxnCount')
    PROVE  (Sleeping' /\ Waken') \/ SmKept
<1>1. Types' /\ Needed' /\ Counted'
  BY TypesStep, NeededStep, CountedStep DEF Fine
<1>. QED  BY <1>1, SleepOrKeep DEF SmKept

LEMMA CalmSm ==
    ASSUME Fine, Up, SmKept, UNCHANGED <<intr, irq, pc, eSmState, elpLost>>, BusFresh' = BusFresh \/ BusFresh' = {},
           uPendingTxnCount' = uPendingTxnCount \/ uPendingTxnCount' = Less(uPendingTxnCount)
    PROVE  Sleeping' /\ Waken'
<1>1. eState = "SLEEP" => uPendingTxnCount' = 0
  BY DEF Fine, Good, Sleeping, Less
<1>2. eState # "AWAKE" => eSmState' = "IDLE" /\ pc' # "fwRead"
  BY DEF Fine, Good, Sleeping
<1>. QED  BY <1>1, <1>2, KeepsSm DEF Fine, Good, SmKept

LEMMA AwakeSm ==
    ASSUME Fine, Up, SmKept, eState = "AWAKE", elpLost' = elpLost, BusFresh' = BusFresh \/ BusFresh' = {},
           intr' = {} => intr = {} \/ pSingleStep = None
    PROVE  Sleeping' /\ Waken'
BY KeepsSm DEF Fine, Good, SmKept

LEMMA SendElpSm == ASSUME Fine, Up, Up', SendElp PROVE Sleeping' /\ Waken'
<1>. USE DEF Fine, Good
<1>1. /\ pSingleStep # None /\ pSingleStep' = None /\ onBus' = None /\ BusFresh' = {}
      /\ UNCHANGED <<eState, txnQState, uPendingTxnCount, eSmState, pc, irq, intr>>
  BY DEF SendElp, twifvars, busvars, fwvars, taskvars, BusFresh
<1>2. pSingleStep \in {"AWAKE", "SLEEP"}
  BY <1>1 DEF Types, SmTypes
<1>3. (txnQState' = "STOPPED") = (eState' # "AWAKE")
  BY <1>1 DEF Sleeping
<1>4. eState' = "SLEEP" => uPendingTxnCount' = 0
  BY <1>1 DEF Sleeping
<1>5. eState' # "AWAKE" => eSmState' = "IDLE" /\ pc' # "fwRead" /\ BusFresh' = {}
  BY <1>1 DEF Sleeping
<1>6. CASE elpLost' = TRUE
  <2>1. Sleeping'
    BY <1>1, <1>3, <1>4, <1>5, <1>6, TwIfAssumption DEF Sleeping
  <2>2. Waken'
    BY <1>1, <1>6 DEF Waken
  <2>. QED  BY <2>1, <2>2
<1>7. CASE Written(pSingleStep) /\ elpLost' = elpLost
  <2>1. elp' = pSingleStep /\ waking' = (pSingleStep = "AWAKE" /\ intr = {})
    BY <1>7 DEF Written
  <2>2. ASSUME eState = "WAIT_HW" PROVE elp' = "AWAKE" /\ (waking' \/ irq' \/ pc' = "fw")
    <3>1. pSingleStep = "AWAKE"
      BY <1>2, <2>2 DEF Sleeping
    <3>2. intr = {} \/ irq \/ pc = "fw"
      BY <2>2, AsleepInterrupted
    <3>. QED  BY <1>1, <2>1, <3>1, <3>2
  <2>3. Sleeping'
    BY <1>1, <1>3, <1>4, <1>5, <2>2, TwIfAssumption DEF Sleeping
  <2>4. eState = "AWAKE" /\ ~elpLost => pSingleStep = "AWAKE" /\ intr # {}
    BY <1>1 DEF Waken
  <2>5. Waken'
    BY <1>1, <1>7, <2>1, <2>4 DEF Waken
  <2>. QED  BY <2>3, <2>5
<1>. QED  BY <1>6, <1>7 DEF SendElp

LEMMA ChipSm ==
    ASSUME Fine, Up, Up', ChipWakes \/ \E e \in Events : ChipRaises(e)
    PROVE  Sleeping' /\ Waken'
<1>. USE DEF Fine, Good
<1>1. UNCHANGED <<eState, txnQState, uPendingTxnCount, eSmState, pc, pSingleStep, elp, elpLost, onBus, busDone>>
  BY DEF ChipWakes, ChipRaises, twifvars, quevars, busvars, fwvars, taskvars, errvars
<1>2. ~waking' /\ intr' # {} /\ (irq \/ intr = {} => irq')
  BY DEF ChipWakes, ChipRaises, Raises
<1>3. waking => irq'
  BY <1>2 DEF Types, ChipTypes
<1>4. BusFresh' = BusFresh
  BY <1>1 DEF BusFresh
<1>5. eState' = "WAIT_HW" =>
        /\ pSingleStep' # "SLEEP"
        /\ pSingleStep' = "AWAKE" \/ waking' \/ irq' \/ pc' = "fw" \/ elpLost'
        /\ pSingleStep' = None => elp' = "AWAKE" \/ elpLost'
  BY <1>1, <1>2, <1>3 DEF Sleeping
<1>6. Sleeping'
  BY <1>1, <1>4, <1>5 DEF Sleeping
<1>7. Waken'
  BY <1>1, <1>2, <1>4 DEF Waken
<1>. QED  BY <1>6, <1>7

LEMMA SmStep == ASSUME Fine, [Next]_vars, ~late' PROVE Sleeping' /\ Waken'
<1>. USE DEF Fine, Good
<1>1. CASE ~Up'
  BY <1>1 DEF Sleeping, Waken
<1>2. CASE InitHw
  BY <1>2 DEF InitHw, Sleeping, Waken
<1>3. ASSUME Up, Up', ~Restart PROVE Sleeping' /\ Waken'
  <2>. USE <1>3
  <2>1. ASSUME NEW t \in Requests, NEW cb \in BOOLEAN, ClientSends(t, cb) PROVE Sleeping' /\ Waken'
    <3>1. UNCHANGED <<irq, intr, pc, eSmState, elpLost, uAwakeReqCount>> /\ BusFresh' = BusFresh
      BY <2>1, ClientSendsEffect DEF ClientSends, SentEffect, fwvars, taskvars
    <3>2. CASE SendPending(Entry(t, cb))
      BY <3>1, <3>2, StartsSm DEF SendPending
    <3>3. CASE SendComplete(Entry(t, cb)) \/ SendError(Entry(t, cb))
      <4>1. SleepIfUnused(uAwakeReqCount', uPendingTxnCount') /\ uPendingTxnCount' = uPendingTxnCount
        BY <3>1, <3>3 DEF SendComplete, SendError
      <4>. QED  BY <3>1, <4>1, SleepsSm, CalmSm
    <3>. QED  BY <2>1, <3>2, <3>3 DEF ClientSends
  <2>2. CASE ClientAwake \/ GuardExpires \/ EnableInterrupts \/ UNCHANGED vars
    <3>1. UNCHANGED <<eState, txnQState, pSingleStep, elp, waking, intr, irq, pc, eSmState, elpLost, uPendingTxnCount>>
      BY <2>2 DEF ClientAwake, GuardExpires, EnableInterrupts, vars, twifvars, quevars, chipvars, fwvars, taskvars, errvars
    <3>2. BusFresh' = BusFresh
      BY <2>2, QueuesLeft DEF LeavesQueues, BusFresh
    <3>. QED  BY <3>1, <3>2, CalmSm DEF SmKept
  <2>3. CASE ClientSleep \/ EnableExternalEvents
    <3>1. UNCHANGED <<intr, irq, pc, eSmState, elpLost, uPendingTxnCount>>
      BY <2>3 DEF ClientSleep, EnableExternalEvents, fwvars, taskvars, errvars
    <3>2. BusFresh' = BusFresh
      BY <2>3, QueuesLeft DEF LeavesQueues, BusFresh
    <3>3. SleepIfUnused(uAwakeReqCount', uPendingTxnCount')
      BY <2>3, <3>1 DEF ClientSleep, EnableExternalEvents, Sleep
    <3>. QED  BY <3>1, <3>2, <3>3, SleepsSm, CalmSm
  <2>4. CASE SendElp
    BY <2>4, SendElpSm
  <2>5. CASE SendNext
    <3>1. /\ UNCHANGED <<eState, txnQState, pSingleStep, elp, waking, elpLost>> /\ pSingleStep = None
          /\ txnQState = "RUNNING"
      BY <2>5 DEF SendNext, twifvars
    <3>2. eState = "AWAKE"
      BY <3>1 DEF Sleeping
    <3>3. Sleeping'
      BY <3>1, <3>2 DEF Sleeping
    <3>4. Waken'
      BY <3>1, <3>2 DEF Waken
    <3>. QED  BY <3>3, <3>4
  <2>6. CASE BusDone
    <3>1. /\ UNCHANGED <<eState, txnQState, pSingleStep, elp, waking, elpLost, uPendingTxnCount, eSmState, pc, irq>>
          /\ BusFresh # {} /\ BusFresh' = {}
      BY <2>6, BusDoneEffect DEF BusDone, twifvars, quevars, taskvars
    <3>2. pSingleStep = None
      BY <3>1 DEF Waken
    <3>3. eState = "AWAKE"
      BY <3>1 DEF Sleeping
    <3>. QED  BY <3>1, <3>2, <3>3, AwakeSm DEF SmKept
  <2>7. CASE BusFree \/ TxnDoneCb \/ HandleTxnDone
    <3>1. UNCHANGED <<eState, txnQState, pSingleStep, elp, waking, intr, irq, eSmState, elpLost>>
      BY <2>7 DEF BusFree, TxnDoneCb, HandleTxnDone, twifvars, quevars, chipvars, fwvars, errvars
    <3>2. BusFresh' = BusFresh
      <4>1. CASE BusFree
        BY <4>1, BusFreeEffect
      <4>2. CASE TxnDoneCb
        BY <4>2, TxnDoneEffect
      <4>3. CASE HandleTxnDone
        BY <4>3, QueuesLeft DEF LeavesQueues, BusFresh
      <4>. QED  BY <2>7, <4>1, <4>2, <4>3
    <3>3. uPendingTxnCount' = uPendingTxnCount \/ uPendingTxnCount' = Less(uPendingTxnCount)
      BY <2>7 DEF BusFree, TxnDoneCb, HandleTxnDone, twifvars
    <3>4. pc' = pc \/ (pc = "idle" /\ pc' = "done")
      BY <2>7 DEF BusFree, TxnDoneCb, HandleTxnDone, taskvars
    <3>5. eState = "SLEEP" => uPendingTxnCount' = 0
      BY <3>3 DEF Sleeping, Less
    <3>6. eState # "AWAKE" => eSmState' = "IDLE" /\ pc' # "fwRead"
      BY <3>1, <3>4 DEF Sleeping
    <3>. QED  BY <3>1, <3>2, <3>4, <3>5, <3>6, KeepsSm
  <2>8. CASE Dequeue
    <3>1. UNCHANGED <<eState, txnQState, pSingleStep, elp, waking, intr, irq, eSmState, elpLost>> /\ pc = "done"
      BY <2>8 DEF Dequeue, quevars, chipvars
    <3>2. BusFresh' = BusFresh
      BY <2>8, DequeueEffect
    <3>3. uPendingTxnCount' = Less(uPendingTxnCount)
      BY <2>8 DEF Dequeue
    <3>4. pc' \in {"idle", "check", "fw"}
      BY <2>8, DequeueOutcomes DEF ThenCheck, CountDown
    <3>5. eState = "SLEEP" => uPendingTxnCount' = 0
      BY <3>3 DEF Sleeping, Less
    <3>6. eState # "AWAKE" => eSmState' = "IDLE" /\ pc' # "fwRead"
      BY <3>1, <3>4 DEF Sleeping
    <3>. QED  BY <3>1, <3>2, <3>4, <3>5, <3>6, KeepsSm
  <2>9. CASE CheckSleep
    <3>1. UNCHANGED <<intr, irq, eSmState, elpLost, uPendingTxnCount, uAwakeReqCount>> /\ pc \in {"check", "done"}
      BY <2>9 DEF CheckSleep, fwvars, errvars
    <3>2. BusFresh' = BusFresh
      BY <2>9, QueuesLeft DEF LeavesQueues, BusFresh
    <3>3. SleepIfUnused(uAwakeReqCount', uPendingTxnCount') /\ pc' \in {"done", "idle"}
      BY <2>9, <3>1 DEF CheckSleep
    <3>4. CASE SmKept
      <4>1. eState # "AWAKE" => eSmState' = "IDLE" /\ pc' # "fwRead"
        BY <3>1, <3>3 DEF Sleeping
      <4>2. eState = "SLEEP" => uPendingTxnCount' = 0
        BY <3>1 DEF Sleeping
      <4>. QED  BY <3>1, <3>2, <3>4, <4>1, <4>2, KeepsSm DEF SmKept
    <3>. QED  BY <3>3, <3>4, SleepsSm
  <2>10. CASE NewEvent
    <3>1. UNCHANGED <<eState, txnQState, pSingleStep, elp, waking, intr, eSmState, elpLost, uPendingTxnCount>>
      BY <2>10 DEF NewEvent, twifvars, quevars, errvars
    <3>2. BusFresh' = BusFresh
      BY <2>10, QueuesLeft DEF LeavesQueues, BusFresh
    <3>3. eSmState = "IDLE" => pc' = "fw"
      BY <2>10 DEF NewEvent
    <3>4. eState # "AWAKE" => eSmState = "IDLE"
      BY DEF Sleeping
    <3>5. eState = "SLEEP" => uPendingTxnCount' = 0
      BY <3>1 DEF Sleeping
    <3>. QED  BY <3>1, <3>2, <3>3, <3>4, <3>5, KeepsSm
  <2>11. CASE FwIdle \/ FwReadAgain
    <3>1. SmHwAvailable /\ ToRead /\ UNCHANGED <<intr, elpLost>>
      BY <2>11 DEF FwIdle, FwReadAgain, ToRead, errvars
    <3>2. BusFresh' = BusFresh
      BY <2>11, QueuesLeft DEF LeavesQueues, BusFresh
    <3>. QED  BY <3>1, <3>2, AvailableSm
  <2>12. CASE FwRead
    <3>1. FwBusy /\ elpLost' = elpLost /\ BusFresh' = BusFresh
      BY <2>12, FwReadEffect DEF FwRead, FwBusy, SentEffect
    <3>2. SmKept
      BY <2>12, <3>1, BusySends DEF FwRead, SmKept
    <3>3. intr' = intr \/ pSingleStep = None
      BY <2>12 DEF FwRead, SendComplete, BusIdle
    <3>. QED  BY <3>1, <3>2, <3>3, FwBusyAwake, AwakeSm
  <2>13. ASSUME NEW e \in Events, FwHandler(e) PROVE Sleeping' /\ Waken'
    <3>1. FwBusy /\ elpLost' = elpLost /\ intr' = intr /\ BusFresh' = BusFresh
      BY <2>13, FwHandlerEffect DEF FwHandler, FwBusy, SentEffect, Handlers
    <3>2. SmKept
      BY <2>13, <3>1, BusySends DEF FwHandler, SmKept
    <3>. QED  BY <3>1, <3>2, FwBusyAwake, AwakeSm
  <2>14. CASE FwHandleEvents \/ FwHandled
    <3>1. FwBusy /\ UNCHANGED <<eState, txnQState, pSingleStep, elp, waking, elpLost, intr>>
      BY <2>14 DEF FwHandleEvents, FwHandled, FwBusy, Handlers, twifvars, quevars, chipvars, errvars
    <3>2. BusFresh' = BusFresh
      BY <2>14, QueuesLeft DEF LeavesQueues, BusFresh
    <3>. QED  BY <3>1, <3>2, FwBusyAwake, AwakeSm DEF SmKept
  <2>15. CASE FwFinished
    <3>1. FwBusy /\ UNCHANGED <<elpLost, intr>> /\ SleepIfUnused(uAwakeReqCount', uPendingTxnCount')
      BY <2>15 DEF FwFinished, FwBusy, Sleep, errvars
    <3>2. BusFresh' = BusFresh
      BY <2>15, QueuesLeft DEF LeavesQueues, BusFresh
    <3>. QED  BY <3>1, <3>2, FwBusyAwake, AwakeSm, SleepsSm
  <2>16. CASE ChipWakes \/ \E e \in Events : ChipRaises(e)
    BY <2>16, ChipSm
  <2>17. ~RestartDone /\ ~PendRestartTimeout /\ ~HandleRecovery
    BY RestartDoneEffect, PendRestartTimeoutEffect DEF HandleRecovery
  <2>18. ~InitHw
    BY DEF InitHw, Up
  <2>. QED  BY <2>1, <2>2, <2>3, <2>4, <2>5, <2>6, <2>7, <2>8, <2>9, <2>10, <2>11, <2>12, <2>13, <2>14, <2>15,
               <2>16, <2>17, <2>18 DEF Next, Bus, TwIfTask, FwEvent, Boot
<1>. QED  BY <1>1, <1>2, <1>3, Life

-----------------------------------------------------------------------------
(* Whatever is sent as "status" is FwEvent's read.                         *)
LEMMA CalledSeq ==
    ASSUME NEW S, NEW s \in Seq(S), Called(s)
    PROVE  /\ s # << >> => Called(Tail(s)) /\ (Head(s).txn = "status" => Head(s).cb)
           /\ \A e \in S : (e.txn = "status" => e.cb) => Called(Append(s, e)) /\ Called(<<e>> \o s)
<1>1. Len(s) \in Nat
  OBVIOUS
<1>2. ASSUME s # << >> PROVE Called(Tail(s)) /\ (Head(s).txn = "status" => Head(s).cb)
  <2>1. Len(Tail(s)) = Len(s) - 1 /\ Head(s) = s[1] /\ 1 \in 1..Len(s)
    BY <1>2
  <2>2. \A i \in 1..Len(Tail(s)) : Tail(s)[i] = s[i + 1] /\ i + 1 \in 1..Len(s)
    BY <1>2
  <2>. QED  BY <2>1, <2>2 DEF Called
<1>3. ASSUME NEW e \in S, e.txn = "status" => e.cb PROVE Called(Append(s, e)) /\ Called(<<e>> \o s)
  <2>1. \A i \in 1..Len(Append(s, e)) : (i \in 1..Len(s) /\ Append(s, e)[i] = s[i]) \/ Append(s, e)[i] = e
    BY <1>1
  <2>2. \A i \in 1..Len(<<e>> \o s) : (<<e>> \o s)[i] = e \/ (i - 1 \in 1..Len(s) /\ (<<e>> \o s)[i] = s[i - 1])
    BY <1>1
  <2>3. Called(Append(s, e))
    BY <1>3, <2>1 DEF Called
  <2>4. Called(<<e>> \o s)
    BY <1>3, <2>2 DEF Called
  <2>. QED  BY <2>3, <2>4
<1>. QED  BY <1>2, <1>3

LEMMA CalledOld ==
    ASSUME NEW s, s \in Seq(BusEntry) \/ s \in Seq(DoneEntry), Called(s)
    PROVE  Called(OldAll(s))
<1>1. Len(s) \in Nat /\ Len(OldAll(s)) = Len(s)
  BY DEF OldAll
<1>2. \A i \in 1..Len(s) : OldAll(s)[i] = Old(s[i])
  BY DEF OldAll
<1>3. \A i \in 1..Len(s) : Old(s[i]).txn = s[i].txn /\ Old(s[i]).cb = s[i].cb
  <2>1. \A i \in 1..Len(s) : s[i] \in BusEntry \/ s[i] \in DoneEntry
    OBVIOUS
  <2>. QED  BY <2>1 DEF Old, BusEntry, DoneEntry
<1>. QED  BY <1>1, <1>2, <1>3 DEF Called

LEMMA CalledReport ==
    ASSUME Types, Calls, NEW e \in BusEntry, e.txn = "status" => e.cb, NEW status \in {"OK", "ERROR"},
           Report(e, status)
    PROVE  Called(reported')
<1>1. /\ reported' = reported \/ reported' = Append(reported, Done(e, status))
      /\ Done(e, status) \in DoneEntry
  BY ReportTyped
<1>2. Done(e, status).txn = "status" => Done(e, status).cb
  BY DEF Done
<1>3. reported \in Seq(DoneEntry) /\ Called(reported)
  BY DEF Types, BusTypes, Calls
<1>. QED  BY <1>1, <1>2, <1>3, CalledSeq

LEMMA CallsStep == ASSUME Types, Calls, [Next]_vars PROVE Calls'
<1>1. queue \in Seq(BusEntry) /\ reported \in Seq(DoneEntry)
  BY DEF Types, BusTypes
<1>2. Called(<< >>)
  BY DEF Called
<1>3. CASE LeavesQueues
  BY <1>3, QueuesLeft DEF Calls
<1>4. ASSUME NEW e \in BusEntry, e.txn = "status" => e.cb, UNCHANGED <<onBus, reported>>,
             SendPending(e) \/ SendComplete(e) \/ SendError(e)
      PROVE  Calls'
  <2>1. queue' \in {queue, <<e>> \o queue, Append(queue, e)}
    BY <1>4 DEF SendPending, SendComplete, SendError
  <2>2. Called(queue')
    BY <1>1, <1>4, <2>1, CalledSeq DEF Calls
  <2>. QED  BY <1>4, <2>2 DEF Calls
<1>5. ASSUME NEW t \in Requests, NEW cb \in BOOLEAN, ClientSends(t, cb) PROVE Calls'
  <2>1. Entry(t, cb) \in BusEntry /\ Entry(t, cb).txn # "status"
    BY EntryTyped, TxnFinite
  <2>. QED  BY <1>4, <1>5, <2>1 DEF ClientSends, busvars
<1>6. CASE FwRead
  <2>1. Read \in BusEntry /\ Read.cb
    BY EntryTyped, TxnFinite DEF Read
  <2>. QED  BY <1>4, <1>6, <2>1 DEF FwRead, busvars
<1>7. ASSUME NEW e \in Events, FwHandler(e) PROVE Calls'
  <2>1. Entry(e, TRUE) \in BusEntry /\ Entry(e, TRUE).txn # "status"
    BY EntryTyped, TxnFinite
  <2>. QED  BY <1>4, <1>7, <2>1 DEF FwHandler, busvars
<1>8. CASE SendNext
  <2>1. Called(Tail(queue)) /\ (Head(queue).txn = "status" => Head(queue).cb) /\ Head(queue) \in BusEntry
    BY <1>1, <1>8, CalledSeq DEF SendNext, Calls
  <2>2. CASE onBus' = Head(queue) /\ reported' = reported
    BY <1>8, <2>1, <2>2 DEF SendNext, Calls
  <2>3. ASSUME NEW status \in {"OK", "ERROR"}, Report(Head(queue), status), onBus' = onBus PROVE Calls'
    <3>1. Called(reported')
      BY <2>1, <2>3, CalledReport
    <3>. QED  BY <1>8, <2>1, <2>3, <3>1 DEF SendNext, Calls
  <2>. QED  BY <1>8, <2>2, <2>3 DEF SendNext
<1>9. CASE BusDone
  <2>1. onBus \in BusEntry /\ (onBus.txn = "status" => onBus.cb) /\ UNCHANGED <<queue, onBus>>
    BY <1>9 DEF BusDone, Types, BusTypes, Calls, quevars
  <2>2. ASSUME NEW status \in {"OK", "ERROR"}, Report(onBus, status) PROVE Calls'
    <3>1. Called(reported')
      BY <2>1, <2>2, CalledReport
    <3>. QED  BY <2>1, <3>1 DEF Calls
  <2>. QED  BY <1>9, <2>2 DEF BusDone
<1>10. CASE BusFree
  BY <1>10 DEF BusFree, quevars, Calls
<1>11. CASE TxnDoneCb
  BY <1>1, <1>11, CalledSeq DEF TxnDoneCb, quevars, Calls
<1>12. CASE Dequeue
  BY <1>12 DEF Dequeue, quevars, busvars, Calls
<1>13. CASE RestartDone \/ PendRestartTimeout
  BY <1>2, <1>13 DEF RestartDone, PendRestartTimeout, ClearQueues, busvars, Calls
<1>14. CASE Restart
  <2>1. Called(OldAll(queue)) /\ Called(OldAll(reported))
    BY <1>1, CalledOld DEF Calls
  <2>2. onBus # None => Old(onBus).txn = onBus.txn /\ Old(onBus).cb = onBus.cb
    BY DEF Old, BusEntry, Types, BusTypes
  <2>3. queue' \in {<< >>, OldAll(queue)} /\ reported' = OldAll(reported)
    BY <1>14 DEF Restart, ClearQueues
  <2>4. onBus' = onBus \/ (onBus # None /\ onBus' = Old(onBus))
    BY <1>14 DEF Restart
  <2>. QED  BY <1>2, <2>1, <2>2, <2>3, <2>4 DEF Calls
<1>. QED  BY <1>3, <1>5, <1>6, <1>7, <1>8, <1>9, <1>10, <1>11, <1>12, <1>13, <1>14
          DEF Next, Bus, TwIfTask, FwEvent, Boot, LeavesQueues

LEMMA IsRead == ASSUME NEW e \in BusEntry, e.txn = "status", e.cb, e.fresh PROVE e = Read
<1>1. e.cb = TRUE /\ e.fresh = TRUE
  BY DEF BusEntry
<1>2. e = [txn |-> e.txn, cb |-> e.cb, fresh |-> e.fresh]
  BY DEF BusEntry
<1>. QED  BY <1>1, <1>2 DEF Read, Entry

-----------------------------------------------------------------------------
(* The interrupt of the chip.                                              *)
Away(p) == p \in {"idle", "done", "check"}
FailureKept ==
    /\ failed => failed'
    /\ "status" \in Out' => "status" \in Out
    /\ FailedRead(reported) => FailedRead(reported') \/ FailedRead(hTxnDoneQueue')
    /\ FailedRead(hTxnDoneQueue) => FailedRead(hTxnDoneQueue') \/ (failed' /\ "status" \notin Out')
HeldKept == ReadRefused => eState' = "AWAKE" /\ uAwakeReqCount' >= holders' + Boots' + 1

LEMMA InterruptsKept ==
    ASSUME Fine, Up, UNCHANGED <<intr, irq, eSmState, bIntrPending>>, pc' = pc \/ (Away(pc) /\ Away(pc')),
           ("status" \in Unread') <=> ("status" \in Unread), FailureKept, HeldKept
    PROVE  Interrupts'
<1>1. ToRead' <=> ToRead
  BY DEF ToRead, Away
<1>2. ReadLost => ReadLost'
  BY DEF ReadLost, FailureKept, Away
<1>3. ReadRefused => ReadRefused'
  BY DEF ReadRefused, FailureKept, HeldKept, Away
<1>4. Interrupts
  BY DEF Fine, Good
<1>. QED  BY <1>1, <1>2, <1>3, <1>4 DEF Interrupts

LEMMA HeldStays ==
    ASSUME Fine, SmKept, UNCHANGED <<uAwakeReqCount, holders, phase>>
    PROVE  HeldKept
BY DEF HeldKept, ReadRefused, SmKept, Boots

LEMMA RefusedHolds == ASSUME Types, ReadRefused PROVE uAwakeReqCount # 0 /\ uAwakeReqCount > holders /\ uAwakeReqCount \in Nat /\ holders \in Nat /\ Boots \in Nat
<1>1. holders \in Nat /\ Boots \in Nat /\ uAwakeReqCount \in Nat
  BY Bounds DEF Types, CountTypes, Boots, One
<1>2. uAwakeReqCount >= holders + Boots + 1
  BY DEF ReadRefused
<1>. QED  BY <1>1, <1>2

(* A failed read is told before it is forgotten.                           *)
LEMMA TxnDoneFailure == ASSUME Fine, TxnDoneCb, ~late' PROVE FailureKept
<1>. USE DEF Fine, Good
<1>. DEFINE e == Head(reported)
<1>1. reported \in Seq(DoneEntry) /\ hTxnDoneQueue \in Seq(DoneEntry) /\ reported # << >> /\ e \in DoneEntry
  BY TxnDoneEffect DEF Types, BusTypes, TxnDoneCb
<1>2. /\ reported' = Tail(reported) /\ Out' \subseteq Out
      /\ hTxnDoneQueue' = hTxnDoneQueue \/ hTxnDoneQueue' = Append(hTxnDoneQueue, e)
      /\ e.cb => hTxnDoneQueue' = Append(hTxnDoneQueue, e)
  BY TxnDoneEffect
<1>3. e.txn = "status" => e.cb
  BY <1>1, CalledSeq DEF Calls
<1>. HIDE DEF e
<1>4. FailedRead(reported) => FailedRead(Tail(reported)) \/ (e.txn = "status" /\ e.fresh /\ e.status = "ERROR")
  BY <1>1, TailSeq DEF e
<1>5. /\ FailedRead(hTxnDoneQueue) => FailedRead(Append(hTxnDoneQueue, e))
      /\ e.txn = "status" /\ e.fresh /\ e.status = "ERROR" => FailedRead(Append(hTxnDoneQueue, e))
  BY <1>1, AppendSeq
<1>6. failed' = failed
  BY DEF TxnDoneCb
<1>. QED  BY <1>2, <1>3, <1>4, <1>5, <1>6 DEF FailureKept

LEMMA FailureStays ==
    ASSUME failed => failed', "status" \in Out' => "status" \in Out, UNCHANGED <<reported, hTxnDoneQueue>>
    PROVE  FailureKept
BY DEF FailureKept

LEMMA ReportFailure ==
    ASSUME Types, NEW e \in DoneEntry, reported' = Append(reported, e), Out' = Out, UNCHANGED <<failed, hTxnDoneQueue>>
    PROVE  FailureKept /\ (e.txn = "status" /\ e.fresh /\ e.status = "ERROR" => FailedRead(reported'))
<1>1. reported \in Seq(DoneEntry)
  BY DEF Types, BusTypes
<1>. QED  BY <1>1, AppendSeq DEF FailureKept

(* The chip answered the read, or another transaction.                     *)
LEMMA ReadAnswered ==
    ASSUME Fine, Up, NEW e \in BusEntry, e.fresh, e.txn = "status" => e.cb, e.txn \in Unread,
           UNCHANGED <<irq, eSmState, bIntrPending, pc, failed, hTxnDoneQueue>>, Out' = Out,
           Unread' = Unread \ {e.txn}, HeldKept,
           \/ reported' = Append(reported, Done(e, "OK")) /\ Transferred(e)
           \/ reported' = Append(reported, Done(e, "ERROR")) /\ UNCHANGED intr
    PROVE  Interrupts'
<1>. USE DEF Fine, Good
<1>1. Done(e, "OK") \in DoneEntry /\ Done(e, "ERROR") \in DoneEntry
  BY DEF Done, BusEntry, DoneEntry
<1>2. FailureKept
  BY <1>1, ReportFailure
<1>3. CASE e.txn # "status"
  <2>1. intr' = intr
    BY <1>3, EntryTyped DEF Transferred
  <2>. QED  BY <1>2, <1>3, <2>1, InterruptsKept
<1>4. CASE e.txn = "status"
  <2>1. "status" \in Out /\ "status" \in Unread
    BY <1>4, OutTyped
  <2>2. eSmState = "WAIT_INTR_INFO" /\ Away(pc)
    BY <2>1 DEF Reading, Types, FwTypes, Away
  <2>3. ~irq /\ ~bIntrPending
    BY <2>1 DEF Interrupts, ToRead
  <2>4. ~ToRead'
    BY <1>4, <2>2, <2>3 DEF ToRead, Away
  <2>5. intr' = {} \/ FailedRead(reported')
    <3>1. CASE reported' = Append(reported, Done(e, "OK")) /\ Transferred(e)
      BY <1>4, <3>1, IsRead DEF Transferred
    <3>2. CASE reported' = Append(reported, Done(e, "ERROR"))
      <4>1. Done(e, "ERROR").txn = "status" /\ Done(e, "ERROR").fresh /\ Done(e, "ERROR").status = "ERROR"
        BY <1>4 DEF Done
      <4>. QED  BY <1>1, <3>2, <4>1, ReportFailure
    <3>. QED  BY <3>1, <3>2
  <2>6. FailedRead(reported') => ReadLost'
    BY <2>2 DEF ReadLost, Away
  <2>. QED  BY <2>3, <2>4, <2>5, <2>6 DEF Interrupts
<1>. QED  BY <1>3, <1>4

LEMMA DequeueInterrupts == ASSUME Fine, Up, Dequeue PROVE Interrupts'
<1>. USE DEF Fine, Good
<1>. DEFINE e == Head(hTxnDoneQueue)
<1>1. /\ hTxnDoneQueue \in Seq(DoneEntry) /\ hTxnDoneQueue # << >> /\ e \in DoneEntry /\ e.fresh /\ e.txn \in Out
      /\ hTxnDoneQueue' = Tail(hTxnDoneQueue) /\ Out' = Out \ {e.txn} /\ Unread' = Unread
  BY DequeueEffect DEF Dequeue, Types, BusTypes
<1>2. /\ UNCHANGED <<intr, irq, eSmState, bIntrPending, reported, uAwakeReqCount, holders, phase>> /\ SmKept
      /\ pc = "done"
  BY DEF Dequeue, SmKept, busvars, chipvars, drvvars, quevars
<1>3. /\ FailedRead(hTxnDoneQueue) => FailedRead(hTxnDoneQueue') \/ (e.txn = "status" /\ e.status = "ERROR")
      /\ Once(hTxnDoneQueue) => FreshIn(hTxnDoneQueue') \cap Shown(e) = {}
  BY <1>1, TailSeq
<1>4. failed => failed'
  BY DEF Dequeue
<1>5. HeldKept
  BY <1>2, HeldStays
<1>6. /\ e.status = "ERROR" => pc' = "idle" /\ failed'
      /\ e.status = "OK" => \/ e.txn = "status" /\ pc' = "fw"
                            \/ e.txn # "status" /\ eSmState = "WAIT_HANDLE_COMPLT" /\ pc' \in {"fw", "check"}
                            \/ e.txn # "status" /\ pc' = "check"
  BY DequeueOutcomes, TxnFinite DEF ThenCheck, CountDown
<1>7. e.status \in {"OK", "ERROR"}
  BY <1>1 DEF DoneEntry
<1>. HIDE DEF e
<1>8. CASE Away(pc')
  <2>1. FailedRead(hTxnDoneQueue) => FailedRead(hTxnDoneQueue') \/ (failed' /\ "status" \notin Out')
    BY <1>1, <1>3, <1>6
  <2>2. Away(pc)
    BY <1>2 DEF Away
  <2>3. ToRead' <=> ToRead
    BY <1>1, <1>2, <1>8, <2>2 DEF ToRead, Away
  <2>4. ReadLost => ReadLost'
    BY <1>1, <1>2, <1>4, <1>8, <2>1 DEF ReadLost, Away
  <2>5. ReadRefused => ReadRefused'
    BY <1>2, <1>4, <1>5, <1>8 DEF ReadRefused, HeldKept, Away
  <2>. QED  BY <1>1, <1>2, <2>3, <2>4, <2>5 DEF Interrupts
<1>9. CASE pc' = "fw" /\ e.status = "OK" /\ (e.txn = "status" \/ eSmState = "WAIT_HANDLE_COMPLT")
  <2>1. eSmState # "IDLE" /\ eSmState' # "IDLE"
    BY <1>1, <1>2, <1>9 DEF Reading
  <2>2. ToRead' <=> ToRead
    BY <1>1, <1>2, <1>9, <2>1 DEF ToRead
  <2>3. ~ReadRefused
    BY <2>1 DEF ReadRefused
  <2>4. ~ReadLost
    <3>1. CASE eSmState = "WAIT_HANDLE_COMPLT"
      BY <3>1 DEF ReadLost
    <3>2. CASE e.txn = "status"
      <4>1. "status" \in FreshIn(hTxnDoneQueue) /\ "status" \notin FreshIn(hTxnDoneQueue')
        <5>1. FreshIn(hTxnDoneQueue) = FreshIn(hTxnDoneQueue') \cup Shown(e)
          BY <1>1, TailSeq DEF e
        <5>. QED  BY <1>1, <1>3, <3>2, <5>1 DEF Places, Shown
      <4>2. "status" \notin FreshIn(reported) /\ "status" \in Out
        BY <4>1 DEF Places, Out
      <4>3. ~FailedRead(reported)
        BY <4>2 DEF FailedRead, FreshIn
      <4>4. ~FailedRead(hTxnDoneQueue')
        BY <4>1 DEF FailedRead, FreshIn
      <4>. QED  BY <1>3, <1>9, <4>2, <4>3, <4>4 DEF ReadLost
    <3>. QED  BY <1>9, <3>1, <3>2
  <2>. QED  BY <1>1, <1>2, <2>2, <2>3, <2>4 DEF Interrupts
<1>. QED  BY <1>6, <1>7, <1>8, <1>9 DEF Away

LEMMA InterruptsStep == ASSUME Fine, [Next]_vars, ~late' PROVE Interrupts'
<1>. USE DEF Fine, Good
<1>1. CASE ~Up'
  BY <1>1 DEF Interrupts
<1>2. CASE InitHw
  <2>1. intr' = {} /\ ~irq' /\ UNCHANGED <<eSmState, bIntrPending, pc>> /\ pc = "idle"
    BY <1>2 DEF InitHw, fwvars, taskvars
  <2>2. Unread' = Unread
    BY <1>2, QueuesLeft, QueuesLeftEffect DEF LeavesQueues
  <2>3. ~Up
    BY <1>2 DEF InitHw, Up
  <2>4. "status" \notin Unread /\ ~bIntrPending
    BY <2>3, OutTyped DEF Down, Reading
  <2>. QED  BY <2>1, <2>2, <2>4 DEF Interrupts, ToRead
<1>3. ASSUME Up, Up', ~Restart PROVE Interrupts'
  <2>. USE <1>3
  <2>0. ASSUME LeavesQueues PROVE Out' = Out /\ Unread' = Unread /\ UNCHANGED <<reported, hTxnDoneQueue>>
    BY <2>0, QueuesLeft, QueuesLeftEffect
  <2>1. ASSUME NEW t \in Requests, NEW cb \in BOOLEAN, ClientSends(t, cb) PROVE Interrupts'
    <3>1. UNCHANGED <<intr, irq, eSmState, bIntrPending, pc, reported, hTxnDoneQueue>> /\ ~failed
      BY <2>1 DEF ClientSends, fwvars, taskvars, busvars
    <3>2. ("status" \in Out' <=> "status" \in Out) /\ ("status" \in Unread' <=> "status" \in Unread)
      BY <2>1, ClientSendsEffect, TxnFinite DEF SentEffect
    <3>. QED  BY <3>1, <3>2, InterruptsKept, FailureStays DEF HeldKept, ReadRefused
  <2>2. CASE EnableInterrupts \/ EnableExternalEvents
    <3>1. UNCHANGED <<intr, irq, eSmState, bIntrPending, pc>> /\ ~failed
      BY <2>2 DEF EnableInterrupts, EnableExternalEvents, chipvars, fwvars, taskvars
    <3>2. Out' = Out /\ Unread' = Unread /\ UNCHANGED <<reported, hTxnDoneQueue>>
      BY <2>0, <2>2 DEF LeavesQueues
    <3>. QED  BY <3>1, <3>2, InterruptsKept, FailureStays DEF HeldKept, ReadRefused
  <2>3. CASE ClientAwake
    <3>1. /\ UNCHANGED <<intr, irq, eSmState, bIntrPending, pc, failed, eState, phase>>
          /\ uAwakeReqCount' = uAwakeReqCount + 1 /\ holders' = holders + 1
      BY <2>3 DEF ClientAwake, Awake, chipvars, fwvars, taskvars, errvars
    <3>2. HeldKept
      BY <3>1, RefusedHolds DEF HeldKept, ReadRefused, Boots
    <3>3. Out' = Out /\ Unread' = Unread /\ UNCHANGED <<reported, hTxnDoneQueue>>
      BY <2>0, <2>3 DEF LeavesQueues
    <3>. QED  BY <3>1, <3>2, <3>3, InterruptsKept, FailureStays
  <2>4. CASE ClientSleep
    <3>1. /\ UNCHANGED <<intr, irq, eSmState, bIntrPending, pc, failed, phase>>
          /\ uAwakeReqCount' = LessOne /\ holders' = holders - 1 /\ holders > 0
          /\ SleepIfUnused(uAwakeReqCount', uPendingTxnCount)
      BY <2>4 DEF ClientSleep, Sleep, fwvars, taskvars, errvars
    <3>2. ASSUME ReadRefused PROVE eState' = eState /\ uAwakeReqCount' >= holders' + Boots' + 1
      <4>1. uAwakeReqCount' = uAwakeReqCount - 1 /\ Boots' = Boots /\ uAwakeReqCount >= holders + Boots + 1
        BY <3>1, <3>2, RefusedHolds DEF LessOne, Boots, ReadRefused
      <4>2. uAwakeReqCount' # 0
        BY <3>1, <3>2, <4>1, RefusedHolds
      <4>3. eState' = eState
        BY <3>1, <4>2 DEF SleepIfUnused
      <4>. QED  BY <3>1, <3>2, <4>1, <4>3, RefusedHolds
    <3>3. HeldKept
      BY <3>2 DEF HeldKept, ReadRefused
    <3>4. Out' = Out /\ Unread' = Unread /\ UNCHANGED <<reported, hTxnDoneQueue>>
      BY <2>0, <2>4 DEF LeavesQueues
    <3>. QED  BY <3>1, <3>3, <3>4, InterruptsKept, FailureStays
  <2>5. CASE SendElp \/ GuardExpires \/ UNCHANGED vars
    <3>1. UNCHANGED <<intr, irq, eSmState, bIntrPending, pc, failed, eState, uAwakeReqCount, holders, phase>>
      BY <2>5 DEF SendElp, GuardExpires, vars, twifvars, chipvars, fwvars, taskvars, drvvars, errvars
    <3>2. HeldKept
      BY <3>1 DEF HeldKept, ReadRefused, Boots
    <3>3. Out' = Out /\ Unread' = Unread /\ UNCHANGED <<reported, hTxnDoneQueue>>
      BY <2>0, <2>5 DEF LeavesQueues
    <3>. QED  BY <3>1, <3>2, <3>3, InterruptsKept, FailureStays
  <2>6. CASE SendNext
    <3>. DEFINE e == Head(queue)
    <3>1. /\ UNCHANGED <<irq, eSmState, bIntrPending, pc, failed, hTxnDoneQueue, eState, uAwakeReqCount, holders, phase>>
          /\ queue \in Seq(BusEntry) /\ queue # << >>
      BY <2>6 DEF SendNext, twifvars, taskvars, drvvars, Types, BusTypes
    <3>2. HeldKept
      BY <3>1 DEF HeldKept, ReadRefused, Boots
    <3>3. e \in BusEntry /\ e.fresh /\ e.txn \in Unread /\ Out' = Out
      BY <2>6, SendNextEffect
    <3>4. e.txn = "status" => e.cb
      BY <3>1, CalledSeq DEF Calls
    <3>5. \/ Unread' = Unread /\ UNCHANGED <<reported, intr>>
          \/ /\ Unread' = Unread \ {e.txn}
             /\ \/ reported' = Append(reported, Done(e, "OK")) /\ Transferred(e)
                \/ reported' = Append(reported, Done(e, "ERROR")) /\ UNCHANGED intr
      BY <2>6, SendNextEffect
    <3>. HIDE DEF e
    <3>6. CASE Unread' = Unread /\ UNCHANGED <<reported, intr>>
      BY <3>1, <3>2, <3>3, <3>6, InterruptsKept, FailureStays
    <3>. QED  BY <3>1, <3>2, <3>3, <3>4, <3>5, <3>6, ReadAnswered
  <2>7. CASE BusDone
    <3>1. /\ UNCHANGED <<irq, eSmState, bIntrPending, pc, failed, hTxnDoneQueue, eState, uAwakeReqCount, holders, phase>>
          /\ onBus # None
      BY <2>7 DEF BusDone, twifvars, taskvars, drvvars
    <3>2. HeldKept
      BY <3>1 DEF HeldKept, ReadRefused, Boots
    <3>3. /\ onBus \in BusEntry /\ onBus.fresh /\ onBus.txn \in Unread /\ Out' = Out /\ Unread' = Unread \ {onBus.txn}
          /\ \/ reported' = Append(reported, Done(onBus, "OK")) /\ Transferred(onBus)
             \/ reported' = Append(reported, Done(onBus, "ERROR")) /\ UNCHANGED intr
      BY <2>7, BusDoneEffect DEF Unread
    <3>4. onBus.txn = "status" => onBus.cb
      BY <3>1 DEF Calls
    <3>. QED  BY <3>1, <3>2, <3>3, <3>4, ReadAnswered
  <2>8. CASE BusFree
    <3>1. UNCHANGED <<intr, irq, eSmState, bIntrPending, pc, failed, eState, uAwakeReqCount, holders, phase, reported, hTxnDoneQueue>>
      BY <2>8 DEF BusFree, twifvars, chipvars, fwvars, taskvars, drvvars, errvars
    <3>2. HeldKept
      BY <3>1 DEF HeldKept, ReadRefused, Boots
    <3>. QED  BY <2>8, <3>1, <3>2, BusFreeEffect, InterruptsKept, FailureStays
  <2>9. CASE TxnDoneCb
    <3>1. UNCHANGED <<intr, irq, eSmState, bIntrPending, pc, eState, uAwakeReqCount, holders, phase>>
      BY <2>9 DEF TxnDoneCb, chipvars, fwvars, taskvars, drvvars
    <3>2. HeldKept
      BY <3>1 DEF HeldKept, ReadRefused, Boots
    <3>3. Unread' = Unread
      BY <2>9, TxnDoneEffect
    <3>. QED  BY <2>9, <3>1, <3>2, <3>3, TxnDoneFailure, InterruptsKept
  <2>10. CASE HandleTxnDone \/ CheckSleep
    <3>1. /\ UNCHANGED <<intr, irq, eSmState, bIntrPending, failed, uAwakeReqCount, holders, phase>>
          /\ Away(pc) /\ Away(pc')
      BY <2>10 DEF HandleTxnDone, CheckSleep, chipvars, fwvars, drvvars, errvars, twifvars, Away
    <3>2. ReadRefused => eState' = eState
      BY <2>10, RefusedHolds DEF HandleTxnDone, CheckSleep, SleepIfUnused
    <3>3. HeldKept
      BY <3>1, <3>2 DEF HeldKept, ReadRefused, Boots
    <3>4. Out' = Out /\ Unread' = Unread /\ UNCHANGED <<reported, hTxnDoneQueue>>
      BY <2>0, <2>10 DEF LeavesQueues
    <3>. QED  BY <3>1, <3>3, <3>4, InterruptsKept, FailureStays
  <2>11. CASE Dequeue
    BY <2>11, DequeueInterrupts
  <2>12. CASE NewEvent
    <3>1. irq /\ ~irq' /\ intr' = intr /\ eSmState' = eSmState
      BY <2>12 DEF NewEvent
    <3>2. intr # {} /\ ~ToRead
      BY <3>1 DEF Interrupts
    <3>3. Unread' = Unread
      BY <2>0, <2>12 DEF LeavesQueues
    <3>4. ToRead'
      BY <2>12, <3>1 DEF NewEvent, KeepPending, ToRead
    <3>5. "status" \notin Unread'
      BY <3>2, <3>3 DEF ToRead
    <3>. QED  BY <3>1, <3>2, <3>4, <3>5 DEF Interrupts
  <2>13. CASE FwIdle \/ FwReadAgain
    <3>1. ToRead /\ UNCHANGED <<intr, irq>> /\ pc' = "fwRead" /\ (bIntrPending' => bIntrPending)
      BY <2>13 DEF FwIdle, FwReadAgain, ToRead, fwvars
    <3>2. Unread' = Unread
      BY <2>0, <2>13 DEF LeavesQueues
    <3>. QED  BY <3>1, <3>2 DEF Interrupts, ToRead
  <2>14. CASE FwRead
    <3>1. intr # {} /\ ~irq /\ ~irq' /\ ~bIntrPending /\ "status" \notin Unread /\ FwBusy
      BY <2>14, FwReadEffect, OutTyped DEF FwRead, Interrupts, ToRead, Reading, FwBusy
    <3>2. CASE SendPending(Read) /\ UNCHANGED <<bIntrPending, intr>>
      <4>1. "status" \in Unread'
        <5>1. uPendingTxnCount' = uPendingTxnCount + 1 /\ uPendingTxnCount \in Nat
          BY <3>2 DEF SendPending, Types, CountTypes
        <5>. QED  BY <2>14, <5>1, FwReadEffect, OnlyPendingCounts DEF SentEffect
      <4>. QED  BY <3>1, <3>2, <4>1 DEF Interrupts, ToRead
    <3>3. ASSUME queue' = queue PROVE Unread' = Unread
      BY <2>14, <3>3, QueuesLeftEffect DEF FwRead, busvars
    <3>4. CASE SendComplete(Read) /\ Transferred(Read) /\ AwaitInfo /\ pc' = "fw" /\ UNCHANGED bIntrPending
      <4>1. intr' = {} /\ Unread' = Unread /\ eSmState' # "IDLE" /\ pc' # "fwRead"
        BY <3>3, <3>4 DEF SendComplete, Transferred, AwaitInfo
      <4>. QED  BY <3>1, <3>4, <4>1 DEF Interrupts, ToRead
    <3>5. CASE SendError(Read) /\ FwStop /\ pc' = ret /\ UNCHANGED intr
      <4>1. Unread' = Unread /\ failed' /\ eSmState' = "IDLE" /\ ~bIntrPending' /\ Away(pc')
        BY <3>3, <3>5 DEF SendError, FwStop, Types, FwTypes, Away
      <4>2. eState' = "AWAKE"
        BY <3>1, <3>5, BusySends, FwBusyAwake
      <4>3. UNCHANGED <<uAwakeReqCount, holders, phase>>
        BY <2>14 DEF FwRead, drvvars
      <4>4. uAwakeReqCount >= holders + Boots + 1
        BY <3>1 DEF Needed, One
      <4>5. ReadRefused'
        BY <4>1, <4>2, <4>3, <4>4 DEF ReadRefused, Away, Boots
      <4>6. ~ToRead'
        BY <3>1, <4>1 DEF ToRead, Away
      <4>. QED  BY <3>1, <4>1, <4>5, <4>6 DEF Interrupts
    <3>. QED  BY <2>14, <3>2, <3>4, <3>5 DEF FwRead
  <2>15. ASSUME NEW e \in Events, FwHandler(e) PROVE Interrupts'
    <3>1. UNCHANGED <<intr, irq, eSmState, bIntrPending, pc>> /\ pc = "handlers"
      BY <2>15 DEF FwHandler, taskvars
    <3>2. "status" \in Unread' <=> "status" \in Unread
      BY <2>15, FwHandlerEffect, TxnFinite DEF SentEffect
    <3>3. ToRead' <=> ToRead
      BY <3>1, <3>2 DEF ToRead
    <3>4. ~ReadLost /\ ~ReadRefused
      BY <3>1 DEF ReadLost, ReadRefused
    <3>. QED  BY <3>1, <3>2, <3>3, <3>4 DEF Interrupts
  <2>16. CASE FwHandleEvents \/ FwHandled \/ FwFinished
    <3>1. Unread' = Unread
      BY <2>0, <2>16 DEF LeavesQueues
    <3>2. UNCHANGED <<intr, irq, bIntrPending>> /\ pc \in {"fw", "handlers"}
      BY <2>16 DEF FwHandleEvents, FwHandled, FwFinished, chipvars
    <3>3. ~ReadLost /\ ~ReadRefused
      BY <3>2 DEF ReadLost, ReadRefused
    <3>4. eSmState \in {"WAIT_INTR_INFO", "WAIT_HANDLE_COMPLT"}
      BY <2>16 DEF FwHandleEvents, FwHandled, FwFinished, Handlers
    <3>5. pc' # "fwRead" /\ ~(pc' = "fw" /\ eSmState' = "IDLE")
      BY <2>16 DEF FwHandleEvents, FwHandled, FwFinished, Types, FwTypes
    <3>6. ToRead' <=> ToRead
      BY <3>1, <3>2, <3>4, <3>5 DEF ToRead
    <3>. QED  BY <3>1, <3>2, <3>3, <3>6 DEF Interrupts
  <2>17. CASE ChipWakes \/ \E e \in Events : ChipRaises(e)
    <3>1. intr' # {} /\ (irq' <=> irq \/ intr = {})
      BY <2>17 DEF ChipWakes, ChipRaises, Raises
    <3>2. UNCHANGED <<eSmState, bIntrPending, pc, failed, eState, uAwakeReqCount, holders, phase>>
      BY <2>17 DEF ChipWakes, ChipRaises, twifvars, fwvars, taskvars, drvvars, errvars
    <3>3. Out' = Out /\ Unread' = Unread /\ UNCHANGED <<reported, hTxnDoneQueue>>
      BY <2>0, <2>17 DEF LeavesQueues
    <3>4. ToRead' <=> ToRead
      BY <3>2, <3>3 DEF ToRead
    <3>5. (ReadLost => ReadLost') /\ (ReadRefused => ReadRefused')
      BY <3>2, <3>3 DEF ReadLost, ReadRefused, Boots
    <3>. QED  BY <3>1, <3>2, <3>3, <3>4, <3>5 DEF Interrupts
  <2>18. ~RestartDone /\ ~PendRestartTimeout /\ ~HandleRecovery
    BY RestartDoneEffect, PendRestartTimeoutEffect DEF HandleRecovery
  <2>19. ~InitHw
    BY DEF InitHw, Up
  <2>. QED  BY <2>1, <2>2, <2>3, <2>4, <2>5, <2>6, <2>7, <2>8, <2>9, <2>10, <2>11, <2>12, <2>13, <2>14, <2>15,
               <2>16, <2>17, <2>18, <2>19 DEF Next, Bus, TwIfTask, FwEvent, Boot
<1>. QED  BY <1>1, <1>2, <1>3, Life

-----------------------------------------------------------------------------
(* The invariant, and what follows from it.                                *)
LEMMA InitInv == Init => IndInv
<1>. SUFFICES ASSUME Init PROVE IndInv
  OBVIOUS
<1>. USE DEF Init
<1>1. MaxHolders \in Nat /\ MaxErrors \in Nat /\ 0 \in 0..MaxHolders /\ 0 \in 0..MaxErrors
  BY Bounds
<1>2. Types
  <2>1. SmTypes /\ ChipTypes
    BY DEF SmTypes, ChipTypes
  <2>2. CountTypes
    BY <1>1 DEF CountTypes
  <2>3. BusTypes
    <3>1. << >> \in Seq(BusEntry) /\ << >> \in Seq(DoneEntry)
      OBVIOUS
    <3>. QED  BY <3>1 DEF BusTypes
  <2>4. FwTypes /\ DrvTypes
    BY DEF FwTypes, DrvTypes
  <2>. QED  BY <2>1, <2>2, <2>3, <2>4 DEF Types
<1>3. Handlers
  BY EventSets DEF Handlers
<1>4. Needed
  BY DEF Needed, Boots, FwBusy, One
<1>5. BusFresh = {} /\ Out = {} /\ Unread = {}
  BY EmptySeq DEF BusFresh, Out, Unread
<1>6. ~Up
  BY DEF Up
<1>7. Places /\ QueueFresh
  BY <1>5, EmptySeq DEF Places, QueueFresh
<1>8. Counted /\ Handling
  BY <1>5, FS_EmptySet DEF Counted, Handling
<1>9. Down /\ Reading
  BY <1>5 DEF Down, Reading
<1>10. Interrupts /\ Sleeping /\ Waken
  BY <1>6 DEF Interrupts, Sleeping, Waken
<1>11. Calls
  BY DEF Calls, Called
<1>. QED  BY <1>2, <1>3, <1>4, <1>7, <1>8, <1>9, <1>10, <1>11 DEF IndInv, Good

LEMMA StepInv == IndInv /\ [Next]_vars => IndInv'
<1>. SUFFICES ASSUME IndInv, [Next]_vars PROVE IndInv'
  OBVIOUS
<1>1. Types' /\ Handlers' /\ Needed'
  BY TypesStep, HandlersStep, NeededStep DEF IndInv
<1>2. ASSUME ~late' PROVE Good'
  <2>1. Fine
    BY <1>2, LateStays DEF IndInv, Fine
  <2>2. Places' /\ QueueFresh' /\ Counted'
    BY <1>2, <2>1, PlacesStep, QueueFreshStep, CountedStep
  <2>3. Handling' /\ Down' /\ Reading'
    BY <1>2, <2>1, HandlingStep, DownStep, ReadingStep
  <2>4. Interrupts' /\ Calls' /\ Sleeping' /\ Waken'
    BY <1>2, <2>1, InterruptsStep, CallsStep, SmStep DEF Fine, Good
  <2>. QED  BY <2>2, <2>3, <2>4 DEF Good
<1>. QED  BY <1>1, <1>2 DEF IndInv

(* The bounds of the counters.                                             *)
LEMMA CountsBounded ==
    ASSUME IndInv
    PROVE  /\ failed \/ uAwakeReqCount <= MaxHolders + 2
           /\ late \/ (uPendingTxnCount = Cardinality(Out) /\ uPendingTxnCount <= Cardinality(Txn))
           /\ uNumPendHndlrs \in 0..Cardinality(Events)
<1>. USE DEF IndInv
<1>1. ASSUME ~failed PROVE uAwakeReqCount <= MaxHolders + 2
  <2>1. uAwakeReqCount = holders + Boots + One(FwBusy)
    BY <1>1 DEF Needed
  <2>2. holders \in 0..MaxHolders /\ Boots \in {0, 1} /\ One(FwBusy) \in {0, 1}
    BY DEF Types, CountTypes, Boots, One
  <2>. QED  BY <2>1, <2>2, Bounds
<1>2. ASSUME ~late PROVE uPendingTxnCount = Cardinality(Out) /\ uPendingTxnCount <= Cardinality(Txn)
  <2>1. uPendingTxnCount = Cardinality(Out)
    BY <1>2 DEF Good, Counted
  <2>2. Cardinality(Out) <= Cardinality(Txn)
    BY OutTyped, TxnFinite, FS_Subset
  <2>. QED  BY <2>1, <2>2
<1>3. uNumPendHndlrs \in 0..Cardinality(Events)
  BY EventSets DEF Handlers
<1>. QED  BY <1>1, <1>2, <1>3

LEMMA TypeInv == IndInv => TypeOK
<1>. SUFFICES ASSUME IndInv PROVE TypeOK
  OBVIOUS
<1>1. /\ eState \in {"AWAKE", "SLEEP", "WAIT_HW"} /\ txnQState \in {"RUNNING", "STOPPED", "RESTART"}
      /\ pSingleStep \in {"AWAKE", "SLEEP", None} /\ elp \in {"AWAKE", "SLEEP"}
  BY DEF IndInv, Types, SmTypes
<1>2. uAwakeReqCount \in Nat /\ uPendingTxnCount \in Nat /\ holders \in 0..MaxHolders /\ errors \in 0..MaxErrors
  BY DEF IndInv, Types, CountTypes
<1>3. /\ queue \in Seq(BusEntry) /\ onBus \in BusEntry \cup {None} /\ busDone \in BOOLEAN
      /\ reported \in Seq(DoneEntry) /\ hTxnDoneQueue \in Seq(DoneEntry)
  BY DEF IndInv, Types, BusTypes
<1>4. /\ eSmState \in {"IDLE", "WAIT_INTR_INFO", "WAIT_HANDLE_COMPLT"}
      /\ pc \in {"idle", "done", "check", "fw", "fwRead", "handlers"} /\ ret \in {"idle", "check"}
      /\ uEventVector \subseteq Events /\ uEventMask \subseteq Events /\ todo \subseteq Events
  BY DEF IndInv, Types, FwTypes, Handlers
<1>5. intr \subseteq Events \cup {"hw"} /\ phase \in {"off", "boot", "config", "run", "stopping"}
  BY DEF IndInv, Types, ChipTypes, DrvTypes
<1>6. {bTxnDoneInRecovery, twifPending, guardTicking, guardQueued, waking, irq, bIntrPending, failed, late, elpLost}
         \subseteq BOOLEAN
  BY DEF IndInv, Types, ChipTypes, FwTypes, DrvTypes
<1>. QED  BY <1>1, <1>2, <1>3, <1>4, <1>5, <1>6, CountsBounded DEF TypeOK

LEMMA InvHolds == IndInv => Inv
<1>. SUFFICES ASSUME IndInv PROVE Inv
  OBVIOUS
<1>1. PendingCountExact
  BY CountsBounded, OutstandingIsOut DEF PendingCountExact
<1>2. AwakeCountExact
  BY DEF IndInv, Needed, Boots, AwakeCountExact
<1>3. WakeUpUnderWay
  <2>. SUFFICES ASSUME Up, ~late PROVE /\ (txnQState = "STOPPED") = (eState # "AWAKE")
                                       /\ queue # << >> /\ txnQState = "STOPPED" => eState = "WAIT_HW"
                                       /\ eState = "WAIT_HW" => pSingleStep = "AWAKE" \/ waking \/ irq \/ pc = "fw" \/ elpLost
    BY DEF WakeUpUnderWay
  <2>1. Good /\ Types
    BY DEF IndInv
  <2>2. ASSUME queue # << >>, txnQState = "STOPPED", eState = "SLEEP" PROVE FALSE
    <3>1. Out = {}
      <4>1. uPendingTxnCount = 0 /\ uPendingTxnCount = Cardinality(Out)
        BY <2>1, <2>2 DEF Good, Sleeping, Counted
      <4>. QED  BY <2>1, <4>1, OutCounted
    <3>2. Head(queue).fresh /\ queue \in Seq(BusEntry)
      BY <2>1, <2>2, TailSeq DEF Good, QueueFresh, Types, BusTypes
    <3>3. FreshIn(queue) # {}
      BY <2>2, <3>2, TailSeq DEF Shown
    <3>. QED  BY <3>1, <3>3 DEF Out, Unread
  <2>3. (txnQState = "STOPPED") = (eState # "AWAKE")
    BY <2>1 DEF Good, Sleeping
  <2>4. eState = "WAIT_HW" => pSingleStep = "AWAKE" \/ waking \/ irq \/ pc = "fw" \/ elpLost
    BY <2>1 DEF Good, Sleeping
  <2>5. eState \in {"AWAKE", "SLEEP", "WAIT_HW"}
    BY <2>1 DEF Types, SmTypes
  <2>. QED  BY <2>2, <2>3, <2>4, <2>5
<1>. QED  BY <1>1, <1>2, <1>3, TypeInv DEF Inv

(* A chip that carries out a transaction of this life is awake: TwIf is    *)
(* awake then, and no write to ELP waits.                                  *)
LEMMA BusAwake == IndInv => BusNeedsAwake
<1>. SUFFICES ASSUME IndInv, onBus # None, onBus.fresh, ~busDone, ~elpLost, ~late
              PROVE  elp = "AWAKE" /\ ~waking
  BY DEF BusNeedsAwake, Excused
<1>1. Good /\ BusFresh # {}
  BY DEF IndInv, BusFresh
<1>2. Up
  BY <1>1 DEF Good, Down, Out, Unread
<1>3. eState = "AWAKE" /\ pSingleStep = None
  BY <1>1, <1>2 DEF Good, Sleeping, Waken
<1>. QED  BY <1>1, <1>2, <1>3 DEF Good, Waken

(* The interrupt status is cleared by its read alone, and by the power.    *)
LeavesIntr == (\E t \in Requests, cb \in BOOLEAN : ClientSends(t, cb)) \/ ClientAwake \/ ClientSleep
    \/ SendElp \/ RestartDone \/ BusFree \/ TxnDoneCb \/ HandleRecovery \/ HandleTxnDone \/ Dequeue
    \/ CheckSleep \/ NewEvent \/ FwIdle \/ FwHandleEvents \/ (\E e \in Events : FwHandler(e))
    \/ FwHandled \/ FwReadAgain \/ FwFinished \/ Restart \/ GuardExpires \/ PendRestartTimeout
    \/ EnableInterrupts \/ EnableExternalEvents \/ UNCHANGED vars
LEMMA IntrLeft == ASSUME LeavesIntr PROVE UNCHANGED <<intr>>
BY DEF LeavesIntr, ClientSends, ClientAwake, chipvars, ClientSleep, SendElp, RestartDone, BusFree,
   TxnDoneCb, HandleRecovery, HandleTxnDone, Dequeue, CheckSleep, NewEvent, FwIdle, FwHandleEvents,
   FwHandler, FwHandled, FwReadAgain, FwFinished, Restart, GuardExpires, PendRestartTimeout,
   EnableInterrupts, EnableExternalEvents, vars

LEMMA OverwriteStep ==
    IndInv /\ [Next]_vars => (Up /\ intr \ intr' # {} /\ ~late' => uEventVector = {})
<1>. SUFFICES ASSUME IndInv, [Next]_vars, Up, intr \ intr' # {}, ~late' PROVE uEventVector = {}
  OBVIOUS
<1>1. Fine
  BY LateStays DEF IndInv, Fine
<1>2. "status" \in Unread \/ pc = "fwRead" => uEventVector = {}
  BY <1>1 DEF Fine, Good, Reading
<1>3. ~LeavesIntr
  BY IntrLeft
<1>4. ~ChipWakes /\ ~(\E e \in Events : ChipRaises(e)) /\ ~InitHw
  BY DEF ChipWakes, ChipRaises, Raises, InitHw, Up
<1>5. CASE SendNext
  BY <1>1, <1>2, <1>5, SendNextEffect, EntryTyped DEF Fine, Good, Transferred
<1>6. CASE BusDone
  BY <1>1, <1>2, <1>6, BusDoneEffect, EntryTyped DEF Fine, Good, Transferred, Unread
<1>7. CASE FwRead
  BY <1>2, <1>7 DEF FwRead
<1>. QED  BY <1>3, <1>4, <1>5, <1>6, <1>7 DEF Next, Bus, TwIfTask, FwEvent, Boot, LeavesIntr

(* What is pending and who needs the chip awake is counted exactly, the    *)
(* queue runs when the chip is taken to be awake, and a wake-up that       *)
(* something waits for is under way.                                       *)
THEOREM CountsAndStates == Spec => []Inv
BY InitInv, StepInv, InvHolds, PTL DEF Spec

(* No transaction is on the bus of a chip that sleeps or is still waking   *)
(* up.                                                                     *)
THEOREM NoTransferAsleep == Spec => []BusNeedsAwake
BY InitInv, StepInv, BusAwake, PTL DEF Spec

(* The interrupt status is not read while events of the last read are      *)
(* still to be handled.                                                    *)
THEOREM EventsKept == Spec => NoEventOverwritten
BY InitInv, StepInv, OverwriteStep, PTL DEF Spec, NoEventOverwritten
=============================================================================
