------------------------------- MODULE RxQueue -------------------------------
(***************************************************************************)
(* TWD/Data_Service/RxQueue.c: received packets of the TIDs with a block-  *)
(* ack session are put back into the order of their sequence numbers.      *)
(* Each TID has an array of packets around its expected sequence number;   *)
(* all TIDs share the count of stored packets and one timer, which gives   *)
(* a missing packet up.                                                    *)
(*                                                                         *)
(* Everything runs in the driver's task; the timer expires outside of it.  *)
(* A packet stands for its number in the peer's endless sequence, of which *)
(* the header carries the remainder.  The environment is the peer with the *)
(* firmware in front: each packet of the peer's window arrives once or     *)
(* never, in any order.                                                    *)
(***************************************************************************)
EXTENDS Integers, FiniteSets

CONSTANTS
    TID,
    None,
    ArraySize,   \* RX_QUEUE_ARRAY_SIZE = RX_QUEUE_WIN_SIZE
    SnMod,       \* SEQ_NUM_WRAP
    WinSizes,    \* the window sizes the peer asks for
    FirstNumber, \* of each TID
    LastNumber,  \* where the peer's window stops: bounds the model
    UntidyBars   \* whether a BAR may name a packet that is stored (see TidyBar)

ASSUME RxQueueAssumption ==
    /\ ArraySize \in Nat \ {0} /\ SnMod \in Nat /\ SnMod % 2 = 0
    /\ WinSizes \subseteq Nat \ {0}
    /\ SnMod \div 2 - 2 >= ArraySize
    /\ SnMod + ArraySize <= 65536      \* the width of the difference of a BAR
    /\ IsFiniteSet(TID) /\ TID # {} /\ None \notin Int
    /\ FirstNumber \in [TID -> Nat] /\ LastNumber \in [TID -> Nat]
    /\ UntidyBars \in BOOLEAN

VARIABLES
    aPaketsQueue, aTidBaEstablished, aWinStartArrayInex, aTidWinSize, aTidExpectedSn,
    bPacketMiss, aPacketsStored, aFrameTid,
    ticking, expired,       \* the timer runs; its expiry waits for the driver's task
    hung,                   \* the driver's task is in a loop that does not end
    winStart, got,          \* the peer's window and what of it has been received
    last,                   \* the number passed last from each session's array
    discarded               \* a packet was given back as failed

tidvars   == <<aPaketsQueue, aTidBaEstablished, aWinStartArrayInex, aTidWinSize, aTidExpectedSn>>
timervars == <<bPacketMiss, aFrameTid, ticking, expired>>
peervars  == <<winStart, got>>
vars == <<tidvars, timervars, aPacketsStored, hung, peervars, last, discarded>>

Index    == 0..(ArraySize - 1)
Disorder == -2              \* value of last after a packet was passed out of order

Init ==
    /\ aPaketsQueue = [t \in TID |-> [i \in Index |-> None]]
    /\ aTidBaEstablished = [t \in TID |-> FALSE]
    /\ aWinStartArrayInex = [t \in TID |-> 0]
    /\ aTidWinSize = [t \in TID |-> 0] /\ aTidExpectedSn = [t \in TID |-> 0]
    /\ bPacketMiss = FALSE /\ aPacketsStored = 0 /\ aFrameTid = CHOOSE t \in TID : TRUE
    /\ ticking = FALSE /\ expired = FALSE /\ hung = FALSE
    /\ winStart = FirstNumber /\ got = [t \in TID |-> {}]
    /\ last = [t \in TID |-> -1] /\ discarded = FALSE

-----------------------------------------------------------------------------
(* Sequence numbers.  The second argument of Bigger is the winEnd of the   *)
(* code, which may exceed the space.                                       *)
Sn(n) == n % SnMod

BiggerPlain(a, b) == a > b                                    \* mutant
Bigger(a, b) == (a - b) % SnMod < SnMod \div 2 - 1 /\ a # b

SnPlusUnmasked(t, k) == aTidExpectedSn[t] + k                 \* mutant
SnPlus(t, k) == (aTidExpectedSn[t] + k) % SnMod

WinEndLow(t) == aTidExpectedSn[t] + aTidWinSize[t] - 2        \* mutant
WinEnd(t) == aTidExpectedSn[t] + aTidWinSize[t] - 1

(* The array from the start of the window: its slots; the packets found in *)
(* k of them, as a function on their offsets; the length of a run of       *)
(* stored packets.                                                         *)
Slot(t, i) == (aWinStartArrayInex[t] + i) % ArraySize
At(t, i)   == aPaketsQueue[t][Slot(t, i)]
Stored(t, i, k) == [j \in {x \in i..(i + k - 1) : At(t, x) # None} |-> At(t, j)]
Number(f)       == Cardinality(DOMAIN f)

Run(t, i) == CHOOSE k \in 0..(ArraySize - i) :
                /\ \A j \in 0..(k - 1) : At(t, i + j) # None
                /\ k < ArraySize - i => At(t, i + k) = None

Without(t, k) == LET gone == {Slot(t, i) : i \in 0..(k - 1)}
                 IN [i \in Index |-> IF i \in gone THEN None ELSE aPaketsQueue[t][i]]

(* RxQueue_PassPacket with status OK, for packets from the array or next   *)
(* in turn, by their offsets.                                              *)
Ascending(f)  == \A i, j \in DOMAIN f : i < j => f[i] < f[j]
LastOf(f)     == f[CHOOSE i \in DOMAIN f : \A j \in DOMAIN f : j <= i]
Passed(l, f)  == IF DOMAIN f = {} THEN l
                 ELSE IF l # Disorder /\ (\A i \in DOMAIN f : l < f[i]) /\ Ascending(f) THEN LastOf(f) ELSE Disorder
With(f, i, n) == [j \in DOMAIN f \cup {i} |-> IF j = i THEN n ELSE f[j]]

PassPackets(t, f) == last' = [last EXCEPT ![t] = Passed(@, f)]

(* The window moves by k packets.                                          *)
MoveWindow(t, k) ==
    /\ aPaketsQueue' = [aPaketsQueue EXCEPT ![t] = Without(t, k)]
    /\ aWinStartArrayInex' = [aWinStartArrayInex EXCEPT ![t] = Slot(t, k)]
    /\ aTidExpectedSn' = [aTidExpectedSn EXCEPT ![t] = SnPlus(t, k)]
    /\ UNCHANGED <<aTidBaEstablished, aTidWinSize>>

(* The timer: started by a packet stored, stopped and started again by any *)
(* that moves the window.                                                  *)
StartTimer(t) == ticking' = TRUE /\ bPacketMiss' = TRUE /\ aFrameTid' = t /\ UNCHANGED expired

StopTimer ==
    /\ ticking' = IF bPacketMiss THEN FALSE ELSE ticking
    /\ bPacketMiss' = FALSE
    /\ UNCHANGED <<aFrameTid, expired>>

StopTimerOnly(t) == StopTimer                                 \* mutant
RestartTimer(t) == IF aPacketsStored' > 0 THEN StartTimer(t) ELSE StopTimer

-----------------------------------------------------------------------------
(* RxQueue_ReceivePacket for a data packet, in its parts.  Part 1: the     *)
(* expected one.                                                           *)
ReceiveExpected(t, n) ==
    /\ Sn(n) = aTidExpectedSn[t]
    /\ LET k == Run(t, 1)
       IN /\ MoveWindow(t, 1 + k)
          /\ PassPackets(t, With(Stored(t, 1, k), 0, n))
          /\ aPacketsStored' = aPacketsStored - k
    /\ RestartTimer(t)
    /\ UNCHANGED discarded

(* One that was given up: passed at once.                                  *)
ReceiveLate(t, n) ==
    /\ Sn(n) # aTidExpectedSn[t] /\ ~Bigger(Sn(n), aTidExpectedSn[t])
    /\ last' = [last EXCEPT ![t] = IF n > @ THEN n ELSE @]
    /\ UNCHANGED <<tidvars, timervars, aPacketsStored, discarded>>

(* Part 2: within the window.                                              *)
SaveOffsetFromStart(t, n) == Sn(n) % ArraySize                \* mutant
SaveOffset(t, n) == (Sn(n) - aTidExpectedSn[t]) % SnMod

ReceiveInWindow(t, n) ==
    /\ Bigger(Sn(n), aTidExpectedSn[t]) /\ ~Bigger(Sn(n), WinEnd(t))
    /\ IF At(t, SaveOffset(t, n)) # None
       THEN discarded' = TRUE /\ UNCHANGED <<aPaketsQueue, aPacketsStored, timervars>>
       ELSE /\ aPaketsQueue' = [aPaketsQueue EXCEPT ![t][Slot(t, SaveOffset(t, n))] = n]
            /\ aPacketsStored' = aPacketsStored + 1
            /\ IF bPacketMiss THEN UNCHANGED timervars ELSE StartTimer(t)
            /\ UNCHANGED discarded
    /\ UNCHANGED <<aTidBaEstablished, aWinStartArrayInex, aTidWinSize, aTidExpectedSn, last>>

(* Part 3: beyond the window, which moves until the packet is its last.    *)
(* The expected packet is skipped first; shift is the number of rounds of  *)
(* the for loop, run that of the while loop after it.                      *)
NewWinStartSn(t, n) == (Sn(n) - aTidWinSize[t] + 1) % SnMod

Least(a, b) == IF a < b THEN a ELSE b

Shift(t, n) == IF Bigger(NewWinStartSn(t, n), SnPlus(t, 1))
               THEN Least((NewWinStartSn(t, n) - SnPlus(t, 1)) % SnMod, Least(ArraySize, aTidWinSize[t]))
               ELSE 0

ReceiveBeyond(t, n) ==
    /\ Bigger(Sn(n), aTidExpectedSn[t]) /\ Bigger(Sn(n), WinEnd(t))
    /\ LET shift  == Shift(t, n)
           all    == shift = aTidWinSize[t]
           k      == 1 + shift + (IF all THEN 0 ELSE Run(t, (1 + shift) % ArraySize))
           passed == Stored(t, 1, k - 1)
           esn    == IF all THEN NewWinStartSn(t, n) ELSE SnPlus(t, k)
           save   == (Slot(t, k) + ((Sn(n) - esn) % SnMod)) % ArraySize
           next   == esn = Sn(n)
       IN /\ aWinStartArrayInex' = [aWinStartArrayInex EXCEPT ![t] = Slot(t, k)]
          /\ aTidExpectedSn' = [aTidExpectedSn EXCEPT ![t] = IF next THEN (esn + 1) % SnMod ELSE esn]
          /\ aPaketsQueue' = [aPaketsQueue EXCEPT ![t] =
                                 IF next THEN Without(t, k) ELSE [Without(t, k) EXCEPT ![save] = n]]
          /\ PassPackets(t, IF next THEN With(passed, k, n) ELSE passed)
          /\ aPacketsStored' = (aPacketsStored - Number(passed)) + (IF next THEN 0 ELSE 1)
    /\ RestartTimer(t)
    /\ UNCHANGED <<aTidBaEstablished, aTidWinSize, discarded>>

(* The packets the peer may send; what comes twice the firmware drops.     *)
Window(t) == winStart[t]..(winStart[t] + aTidWinSize[t] - 1)

ReceiveData(t, n) ==
    /\ aTidBaEstablished[t] /\ n \in Window(t) \ got[t]
    /\ \/ ReceiveExpected(t, n) \/ ReceiveLate(t, n)
       \/ ReceiveInWindow(t, n) \/ ReceiveBeyond(t, n)
    /\ got' = [got EXCEPT ![t] = @ \cup {n}]
    /\ UNCHANGED <<winStart, hung>>

(* A BAR: the peer will not send what comes before its window.  The delta  *)
(* is a 16-bit difference, not one of sequence numbers; the loop stops at  *)
(* the first empty slot from there on, but the expected number does not    *)
(* count the packets passed beyond the delta.                              *)
Delta(t) == (Sn(winStart[t]) - aTidExpectedSn[t]) % 65536

BarRounds(t) ==
    LET d == Least(Delta(t), ArraySize)
    IN d + Run(t, d)

(* A BAR that moves neither across the end of the number space nor onto a  *)
(* packet that is stored: for all others the array and the expected number *)
(* part (WinStartSlot).                                                    *)
TidyBar(t) == \A i \in 0..(BarRounds(t) - 1) : At(t, i) # None => At(t, i) < winStart[t]

BarMovesTo(t) == Sn(winStart[t])

ReceiveBar(t) ==
    /\ aTidBaEstablished[t] /\ (UntidyBars \/ TidyBar(t))
    /\ Bigger(Sn(winStart[t]), aTidExpectedSn[t])
    /\ LET k == BarRounds(t)
       IN /\ aPaketsQueue' = [aPaketsQueue EXCEPT ![t] = Without(t, k)]
          /\ aWinStartArrayInex' = [aWinStartArrayInex EXCEPT ![t] = Slot(t, k)]
          /\ PassPackets(t, Stored(t, 0, k))
          /\ aPacketsStored' = aPacketsStored - Number(Stored(t, 0, k))
    /\ aTidExpectedSn' = [aTidExpectedSn EXCEPT ![t] = BarMovesTo(t)]
    /\ RestartTimer(t)
    /\ UNCHANGED <<aTidBaEstablished, aTidWinSize, hung, peervars, discarded>>

(* ADDBA, ignored while the session is established: the array is zeroed,   *)
(* the window at most the array.                                           *)
ReceiveAddBa(t) ==
    /\ ~aTidBaEstablished[t]
    /\ aTidBaEstablished' = [aTidBaEstablished EXCEPT ![t] = TRUE]
    /\ \E w \in WinSizes : aTidWinSize' = [aTidWinSize EXCEPT ![t] = Least(w, ArraySize)]
    /\ aTidExpectedSn' = [aTidExpectedSn EXCEPT ![t] = Sn(winStart[t])]
    /\ aWinStartArrayInex' = [aWinStartArrayInex EXCEPT ![t] = 0]
    /\ aPaketsQueue' = [aPaketsQueue EXCEPT ![t] = [i \in Index |-> None]]
    /\ last' = [last EXCEPT ![t] = winStart[t] - 1]
    /\ got' = [got EXCEPT ![t] = {}]
    /\ UNCHANGED <<timervars, aPacketsStored, hung, winStart, discarded>>

(* RxQueue_CloseBaSession, for a DELBA, and for all TIDs when the          *)
(* connection or the driver ends (TWD_CloseAllBaSessions): the stored      *)
(* packets are passed, the timer is stopped whomever it serves.            *)
Held(T)        == {p \in T \X Index : aPaketsQueue[p[1]][p[2]] # None}
StoredCount(T) == Cardinality(Held(T))

LeftAfterCloseAll(T) == aPacketsStored                        \* mutant
LeftAfterClose(T) == aPacketsStored - StoredCount(T)

CloseBaSessions(T) ==
    /\ \E t \in T : aTidBaEstablished[t]
    /\ aTidBaEstablished' = [t \in TID |-> aTidBaEstablished[t] /\ t \notin T]
    /\ LET Closed == {t \in T : aTidBaEstablished[t]}
       IN /\ aPaketsQueue' = [t \in TID |-> IF t \in Closed THEN Without(t, ArraySize) ELSE aPaketsQueue[t]]
          /\ last' = [t \in TID |-> IF t \in Closed THEN Passed(last[t], Stored(t, 0, ArraySize)) ELSE last[t]]
          /\ aPacketsStored' = LeftAfterClose(Closed)
    /\ StopTimer
    /\ UNCHANGED <<aWinStartArrayInex, aTidWinSize, aTidExpectedSn, hung, peervars, discarded>>

ReceiveDelBa(t) == CloseBaSessions({t})
CloseAllBaSessions == CloseBaSessions(TID)

-----------------------------------------------------------------------------
TimerExpires ==
    /\ ticking
    /\ ticking' = FALSE /\ expired' = TRUE
    /\ UNCHANGED <<tidvars, bPacketMiss, aFrameTid, aPacketsStored, hung, peervars, last, discarded>>

(* RxQueue_PacketTimeOut for the TID that started the timer: the window    *)
(* moves to the first stored packet and past those that follow.  If the    *)
(* TID has none the search does not end.                                   *)
FirstStored(t) == CHOOSE i \in Index : At(t, i) # None /\ \A j \in 0..(i - 1) : At(t, j) = None

PacketTimeOut ==
    /\ expired /\ expired' = FALSE
    /\ LET t == aFrameTid
       IN IF aPacketsStored = 0
          THEN bPacketMiss' = FALSE /\ UNCHANGED <<tidvars, last, aPacketsStored, aFrameTid, ticking, hung>>
          ELSE IF StoredCount({t}) = 0
          THEN hung' = TRUE /\ bPacketMiss' = FALSE /\ UNCHANGED <<tidvars, last, aPacketsStored, aFrameTid, ticking>>
          ELSE LET i == FirstStored(t)
                   k == Least(Run(t, i), aPacketsStored)
               IN /\ MoveWindow(t, i + k)
                  /\ PassPackets(t, Stored(t, i, k))
                  /\ aPacketsStored' = aPacketsStored - k
                  /\ bPacketMiss' = (aPacketsStored' > 0)
                  /\ ticking' = (ticking \/ aPacketsStored' > 0)
                  /\ UNCHANGED <<aFrameTid, hung>>
    /\ UNCHANGED <<peervars, discarded>>

(* The number a session expects: the sequence number is unambiguous since  *)
(* the peer's window is never half of the number space away.               *)
MaxAhead == SnMod \div 2 - 2
Expected(t) == LET end == winStart[t] + aTidWinSize[t]
               IN CHOOSE n \in (end - MaxAhead)..end : Sn(n) = aTidExpectedSn[t]

(* The first packet of the peer's window has been acknowledged, or the     *)
(* peer gives it up.                                                       *)
PeerAdvances(t) ==
    /\ winStart[t] < LastNumber[t]
    /\ aTidBaEstablished[t] => winStart[t] + aTidWinSize[t] - Expected(t) < MaxAhead
    /\ winStart' = [winStart EXCEPT ![t] = @ + 1]
    /\ got' = [got EXCEPT ![t] = @ \ {winStart[t]}]
    /\ UNCHANGED <<tidvars, timervars, aPacketsStored, hung, last, discarded>>

Receive(t) ==
    \/ \E n \in winStart[t]..(winStart[t] + ArraySize - 1) : ReceiveData(t, n)
    \/ ReceiveBar(t) \/ ReceiveAddBa(t) \/ ReceiveDelBa(t)

Next ==
    \/ TimerExpires
    \/ /\ ~hung
       /\ \/ \E t \in TID : Receive(t) \/ PeerAdvances(t)
          \/ CloseAllBaSessions
          \/ PacketTimeOut

Spec == Init /\ [][Next]_vars

(* The operating system's timer expires and the driver's task handles it.  *)
FairSpec == Spec /\ WF_vars(TimerExpires) /\ WF_vars(~hung /\ PacketTimeOut)

-----------------------------------------------------------------------------
TypeOK ==
    /\ aPaketsQueue \in [TID -> [Index -> Nat \cup {None}]]
    /\ aTidBaEstablished \in [TID -> BOOLEAN]
    /\ aWinStartArrayInex \in [TID -> Index]
    /\ aTidWinSize \in [TID -> 0..ArraySize]
    /\ aTidExpectedSn \in [TID -> 0..(SnMod - 1)]
    /\ bPacketMiss \in BOOLEAN /\ aPacketsStored \in Nat /\ aFrameTid \in TID
    /\ ticking \in BOOLEAN /\ expired \in BOOLEAN /\ hung \in BOOLEAN
    /\ winStart \in [TID -> Nat] /\ got \in [TID -> SUBSET Nat]
    /\ last \in [TID -> Int] /\ discarded \in BOOLEAN

(* "The winStart array index represent always the winStart packet and the  *)
(* lowest SN": a stored packet is as far from it in the array as its       *)
(* number is from the expected one, and within the window; and no packet   *)
(* is expected that has been passed.                                       *)
WinStartSlot ==
    \A t \in TID :
        /\ aTidBaEstablished[t] => last[t] < Expected(t)
        /\ \A i \in Index :
              At(t, i) # None => /\ aTidBaEstablished[t]
                                 /\ i \in 1..(aTidWinSize[t] - 1)
                                 /\ At(t, i) = Expected(t) + i

(* The one count of all TIDs is the number of stored packets: if it were   *)
(* too low, packets would be left without a timer, if it were too high,    *)
(* the time-out would look for packets that are not there.                 *)
StoredExact == aPacketsStored = StoredCount(TID)

(* What holds of array, windows and shared count in every state.           *)
Inv == TypeOK /\ WinStartSlot /\ StoredExact

(* What a session passes from its array or in turn is in the order of the  *)
(* peer's numbers, across the wrap of the sequence numbers, time-outs,     *)
(* BARs and jumps of the window.  Only a packet that was given up comes    *)
(* late, and none is given back as failed because its slot is taken.       *)
PassedInOrder == ~discarded /\ \A t \in TID : last[t] # Disorder

(* A packet that is still missing is given up by an arriving packet only   *)
(* if that lies beyond the window; or, and this is where the code parts    *)
(* from its comments, is the last of a window across the end of the        *)
(* number space, which Bigger takes for one beyond.                        *)
GivenUpOnlyWhenDue ==
    [][\A t \in TID : \A n \in got'[t] \ got[t] :
          Expected(t)' > Expected(t) /\ n # Expected(t)
             => \/ n >= Expected(t) + aTidWinSize[t]
                \/ n = Expected(t) + aTidWinSize[t] - 1 /\ WinEnd(t) >= SnMod]_vars

(* While only one TID has sessions, no packet stays in the array for ever. *)
Alone(t) == [](\A u \in TID \ {t} : ~aTidBaEstablished[u])
EveryStoredPassed ==
    \A t \in TID : Alone(t) =>
        \A i \in Index : (aPaketsQueue[t][i] # None) ~> (aPaketsQueue[t][i] = None)

(* RxQueue_PacketTimeOut "sends all consecutive old packets stored in a    *)
(* specific TID queue to the upper layer": it looks for the first of them  *)
(* until it finds one, so the TID must have one.  A packet that is passed  *)
(* in turn makes its TID the timer's if any TID has packets stored.        *)
TimeOutEnds == ~hung
=============================================================================
