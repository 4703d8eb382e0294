------------------------------ MODULE TxCtrlBlk ------------------------------
(***************************************************************************)
(* TWD/Data_Service/txCtrlBlk.c: the table of Tx control blocks.  The free *)
(* ones form a list through pNextFreeEntry that starts at entry 0; an      *)
(* entry whose pNextFreeEntry is 0 counts as allocated.  Blocks are        *)
(* allocated by the driver's task and, at any time, by the network stack   *)
(* (the external context); only the list itself is protected by the        *)
(* critical section.  After a recovery txCtrl_NotifyFwReset walks over the *)
(* table and frees the blocks that were with the firmware.                 *)
(*                                                                         *)
(* Built with TI_DBG, which common.inc defines for every build.  The count *)
(* of used entries that comes with it is only printed and is left out.     *)
(*                                                                         *)
(* The names of the specification start with Table, so that the module     *)
(* that proves this table and its users together can extend both.          *)
(***************************************************************************)
EXTENDS Naturals

CONSTANTS
    NumEntries,        \* CTRL_BLK_ENTRIES_NUM
    TxDuringReset      \* does the network stack send while recovery ends?

ASSUME TableAssumption ==
    /\ NumEntries \in Nat /\ NumEntries >= 3
    /\ TxDuringReset \in BOOLEAN

VARIABLES
    pNextFreeEntry,
    sentToFw,          \* TX_CTRL_FLAG_SENT_TO_FW of uFlags
    use,               \* who has the entry: nobody, the driver's queues, the firmware
    pc,                \* how far each context is in txCtrlBlk_Alloc
    blk,               \* its pCurrentEntry
    resetEntry         \* the loop variable of txCtrl_NotifyFwReset, NULL outside

tableVars == <<pNextFreeEntry, sentToFw, use, pc, blk, resetEntry>>

Entries == 0..NumEntries-1
NULL    == NumEntries
Context == {"driver", "external"}

DriverIdle == resetEntry = NULL /\ pc["driver"] = "idle"

(* A context may start an operation of its own.                            *)
Ready(c) ==
    /\ pc[c] = "idle"
    /\ resetEntry # NULL => c = "external" /\ TxDuringReset

(* Entry 0 only heads the list; it is never allocated.                     *)
TableInit ==
    /\ pNextFreeEntry = [e \in Entries |-> e + 1]
    /\ sentToFw = [e \in Entries |-> FALSE]
    /\ use = [e \in Entries |-> "free"]
    /\ pc = [c \in Context |-> "idle"]
    /\ blk = [c \in Context |-> NULL]
    /\ resetEntry = NULL

-----------------------------------------------------------------------------
(* txCtrlBlk_Alloc: the entry is unlinked in the critical section, but     *)
(* marked as used, and its old flags cleared, only afterwards.  When the   *)
(* list is down to its tail the caller gets NULL and nothing changes.      *)
Take(c) ==
    /\ Ready(c)
    /\ LET e == pNextFreeEntry[0]
       IN  /\ pNextFreeEntry[e] # NULL
           /\ blk' = [blk EXCEPT ![c] = e]
           /\ pNextFreeEntry' = [pNextFreeEntry EXCEPT ![0] = pNextFreeEntry[e]]
           /\ use' = [use EXCEPT ![e] = "queued"]
    /\ pc' = [pc EXCEPT ![c] = "taken"]
    /\ UNCHANGED <<sentToFw, resetEntry>>

ClearNext(c) ==
    /\ pc[c] = "taken"
    /\ pNextFreeEntry' = [pNextFreeEntry EXCEPT ![blk[c]] = NULL]
    /\ pc' = [pc EXCEPT ![c] = "unlinked"]
    /\ UNCHANGED <<sentToFw, use, blk, resetEntry>>

ClearFlags(c) ==
    /\ pc[c] = "unlinked"
    /\ sentToFw' = [sentToFw EXCEPT ![blk[c]] = FALSE]
    /\ pc' = [pc EXCEPT ![c] = "idle"]
    /\ blk' = [blk EXCEPT ![c] = NULL]
    /\ UNCHANGED <<pNextFreeEntry, use, resetEntry>>

(* txCtrlBlk_Free; an entry that looks free already is left alone.  The    *)
(* mutant links the head first.                                            *)
FreeHeadFirst(e) ==
    IF pNextFreeEntry[e] # NULL THEN UNCHANGED <<pNextFreeEntry, use>>
    ELSE /\ pNextFreeEntry' = [pNextFreeEntry EXCEPT ![0] = e, ![e] = e]
         /\ use' = [use EXCEPT ![e] = "free"]

Free(e) ==
    IF pNextFreeEntry[e] # NULL THEN UNCHANGED <<pNextFreeEntry, use>>
    ELSE /\ pNextFreeEntry' = [pNextFreeEntry EXCEPT ![0] = e, ![e] = pNextFreeEntry[0]]
         /\ use' = [use EXCEPT ![e] = "free"]

-----------------------------------------------------------------------------
Queued(e) == use[e] = "queued" /\ \A c \in Context : blk[c] # e

(* The packet is handed to the firmware, txCtrl having marked its block.   *)
Send(e) ==
    /\ DriverIdle /\ Queued(e)
    /\ sentToFw' = [sentToFw EXCEPT ![e] = TRUE]
    /\ use' = [use EXCEPT ![e] = "fw"]
    /\ UNCHANGED <<pNextFreeEntry, pc, blk, resetEntry>>

(* txCtrl_TxCompleteCb, and txCtrl_FreePacket for a packet that a context  *)
(* drops because its queue is full or is being cleared.                    *)
Complete(e) ==
    /\ DriverIdle /\ use[e] = "fw"
    /\ Free(e)
    /\ UNCHANGED <<sentToFw, pc, blk, resetEntry>>

Drop(c, e) ==
    /\ Ready(c) /\ Queued(e)
    /\ Free(e)
    /\ UNCHANGED <<sentToFw, pc, blk, resetEntry>>

(* txCtrl_NotifyFwReset, one entry at a time.  The loop leaves out the     *)
(* last entry: it is the tail of the free list, whose pNextFreeEntry is 0. *)
LastAndTail == NumEntries - 1     \* mutant
NotTheTwoLast == NumEntries - 3   \* mutant
LastEntry == NumEntries - 2

NotifyFwResetStart ==
    /\ DriverIdle
    /\ ~TxDuringReset => pc["external"] = "idle"
    /\ resetEntry' = 0
    /\ UNCHANGED <<pNextFreeEntry, sentToFw, use, pc, blk>>

TestInUse(e) == pNextFreeEntry[e] = NULL     \* mutant
TestSentToFw(e) == pNextFreeEntry[e] = NULL /\ sentToFw[e]

NotifyFwResetEntry ==
    /\ resetEntry # NULL
    /\ IF TestSentToFw(resetEntry) THEN Free(resetEntry)
                                   ELSE UNCHANGED <<pNextFreeEntry, use>>
    /\ resetEntry' = IF resetEntry = LastEntry THEN NULL ELSE resetEntry + 1
    /\ UNCHANGED <<sentToFw, pc, blk>>

TableNext ==
    \/ \E c \in Context : Take(c) \/ ClearNext(c) \/ ClearFlags(c)
    \/ \E e \in Entries : Send(e) \/ Complete(e)
    \/ \E c \in Context, e \in Entries : Drop(c, e)
    \/ NotifyFwResetStart
    \/ NotifyFwResetEntry

TableSpec == TableInit /\ [][TableNext]_tableVars
-----------------------------------------------------------------------------
(* Types; the loop of txCtrl_NotifyFwReset stays off the last entry.       *)
TableTypeOK ==
    /\ pNextFreeEntry \in [Entries -> Entries \cup {NULL}]
    /\ sentToFw \in [Entries -> BOOLEAN]
    /\ use \in [Entries -> {"free", "queued", "fw"}]
    /\ pc \in [Context -> {"idle", "taken", "unlinked"}]
    /\ blk \in [Context -> Entries \cup {NULL}]
    /\ resetEntry \in 0..NumEntries-2 \cup {NULL}

(* The list from entry 0 ends and holds exactly the free blocks, however   *)
(* allocations and frees of the two contexts interleave: no block is lost  *)
(* and none is handed out twice.                                           *)
Nth[n \in 0..NumEntries] ==
    IF n = 0 THEN 0 ELSE IF Nth[n-1] = NULL THEN NULL ELSE pNextFreeEntry[Nth[n-1]]

FreeListExact ==
    /\ Nth[NumEntries] = NULL
    /\ {Nth[n] : n \in 1..NumEntries} \ {NULL} = {e \in Entries \ {0} : use[e] = "free"}

(* The free list and the types it rests on.                                *)
TableInv == TableTypeOK /\ FreeListExact

(* When txCtrl_NotifyFwReset returns, no block is left with the firmware:  *)
(* in particular the entry that its loop leaves out never was.  And "don't *)
(* free if the packet still in tx input queues": what the firmware never   *)
(* had stays where it is.                                                  *)
ResetFreesExactlySent ==
    [][/\ (resetEntry # NULL /\ resetEntry' = NULL => \A e \in Entries : use'[e] # "fw")
       /\ (NotifyFwResetEntry => \A e \in Entries : use[e] = "queued" => use'[e] = "queued")]_tableVars
=============================================================================
