------------------------------ MODULE CmdService ------------------------------
(***************************************************************************)
(* What CmdQueue promises: commands are answered in the order in which     *)
(* they were accepted, one at a time and each of them once.  A reset       *)
(* drops them; those with a callback are told at the end of the next       *)
(* configuration of the firmware, in the same order, unless another reset  *)
(* comes first.                                                            *)
(***************************************************************************)
EXTENDS Naturals, Sequences

CONSTANTS Cmd, ConfigCmd, MemoryMapCmd, Callback, None, Depth

VARIABLES queue, answering, saved

vars == <<queue, answering, saved>>

Init == queue = << >> /\ answering = None /\ saved = << >>

(* The commands with a callback, in their order.                           *)
WithCallback(q) ==
    LET kept[i \in 0..Len(q)] ==
            IF i = 0 THEN << >> ELSE IF q[i] \in Callback THEN Append(kept[i - 1], q[i]) ELSE kept[i - 1]
    IN kept[Len(q)]

Accept(c) ==
    /\ Len(queue) < Depth
    /\ queue' = Append(queue, c)
    /\ UNCHANGED <<answering, saved>>

Answer ==
    /\ answering = None /\ queue # << >>
    /\ answering' = Head(queue) /\ queue' = Tail(queue)
    /\ UNCHANGED saved

Answered ==
    /\ answering # None
    /\ answering = MemoryMapCmd => saved = << >>
    /\ answering' = None
    /\ UNCHANGED <<queue, saved>>

Reset ==
    /\ answering = None
    /\ saved' = WithCallback(queue)
    /\ queue' = << >>
    /\ UNCHANGED answering

TellReset ==
    /\ answering = MemoryMapCmd /\ saved # << >>
    /\ saved' = Tail(saved)
    /\ UNCHANGED <<queue, answering>>

Next ==
    \/ \E c \in Cmd \cup {ConfigCmd, MemoryMapCmd} : Accept(c)
    \/ Answer \/ Answered \/ Reset \/ TellReset

Spec == Init /\ [][Next]_vars
=============================================================================
