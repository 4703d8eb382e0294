-------------------------------- MODULE Timer --------------------------------
(***************************************************************************)
(* utils/timer.c: timers whose expiry passes from the OS timer's context   *)
(* to the driver's task through two queues.  An expiry that belongs to     *)
(* another phase of the driver than the present one, operational or not,   *)
(* waits or is dropped.  The operators are parts of actions: those of the  *)
(* driver's task come with a module that EXTENDS this one.                 *)
(***************************************************************************)
EXTENDS Naturals, Sequences

CONSTANT Timers

VARIABLES
    bOperState,
    bOperStateWhenStarted,
    ticking,                     \* the timers that run in the OS
    hOperQueue, hInitQueue

timervars == <<bOperState, bOperStateWhenStarted, ticking, hOperQueue, hInitQueue>>
quevars   == <<hOperQueue, hInitQueue>>

TimerInit ==
    /\ bOperState = FALSE
    /\ bOperStateWhenStarted = [t \in Timers |-> FALSE]
    /\ ticking = {}
    /\ hOperQueue = << >> /\ hInitQueue = << >>

In(t, queue) == \E i \in 1..Len(queue) : queue[i] = t

(* tmr_StartTimer, which restarts a running one, and tmr_StopTimer, which  *)
(* leaves a queued expiry where it is.                                     *)
StartTimer(t) ==
    /\ ticking' = ticking \cup {t}
    /\ bOperStateWhenStarted' = [bOperStateWhenStarted EXCEPT ![t] = bOperState]

StopTimer(t) == ticking' = ticking \ {t} /\ UNCHANGED bOperStateWhenStarted

(* tmr_GetExpiry: que_Enqueue refuses a timer that is in a queue already,  *)
(* be it the other one.                                                    *)
Link(queue, t) == IF In(t, hOperQueue) \/ In(t, hInitQueue) THEN queue ELSE Append(queue, t)

GetExpiry(t) ==
    /\ t \in ticking
    /\ ticking' = ticking \ {t}
    /\ hOperQueue' = IF bOperStateWhenStarted[t] THEN Link(hOperQueue, t) ELSE hOperQueue
    /\ hInitQueue' = IF ~bOperStateWhenStarted[t] /\ ~bOperState THEN Link(hInitQueue, t) ELSE hInitQueue
    /\ UNCHANGED <<bOperState, bOperStateWhenStarted>>

(* tmr_HandleExpiry takes one expiry after the other from the queue of the *)
(* present phase.                                                          *)
Present == IF bOperState THEN hOperQueue ELSE hInitQueue

Dequeue ==
    IF bOperState
    THEN hOperQueue' = Tail(hOperQueue) /\ UNCHANGED hInitQueue
    ELSE hInitQueue' = Tail(hInitQueue) /\ UNCHANGED hOperQueue

(* tmr_UpdateDriverState and tmr_ClearOperQueue.                           *)
EnterOperational == bOperState' = TRUE /\ hInitQueue' = << >> /\ UNCHANGED hOperQueue
LeaveOperational == bOperState' = FALSE
ClearOperQueue   == hOperQueue' = << >>
=============================================================================
