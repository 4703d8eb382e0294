# The wl1271 driver in TLA+

This directory holds TLA+ models of the TI WiLink 6 (wl1271) station driver in
`src/wgt7310/wl1271/`, TLC configurations that check them, and TLAPS proofs
of their safety properties for every size. Paths below are relative to that directory.
The rest of the repository, a collection of Wi-Fi HALs (`src/bcm_*`,
`src/realtek`, `src/athr-hostap-wfd`, ...), is vendor code of other chips,
configuration, firmware images, and a vendored wpa_supplicant; it has little
control logic of its own and is listed in `PROJECT.json` as not modelled.

## 1. The driver

All of the driver's logic runs in one task (a Linux work queue, *the driver's
task*), which calls the *clients* of the context engine whose pending flag is
set. Two other contexts touch its data: the *network stack*, which hands over
packets (`wlanDrvIf_Xmit`), and the *completion context* of the SDIO driver,
which reports asynchronous bus transactions. OS timers expire in a third one
and pass to the driver's task through queues. Shared data is protected by one
critical section (`context_EnterCriticalSection`), a spinlock on a
multiprocessor, an interrupt lock otherwise. What is hard about the driver is
where these contexts meet, the copies of one fact that several modules keep
(who is busy, who keeps the chip awake, what is queued), and recovery, which
resets the chip and half of the modules under the other half.

| Component | State | Operations | Interacts with | Correct when |
|---|---|---|---|---|
| Tx hardware queue, `TWD/Data_Service/txHwQueue.c` | free, used and reserved blocks; descriptors; counters of allocated and freed blocks, which wrap; busy flags | allocate for a packet, update from the firmware's status, restart | txCtrl (asks, is told which ACs have room), firmware | no block is lost or overcommitted, each AC keeps its minimum, a stopped AC is released |
| Tx control blocks, `txCtrlBlk.c` | table with a free list through it, flags | alloc (two contexts), free, clean-up after recovery | txCtrl, network stack | the list holds exactly the free blocks; clean-up frees exactly what was with the firmware |
| Management queues and port, `stad/src/Data_link/txMgmtQueue.c`, `txPort.c` | two queues, busy and enabled flags, state machine, Tx path switch | send, connection events, scheduler, backpressure, suspend, clear | connection, txCtrl, data queues, network stack (EAPOL) | only permitted packets leave, in order; port and state machine agree; permitted packets progress |
| Data queues, `txDataQueue.c` | a queue per AC, busy and stopped flags, round robin, pace timer | insert, scheduler, backpressure, stop/wake all, clear | network stack, txCtrl, port | no packet without a waker, no queue starves, network stack is resumed |
| Tx control, `txCtrl.c` | busy ACs, AC to TID mapping | transmit, completion, backpressure, admission, recovery clean-up | all of the above | its copy of "busy" agrees with those above and below |
| Bus transactions, `Txn/TxnQueue.c`, `Txn/SdioBusDrv.c` | queues by priority, single step, current transaction, aggregation, done queue | transact, run, stop, restart, completion | TwIf, the power control of the chip, completion context | one transaction at a time, none lost or reported twice, no lost wake-up, aggregations stay whole |
| Command queue and mailbox, `TWD/Ctrl/CmdQueue.c`, `TWD/FW_Transfer/CmdMBox.c` | ring of commands, the one in the mailbox, error and enabled flags, saved callbacks | send, complete, time out, restart, end of reconfiguration | command builders, firmware, TwIf (awake), health monitor, DrvMain | answers match commands, in order, once; the chip is awake while one is under way; no command stays for ever |
| Timers, `utils/timer.c` | expiry queues for operational and other phases | start, stop, expire, handle | OS, driver's task | an expiry reaches its owner in the phase it belongs to |
| Health monitor, `healthMonitor.c` | the failure being handled, its timer | failure, recovery | everything that may fail, DrvMain | no failure is forgotten |
| DrvMain, `DrvMain.c` | state, one slot for an event, queue of actions, recovery flag and attempts | start, stop, boot callbacks, failure, recovery | users (wait for their action), TWD, SME, all modules it stops | a stop completes once, activities follow the state, users are answered, the driver settles |
| TwIf, `TWD/TwIf/TwIf.c` | awake count, count of pending transactions, chip state, done queue, restart timer | awake, sleep, transact, complete, restart | TxnQueue, all users of the bus | the chip is awake while used and sleeps when unused, clients are called back once, a restart ends |
| FwEvent, `TWD/FW_Transfer/FwEvent.c` | pending interrupt, state machine, event mask, pending handlers | interrupt, status read, handlers, enable, stop | TwIf, context engine, handlers | every interrupt is served, none is overwritten |
| Rx and Tx transfer, Tx results, `TWD/FW_Transfer/` | Rx ring, Tx aggregation, ring of results | read packets, send packets, report results | FwEvent, TwIf, TxHwQueue | every packet is read and every result reported once |
| Rx BA reordering, `TWD/Data_Service/RxQueue.c` | window and stored packets by TID, one timer and count for all | packet, BAR, timeout, session open and close | Rx path, timers, DrvMain (closes all) | in order, once, window moves on |
| MAC services, `TWD/MacServices/` | state machines of power save, scan, measurement | commands, events, guard timers, recovery | CmdQueue, scr | requests end |
| SCR, connection, SME, site and scan managers, `stad/src/` | state machines, pending requests | many | many | clients are served by priority; connection phases in order |
| Command builders, dispatchers, classifier, Linux glue | little | translate and route | | |

`PROJECT.json` lists every component with its status and reason, and every
hazard found with its line and the property aimed at it.

## 2. The modules

| Module | Models | Extends / instantiates |
|---|---|---|
| `TxBlockPool` | abstract: a pool with a guaranteed minimum for each AC; grant, refuse, release | |
| `TxHwQueue` | `txHwQueue.c`, with the firmware as environment | instantiates `TxBlockPool` |
| `CtrlBlkPool` | abstract: blocks are free, with the queues, or with the firmware, and pass from one to the next | |
| `TxCtrlBlk` | `txCtrlBlk.c` and its uses in `txCtrl.c` | |
| `TxMgmtQueue` | `txMgmtQueue.c`, `txPort.c`, the management part of `txCtrl.c` | |
| `TxDataQueue` | `txDataQueue.c`, the data part of `txCtrl.c`, stop and resume of `WlanDrvIf.c` | |
| `TxnQueue` | `TxnQueue.c` on `SdioBusDrv.c` | |
| `Timer` | `timer.c`, as operators for the actions of its users | |
| `CmdService` | abstract: commands answered in order, once; a reset drops them and tells their callbacks later | |
| `CmdQueue` | `CmdQueue.c` on `CmdMBox.c`, with the parts of `healthMonitor.c`, `DrvMain.c`, `CmdBld.c` and `TWDriver.c` that time out, reset and configure it | extends `Timer`, instantiates `CmdService` |
| `RxQueue` | `RxQueue.c`, with the peer as environment | |
| `DrvMain` | `DrvMain.c`, with the parts of `TWDriver.c`, `TwIf.c`, `healthMonitor.c`, `SmeSm`, `context.c` and `WlanDrvIf.c` that call it back | extends `Timer` |
| `TwIf` | `TwIf.c` with `FwEvent.c`, on top of what `TxnQueue` promises | |
| `TxHwQueueProofs`, `TxDataQueueProofs`, `TxMgmtQueueProofs`, `TxnQueueProofs`, `CmdQueueProofs`, `DrvMainProofs`, `TwIfProofs`, `RxQueueProofs` | theorems and proofs | each extends its module; `TxMgmtQueueProofs` also `TxCtrlBlk`, and instantiates `CtrlBlkPool` for both |
| `MC*` | constants for TLC | |

Variables and actions have the names of the fields and functions they model;
`map` in `PROJECT.json` gives the lines. A handler is one action where nothing
can come between its steps, and is cut only where another context may: at the
borders of critical sections, at callbacks, and at waits. Where a handler is
cut, a program counter (`pc`, `work`, `sched`) holds what is left of it. A
definition commented as `mutant` is a faulty variant of the definition that
follows it; no specification uses it. It stands for a plausible slip in the
code and shows that a property notices it.

`Inv` (or `TableInv`, or `IndInv`, where it is the inductive invariant of a proof) is the
conjunction of the invariants that a module states in named parts; a run checks
them together, and the mutants listed for `Inv` break different parts of it.

**TxHwQueue.** `AllocResources`, `UpdateFreeBlocks`/`UpdateDescriptors`/
`Backpressure` (together `UpdateFreeResources`) and `SetHwInfo` are the
module's functions; `FwFreeBlks`, `FwTxResult`, `ReadFwStatus` are the
firmware, which frees blocks in any amount at any time, and the DMA that reads
its counters some time before the driver looks at them. Arithmetic is modulo
the width of the counter, so an underflow would show as in the code.

**TxCtrlBlk.** `Take`, `ClearNext`, `ClearFlags` are the steps of an
allocation, of which only the first is protected, in each of two contexts. The
clean-up after a recovery is one step for each entry. The names of its specification start with
`Table` (`TableSpec`, `TableInv`), since one module of proofs extends it together with `TxMgmtQueue`.

**TxMgmtQueue.** `work` is the stack of calls in progress in the driver's
task: the scheduler, the state machine and the port call each other. The
network stack inserts EAPOL packets (`XmitExternal`) and asks for the
scheduler in a second step (`RequestSchedule`). `ConnMoves` is the order in
which the connection state machines change the Tx connection state.

**TxDataQueue.** Packets of a queue are alike, so a queue is its length and
the AC of its first packet. What the pace timer measures is left out: it may
expire whenever it runs. `TakeResources` stands for `TxHwQueue` and keeps what
was proved of it: it refuses only when something is lacking, and then reports
the AC later.

**TxnQueue.** The scheduler is a single process `sched`, which runs in either
context and is never reentered; the bus driver sends a transaction in one or
two parts, synchronously or not. `RestartTimeout` is TwIf's guard timer.

**CmdQueue.** The driver's task is at `pc`; commands may be sent while it is
idle and from within callbacks. `Sequence` are the commands of the
configuration: any number of `ConfigCmd`, then `MemoryMapCmd`, whose callback
ends the configuration. The stop of the bus and the download of the firmware
are part of `Stop` and `ConfigFw`. The variable `fw` is the firmware, which
may answer at any time or never. Expiries pass through `Timer`.

**RxQueue.** A packet stands for its number in the peer's endless sequence, of
which the header carries the remainder, so that "in order" is the order of
numbers and not of remainders. `ReceiveExpected`, `ReceiveLate`,
`ReceiveInWindow` and `ReceiveBeyond` are the branches of
`RxQueue_ReceivePacket`; `ReceiveBar`, `ReceiveAddBa` and `CloseBaSessions` the
other frames; `PacketTimeOut` the timer that all TIDs share. The loops of the code
are written as what they compute: `Run` and `Shift` are how far a loop goes,
`Stored` and `Passed` what it meets on its way, as functions of the distance from
the start of the window. `got` keeps the firmware's promise that no
packet of the window comes twice.

**DrvMain.** `Sm` is one round of `drvMain_SM` on the event in its slot
(`ePendingEvent`, `uPendingEventsCount`); what is called from within a round may
put the next event there, as in the code. `InsertAction` is a user in
`drvMain_InsertAction`, `InvokeAction` the context engine's call of
`drvMain_InvokeAction`. The stages of the boot end with a callback
(`InitHwCb`, `InitFwCb`, `ConfigFwCb`), the files are read synchronously. A stop
ends by `TxnDoneCb` and `HandleTxnDone`, or by the guard timer
(`PendRestartTimeout`), or by both. `restarting` is `FUNC_STATE_RESTART` of the bus;
it is over when the guard timer expires or TwIf runs the queues again for the
next boot (`RestartIsOver`), while the transaction may still be on the bus
(`unended`): then a later stop waits for it once more. A failure (`SendFailureEvent`) may come at any
time and passes through the health monitor's timer. `active` is what
`drvMain` has started and has to stop. `overwritten` and `stray` record an
event that replaced another one and an answer to a user who had left.

**TwIf.** `pc` and `ret` are the place of the driver's task in
`twIf_HandleTxnDone` and in `fwEvent_StateMachine`, which is cut wherever the
completion context may come in between. A transaction is at one of five places:
`queue`, on the bus, in the bus's done queue `reported`, in TwIf's
`hTxnDoneQueue`, or being called back; `Outstanding` collects them. Each
entry knows whether the driver was restarted since (`fresh`), which the code does
not know. `elp`, `waking`, `intr`, `irq` are the chip: its ELP register,
its way from sleep to awake, its interrupt status, which is cleared when it is
read, and the interrupt line. `FwRead` reads the status synchronously,
asynchronously, or fails.

### Composition

The Tx modules are joined by their interfaces rather than run together, which
would be out of TLC's reach: `TxMgmtQueue` and `TxDataQueue` have a variable
`hwBusy` for what `TxHwQueue` will report, justified by `BusyQueueReleased`;
`TxMgmtQueue` switches the Tx path on and off that `TxDataQueue` sees as
`StopAll` and `WakeAll` at any time. `TxMgmtQueue` takes and returns control blocks
in single steps; that this is what `TxCtrlBlk` offers is proved from both sides: the
table implements `CtrlBlkPool` (`TableIsPool`) and the queues use one (`QueuesUsePool`).
Packets of `TxDataQueue` are alike and have no control blocks. `CmdQueue` composes four components in one state space, since
its difficulty lies in their interplay, and `TwIf` composes TwIf and FwEvent
with the chip for the same reason. `TwIf` takes the bus transactions as
`TxnQueue` shows them: one at a time (`BusCalledWhenIdle`), nothing lost
(`NothingLost`), single steps first, none regular while stopped.
`DrvMain` takes the restart as `TwIf` shows it: its completion is reported by the
bus, by the guard timer, or by both, and before any other completion.

## 3. The runs

| Run | Instance | Shows |
|---|---|---|
| `hw_queue` | 9 blocks, one the firmware's, 2 descriptors, ACs with a minimum above, below and without a packet's need; counters modulo 9 and 3 | accounting exact, firmware never overcommitted, minima kept, implements `TxBlockPool`, stopped queues released |
| `ctrl_blk` | 6 entries, two contexts, network stack quiet during the clean-up | free list exact (`TableInv`), clean-up frees all and only what was sent |
| `mgmt_queue` | 3 control blocks, queues of 2 | only permitted packets leave, first come first served, port and state machine agree, permitted packets progress |
| `data_queue` | 2 ACs, queues of 2, one descriptor, network stack stopped when full | no packet without a waker, every queue with packets is offered again and again |
| `txn_queue` | an aggregation of two, one urgent transaction, two single steps, no restart or failed start | bus called when idle, each transaction in one place, aggregations whole, every transaction reported |
| `txn_queue_restart` | two transactions and one single step, one restart, one failed start | nothing lost but what the restart drops, no lost wake-up |
| `cmd_queue` | two commands of clients, one with a callback, two of the configuration, ring of 2, 3 recovery attempts | service refined, answers match, awake exactly while busy, every command ends |
| `rx_queue` | 2 TIDs, array of 3, windows of 2 and 4 (cut to 3), numbers modulo 14 across their wrap | passed in order, array and expected number agree, count exact, nothing given up early or kept for ever |
| `rx_queue_timeout` | the same | **violation**: the time-out of a TID without stored packets searches for ever |
| `drv_main` | 2 users, 3 failures, firmware in 2 pieces, 3 recovery attempts | a stop completes once and turns off a quiet bus only, activities follow the state, one failure loses nothing, the driver settles, a user is answered |
| `drv_stop_on_fail` | the same with one failure | **violation**: the driver stays in `STOPPING_ON_FAIL` |
| `tw_if` | one client's transaction, one firmware event, one client holding the chip awake, one failure or restart | counts exact, bus used only while the chip is awake, no event overwritten or unserved, every transaction completes, an unused chip sleeps |

**Bounds.** Two ACs, a queue of two and two or three packets are enough for
every branch of the schedulers: queue empty, not empty, at its threshold,
full, and full again when a refused packet returns. A queue of one would hide
the order of packets. The counters of `hw_queue` are the narrowest that can
count the pool, so that every difference is taken across a wrap; the proofs
are for all widths. Six control blocks are two for each context, the heading
entry and the last one that the clean-up leaves out. One restart and one failed
start reach every point of the scheduler. In `cmd_queue` the ring is full with
two commands, wraps after two, and is full also when the configuration wants
to send; three recovery attempts are the least for which the limit differs from
the first and the second attempt.

In `rx_queue` an array of three has a first, a middle and a last slot, and wraps
within a window; half of the space of 14 numbers, which is as far as the
comparison of the code (`BIGGER_THAN`) can see, leaves room beyond a full window
for jumps of two packets (`MaxAhead`); one TID's numbers start shortly before the
wrap and go past it (`FirstNumber`, `LastNumber`). Two TIDs are needed since timer
and count are shared. `UntidyBars = FALSE` leaves out the BARs named in section 5.
In `drv_main` three failures use up three recovery attempts: when a boot fails in
a recovery the state machine stops again, and then gives up. Two pieces make a
first and a last one of the firmware. The run's safety properties also hold with
the code's five attempts and six failures (3.1 million states). In
`tw_if` one transaction and one event meet every step of the sleep handshake;
`MaxErrors = 1` allows one failing transaction or one restart out of the blue,
at any point; its safety properties also hold with `MaxErrors = 2`, which takes
too long for a run of this project with its liveness. A life of the driver which a remainder
of an earlier life has come into is not followed further (`Followed`): what
can happen then is told in section 5 and would excuse every property.

Recovery attempts and all queues are bounded by the code; the bounds that the
models add are `MaxRestarts` and `MaxFailedStarts` of `TxnQueue`, `MaxFailures` of
`DrvMain`, `MaxHolders`, `MaxErrors` and `Followed` of `TwIf`, and `LastNumber` of
`RxQueue`.

Six runs do not check deadlock. In `cmd_queue`, `drv_main` and
`drv_stop_on_fail` the driver really stops, in `FAILED` or `STOPPING_ON_FAIL`; in
`rx_queue` and `rx_queue_timeout` the peer stops at `LastNumber` and the driver's
task may hang, in `tw_if` the bound `Followed` ends a behaviour.

**Fairness.** Weak fairness on the steps of a context says that it goes on:
both contexts are scheduled by the kernel, and no handler waits except where
modelled. Strong fairness on a client of the context engine (`Run`,
`QueuesNotEmpty`, `HandleExpiry`, `Answered`, `HandleTxnDone`, `NewEvent`) says
that its pending flag is served although others run in between:
`context_DriverTask` calls all pending clients in turn. Timers that run expire.
The firmware is fair only in `hw_queue`, where it finishes what it was given; in
`cmd_queue` it need not answer. In the Tx queues, strong fairness on the report
of an AC is what `BusyQueueReleased` shows, and `XmitMgmt` is strongly fair
because the pool is not taken by others for ever. In `txn_queue` the client
completes an aggregation it has begun, as `txXfer` does within one call. In
`rx_queue` only the timer and its handler are fair: the peer need not send. In
`drv_main` the driver's task, the boot's callbacks and the timers are fair, while
the bus need not call back a stop, which is what the guard timer is for. In
`tw_if` bus and chip answer; a failure leads to a restart and the driver boots
again, as `DrvMain` does; and `[]<>(pc = "idle")` says that no client sends
from callback to callback for ever, since the loop of `twIf_HandleTxnDone`
would then have no end.

What the liveness properties assume besides: `EveryTxnCompletes` of `TxnQueue` that
the function keeps running and that more urgent transactions do not come for
ever; `PermittedPacketsProgress` that the connection is not open yet;
`EveryCommandEnds` that no failure is forgotten, that no expiry of an
operational phase is left over in the next one, and that a disconnection ends;
`EveryStoredPassed` that only one TID has a session, since another TID's end stops
the timer; `DriverSettles` and `EveryActionAnswered` that no failure is
forgotten and that the bus ends a transaction that the guard timer gave up, the
latter also that the other user is not waiting; the properties
of `TwIf` that no write to ELP failed (`elpLost`) and nothing of an
earlier life came (`late`). Section 5 says how the code comes to each of these.

## 4. What is proved

Eight modules of proofs, checked by `tlapm`, hold for every value of the
constants that their assumptions admit. Each states an inductive invariant,
proves that the initial state satisfies it and that each action preserves it (one
step for each action, or for each group of actions that leaves the same
variables alone), and derives the rest. Every invariant that a run checks
is among the theorems, and every action property that a run expects to hold.

**`TxHwQueueProofs`** (983 obligations; `ConfigAssumption`: the minima fit into
the pool, which the driver's defaults and firmware ensure; the pool fits into a
counter; fewer descriptors than its counter counts). For every pool size, minima,
traffic and counter width: `Accounting`, with `TypeCorrect`, `Conservation`
and `Reservation` as its parts, `NoOvercommitment`, `MinimumIsGuaranteed`;
`Refinement`: the accounting implements `TxBlockPool`; `BlockEstimateExact`: the
multiplication and shift that "saves CPU" in `txHwQueue_AllocResources` is the
exact division, rounded up. The invariants are not inductive by themselves.
After an update, the driver's view comes from counters read earlier; that it
errs on the safe side only depends on the order of four values on the circle of
counter values: the driver's allocations, the firmware's counter, the status
read from it, and the last processed one. `IndInv` adds that order for blocks
(`BlkCountersOrdered`) and packets (`PktCountersOrdered`), and that reserved
blocks are free (`ReservedAreFree`). The lemmas `SubAfterAdvance` and
`SubAfterCatchUp` say how wrapped differences move when one end advances;
`UpdateOneQueue` treats the four cases of the update of the reservation, and
`UpdateTotals` adds the queues up. For `Refinement`, `RoomIsAvailability` shows
that the driver's test for room, which looks at the reservation it keeps, is the
pool's, which asks whether every AC could still get its minimum.

**`TxDataQueueProofs`** (456 obligations; `QueueAssumption`: positive sizes and
thresholds, a priority order that names every queue). For any number of queues:
`BusyQueuesAreReported` and `NoPacketIsForgotten`. "Nothing is forgotten while
the task rests" says nothing of a task that runs; `PacketsSeen` in `IndInv` says
where a queue with packets that could be sent is meanwhile: ahead of the
scheduler in its round, or the scheduler was asked for anew. Stopping and waking
all queues, and a new mapping of ACs to queues, must keep that too; the
mapping is the least AC that is admitted, and that there is one is shown with the
least element of a set of naturals.

**`TxMgmtQueueProofs`** (2607 obligations; `DepthAssumption`: finitely many control
blocks, queues of at least one; `TableAssumption`: a table of three entries or more). `PermittedOnly`, `PortAgrees`,
`BusyQueuesAreWoken`, and `InOrder`, the order of packets through refusals. The
calls in progress are a stack (`work`), so `IndInv` says what lies below: the
state machine is at most one step behind the connection, and then its event is
on the stack (`SmFollowsConn`); the port is switched within the step that
changes the state (`PortIsSwitched`); a packet is in hand exactly while a
transmission or its return to the queue is on the stack (`InHandWhileSending`).
`InOrder` looks at `Line(q)`, the queue with the packet in hand in front: every
step leaves it, takes its head, appends, or empties it. `OwnersAndPort` adds
that every control block has one owner: a line holds no block twice, and no
block of one line is in the other, free, or with the firmware (`Apart`).

The second half of the module is the table of control blocks, for every size.
`FreeListHolds`: the free list ends and holds exactly the free blocks, even when the
network stack sends while a recovery ends (for both values of `TxDuringReset`). The list runs through the
table itself, so to be on it is reachability. `FreeListed` says it without recursion: there
is a path without repetition, from entry 0 along `pNextFreeEntry` to the last entry, and the
entries on it are the free ones. `Unlink` and `Link` are what an allocation and a release do
to such a path, `Aside` that an entry off the path may be changed; `Walk` then follows `Nth`, as
the code would walk, along the path, by the least step at which the two would differ, and the path has
at most as many steps as the table has entries (`NotLonger`, by cardinality).
An allocation is unprotected after its first step, so the invariant `ListInv` also says that a context
that has got no further has an entry whose link is not cleared yet, and that no other context has (`Taking`),
and that a used entry's link is cleared otherwise (`Unlinked`), by which `txCtrlBlk_Free` and the
clean-up tell used entries from free ones; the entry that the loop of the clean-up leaves out is
the list's last and always free (`FreesUsed`).

`ResetFreesSent`, that the clean-up frees all and only what was sent, needs the network stack to be quiet while
a recovery ends (`~TxDuringReset`; section 5 says why). Then `TableIndInv` holds as well: each
context has an entry of its own to the end of its allocation (`Allocating`), the flag tells whether the
firmware has an entry (`Marked`), and what the loop has passed is not with the firmware (`CleanedUp`).
`TableIsPool` and `QueuesUsePool` are the two refinements
that section 2 speaks of: an allocation is one step of the pool, taken with the
critical section, and the rest of it is invisible; the clean-up and the clearing of the queues return
blocks that all had the same owner. Where the network stack sends during the clean-up the table is still
such a pool, but a block may go back without its owner knowing, so the two fit together only without that.

**`TxnQueueProofs`** (2209 obligations; `TxnAssumption`). `NoWakeupIsLost`, across
restarts and failures, for every set of transactions and priorities, and
`BusCalledWhenIdle` for `MaxFailedStarts = 0`: with failed starts it is false
(section 5). The scheduler is left to a context that is already in it, so the
invariant counts calls owed: whatever can be selected is going to be seen by a
round in progress or a context is about to call (`SelectableIsCalled`), the same
for what is to be reported (`DoneIsCalled`), and a current transaction is
carried by the bus, by a context or by the scheduler (`CurrentIsCarried`).
`OneAtATime` adds that only one of them carries it.

`NoTxnIsLost`, `NoTxnIsCopied` and `AggregatesStayWhole` follow a transaction through
its places. `Held(t)` counts them: occurrences in the three queues, by
cardinality of the set of positions (moving an element is a bijection between such
sets), and the scheduler, the slot of single steps, the bus, and the reports in
progress. `Tracks` says what one step may do to that count and to the
client's waiting: leave both, enter a place, end in one, or, after a restart only,
merge with a copy left behind. So what is awaited is somewhere (`Somewhere`),
across restarts; without them it is in exactly one place, and what is not awaited is
nowhere (`OnePlace`). For aggregations each queue goes on where the buffer of
the bus driver stands (`Chained`): every transaction of it with the one before, the
first with the buffer, and the client's next one with the last. Single steps, and
other queues, may come between without touching the buffer. The conditions are
those of section 5: until a second part of a transaction fails to start
(`failedStarts = 0`), and for the last two `MaxRestarts = 0`.

**`CmdQueueProofs`** (1815 obligations; `CmdAssumption`). `Ring`:
for every depth the indices of the ring agree with the number of commands
(`PushIndex` and `PopIndex` are the modular arithmetic), which the code keeps
apart; `AwakeExactlyWhileBusy`; and `AnswersMatch`. The state machine is not
interrupted at a point where these fail, but callbacks send commands and
failures reset the queue from within, so `IndInv` says what holds at each `pc`.

`CommandsInv` adds that a command under way is guarded by a timer that counts in the
driver's phase (`Guarded`), and that the configuration's callback is not called
within itself: `ConfigOnce` and `SavedPlain` say that one command of the
configuration at most is in the ring or among the callbacks that a reset saved. How often
DrvMain tries before it gives up (`Attempts`) bounds the attempts in each state.
`ServiceImplemented` is the refinement of `CmdService`: every action is mapped to
one of the service's or to none (`ServiceStep`), with the ring's content as
its queue, the command being called back as its `answering`, and the saved callbacks
not yet told as its `saved`. The ring loses its indices and its
reset; what a reset saves is `WithCallback` of the content, a recursive function over
the ring, which the proof follows with the least index at which it would differ.

**`DrvMainProofs`** (2732 obligations; `DrvMainAssumption`). For any number of users,
failures and attempts: `StopOnce`, `Activities`, and `QuietOff`, that no stop turns
the device off under a running transaction. The last needs to know at which
point of a boot the restart before it is over (`RestartsEnd`) and that a completion
pending in `STOPPING` means that the bus is quiet (`CompleteMeansQuiet`); events lost
in the slot are carried along as `overwritten` (`CompleteOnce`). `Stop` and
`Fails` say once what the two ways to stop do, for all rounds that use them.
From the third recovery in a row on it matters that `txnQ_Run` ends a restart which
still waits: otherwise the next stop would take it for its own.

`DriverInv` adds `WaitingUserKnown`. Whether a user who waits is known depends on
what the context engine may call and on whose action is current in each state
(`ClientServed`, `Current`), on the driver counting as failed (`DriverFails`), and on there
being no two copies of a user in the queue of actions (`Waits`).
`OneFailureHarmless` counts: the health monitor has one request under way at
most, so every recovery is due to a failure of its own (`OneRequest`, `Attempts`); with one
failure there is then one recovery, every event that comes is one that the
state expects (`StagesFollow`, `Nobody`), and two events are pending only after the
loader has failed, where none is lost unless a second failure came (`TwoPending`).

**`TwIfProofs`** (3632 obligations; `TwIfAssumption`: finitely many clients'
requests and firmware events, told apart). For any number of clients, events,
holders and failures: `CountsAndStates`, `NoTransferAsleep`, `EventsKept`. The count of pending
transactions is the cardinality of the set of those of this life (`Counted`), which
needs each of them to be in one place (`Places`); the awake count is
that of its holders, exactly so until a failure leaves some behind (`Needed`).
That a chip which is needed is being woken, and is awake when the bus moves, is an
argument about both sides of the handshake: the queue is stopped exactly while TwIf
is not awake, and what it waits for in `WAIT_HW` is a single step, the chip's wake-up,
the interrupt line, or the event (`Sleeping`, `Waken`). It
rests on the interrupts, since any of them counts as "awake": one that is raised
is going to be read (`Interrupts`), unless the read failed, after which only a restart
reads again (`ReadLost`, `ReadRefused`). FwEvent's counter of handlers covers their
transactions (`Handling`). All of this holds of a life of the driver that no
remainder of an earlier one has come into (`late`), where the module
stops to follow it (`Followed`); until then nothing is bounded but the numbers of
holders and failures, which are parameters.

**`RxQueueProofs`** (3084 obligations; `RxQueueAssumption`: an even number space, of
which half is longer than the array by two, and which fits with the array
into the 16 bits of the code's difference). For any number of TIDs, windows, arrays and
numbers, provided that BARs are tidy (`UntidyBars = FALSE`; without that the
properties are false, section 5): `ArraysInv`, `SessionsPassInOrder`,
`GivesUpWhenDue`. The driver knows remainders only. Since the peer's window is within
half of the number space, there is one number `e` that the expected remainder
stands for, and `Session(t, e)` says all that matters relative to it: the peer's window
is near, everything passed is before `e`, and a stored packet lies as many slots
after the start of the window as its number lies after `e` (`Fits` of `View`, the array from the
start of its window on). `ModPlus`, `ModMinus`, `BiggerIs` and `BeyondIs` turn the
comparisons of remainders into comparisons of numbers; the slots of an array and
the distances from its start are a bijection, so that passing `k` slots is to
move the view by `k` (`Moved`) and to lower the common count by what was in them
(`HeldMoved`). The hard branch is a packet beyond the window (`BeyondMoves`), which
passes what the shift frees and then what follows in a row. `GivesUpWhenDue` has the exception of
the last packet of a window across the wrap, which the code takes for one beyond.

**Only model-checked.** All liveness, since TLAPS cannot treat fairness.
Every property that is not liveness and that a run expects to hold is proved.
That the components fit together (section 2, "Composition") is proved for the
control blocks only (`TableIsPool`, `QueuesUsePool`) and argued for the rest:
each proof takes its environment as the module states it.

## 5. What the models showed

Besides the two findings in `PROJECT.json`, each shown by a run, the models led
to these observations. They follow from the code as modelled, and are the reason
for some of the assumptions above.

* `TxCtrlBlk`: the clean-up after a recovery frees every entry whose flag says that
  it was sent. If the network stack allocates meanwhile, it has taken the entry
  and not yet cleared its flags (`txCtrlBlk.c:199`), and the clean-up
  (`txCtrl.c:1341`) frees it: the free list stays exact (`FreeListHolds`), but the block is handed out
  again while the first owner still has it. With `TxDuringReset = TRUE` TLC finds `ResetFreesExactlySent` violated.
* `TxMgmtQueue`: a refused packet whose queue was filled meanwhile is neither
  requeued nor freed (`txMgmtQueue.c:829` ignores the result of
  `que_Requeue`), so `OneOwner` says *at most* one owner. If an
  EAPOL packet is queued but not yet served when the connection opens, the state
  becomes `OPEN_MGMT` without a run of the scheduler (`txMgmtQueue.c:663`), and the
  request to serve the packet (431) is ignored in that state; the same state is
  entered with empty queues when such a request is served after its
  packet was sent (700), and then nothing raises `QUEUES_EMPTY`. Either way the
  data path stays closed until something else runs the scheduler while a packet
  waits, as a change of backpressure does.
* `TxDataQueue`: the stop and the resume of the network stack happen outside
  the critical section that decides them and may overtake each other
  (`txDataQueue.c:398` and 713). `txDataQ_StopQueue` writes the flags of all
  queues, and so frees those of another busy AC (`txDataQueue.c:440`); they are
  tried in vain until the next update. On a multiprocessor, dropping a
  refused packet enters the critical section twice (`txDataQueue.c:743`): with
  `SMP = TRUE` the driver's task waits for itself.
* `TxnQueue`: `busDrv_Transact` returns a shared status (`SdioBusDrv.c:339`); if
  the second part of a transaction fails to start in the completion context
  before the first caller reads it, the end is reported twice. Hence
  `MaxFailedStarts = 0` in `txn_queue` and in `BusCalledWhenIdle`, and the guard of
  `NothingLost`. A restart leaves a transaction in the TxnDone queue
  (`TxnQueue.c:377`) and an aggregation begun (`TxnQueue.c:819`) behind, hence
  `MaxRestarts = 0` there; and a restart that meets a transaction in its last
  steps is ended by TwIf's guard timer only (`TxnQueue.c:355`).
* `CmdQueue`: `bErrorFlag` is cleared only by a command that succeeds, and while
  it is set none is sent (`CmdQueue.c:431`): the configuration ends without its
  last command, and nothing in DrvMain notices; also after a recovery. While
  the mailbox is disabled, a command is dropped with `TI_OK`
  (`CmdQueue.c:473`). The mailbox timeout does not look whether the command has
  been answered since (`CmdMBox.c:330`).
* Timers and the health monitor: an expiry that waits in the queue of the other
  phase keeps the timer from being queued again (`queue.c:231`), so a timeout of
  the configuration may be lost. The health monitor's own timer may be lost the same
  way (`timer.c:531`), after which it takes every later failure for
  one that is being handled (`healthMonitor.c:325`).
* `RxQueue`: besides the time-out that never ends (`RxQueue.c:1057`, run
  `rx_queue_timeout`), the shared timer is stopped when the session of any TID
  ends, and then nothing gives up a missing packet of the others until a packet
  restarts it. A BAR computes its distance without the 12-bit mask (line 856),
  so one across the wrap of the numbers empties the whole array; and it passes
  packets beyond the distance without counting them in the expected
  number, after which array and number disagree: `UntidyBars = TRUE` lets TLC find
  that. The last packet of a window that crosses the wrap is taken for one beyond
  (the end of the window is not masked), so `GivenUpOnlyWhenDue` has an exception
  for it. After the end of a session its packets are passed with status OK.
* `DrvMain`: after a failure of the boot, or of a stop or disconnection, the driver
  stays in `STOPPING_ON_FAIL` (run `drv_stop_on_fail`) and later actions of users
  are accepted but not processed. If the firmware cannot be loaded within a
  recovery, the failure is overwritten in the event slot by the completion of the stop, which is then
  handled twice, and a user is answered whose action was freed: hence
  `OneFailureIsSafe` speaks of one failure only. When the attempts are used up, a waiting user is
  not answered. STOP in `IDLE` leaves the actions enabled.
  `drvMain_InvokeAction` takes one action for each call of the context engine.
* `TwIf`: an expiry of the guard timer that waits while the completion it guards is
  being handled clears the queues of the next life of the driver
  (`TwIf.c:1074`–1087); a `bTxnDoneInRecovery` left from then
  ends a later restart early; and the completion of a transaction of an
  earlier life is delivered in the new one and miscounted. All three set `late`. A transaction the bus
  never reports remains TxnQueue's current one after the guard timer, and nothing is
  sent again. The status of writes to ELP is ignored (436–450), so a chip may be
  thought awake or asleep for ever (`elpLost`). A transaction that
  ends with an error leaves the rest of the done queue, and the Sleep event,
  until the recovery (991). An error in FwEvent keeps its hold on the chip until the
  recovery. Taking any interrupt for "the chip is awake" relies on the interrupt
  line staying up until the status is read.

## 6. Not modelled, and the plan

Left out of the modelled components: contents of packets, headers and
commands, statistics and traces, rate policies, creation and destruction, the
counter of used control blocks (only printed), the periodic health test, and
periodic timers; in `RxQueue` a window of size zero and frames passed on
untouched; in `DrvMain` the user's wait of at most ten seconds, the contents of the
files, and a recovery disabled by the configuration; in `TwIf` what a handler of
a firmware event does besides one read. The sizes of the control block table and
the queues are compared at compile time (`txDataQueue.h:59`) and not in a model.

The models cover the part of this driver where contexts meet. The repository is
otherwise mostly drivers of other chips, and three copies of wpa_supplicant and
hostapd, taken over from their projects: their protocol logic belongs to
verification projects of their own, and none of their interfaces meet the
components here, except the two that pass a user's command on.

What could come next:

1. The Rx and Tx transfers and `txResult` as handlers in `TwIf`: rings and
   counters read before and used after a transaction.
2. `Context` as a module of its own, with the wake-lock and priorities of clients.
3. `PowerSrvSM`, `ScanSrvSM`, `MeasurementSrvSM`: requests, guard timers, recovery.
4. `scr` and the connection state machines.

Proofs to come: that `TwIf` takes the bus as `TxnQueue` guarantees it, and `DrvMain` the
restart as `TwIf` does, as refinements of one abstract bus, in the way of `CtrlBlkPool`.
