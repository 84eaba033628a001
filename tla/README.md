# A TLA+ model of the LG 360 VR adapter firmware

The repository is a Chromium EC tree whose own product is `board/lgvr`: the
firmware of a USB-C adapter (STM32F072, cortex-m0) that supplies VBUS to an
LG 360 VR headset, negotiates USB Power Delivery with it as a source, enters
its DisplayPort alternate mode and, in the RW image, records the CC lines.
This directory holds TLA+ modules translated from that source, the TLC runs
that check them on small instances, and TLAPS proofs for all instances.

## The system

One CPU, preemptive tasks with fixed and distinct priorities, interrupts above
all tasks.  From the lowest to the highest priority (`board/lgvr/ec.tasklist`):
IDLE, HOOKS, CONSOLE, PD_C0 (RO image) or SNIFFER (RW image).

| Part | Source | State | Operations | Talks to |
|---|---|---|---|---|
| Kernel | `core/cortex-m0/task.c`, `switch.S`, `atomic.h` | `current_task`, `tasks_ready`, `tasks_enabled`, each task's `events`, each mutex's `lock` and `waiters`, PendSV | `task_set_event`, `task_wait_event(_mask)`, `usleep`, `mutex_lock/unlock`, `task_enable_all_tasks`, `task_start` | called by everything; arms and cancels timers |
| Clock and timers | `common/timer.c`, `chip/stm32/hwtimer32.c` | `clksrc_high`, `timer_running`, `timer_deadline`, `next_deadline`, the timer's registers | `get_time`, `timer_arm`, `timer_cancel`, `process_timers` (interrupt) | posts `TASK_EVENT_TIMER` |
| Hooks | `common/hooks.c` | `__deferred_until`, `defer_new_call`, `hook_task_started`, `last_tick`, `last_second` | `hook_call_deferred`, `hook_task`, `hook_notify` | woken by callers in any context; enables the other tasks |
| PD protocol engine | `common/usb_pd_protocol.c` | `pd[port]`: task state, timeout, flags, message id, VDM state | `pd_task`, `pd_transmit`, `handle_request`, `pd_execute_hard_reset` | TCPC through the TCPM stub; board policy |
| TCPC | `common/usb_pd_tcpc.c` | alert bits, receive buffer of one message, message ids, CC state | `tcpc_run`, `send_validate_message`, `tcpc_transmit` | PD phy, alerts to the PD task |
| PD policy, alternate modes | `common/usb_pd_policy.c`, `board/lgvr/usb_pd_policy.c` | discovered modes, DisplayPort flags, HPD and VBUS outputs | `pd_svdm`, `svdm_*`, `pd_set_power_supply_ready`, `pd_power_supply_reset` | called by the protocol engine |
| PD phy | `chip/stm32/usb_pd_phy.c` | sampling on or off, comparator interrupt, the buffer of samples and symbols | `pd_start_tx`, `pd_rx_start`, `pd_rx_complete`, `pd_rx_handler` | interrupts, TCPC |
| Sniffer | `board/lgvr/sniffer.c` | `filled_dma`, `seq`, `oflow`, sample buffers | DMA handlers, `sniffer_task`, `wait_packet` | DMA interrupts |
| UART | `common/uart_buffering.c`, `chip/stm32/uart.c` | transmit and receive rings, the DMA transfer under way, interrupt enables | `uart_put*`, `uart_flush_output`, `uart_getc`, `uart_interrupt` | every task that prints; wakes the console task |
| Console | `common/console.c` | command line, cursor, history, escape sequence | `console_task`, `console_handle_char` | UART |
| Queues, system | `common/queue.c`, `common/system.c` | jump data | `system_run_image_copy` | console |

What is hard here: events that interrupts post between any two instructions of
a task that is about to sleep; timeouts that race with the event they guard; a
mutex whose unlock is a loop of preemption points; a 64-bit clock put together
from a counter that overflows and an interrupt that counts the overflows; a
hook task that computes how long it may sleep from times others change; and
in the PD port, messages that get lost, repeated or overtaken by resets, on a
half duplex line whose receiver has to be switched back on after every use;
ring buffers that tasks, interrupts and DMA advance at the same time; and a
display whose mode, status and hot plug level are spread over a dozen messages.

What makes the parts correct:

* kernel: no lost wake-up, no lost event, strict priority, mutual exclusion,
  nobody asleep on a free mutex, timeouts confined to the wait that asked;
* clock and timers: time is exact across overflows, no timer is early, none is
  missed, each one fires;
* hooks: no oversleeping of a request, one call per request, every request
  served;
* PD port: VBUS only while a sink is attached, a powered port listens, the
  contract ends with the connection, waiting states have a timeout, an
  unplugged port comes to rest;
* port controller: a success is reported only for a message that arrived, a
  GoodCRC is sent only for a message that is kept, the receiver is never left
  off, transmissions end;
* alternate mode: HPD follows the display, and ends with the connection;
* UART: output is sent once, in order and to the end, a flush waits for it,
  input wakes its reader;
* console: each key does what it says, whatever was in the buffers before.

## Modules

`Task` models the kernel.  A task step is what the CPU executes between two
points where an interrupt can get in: one `atomic_xxx()`, one `cpsid`/`cpsie`
section, one `svc`.  `pc[t]` is the position of task t inside the kernel and
`op[t]` the interface call it is in; in its own code (`pc = "run"`) a task may
make any call, with any arguments.  `SvcHandler` is `__svc_handler()`;
`Running` says that the current task goes on only when no PendSV is pending.
`WaitEvent`, `TimerArm`, `ReadClear`, `Deschedule`, `TimerCancel`,
`ClearTimer`, `WaitReturn` are the steps of `__wait_evt()`; `CollectEvents` and
`Repost` the loop and the end of `task_wait_event_mask()` and `usleep()`;
`MutexLock` ... `MutexUnlocked` the steps of the mutex calls, the wait inside
`mutex_lock()` included.  Timers are abstract here: an armed timer may expire
at any moment (`ExpireTimer`), and a wait may find its time up at any look at
the clock (`late`).  A wait without a timeout that has slept may find its
`time_remaining_us` wrapped to a positive number (`wraps`).  `owed` is a
history variable: events posted to a task that its code has not been given.

`MCTask` adds fairness: PendSV and the start are taken, each task in the
kernel is given CPU time again and again (strong fairness, since higher
priority tasks and interrupts take it away in between) and leaves its critical
sections.  The sections of this image wait for nothing (`ShortSections`), an
interrupt source does not post an event again before it was received, and no
wait lasts 36 minutes (`ShortWaits`).

`Timer` models what `Task` abstracts: the counter `now % Epoch`, the status and
compare registers, `process_timers()` step by step, `get_time()` with its two
reads of each word, `timer_arm()` and `timer_cancel()`.  `Tick` may fall
between any two steps.  Two things limit it: an interrupt is served within
`IrqTicks`, and no task spends an epoch (71 minutes) inside `get_time()`.
`StatusRace` says whether the counter may overflow between the load and the
store of the status register, a window of a few cycles every 71 minutes.
`MCTimer` adds the symmetry of the tasks, which the module treats alike.

`Hooks` models the hook task loop and its callers.  Callers run above the hook
task, so a call is atomic and may come between any two of its steps.  `due` and
`requested` are history variables: what was last asked for each routine.

`PdPort` models `pd_task()` as lgvr's RO image builds it: a source without dual
role, with the port controller of `usb_pd_tcpc.c` compiled in.  `pc` goes round
the loop: `vdm` (`pd_vdm_send_state_machine`), `wait` (`WaitAndRun`: the wait
and `tcpc_run`), `request` (`handle_request`), `state` (the handler of
`task_state`) and `end` (the timeout, then the CC line).  `pd_transmit()` runs
the port controller in the middle of a handler, so a handler that transmits is
cut in three: up to the call (`pc = "tx"`), `Transmit`, and the rest (`pc =
"sent"`, an action named `...Sent`).  `Receive` is the reception half of
`tcpc_run`: a message goes into the one-message buffer, a hard reset executes
on the spot.  The error recovery after a data role conflict is three steps,
since `tcpm_set_cc()` also runs the port controller.  The partner is left open:
a message or a hard reset may arrive whenever the receiver is on, transmissions
may fail, every CC sample may show anything in `Lines`.  The kind of a message
is chosen when it is read from the buffer, as nobody looks at it before.  Time
is abstract: `timeout` is off, ahead or past, `ahead` holds the other deadlines
that have not passed, and each reception may let any of them pass.

`LinkOut` is what the port controller promises to the protocol engine that sends
a message, `LinkIn` what it promises to the partner that does, both without
frames, ids, acknowledgements or retries.  `Tcpc` models how `usb_pd_tcpc.c` keeps
the two promises: `Transmit` and `Run` enter `tcpc_run()`;
`NoPacket`, `KeepPacket`, `ResetPacket`, `DropPacket` are its reception half and
`Acknowledge` the GoodCRC; `Attempt`, `WaitTimeout`, `WaitWoken`, `ReadPacket`
and `ReadNothing` go round the retries of `send_validate_message()`; `End`
returns.  The phy is three variables: `sampling` (`pd_rx_started()`),
`monitoring` (the comparator interrupt) and `frame`, what is in the buffer that
samples and outgoing symbols share.  `Dequeue`, `ResetId`, `Connect` and
`Disconnect` are what the protocol engine does between its calls, in the order
its loop allows (`due`).  The partner is external: a sink that speaks only after
it was spoken to, sends a GoodCRC before our timeout or never, takes a message
with the id of the last one for a repeat, and does not give up on its own
message while the port has a frame of it to analyse.  `doubt` in `LinkOut` says that
the two ends no longer agree which message is new; the comment there has what
leads to it.

`AltMode` models what `PdPort` leaves open: `pd_svdm()` with the discovery of
identity, SVIDs and modes, the entry into DisplayPort mode, its status and
configuration, the board's callbacks and the HPD output; and the queue of one
VDM that carries it (`SendVdm`, `VdmTimeout`, `BusyOver`).  The port's own states
are one variable, `phase`.  A hard reset keeps what is queued and what has been
received, as in the code.  It is one step of both ends: a reset the port executes
takes VBUS away (`pd_power_supply_reset()`), so the partner cannot miss it.  A reset of
the partner that the port misses (`usb_pd_tcpc.c:424`) is not in this module, and
InStep says nothing of it.  A report of the display (the DisplayPort status, an
attention) carries its level and an IRQ bit; `Attention` handles the four cases of
`svdm_dp_attention()`, with the HPD pulse of an IRQ, which ends high, as no change.
`Room` is the limit of `pe.svids`.  `Receive` handles a message; the partner answers each
request once, perhaps late (`VdmTimeout(TRUE)`).  Each thing that goes wrong
counts against `MaxIrregular`.  `clean` and `forgotten` are history variables: no
VDM of the port has been lost in this connection, and modes were cleared without
having been exited, or entered again under a display (until the output is switched
off after all).  `MCAltMode` lists four partners: two displays, one of them
behind another SVID, a DisplayPort source and a plain device.

`Uart` models the output ring, from `__tx_char()` in three steps (`TxNext`,
`TxStore`, `TxAdvance`) to the DMA (`DmaByte`), the transmitter (`TxComplete`)
and the interrupt, in two halves (`IrqInput`, `IrqOutput`), since the hardware
goes on between its two looks at the flag TC; and the input ring up to the loop
of `console_task()`.  Writers are tasks by priority; a task that flushes spins.
Characters are numbered as they are accepted, so that order, loss and repeats
show.  Once two calls of `__tx_char()` have overlapped the numbers mean nothing:
`overlap` records it and freezes them, and the rest goes on.

`Editor` is the console as its user sees it: a line with a cursor, a key at a
time, a history, a draft.  `Console` is `console_handle_char()` with its arrays,
fed with the characters a terminal sends for each key; it implements `Editor`
with the history ring read backwards from `history_next`.  The terminal is
external: it sends whole escape sequences, and one that ends a line with CR does
not end the next with LF.  What parsing a command leaves in the line is open: any
of its characters may have become NUL.

`TaskProofs`, `TimerProofs`, `HooksProofs`, `PdPortProofs`, `TcpcProofs`, `UartProofs`,
`ConsoleProofs` and `AltModeProofs` hold the theorems about the modules they are named after.

A definition named as a mutant in its comment is a plausible wrong version of
the definition below it; no specification uses it.  It is there to see that
the property which guards against that mistake does find it.

## Runs

| Run | Checks | Shows |
|---|---|---|
| kernel | NoLostWakeup, NoStrayTimerEvent, ArmSucceeds, NoEventLost, HighestPriorityRuns, MutualExclusion, NoSleeperOnFreeMutex | HOOKS and one task above it, one event, one mutex; 0.8 M states |
| kernel_live | TopTaskGetsMutex, TopTaskWakes | liveness of the highest priority task |
| timer | TypeOK, GetTimeExact, NeverEarly, OverdueIsRequested | two tasks, two epochs of 4 ticks; 5 M states |
| timer_live | TimerFires | one task, three epochs, timeouts longer than an epoch |
| hooks | TypeOK, SleepsNoLonger, CalledOnRequest, RequestServed | two routines, two ticks |
| pd_port | TypeOK, VbusAttached, NoPowerToOpenPort, PoweredListens, ContractConnected, TimersArmed | eight kinds of message and hard resets at any moment, failing transmissions, unplugging; a cable in the second orientation; 5.3 M states |
| pd_live | UnpluggedOff, VdmGivenUp | refused requests, VDMs unanswered or answered busy, an audio accessory; a cable in the first orientation; 0.2 M states |
| timer_race | GetTimeExact | violated, see below |

The runs of the port controller, the UART, the console and the alternate mode:

| Run | Checks | Shows |
|---|---|---|
| tcpc | NeverDeaf, SenderSpec, ReceiverSpec, TransmitEnds | `Tcpc` implements `LinkOut` and `LinkIn`, on a line that loses and damages frames, with collisions, resets and new connections; 0.9 M states |
| altmode | HpdBacked, InStep, HpdFollows | four partners, three irregular events, two events of the display, each a new level, an IRQ or both; 0.2 M states |
| uart | SentInOrder, InputWakes, AllSent, FlushWaits, InputHandled | two writers that overlap or not, five characters through a ring of four; 0.4 M states |
| console | TypeOK, EditorSpec | `Console` implements `Editor`, for every sequence of keys; lines of two characters, a history of three; 3.1 M states |

Bounds.  Two client tasks are enough for every pair of a poster and a
receiver, of an owner and a waiter, with interrupts as a third actor; a mutex
that three and more tasks contend for, and notifications from an old snapshot
of its waiters, are covered by the theorems `MutexSafe` and `FreeMutexWakes`,
which hold for any number of tasks.  `WaitFlags` is {FALSE}: lgvr calls
`task_set_event()` with wait=0 only.  Four ticks per epoch leave room for a
deadline before, at and after the overflow and for 0xffffffff (`MaxLo`), and
`Horizon` covers two or three overflows; the time bound ends a behaviour, so
deadlock is not checked for `Timer` and `Hooks`.  `Hooks` takes delays 0 and 2
against a tick of 3, so that requests fall before and after the next tick.
Liveness properties leave out requests whose time is past the horizon.  The PD
runs take 1 for `PD_CAPS_COUNT` (50), 0 for `PD_HARD_RESET_COUNT` (2) and 0 or
1 for `PD_SNK_CAP_RETRIES` (3): every counter is below, at and reset from its
limit, and none of the properties depends on more.  When the next
SOURCE_CAPABILITIES is due (`next_src_cap`) and whether the role checks of the
ready state are pending are left open.  The kinds of message are divided: `pd_port`
has those with most paths through the port, `pd_live` the refused request and
the VDM.

`Tcpc` takes three message ids (8), one retry (3) and a ring of two slots, which
are the sizes at which a repeat is told from a new message, an attempt is the
first, a middle or the last one, and the ring is full or empty (its real size is
two slots as well); two messages in either direction.  Any number of resets,
connections and losses may occur.  `Uart` wraps its ring once; strings of two and
three characters against three free slots make the buffer overflow, and the
bounds on characters end a behaviour, so deadlock is not checked.  `Console` has
no bound but its sizes: two different characters show every order.  `AltMode`
allows three irregular events, plugging in among them: a swap to the other data
role and back, or a hard reset and a late answer, in one connection.  `SVID_DISCOVERY_MAX` (16) is 2, as many SVIDs as a partner of the
run has in its one message: to get beyond it takes a second answer to DISCOVER_SVID in
one discovery, which TLC finds with six irregular events and not with three.  The theorems
of `AltModeProofs` have no such bounds.

Fairness.  The timer interrupt and PendSV are hardware: weak fairness.  Tasks
get strong fairness, i.e. the load above them leaves time again and again,
which the EC's tasks do by waiting in every loop.  The client's own calls are
not fair, but for leaving a critical section.  `PdPort`'s `FairSpec`: the PD
task, the highest priority task of the image, goes on (weak fairness); a
timeout or VDM deadline that it keeps waiting for passes; and, for
`HardResetGoesOut` only of use, a transmission that is tried again and again
with the receiver on succeeds again and again (strong fairness).  Nothing is
assumed of the partner or of the cable.  `Tcpc`: the PD task goes on inside
`tcpc_run()`, where every wait has a timeout (weak fairness); nothing is assumed
of the line.  `Uart`: the CPU goes on, the interrupt before the tasks, and so do
DMA and transmitter (weak fairness).  `AltMode`: the PD task goes round its loop
and the partner answers (weak fairness); deadlines pass, and the states of
connecting, negotiating and disconnecting come to an end, although the message
traffic may interrupt them (strong fairness).  HpdFollows is void once the cable
is pulled, so plugging in needs no fairness.

## Disagreements with the repository's own text

* `__hw_clock_source_irq()` clears the whole status register after reading it,
  and loses an overflow that falls in between (run `timer_race`).

Stated in a module and refuted by TLC, without a run in this project; the
properties can be checked with the constants given:

* `hook_call_deferred()` between the hook task's test and its clearing of the
  time is overwritten: the routine runs early, or after a cancellation.
  `include/hooks.h:242`: "The routine will be called after at least the specified
  delay".  `Hooks`: AfterDelay under `FairSpec`, with one routine, a tick of 3, a
  second of 4, delays {0, 2}, `MaxLag` 2 and `Horizon` 6.
* "Debounce the cc state" (`usb_pd_protocol.c:3058`): the deadline is a constant
  in the past, because `?:` binds weaker than `+`; VBUS is switched on at the
  second look.  `PdPort`: CcDebounced under `Spec`, `Types` {"REQUEST"}, `Lines`
  {"OPEN", "CC1"}, the three counters 1, 0 and 0.
* "Do not continue until hard reset recovery time" (`usb_pd_protocol.c:3138`): a
  hard reset received inside `pd_transmit()` is overridden by the state the
  transmitting handler sets next, and messages are handled during the recovery.
  `PdPort`: RecoversFirst, with the same constants.
* "try sending hard reset until it succeeds" (`usb_pd_protocol.c:4031`): a message
  left in the receive buffer by the last connection leads to `HARD_RESET_SEND`
  with the receiver off, where nothing can be sent; a sink attached then is not
  powered until it is pulled again.  `PdPort`: HardResetGoesOut under `FairSpec`,
  `Types` {"IGNORED"} and the other constants as before.
* "exiting all entered modes then clearing state.  This occurs when we've
  disconnected" (`usb_pd_policy.c:561`): `dfp_consume_identity()` clears the modes
  without exiting them.  A second DISCOVER_IDENTITY, after two data role swaps or
  because a VDM of before a hard reset is still queued, makes the port forget that
  DisplayPort is on; when the cable is pulled, nobody lowers HPD.  `AltMode`:
  NoDisplayLeft under `Spec`, with the constants of `AltMode.cfg`; HpdBacked is the
  property with this case excepted.
* "@return 0 if the character was transmitted, 1 if it was dropped"
  (`uart_buffering.c:58`): a task that prints while it preempts another one inside
  `__tx_char()` writes to the same slot, and the preempted one then sets
  `tx_buf_head` back: characters that were accepted are lost, or old ones are sent
  again.  The transmitter recovers from it (AllSent).  `Uart`: `~overlap` is not an
  invariant; SentInOrder excepts what follows.
* "If the buffer overflows, the oldest input in the buffer is discarded to make
  room for the new input" (`include/uart.h:85`): `uart_process_input()` drops the new
  input and keeps the old (`uart_buffering.c:210`).  `Uart`: NewInputKept under
  `FairSpec`, with the constants of `Uart.cfg`; InputHandled is about the characters
  that were stored.

Met while modelling, without a property:

* The port reuses a message id after a message that was delivered and reported as
  failed (its GoodCRCs were lost), and after resetting its own ids by a hard reset
  the partner did not hear: the partner acknowledges the next message and discards
  it as a repeat.  This is `doubt` in `LinkOut`.
* A hard reset that is received while a GoodCRC is awaited counts as no answer
  (`usb_pd_tcpc.c:424`) and is lost; one that is received by the `tcpc_run()` of
  `pd_transmit()` resets `msg_id` while the message with the old id is still sent.
* A collision leaves the edge interrupt on while a frame is being sampled: it is
  sampled again from its middle; and `prepare_message()` writes into the buffer of a
  frame that is coming in before `pd_start_tx()` tests for it.
* In `pd_svdm()`, the refusal of a partner's command takes the place of a VDM that
  is queued or waits for a busy partner, and nothing starts the discovery again;
  nor does anything after a VDM that failed or timed out.  A low level that follows
  a high one before the configuration is forgotten; and of a report with the IRQ bit
  the level is ignored, so that HPD stays high when the display goes, and low when it
  comes (`ERR:HPD:IRQ&LOW`), until the next report.  HpdFollows excepts these cases
  (`Overwrites` and `IgnoresLevel` in `AltMode`).  A retry after BUSY is sent without its
  data objects.  A hard reset does not restore the data role.
* "make DP interface safe until configure" (`board/lgvr/usb_pd_policy.c:116`):
  `svdm_safe_dp_mode()` leaves HPD as it is, and `allocate_mode()` does not look for a
  slot that DisplayPort has already.  When a DISCOVER_MODES of the same discovery is
  answered twice, the mode is entered again with HPD high.  It takes eight irregular
  events, see Proofs; no run reaches it.
* `dfp_consume_svids()` takes SVIDs in pairs and tests for `i == SVID_DISCOVERY_MAX`:
  once repeated answers have made the count odd, a pair steps over the limit (`Room` in
  `AltMode`; no run reaches it, see Bounds).
* `get_mode_idx()` reads through a NULL pointer for every slot that is not in use,
  i.e. the first words of the flash; the model takes that for no match.
* `uart_puts()` returns success if just the last character was dropped, `uart_put()`
  an overflow if none was (`len` ends at -1).
* After a lone ESC the console swallows all keys, Enter too, up to a letter or `~`.
* `task_set_event(..., wait=1)` with an event pending for the caller never
  schedules the receiver, although `include/task.h` promises an immediate
  switch to a higher priority receiver: the caller's wait returns before its
  `__schedule(1, tskid)`.  The lgvr image does not use `wait=1`; `test/mutex.c`
  and `test/pingpong.c` do.  With TRUE in `WaitFlags`, TLC shows it as a
  violation of NoLostWakeup.
* `mutex_unlock()`'s "Ensure no event is remaining from mutex wake-up" does not
  hold with three tasks: a preempted unlocker notifies from an old snapshot,
  and the next wait of the task it notifies returns once too often.
* `task_wait_event_mask()` without a timeout can return `TASK_EVENT_TIMER`: its
  `time_remaining_us` wraps after 2^31 us (`wraps` in `CollectEvents`).
* A second REQUEST in `SRC_ACCEPTED` clears the state's timeout, and the handler
  does not start it again: "Accept sent, wait for enabling the new voltage"
  never ends on its own, so TimersArmed leaves this state out.  A soft reset in
  `SRC_DISCOVERY` cancels the NoResponse timer in the same way.

## Proofs

Every invariant below was first checked with TLC as an invariant of the module's
run.  Each step lemma (`TypeStep`, `MutexStep`, ...) has one step per action.

`TaskProofs` proves, for every number of tasks from 2 up, every set of mutexes
and every set of events (`TaskAssumption`):

* `TypeCorrect`: the type invariant, which no run repeats.
* `PriorityCorrect`: HighestPriorityRuns.  It needs that some task is always
  ready and enabled, so that `Fls` (a CHOOSE) is a member of the bitmap:
  `SchedInv` (IDLE is ready and enabled once the scheduler has started, HOOKS
  before) and the lemmas `MaxExists` and `FlsMember`, which prove by induction
  on the bound that a non-empty bitmap has a highest bit; and `EnableInv`, that
  only the hook task is ever inside `task_enable_all_tasks()`.
* `MutexSafe`: MutualExclusion.  The strengthening `MutexInv` says that an
  owned mutex has its lock field set and that a task inside `mutex_lock()` is
  among the waiters; `CallInv` ties each kernel position to the calls that can
  be there.
* `TimeoutsConfined` and `ArmsFreeTimer`: NoStrayTimerEvent and ArmSucceeds, from
  `TimerInv`: a timer runs only between the arming and the cancelling of a timed
  wait.
* `EventsKept`: NoEventLost, from `CallInv`'s facts about which local event sets
  are empty where.
* `WakeupsKept`: NoLostWakeup, for callers that pass wait=0 only (it fails
  without this assumption, see above); `WakeInv` adds that a pending
  `__schedule(0, u)` is always the poster's next step.
* `FreeMutexWakes`: NoSleeperOnFreeMutex, from `SleepInv`, which extends it to
  every position of the wait inside `mutex_lock()`.

`TimerProofs`, for any tasks, any length of an epoch and any timeouts, provided
that two interrupt latencies fit into an epoch (`2 * IrqTicks <= Epoch`; on the
chip microseconds against 71 minutes).  `TypeCorrect` holds as it is; the others
assume `StatusRace = FALSE`, since the run `timer_race` shows that they fail
without it:

* `ClockIsExact`: GetTimeExact.  `ClockInv` says that `clksrc_high` is right but
  for one overflow that is flagged and not counted yet; `GetTimeInv` says, for each
  position in `get_time()`, which times its reads can still add up to.
* `NoTimerIsEarly`: NeverEarly, from `DeadlineInv`: an armed deadline is not before
  the start of the call plus the timeout.
* `NoMatchIsMissed`: OverdueIsRequested, from `ScanInv` (what the scan of
  `process_timers()` has found so far still bounds the timers it has passed) and
  `MatchInv` (between interrupts every armed timer is at `next_deadline` or later,
  and the counter has not passed it without a flag).

`HooksProofs`, for any routines, delays, tick and second: `TypeCorrect`;
`SleepsInTime`, i.e. SleepsNoLonger, from `ScanInv`: what the scan has found bounds
all requests it has passed, unless `defer_new_call` or the wake-up says that a new
one came in; `CallsAnswerRequests`, i.e. the action property CalledOnRequest, from
`RequestInv`: a time in `__deferred_until` belongs to a request.

`PdPortProofs`, for any message kinds, CC lines and limits of the counters:
`TypeCorrect`; `DetachedIsOff` (VbusAttached), `ContractEnds` (ContractConnected),
`PowerIsHeard` (PoweredListens) and `OpenIsOff` (NoPowerToOpenPort) from one
invariant, `PortInv`.  Its central part is `DeafInv`: with the receiver off the port
is not only without power, but in no state from which a handler leads to power, as
no transmission succeeds.  `WaitsEnd` (TimersArmed) needs `ArmInv`, which follows
the timeout from the handler that starts it through transmissions, receptions and
resets to the end of the round.

`TcpcProofs`, for any numbers of retries, ids, messages and slots:

* `NotDeaf`: NeverDeaf, from `PhyInv` and `TaskInv`.
* `SenderRefines`: `Tcpc` implements `LinkOut`.  The heart is `AnswerInv`: a GoodCRC
  that is owed or on its way answers the message that is being sent, or the ids are
  in doubt.  Each step of the task, the line and the partner is then a step of
  `LinkOut` or leaves its variables alone.
* `ReceiverRefines`: `Tcpc` implements `LinkIn`, with the ring read from its tail
  (`Inbox`); `RingFacts` has the arithmetic of the ring, `ReceiveInv` says that the
  frame being acknowledged is the one in the slot before the head.

`UartProofs`, for any sizes of the buffers, writers and strings: `InputIsNoticed`
(InputWakes) from `LookInv`; `OutputInOrder` (SentInOrder) from `BlockInv` (the block
the DMA sends begins at the tail and does not wrap), `ContentInv`, `SentInv` and
`CallInv` (what a preempted `__tx_char()` has found out still holds); and
`FlushIsComplete`, the action property FlushWaits.  SentInOrder and FlushWaits are void
once two writers have overlapped; that the transmitter recovers is AllSent.

`ConsoleProofs`, for any length of the line and of the history and any printing
characters other than the ones escape sequences consist of:

* `TypeCorrect`: no write outside of `input_buf` or the history.  TypeOK is not
  inductive: the length of a history line is that of a string in `input_buf`, so
  the invariant (`LineInv`) is that the first NUL is at `input_len`.
* `EditorRefined`: `Console` implements `Editor`.  Three parts: what each operation
  does to the string on either side of the cursor (`Inserted`, `Removed`, `Cut`,
  `OneLeft`, `OneRight`, over `memmove`, `strzcpy` and `strlen` as they are); the ring
  of the history read backwards (`Recalled`, `Remembered`); and `KeyInv`, which says
  what may still come in for each state of `handle_esc()`, so that the last character
  of a key makes it known (`Understood`) and no earlier one does anything.

`AltModeProofs`, for any partners, any number of slots for modes and any number of
irregular events: `TypeCorrect`, `DisplayIsBacked` (HpdBacked) and `PartnerInStep`
(InStep).  What the port and the partner agree on depends on the VDM that is queued,
the request that is being answered and the message that has been received, any of
which may be left over from before a reset.  `QueueInv` and `RequestInv` say that a
left-over command of the mode entry is gone before a new discovery has found an
SVID; `StageInv`, that from then on the entry is in exactly one of the three places
or over, as long as the mode is entered once; `OffInv` and `SilentInv`, that a
disconnected port receives at most one old answer, too few to enter a mode.  The
proof changed both properties.  As they stood they held for the three irregular
events of the run and for five, but not for eight: with enough late answers a second
DISCOVER_MODES is acknowledged in the same discovery, and the mode is entered again
in a second slot while HPD is high or the first configuration is on its way.
`forgotten` and InStep's second part now except that.

Model-checked only.  Liveness (TopTaskGetsMutex, TopTaskWakes, TimerFires,
RequestServed, UnpluggedOff, VdmGivenUp, TransmitEnds, AllSent, InputHandled,
HpdFollows): the prover has no ENABLED.

## Not modelled

* The sniffer, which only the RW image has.  `sniffer_task()` takes nothing out of
  the sample buffers (`filled_dma` is set and never cleared), so that beyond the DMA
  handlers there is no protocol to check; `wait_packet()` adds `RX_COUNT - nb` where
  an edge count of the buffer would be needed, and the second receive timer is also
  the system clock.  `simpletrace.c` is not built.
* Sysjump: the console command is the one way to it, and the data it hands over are
  read once, before tasks run.  Queues: nothing in the image uses them.
* Of the PD port: the states SOFT_RESET, DR_SWAP, BIST_RX, BIST_TX and SUSPENDED and
  the pings, to which nothing in this image leads (`pd_soft_reset()`,
  `pd_request_data_swap()` and `pd_ping_enable()` are called by console and host
  commands that lgvr does not build), so that ACCEPT, REJECT and WAIT are ignored
  messages; `pd_board_checks()` and `pd_set_power_supply_ready()`, which cannot fail
  on this board.  `PdPort`, `Tcpc` and `AltMode` cut the port at different places:
  `PdPort` lets any transmission fail and any message be repeated, which is what
  the links allow, and any answer of `pd_svdm()`; their product is out of TLC's reach.
* Of the phy: symbols, CRC, preambles and the timing of edges.  A frame arrives
  whole, damaged or not at all.
* Of the alternate mode: DP_STATUS and DP_CONFIG commands sent by the partner (lgvr
  has no responder functions, `svdm_rsp.amode` is NULL), unstructured VDMs, more than
  the SVIDs of one message, how long the pulse of an HPD IRQ lasts and the wait before
  it, and a hard reset of the partner that the port misses.
* Of UART and console: printing from interrupts, `printf` formatting, the commands
  themselves, snapshots for a host, changes of the clock.
* In the other files: task profiling, console commands, NVIC and stack set-up, the
  watchdog, `force_time()`, `timer_sysjump()`, hook statistics.  64-bit loads and
  stores of `__deferred_until` and `timer_deadline` are one step in the models; on the
  chip they are two words (`timer_deadline` is written while its timer is not running,
  so nobody reads it then; `__deferred_until` is read by the hook task while callers
  write it).

The map covers what lgvr runs.  Almost all of the repository's 1505 source files are
the Chromium EC for other boards, chips, cores and hosts (register definitions,
`ectool`, charging, keyboards, sensors, cryptography): they are not linked into this
product, and a model of them would say nothing about it.

## Plan

1. `Sysjump`: the tags the images hand to each other, the clock among them.
