-------------------------------- MODULE Task --------------------------------
(***************************************************************************)
(* The cortex-m0 kernel of the EC (core/cortex-m0/task.c and switch.S):    *)
(* the priority scheduler, task events, blocking waits with and without a  *)
(* timeout, usleep() and mutexes.                                          *)
(*                                                                         *)
(* There is one CPU.  A task step below is what the CPU does between two   *)
(* points where an interrupt can get in, i.e. one atomic_xxx() operation,  *)
(* one cpsid/cpsie section or one svc.  Interrupt handlers are atomic: the *)
(* handlers only post events.  What a task does between two kernel calls   *)
(* is left open: in its own code (pc = "run") it may make any call of the  *)
(* kernel's interface, in any order the interface allows.                  *)
(***************************************************************************)
EXTENDS Naturals

CONSTANTS
    TASK_ID_COUNT,   \* number of tasks; an id is also the task's priority
    Mutexes,         \* the mutexes of the image
    UserEvents,      \* the events other than TASK_EVENT_MUTEX and _TIMER
    WaitFlags        \* the values callers pass as task_set_event()'s "wait"

\* TASK_ID_IDLE and TASK_ID_HOOKS exist in every image.
ASSUME TaskAssumption ==
    /\ TASK_ID_COUNT \in Nat
    /\ TASK_ID_COUNT >= 2
    /\ "MUTEX" \notin UserEvents
    /\ "TIMER" \notin UserEvents
    /\ WaitFlags \subseteq BOOLEAN

Tasks == 0 .. TASK_ID_COUNT - 1
IDLE == 0
HOOKS == 1
\* current_task before the first switch: the scratchpad is no task's context.
Scratchpad == TASK_ID_COUNT
\* The tasks whose code may call the kernel: __idle() only executes wfi.
Clients == Tasks \ {IDLE}
Events == UserEvents \cup {"MUTEX", "TIMER"}

VARIABLES
    start_called,    \* task_start() has set up the first switch
    current_task,    \* the task the CPU runs
    tasks_ready,     \* bitmap of ready tasks
    tasks_enabled,   \* bitmap of tasks that may run
    pendsv,          \* the PendSV exception is pending
    events,          \* tasks[t].events
    timer_running,   \* the tasks whose timer is armed (timer.c)
    lock,            \* mutex m: its lock field is not 0
    waiters,         \* mutex m: its waiters bitmap
    pc,              \* where task t is in the kernel; "run" is outside
    op,              \* the interface call task t is in
    timed,           \* __wait_evt()'s timeout_us > 0
    slept,           \* the wait without a timeout t is in has given up the CPU
    resched,         \* __schedule()'s second argument
    evt,             \* __wait_evt()'s result
    got,             \* task_wait_event_mask()'s and usleep()'s events
    mask,            \* task_wait_event_mask()'s event_mask
    mtx,             \* the mutex of mutex_lock()/mutex_unlock()
    snap,            \* mutex_unlock()'s copy of the waiters
    holds,           \* the mutexes whose critical section t's code is in
    owed             \* history: events posted to t that t's code has not got

schedVars == <<start_called, current_task, tasks_ready, tasks_enabled, pendsv>>
mutexVars == <<lock, waiters, holds>>
waitVars == <<timed, slept, evt, got, mask>>
unlockVars == <<mtx, snap>>
vars == <<schedVars, events, timer_running, mutexVars, pc, op, waitVars,
          resched, unlockVars, owed>>

PCs == {"run", "arm", "read", "svc", "cancel", "clear", "ret", "repost",
        "resched", "try", "locked", "notify"}
Ops == {"none", "wait", "mask", "forever", "usleep", "set", "enable", "lock",
        "unlock"}

Init ==
    /\ start_called = FALSE
    /\ current_task = Scratchpad
    /\ tasks_ready = {HOOKS}
    /\ tasks_enabled = {HOOKS, IDLE}
    /\ pendsv = FALSE
    /\ events = [t \in Tasks |-> {}]
    /\ timer_running = {}
    /\ lock = [m \in Mutexes |-> FALSE]
    /\ waiters = [m \in Mutexes |-> {}]
    /\ pc = [t \in Tasks |-> "run"]
    /\ op = [t \in Tasks |-> "none"]
    /\ timed = [t \in Tasks |-> FALSE]
    /\ slept = [t \in Tasks |-> FALSE]
    /\ resched = [t \in Tasks |-> IDLE]
    /\ evt = [t \in Tasks |-> {}]
    /\ got = [t \in Tasks |-> {}]
    /\ mask = [t \in Tasks |-> {}]
    /\ mtx \in [Tasks -> Mutexes]
    /\ snap = [t \in Tasks |-> {}]
    /\ holds = [t \in Tasks |-> {}]
    /\ owed = [t \in Tasks |-> {}]

-----------------------------------------------------------------------------
(* The scheduler *)

\* __fls(): the most significant bit of a bitmap, the highest priority task.
Fls(S) == CHOOSE i \in S : \A j \in S : j <= i

\* Mutant of ReadyAfter: the events are not looked at again before sleeping.
ReadyAfterNoRecheck(t, desched, r) ==
    (IF desched THEN tasks_ready \ {t} ELSE tasks_ready) \cup {r}

\* Mutant of ReadyAfter: the task to be rescheduled is not made ready.
ReadyAfterNoResched(t, desched, r) ==
    IF desched /\ events[t] = {} THEN tasks_ready \ {t} ELSE tasks_ready

\* The ready bitmap __svc_handler() computes for the running task t.
ReadyAfter(t, desched, r) ==
    (IF desched /\ events[t] = {} THEN tasks_ready \ {t} ELSE tasks_ready)
        \cup {r}

\* __svc_handler(): drop t if it asked to be descheduled and still has no
\* event, make r ready, and run the highest priority task.
SvcHandler(t, desched, r) ==
    /\ tasks_ready' = ReadyAfter(t, desched, r)
    /\ current_task' = Fls(ReadyAfter(t, desched, r) \cap tasks_enabled)

\* Task t can take its next step: it has the CPU and no PendSV is about to
\* be taken (exceptions are taken before the next instruction).
Running(t) ==
    /\ start_called
    /\ current_task = t
    /\ ~pendsv

\* Task t goes from the kernel position "from" to the position "to".
Step(t, from, to) ==
    /\ Running(t)
    /\ pc[t] = from
    /\ pc' = [pc EXCEPT ![t] = to]

\* task_start(): the first switch, away from the scratchpad.
TaskStart ==
    /\ ~start_called
    /\ start_called' = TRUE
    /\ tasks_ready' = tasks_ready \cup {IDLE}
    /\ current_task' = Fls(tasks_ready' \cap tasks_enabled)
    /\ UNCHANGED <<tasks_enabled, pendsv, events, timer_running, mutexVars,
                   pc, op, waitVars, resched, unlockVars, owed>>

\* pendsv_handler(): reschedule without descheduling anyone.
PendSV ==
    /\ pendsv
    /\ pendsv' = FALSE
    /\ SvcHandler(current_task, FALSE, IDLE)
    /\ UNCHANGED <<start_called, tasks_enabled, events, timer_running,
                   mutexVars, pc, op, waitVars, resched, unlockVars, owed>>

\* Mutant of IrqPost: PendSV is not triggered.
IrqPostNoPendSV(u, e) ==
    /\ events' = [events EXCEPT ![u] = @ \cup {e}]
    /\ tasks_ready' = tasks_ready \cup {u}
    /\ UNCHANGED <<start_called, current_task, tasks_enabled, pendsv>>

\* task_set_event() in interrupt context: the receiver becomes ready at once
\* and the switch is left to PendSV.
IrqPost(u, e) ==
    /\ events' = [events EXCEPT ![u] = @ \cup {e}]
    /\ tasks_ready' = tasks_ready \cup {u}
    /\ pendsv' = (pendsv \/ start_called)
    /\ UNCHANGED <<start_called, current_task, tasks_enabled>>

\* An interrupt handler posts a user event.
IrqSetEvent(u, e) ==
    /\ IrqPost(u, e)
    /\ owed' = [owed EXCEPT ![u] = @ \cup {e}]
    /\ UNCHANGED <<timer_running, mutexVars, pc, op, waitVars, resched,
                   unlockVars>>

\* expire_timer(), called from the timer interrupt.
ExpireTimer(u) ==
    /\ u \in timer_running
    /\ timer_running' = timer_running \ {u}
    /\ IrqPost(u, "TIMER")
    /\ UNCHANGED <<mutexVars, pc, op, waitVars, resched, unlockVars, owed>>

\* The bitmap (1 << TASK_ID_COUNT) - 1.
AllTasks == Tasks

\* task_enable_all_tasks(), called by the hook task after HOOK_INIT: the
\* assignments; the __schedule(0, 0) that ends it is Resched.
EnableAll ==
    /\ tasks_enabled # Tasks
    /\ Step(HOOKS, "run", "resched")
    /\ op' = [op EXCEPT ![HOOKS] = "enable"]
    /\ tasks_ready' = AllTasks
    /\ tasks_enabled' = AllTasks
    /\ UNCHANGED <<start_called, current_task, pendsv, events, timer_running,
                   mutexVars, waitVars, resched, unlockVars, owed>>

-----------------------------------------------------------------------------
(* task_set_event() in task context *)

\* The event is set; "wait" decides between __wait_evt(-1, u), which passes
\* u on to __schedule(1, u), and __schedule(0, u).
SetEvent(t, u, e, wait) ==
    /\ Step(t, "run", IF wait THEN "read" ELSE "resched")
    /\ op' = [op EXCEPT ![t] = IF wait THEN "wait" ELSE "set"]
    /\ events' = [events EXCEPT ![u] = @ \cup {e}]
    /\ resched' = [resched EXCEPT ![t] = u]
    /\ owed' = [owed EXCEPT ![u] = @ \cup {e}]
    /\ UNCHANGED <<schedVars, timer_running, mutexVars, waitVars, unlockVars>>

\* __schedule(0, resched), after which task_set_event() returns to its
\* caller: the next waiter of mutex_unlock() or the task's own code.
Resched(t) ==
    /\ Step(t, "resched", IF op[t] = "unlock" THEN "notify" ELSE "run")
    /\ op' = [op EXCEPT ![t] = IF @ = "unlock" THEN @ ELSE "none"]
    /\ SvcHandler(t, FALSE, resched[t])
    /\ resched' = [resched EXCEPT ![t] = IDLE]
    /\ UNCHANGED <<start_called, tasks_enabled, pendsv, events, timer_running,
                   mutexVars, waitVars, unlockVars, owed>>

-----------------------------------------------------------------------------
(* Waiting *)

\* Where __wait_evt() begins.
WaitEntry(tmo) == IF tmo THEN "arm" ELSE "read"

\* task_wait_event(): __wait_evt(timeout_us, TASK_ID_IDLE).
WaitEvent(t, tmo) ==
    /\ Step(t, "run", WaitEntry(tmo))
    /\ op' = [op EXCEPT ![t] = "wait"]
    /\ timed' = [timed EXCEPT ![t] = tmo]
    /\ UNCHANGED <<schedVars, events, timer_running, mutexVars, slept,
                   evt, got, mask, resched, unlockVars, owed>>

\* task_wait_event_mask(), with a timeout or ("forever") without one:
\* TASK_EVENT_TIMER is added to the mask.
WaitEventMask(t, m, tmo) ==
    /\ Step(t, "run", WaitEntry(tmo))
    /\ op' = [op EXCEPT ![t] = IF tmo THEN "mask" ELSE "forever"]
    /\ timed' = [timed EXCEPT ![t] = tmo]
    /\ mask' = [mask EXCEPT ![t] = m \cup {"TIMER"}]
    /\ UNCHANGED <<schedVars, events, timer_running, mutexVars, slept,
                   evt, got, resched, unlockVars, owed>>

\* usleep(): a loop of timed task_wait_event() that re-queues every event
\* but TASK_EVENT_TIMER, i.e. waits for that event alone.
Usleep(t) ==
    /\ Step(t, "run", "arm")
    /\ op' = [op EXCEPT ![t] = "usleep"]
    /\ timed' = [timed EXCEPT ![t] = TRUE]
    /\ mask' = [mask EXCEPT ![t] = {"TIMER"}]
    /\ UNCHANGED <<schedVars, events, timer_running, mutexVars, slept,
                   evt, got, resched, unlockVars, owed>>

\* __wait_evt(): timer_arm(deadline, me).
TimerArm(t) ==
    /\ Step(t, "arm", "read")
    /\ timer_running' = timer_running \cup {t}
    /\ UNCHANGED <<schedVars, events, mutexVars, op, waitVars, resched,
                   unlockVars, owed>>

\* __wait_evt(): evt = atomic_read_clear(&tsk->events).
ReadClear(t) ==
    /\ Step(t, "read", IF events[t] = {} THEN "svc"
                       ELSE IF timed[t] THEN "cancel" ELSE "ret")
    /\ evt' = [evt EXCEPT ![t] = events[t]]
    /\ events' = [events EXCEPT ![t] = {}]
    /\ UNCHANGED <<schedVars, timer_running, mutexVars, op, timed, slept, got,
                   mask, resched, unlockVars, owed>>

\* __wait_evt(): __schedule(1, resched); resched = TASK_ID_IDLE.
Deschedule(t) ==
    /\ Step(t, "svc", "read")
    /\ SvcHandler(t, TRUE, resched[t])
    /\ slept' = [slept EXCEPT ![t] = op[t] \in {"forever", "lock"}]
    /\ resched' = [resched EXCEPT ![t] = IDLE]
    /\ UNCHANGED <<start_called, tasks_enabled, pendsv, events, timer_running,
                   mutexVars, op, timed, evt, got, mask, unlockVars, owed>>

\* Mutant of TimerCancel: the timer is left running.
TimerCancelForgotten(t) ==
    /\ Step(t, "cancel", "clear")
    /\ UNCHANGED <<schedVars, events, timer_running, mutexVars, op, waitVars,
                   resched, unlockVars, owed>>

\* __wait_evt(): timer_cancel(me).
TimerCancel(t) ==
    /\ Step(t, "cancel", "clear")
    /\ timer_running' = timer_running \ {t}
    /\ UNCHANGED <<schedVars, events, mutexVars, op, waitVars, resched,
                   unlockVars, owed>>

\* Mutant of ClearTimer: an expiry that beat timer_cancel() stays pending.
ClearTimerForgotten(t) ==
    /\ Step(t, "clear", "ret")
    /\ UNCHANGED <<schedVars, events, timer_running, mutexVars, op, waitVars,
                   resched, unlockVars, owed>>

\* __wait_evt(): atomic_clear(&tsk->events, TASK_EVENT_TIMER).
ClearTimer(t) ==
    /\ Step(t, "clear", "ret")
    /\ events' = [events EXCEPT ![t] = @ \ {"TIMER"}]
    /\ UNCHANGED <<schedVars, timer_running, mutexVars, op, waitVars, resched,
                   unlockVars, owed>>

\* __wait_evt() returns to task_wait_event() or task_set_event(), which
\* return its result to the task's code.
WaitReturn(t) ==
    /\ op[t] = "wait"
    /\ Step(t, "ret", "run")
    /\ op' = [op EXCEPT ![t] = "none"]
    /\ timed' = [timed EXCEPT ![t] = FALSE]
    /\ slept' = [slept EXCEPT ![t] = FALSE]
    /\ evt' = [evt EXCEPT ![t] = {}]
    /\ resched' = [resched EXCEPT ![t] = IDLE]
    /\ owed' = [owed EXCEPT ![t] = @ \ (evt[t] \ events[t])]
    /\ UNCHANGED <<schedVars, events, timer_running, mutexVars, got, mask,
                   unlockVars>>

\* The wait of task t has a timeout: timeout_us > 0.
HasDeadline(t) == op[t] \in {"mask", "usleep"}

\* __wait_evt() returns to the loop of task_wait_event_mask() or usleep():
\* the events are collected, and the loop ends when one of them is in the
\* mask or when "late", the time being up (only when there is a timeout).
\* Without a timeout time_remaining_us, an int, falls below 0 and "wraps"
\* to positive values once the task has slept for 2^31 us: the next
\* __wait_evt() then has a timeout after all.
CollectEvents(t, late, wraps) ==
    /\ op[t] \in {"mask", "forever", "usleep", "lock"}
    /\ late => HasDeadline(t)
    /\ wraps => slept[t] /\ ~HasDeadline(t)
    /\ got' = [got EXCEPT ![t] = @ \cup evt[t] \cup
                  (IF late /\ op[t] = "mask" THEN {"TIMER"} ELSE {})]
    /\ timed' = [timed EXCEPT ![t] = HasDeadline(t) \/ wraps]
    /\ Step(t, "ret", IF late \/ got'[t] \cap mask[t] # {} THEN "repost"
                      ELSE WaitEntry(timed'[t]))
    /\ evt' = [evt EXCEPT ![t] = {}]
    /\ UNCHANGED <<schedVars, events, timer_running, mutexVars, op, slept,
                   mask, resched, unlockVars, owed>>

\* Mutants of Unwanted and WaitExit: events outside the mask are dropped; a
\* woken mutex_lock() takes the wake-up for the lock.
UnwantedDropped(t) == {}
WaitExitAsOwner(t) == IF op[t] = "lock" THEN "locked" ELSE "run"

\* The collected events the caller did not wait for.
Unwanted(t) == got[t] \ mask[t]

\* Where task_wait_event_mask() or usleep() returns to.
WaitExit(t) == IF op[t] = "lock" THEN "try" ELSE "run"

\* The end of task_wait_event_mask() and of usleep(): the other events are
\* posted again, the ones in the mask go to the caller.
Repost(t) ==
    /\ Step(t, "repost", WaitExit(t))
    /\ op' = [op EXCEPT ![t] = IF @ = "lock" THEN @ ELSE "none"]
    /\ events' = [events EXCEPT ![t] = @ \cup Unwanted(t)]
    /\ got' = [got EXCEPT ![t] = {}]
    /\ mask' = [mask EXCEPT ![t] = {}]
    /\ timed' = [timed EXCEPT ![t] = FALSE]
    /\ slept' = [slept EXCEPT ![t] = FALSE]
    /\ owed' = [owed EXCEPT ![t] = @ \ ((got[t] \cap mask[t]) \ events[t])]
    /\ UNCHANGED <<schedVars, timer_running, mutexVars, evt, resched,
                   unlockVars>>

-----------------------------------------------------------------------------
(* Mutexes *)

\* mutex_lock(): atomic_or(&mtx->waiters, id).
MutexLock(t, m) ==
    /\ m \notin holds[t]
    /\ Step(t, "run", "try")
    /\ op' = [op EXCEPT ![t] = "lock"]
    /\ mtx' = [mtx EXCEPT ![t] = m]
    /\ waiters' = [waiters EXCEPT ![m] = @ \cup {t}]
    /\ UNCHANGED <<schedVars, events, timer_running, lock, holds, waitVars,
                   resched, snap, owed>>

\* mutex_lock(): the lock is free, take it with interrupts off.
MutexTake(t) ==
    /\ ~lock[mtx[t]]
    /\ Step(t, "try", "locked")
    /\ lock' = [lock EXCEPT ![mtx[t]] = TRUE]
    /\ UNCHANGED <<schedVars, events, timer_running, waiters, holds, op,
                   waitVars, resched, unlockVars, owed>>

\* mutex_lock(): contention; task_wait_event_mask(TASK_EVENT_MUTEX, 0).
MutexContend(t) ==
    /\ lock[mtx[t]]
    /\ Step(t, "try", "read")
    /\ mask' = [mask EXCEPT ![t] = {"MUTEX", "TIMER"}]
    /\ UNCHANGED <<schedVars, events, timer_running, mutexVars, op, timed, slept,
                   evt, got, resched, unlockVars, owed>>

\* mutex_lock(): atomic_clear(&mtx->waiters, id) and return.
MutexLocked(t) ==
    /\ Step(t, "locked", "run")
    /\ op' = [op EXCEPT ![t] = "none"]
    /\ waiters' = [waiters EXCEPT ![mtx[t]] = @ \ {t}]
    /\ holds' = [holds EXCEPT ![t] = @ \cup {mtx[t]}]
    /\ UNCHANGED <<schedVars, events, timer_running, lock, waitVars, resched,
                   unlockVars, owed>>

\* Mutant of Snapshot: nobody is notified.
SnapshotNone(m) == {}

\* The waiters mutex_unlock() will notify.
Snapshot(m) == waiters[m]

\* mutex_unlock(): free the lock and copy the waiters, with interrupts off.
MutexUnlock(t, m) ==
    /\ m \in holds[t]
    /\ Step(t, "run", "notify")
    /\ op' = [op EXCEPT ![t] = "unlock"]
    /\ mtx' = [mtx EXCEPT ![t] = m]
    /\ snap' = [snap EXCEPT ![t] = Snapshot(m)]
    /\ lock' = [lock EXCEPT ![m] = FALSE]
    /\ holds' = [holds EXCEPT ![t] = @ \ {m}]
    /\ UNCHANGED <<schedVars, events, timer_running, waiters, waitVars,
                   resched, owed>>

\* mutex_unlock(): task_set_event(id, TASK_EVENT_MUTEX, 0) for the highest
\* priority waiter left; its __schedule() is Resched.
MutexNotify(t) ==
    /\ snap[t] # {}
    /\ Step(t, "notify", "resched")
    /\ LET id == Fls(snap[t]) IN
         /\ snap' = [snap EXCEPT ![t] = @ \ {id}]
         /\ events' = [events EXCEPT ![id] = @ \cup {"MUTEX"}]
         /\ resched' = [resched EXCEPT ![t] = id]
    /\ UNCHANGED <<schedVars, timer_running, mutexVars, op, waitVars, mtx,
                   owed>>

\* mutex_unlock(): atomic_clear(&tsk->events, TASK_EVENT_MUTEX) and return.
MutexUnlocked(t) ==
    /\ snap[t] = {}
    /\ Step(t, "notify", "run")
    /\ op' = [op EXCEPT ![t] = "none"]
    /\ events' = [events EXCEPT ![t] = @ \ {"MUTEX"}]
    /\ UNCHANGED <<schedVars, timer_running, mutexVars, waitVars, resched,
                   unlockVars, owed>>

-----------------------------------------------------------------------------
\* A step of task t inside the kernel.
KernelStep(t) ==
    \/ Resched(t)
    \/ TimerArm(t)
    \/ ReadClear(t)
    \/ Deschedule(t)
    \/ TimerCancel(t)
    \/ ClearTimer(t)
    \/ WaitReturn(t)
    \/ \E late, wraps \in BOOLEAN : CollectEvents(t, late, wraps)
    \/ Repost(t)
    \/ MutexTake(t)
    \/ MutexContend(t)
    \/ MutexLocked(t)
    \/ MutexNotify(t)
    \/ MutexUnlocked(t)

\* The code of task t calls the kernel.
ClientCall(t) ==
    \/ \E u \in Clients, e \in UserEvents, w \in WaitFlags : SetEvent(t, u, e, w)
    \/ \E tmo \in BOOLEAN : WaitEvent(t, tmo)
    \/ \E m \in (SUBSET UserEvents) \ {{}}, tmo \in BOOLEAN : WaitEventMask(t, m, tmo)
    \/ Usleep(t)
    \/ \E m \in Mutexes : MutexLock(t, m) \/ MutexUnlock(t, m)

\* Interrupt handlers.
Interrupt ==
    \/ \E u \in Clients, e \in UserEvents : IrqSetEvent(u, e)
    \/ \E u \in Clients : ExpireTimer(u)

Next ==
    \/ TaskStart
    \/ PendSV
    \/ EnableAll
    \/ \E t \in Clients : KernelStep(t) \/ ClientCall(t)
    \/ Interrupt

Spec == Init /\ [][Next]_vars

-----------------------------------------------------------------------------
(* Properties *)

\* Type invariant: every variable of task.c, switch.S and the tasks' frames.
TypeOK ==
    /\ start_called \in BOOLEAN
    /\ current_task \in Tasks \cup {Scratchpad}
    /\ tasks_ready \subseteq Tasks
    /\ tasks_enabled \subseteq Tasks
    /\ pendsv \in BOOLEAN
    /\ events \in [Tasks -> SUBSET Events]
    /\ timer_running \subseteq Tasks
    /\ lock \in [Mutexes -> BOOLEAN]
    /\ waiters \in [Mutexes -> SUBSET Tasks]
    /\ pc \in [Tasks -> PCs]
    /\ op \in [Tasks -> Ops]
    /\ timed \in [Tasks -> BOOLEAN]
    /\ slept \in [Tasks -> BOOLEAN]
    /\ resched \in [Tasks -> Tasks]
    /\ evt \in [Tasks -> SUBSET Events]
    /\ got \in [Tasks -> SUBSET Events]
    /\ mask \in [Tasks -> SUBSET Events]
    /\ mtx \in [Tasks -> Mutexes]
    /\ snap \in [Tasks -> SUBSET Tasks]
    /\ holds \in [Tasks -> SUBSET Mutexes]
    /\ owed \in [Tasks -> SUBSET UserEvents]

\* Task t owns mutex m: mutex_lock() has taken it and mutex_unlock() has not
\* released it.
Owns(t, m) == m \in holds[t] \/ (pc[t] = "locked" /\ mtx[t] = m)

\* mutex_lock()/mutex_unlock(): no two tasks own the same mutex, however the
\* wake-ups of several unlocks and the interrupts interleave.
MutualExclusion ==
    \A t, u \in Tasks, m \in Mutexes : Owns(t, m) /\ Owns(u, m) => t = u

\* task_set_event()/__svc_handler(): a task with a pending event is ready to
\* run, or a poster is on its way to make it ready.  An event that arrives
\* between the read of the events and the svc of __wait_evt() is not slept
\* over.
NoLostWakeup ==
    \A t \in Clients :
        events[t] # {} => t \in tasks_ready \/ \E u \in Clients : resched[u] = t

\* mutex_lock()/mutex_unlock(): a task that waits for a free mutex has been
\* sent TASK_EVENT_MUTEX, or is among the waiters an unlocker has still to
\* notify: nobody sleeps on a free mutex.
NoSleeperOnFreeMutex ==
    \A t \in Clients :
        /\ op[t] = "lock"
        /\ pc[t] \in {"arm", "read", "svc", "cancel", "clear", "ret", "repost"}
        /\ ~lock[mtx[t]]
        => \/ "MUTEX" \in events[t] \cup evt[t] \cup got[t]
           \/ \E u \in Clients : t \in snap[u] /\ mtx[u] = mtx[t]

\* __wait_evt(): TASK_EVENT_TIMER is pending only inside a wait that has a
\* timeout ("Ensure timer event is clear, we no longer care about it"): a
\* late expiry never reaches a later wait.
NoStrayTimerEvent ==
    \A t \in Tasks :
        "TIMER" \in events[t] =>
            timed[t] /\ pc[t] \in {"read", "svc", "cancel", "clear"}

\* __wait_evt(): ASSERT(ret == EC_SUCCESS), timer_arm() never finds the
\* task's timer still running.
ArmSucceeds == \A t \in Tasks : pc[t] = "arm" => t \notin timer_running

\* task_set_event(), task_wait_event_mask(), usleep(), mutex_lock(): an event
\* posted to a task and not yet returned to its code is pending or held by
\* the wait in progress, whatever the task was waiting for meanwhile.
NoEventLost ==
    \A t \in Tasks : owed[t] \subseteq events[t] \cup evt[t] \cup got[t]

\* __svc_handler(): outside the few instructions between an assignment to
\* the ready bitmap and the switch it asks for, the CPU runs the highest
\* priority task that is ready and enabled.
HighestPriorityRuns ==
    start_called /\ ~pendsv /\ op[current_task] # "enable"
        => current_task = Fls(tasks_ready \cap tasks_enabled)
=============================================================================
