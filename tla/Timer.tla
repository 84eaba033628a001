-------------------------------- MODULE Timer --------------------------------
(***************************************************************************)
(* The 64-bit clock and the one-shot timers of the tasks (common/timer.c)  *)
(* on the free-running counter of the chip (chip/stm32/hwtimer32.c).       *)
(*                                                                         *)
(* "now" is real time in microseconds.  The hardware shows now % Epoch     *)
(* (2^32 on the chip); software keeps the number of overflows in           *)
(* clksrc_high, which the timer interrupt increments.  A task step is one  *)
(* access to shared state of get_time(), timer_arm() or timer_cancel(); the*)
(* timer interrupt preempts tasks, and the counter counts all the while.   *)
(***************************************************************************)
EXTENDS Naturals

CONSTANTS
    Tasks,          \* the tasks that wait with a timeout
    Epoch,          \* 2^32 on the chip
    Timeouts,       \* the timeouts tasks ask for, all > 0
    Horizon,        \* bound: real time stops there
    IrqTicks,       \* bound: time from an interrupt request to its end
    StatusRace      \* the counter may overflow between the load and the
                    \* store of the status register in the interrupt handler

ASSUME TimerAssumption ==
    /\ Epoch \in Nat /\ Epoch > 1
    /\ Timeouts \subseteq Nat \ {0}
    /\ Horizon \in Nat
    /\ IrqTicks \in Nat /\ 2 * IrqTicks <= Epoch
    /\ StatusRace \in BOOLEAN

VARIABLES
    now,             \* real time
    uif,             \* status register: the counter has overflowed
    cc1if,           \* status register: the counter has matched ccr1
    ccr1,            \* the compare register
    cc1ie,           \* the match interrupt is enabled
    pend,            \* the interrupt has been triggered by software
    clksrc_high,     \* high word of the clock
    next_deadline,   \* low word of the next event
    timer_running,   \* bitmap of running timers
    timer_deadline,  \* deadlines of the timers
    isr,             \* where the interrupt handler is
    overflow,        \* process_timers()'s argument
    inow,            \* process_timers()'s now
    next,            \* process_timers()'s next; NoDeadline is -1ull
    latency,         \* ticks since the interrupt was requested
    pc,              \* where task t is
    hi, lo,          \* get_time()'s ts in task t
    us,              \* the timeout task t asked for
    start,           \* history: real time when task t called get_time()
    fired            \* TASK_EVENT_TIMER is pending for task t

hwVars == <<uif, cc1if, ccr1, cc1ie>>
isrVars == <<isr, overflow, inow, next>>
clockVars == <<clksrc_high, next_deadline>>
timerVars == <<timer_running, timer_deadline>>
taskVars == <<pc, hi, lo, us, start>>
vars == <<now, hwVars, pend, clockVars, timerVars, isrVars, latency, taskVars,
          fired>>

\* timestamp_t: its two words le.hi and le.lo, and val made of them.
Hi(ts) == ts \div Epoch
\* Mutant of Lo: the low word is not cut off at 32 bits.
LoWhole(ts) == ts
Lo(ts) == ts % Epoch
Val(h, l) == h * Epoch + l
MaxLo == Epoch - 1
NoDeadline == Horizon + Epoch * Epoch
CNT == Lo(now)

\* timer_init() and __hw_clock_source_init(0): only the overflow interrupt is
\* enabled, and stays so.
Init ==
    /\ now = 0
    /\ uif = FALSE /\ cc1if = FALSE /\ ccr1 = 0 /\ cc1ie = FALSE
    /\ pend = FALSE
    /\ clksrc_high = 0 /\ next_deadline = MaxLo
    /\ timer_running = {}
    /\ timer_deadline = [t \in Tasks |-> 0]
    /\ isr = "idle" /\ overflow = FALSE /\ inow = 0 /\ next = NoDeadline
    /\ latency = 0
    /\ pc = [t \in Tasks |-> "run"]
    /\ hi = [t \in Tasks |-> 0]
    /\ lo = [t \in Tasks |-> 0]
    /\ us = [t \in Tasks |-> 0]
    /\ start = [t \in Tasks |-> 0]
    /\ fired = [t \in Tasks |-> FALSE]

-----------------------------------------------------------------------------
(* The hardware *)

\* The interrupt line of the timer, or its pending bit.
Requested == pend \/ uif \/ (cc1if /\ cc1ie)

GetTimePCs == {"hi", "lo", "check", "hi2", "lo2"}

\* One microsecond passes.  An interrupt is served within IrqTicks, and a
\* task does not spend an Epoch (71 minutes) inside get_time().
Tick ==
    /\ now < Horizon
    /\ (Requested \/ isr # "idle") => latency < IrqTicks
    /\ \A t \in Tasks : pc[t] \in GetTimePCs => now + 1 - start[t] < Epoch
    /\ isr = "clear" /\ CNT = MaxLo => StatusRace
    /\ now' = now + 1
    /\ uif' = (uif \/ CNT = MaxLo)
    /\ cc1if' = (cc1if \/ Lo(now') = ccr1)
    /\ latency' = IF Requested \/ isr # "idle" THEN latency + 1 ELSE 0
    /\ UNCHANGED <<ccr1, cc1ie, pend, clockVars, timerVars, isrVars, taskVars,
                   fired>>

-----------------------------------------------------------------------------
(* The timer interrupt *)

\* The handler goes from one position to the next; "idle" is its return.
IsrStep(from, to) ==
    /\ isr = from
    /\ isr' = to
    /\ latency' = IF to = "idle" THEN 0 ELSE latency
    /\ UNCHANGED <<now, taskVars>>

\* __hw_clock_source_irq(): stat_tim = STM32_TIM_SR.
IsrReadStatus ==
    /\ Requested
    /\ IsrStep("idle", "clear")
    /\ pend' = FALSE
    /\ overflow' = uif
    /\ UNCHANGED <<hwVars, clockVars, timerVars, inow, next, fired>>

\* Mutant of CountOverflow: the overflow is not counted.
OverflowNotCounted == clksrc_high

\* process_timers(): if (overflow) clksrc_high++.
CountOverflow == IF overflow THEN clksrc_high + 1 ELSE clksrc_high

\* __hw_clock_source_irq(): STM32_TIM_SR = 0 clears every flag, and the
\* overflow that was read is counted.
IsrClearStatus ==
    /\ IsrStep("clear", "now")
    /\ uif' = FALSE
    /\ cc1if' = FALSE
    /\ clksrc_high' = CountOverflow
    /\ overflow' = FALSE
    /\ UNCHANGED <<ccr1, cc1ie, pend, next_deadline, timerVars, inow, next,
                   fired>>

\* What get_time() returns in the handler, where clksrc_high cannot change.
IsrTime == Val(clksrc_high, CNT)

\* process_timers(): next.val = -1ull; now = get_time().
IsrGetTime ==
    /\ IsrStep("now", "scan")
    /\ inow' = IsrTime
    /\ next' = NoDeadline
    /\ UNCHANGED <<hwVars, pend, clockVars, timerVars, overflow, fired>>

\* Mutant of Expired: the comparison is on the low words only.
ExpiredLow == {t \in timer_running : Lo(timer_deadline[t]) <= Lo(inow)}

\* process_timers(): the timers whose deadline has come.
Expired == {t \in timer_running : timer_deadline[t] <= inow}

\* process_timers(): the deadlines of this epoch that are still to come.
\* One with the low word 0xffffffff is not below next's initial value and is
\* left to the overflow.
Upcoming ==
    {d \in {timer_deadline[t] : t \in timer_running \ Expired} :
        Hi(d) = Hi(inow) /\ Lo(d) < MaxLo}

\* process_timers(): the scan; expire_timer() for the expired ones.  Nobody
\* can arm a timer during the handler, so the scan is not repeated.
IsrScan ==
    /\ IsrStep("scan", IF Upcoming = {} THEN "none" ELSE "set")
    /\ timer_running' = timer_running \ Expired
    /\ fired' = [t \in Tasks |-> fired[t] \/ t \in Expired]
    /\ next' = IF Upcoming = {} THEN NoDeadline
               ELSE CHOOSE d \in Upcoming : \A e \in Upcoming : d <= e
    /\ UNCHANGED <<hwVars, pend, clockVars, timer_deadline, overflow, inow>>

\* process_timers(): no deadline to set; __hw_clock_event_clear(); return.
IsrNoDeadline ==
    /\ IsrStep("none", "idle")
    /\ cc1ie' = FALSE
    /\ next_deadline' = MaxLo
    /\ inow' = 0
    /\ UNCHANGED <<uif, cc1if, ccr1, pend, clksrc_high, timerVars, overflow,
                   next, fired>>

\* __hw_clock_event_set(): the compare register.
IsrSetMatch ==
    /\ IsrStep("set", "flag")
    /\ ccr1' = Lo(next)
    /\ UNCHANGED <<uif, cc1if, cc1ie, pend, clockVars, timerVars, overflow,
                   inow, next, fired>>

\* __hw_clock_event_set(): clear the match flag, enable the match interrupt.
IsrClearMatch ==
    /\ IsrStep("flag", "test")
    /\ cc1if' = FALSE
    /\ cc1ie' = TRUE
    /\ next_deadline' = Lo(next)
    /\ UNCHANGED <<uif, ccr1, pend, clksrc_high, timerVars, overflow, inow,
                   next, fired>>

\* Mutant of Passed: the deadline is not compared again once it is set.
PassedIgnored == FALSE

\* process_timers(): next.val <= get_time().val.
Passed == next <= IsrTime

\* process_timers(): start again if the match may have been missed.
IsrTest ==
    /\ IsrStep("test", IF Passed THEN "now" ELSE "idle")
    /\ inow' = 0
    /\ next' = NoDeadline
    /\ UNCHANGED <<hwVars, pend, clockVars, timerVars, overflow, fired>>

Isr ==
    \/ IsrReadStatus \/ IsrClearStatus \/ IsrGetTime \/ IsrScan
    \/ IsrNoDeadline \/ IsrSetMatch \/ IsrClearMatch \/ IsrTest

-----------------------------------------------------------------------------
(* The tasks *)

\* Task t takes a step: the timer interrupt is served first.
TaskStep(t, from, to) ==
    /\ isr = "idle"
    /\ ~Requested
    /\ pc[t] = from
    /\ pc' = [pc EXCEPT ![t] = to]
    /\ UNCHANGED <<now, hwVars, isrVars, latency>>

\* __wait_evt(timeout): calls get_time().
CallWait(t, timeout) ==
    /\ TaskStep(t, "run", "hi")
    /\ us' = [us EXCEPT ![t] = timeout]
    /\ start' = [start EXCEPT ![t] = now]
    /\ UNCHANGED <<pend, clockVars, timerVars, hi, lo, fired>>

\* get_time(): ts.le.hi = clksrc_high, the first and the second time.
ReadHigh(t) ==
    /\ \/ TaskStep(t, "hi", "lo")
       \/ TaskStep(t, "hi2", "lo2")
    /\ hi' = [hi EXCEPT ![t] = clksrc_high]
    /\ UNCHANGED <<pend, clockVars, timerVars, lo, us, start, fired>>

\* get_time(): ts.le.lo = __hw_clock_source_read().
ReadLow(t) ==
    /\ \/ TaskStep(t, "lo", "check")
       \/ TaskStep(t, "lo2", "arm")
    /\ lo' = [lo EXCEPT ![t] = CNT]
    /\ UNCHANGED <<pend, clockVars, timerVars, hi, us, start, fired>>

\* Mutant of HighUnchanged: the high word is not read again.
HighNotChecked(t) == TRUE

\* get_time(): ts.le.hi == clksrc_high.
HighUnchanged(t) == hi[t] = clksrc_high

\* get_time(): an overflow in between makes it read both words again.
CheckHigh(t) ==
    /\ TaskStep(t, "check", IF HighUnchanged(t) THEN "arm" ELSE "hi2")
    /\ UNCHANGED <<pend, clockVars, timerVars, hi, lo, us, start, fired>>

\* timer_arm(): timer_deadline[tskid] = tstamp.
ArmStore(t) ==
    /\ TaskStep(t, "arm", "enable")
    /\ timer_deadline' =
          [timer_deadline EXCEPT ![t] = Val(hi[t], lo[t]) + us[t]]
    /\ hi' = [hi EXCEPT ![t] = 0]
    /\ lo' = [lo EXCEPT ![t] = 0]
    /\ UNCHANGED <<pend, clockVars, timer_running, us, start, fired>>

\* timer_arm(): atomic_or(&timer_running, 1<<tskid).
ArmEnable(t) ==
    /\ TaskStep(t, "enable", "modify")
    /\ timer_running' = timer_running \cup {t}
    /\ UNCHANGED <<pend, clockVars, timer_deadline, hi, lo, us, start, fired>>

\* timer_arm(): "Modify the next event if needed".
EventNeeded(d) ==
    \/ Hi(d) < clksrc_high
    \/ Hi(d) = clksrc_high /\ Lo(d) <= next_deadline

\* timer_arm(): task_trigger_irq(timer_irq) if the event is the next one.
ArmModify(t) ==
    /\ TaskStep(t, "modify", "wait")
    /\ pend' = EventNeeded(timer_deadline[t])
    /\ UNCHANGED <<clockVars, timerVars, hi, lo, us, start, fired>>

\* __wait_evt(): the timer or some other event ended the wait;
\* timer_cancel(me) and atomic_clear(TASK_EVENT_TIMER).
Cancel(t) ==
    /\ TaskStep(t, "wait", "run")
    /\ timer_running' = timer_running \ {t}
    /\ fired' = [fired EXCEPT ![t] = FALSE]
    /\ us' = [us EXCEPT ![t] = 0]
    /\ start' = [start EXCEPT ![t] = 0]
    /\ timer_deadline' = [timer_deadline EXCEPT ![t] = 0]
    /\ UNCHANGED <<pend, clockVars, hi, lo>>

TaskNext(t) ==
    \/ \E timeout \in Timeouts : CallWait(t, timeout)
    \/ ReadHigh(t) \/ ReadLow(t) \/ CheckHigh(t)
    \/ ArmStore(t) \/ ArmEnable(t) \/ ArmModify(t)
    \/ Cancel(t)

Next == Tick \/ Isr \/ \E t \in Tasks : TaskNext(t)

Spec == Init /\ [][Next]_vars

\* Time passes, requested interrupts are served, and a task inside
\* get_time() or timer_arm() goes on when the interrupts leave it the CPU.
\* A waiting task need not be woken by anything but its timer.
Fairness ==
    /\ WF_vars(Tick)
    /\ WF_vars(Isr)
    /\ \A t \in Tasks : SF_vars(TaskNext(t) /\ pc[t] \notin {"run", "wait"})

FairSpec == Spec /\ Fairness

-----------------------------------------------------------------------------
(* Properties *)

HwTypes ==
    /\ now \in 0 .. Horizon
    /\ uif \in BOOLEAN /\ cc1if \in BOOLEAN /\ cc1ie \in BOOLEAN
    /\ pend \in BOOLEAN
    /\ ccr1 \in 0 .. MaxLo
    /\ latency \in 0 .. IrqTicks

TimerTypes ==
    /\ clksrc_high \in Nat
    /\ next_deadline \in 0 .. MaxLo
    /\ timer_running \subseteq Tasks
    /\ timer_deadline \in [Tasks -> Nat]
    /\ isr \in {"idle", "clear", "now", "scan", "none", "set", "flag", "test"}
    /\ overflow \in BOOLEAN
    /\ inow \in Nat
    /\ next \in Nat

TaskTypes ==
    /\ pc \in [Tasks -> {"run", "arm", "enable", "modify", "wait"} \cup GetTimePCs]
    /\ hi \in [Tasks -> Nat]
    /\ lo \in [Tasks -> 0 .. MaxLo]
    /\ us \in [Tasks -> Timeouts \cup {0}]
    /\ start \in [Tasks -> 0 .. Horizon]
    /\ fired \in [Tasks -> BOOLEAN]

\* Type invariant: the registers of hwtimer32.c, the variables of timer.c and the
\* local variables of the tasks' calls.
TypeOK == HwTypes /\ TimerTypes /\ TaskTypes

\* get_time() called by a task returns a time at which the call was in
\* progress, wherever the overflow and its interrupt fall between its reads.
GetTimeExact ==
    \A t \in Tasks :
        pc[t] = "arm" => Val(hi[t], lo[t]) \in start[t] .. now

\* process_timers(), usleep() ("sleep for at least us"): a timer never
\* expires before the timeout has passed since the wait was called.
NeverEarly ==
    \A t \in Tasks : fired[t] => now >= start[t] + us[t]

\* process_timers(), timer_arm(): a running timer whose deadline has passed
\* has the timer interrupt requested or running: no match is missed, however
\* the counter advances between the scan, the setting of the compare register
\* and the clearing of its flag.
OverdueIsRequested ==
    \A t \in timer_running :
        timer_deadline[t] < now /\ pc[t] = "wait" => Requested \/ isr # "idle"

\* timer_arm(), process_timers(): a timer that is armed expires or is
\* cancelled, as long as its deadline is before the end of the modelled time.
TimerFires ==
    \A t \in Tasks :
        (pc[t] = "wait" /\ timer_deadline[t] + 2 < Horizon)
            ~> (fired[t] \/ pc[t] = "run")
=============================================================================
