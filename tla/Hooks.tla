-------------------------------- MODULE Hooks --------------------------------
(***************************************************************************)
(* The hook task and deferred calls (common/hooks.c).                      *)
(*                                                                         *)
(* hook_call_deferred() is called by tasks and interrupt handlers.  The    *)
(* hook task has the lowest priority but for the idle task, so that a      *)
(* caller interrupts it between any two of its steps and is never          *)
(* interrupted by it: the call is one action.  The steps of the hook task  *)
(* are its accesses to __deferred_until, defer_new_call and the clock.     *)
(***************************************************************************)
EXTENDS Integers

CONSTANTS
    DEFERRED_FUNCS_COUNT,   \* number of deferred routines
    HOOK_TICK_INTERVAL,     \* period of HOOK_TICK
    SECOND,                 \* period of HOOK_SECOND
    Delays,                 \* the delays callers ask for
    MaxLag,                 \* bound: time from the computation of the sleep
                            \* to the start of the sleep
    Horizon                 \* bound: time stops there

ASSUME HooksAssumption ==
    /\ DEFERRED_FUNCS_COUNT \in Nat
    /\ HOOK_TICK_INTERVAL \in Nat \ {0}
    /\ SECOND \in Nat \ {0}
    /\ Delays \subseteq Nat
    /\ MaxLag \in Nat
    /\ Horizon \in Nat \ {0}

Funcs == 0 .. DEFERRED_FUNCS_COUNT - 1

VARIABLES
    now,                \* the clock; 0 is not a time the system runs at
    deferred_until,     \* __deferred_until; 0 when no call is pending
    defer_new_call,
    hook_task_started,
    wake,               \* TASK_EVENT_WAKE is pending for the hook task
    pc,                 \* where the hook task is
    i,                  \* its loop index
    t,                  \* its reading of the clock
    next,               \* its time to the next event
    wake_at,            \* when its task_wait_event() times out
    last_tick, last_second,
    due,                \* history: when the last request for f asked it to run
    requested           \* history: f is to run: requested, not run or cancelled

sharedVars == <<deferred_until, defer_new_call, hook_task_started, wake>>
loopVars == <<i, t, next, wake_at>>
tickVars == <<last_tick, last_second>>
histVars == <<due, requested>>
vars == <<now, sharedVars, pc, loopVars, tickVars, histVars>>

\* A due time that never comes: the request was cancelled.
Never == Horizon + 1

Init ==
    /\ now = 1
    /\ deferred_until = [f \in Funcs |-> 0]
    /\ defer_new_call = FALSE
    /\ hook_task_started = FALSE
    /\ wake = FALSE
    /\ pc = "boot"
    /\ i = 0 /\ t = 0 /\ next = 0 /\ wake_at = 0
    /\ last_tick = -HOOK_TICK_INTERVAL
    /\ last_second = -SECOND
    /\ due = [f \in Funcs |-> Never]
    /\ requested = [f \in Funcs |-> FALSE]

Tick ==
    /\ now < Horizon
    /\ pc \in {"scan", "sleep", "enter"} => now - t < MaxLag
    /\ now' = now + 1
    /\ UNCHANGED <<sharedVars, pc, loopVars, tickVars, histVars>>

-----------------------------------------------------------------------------
(* Callers *)

\* Mutant of WakeNeeded: only defer_new_call tells the hook task of a call.
WakeNever == FALSE

\* hook_call_deferred(): if (hook_task_started) task_wake(TASK_ID_HOOKS).
WakeNeeded == hook_task_started

\* hook_call_deferred(&f, us), us >= 0.
CallDeferred(f, us) ==
    /\ now + us <= Horizon
    /\ deferred_until' = [deferred_until EXCEPT ![f] = now + us]
    /\ defer_new_call' = TRUE
    /\ wake' = (wake \/ WakeNeeded)
    /\ due' = [due EXCEPT ![f] = now + us]
    /\ requested' = [requested EXCEPT ![f] = TRUE]
    /\ UNCHANGED <<now, hook_task_started, pc, loopVars, tickVars>>

\* hook_call_deferred(&f, -1).
CancelDeferred(f) ==
    /\ deferred_until' = [deferred_until EXCEPT ![f] = 0]
    /\ due' = [due EXCEPT ![f] = Never]
    /\ requested' = [requested EXCEPT ![f] = FALSE]
    /\ UNCHANGED <<now, defer_new_call, hook_task_started, wake, pc, loopVars,
                   tickVars>>

-----------------------------------------------------------------------------
(* The hook task *)

\* The first statement of hook_task(): hook_task_started = 1.
Start ==
    /\ pc = "boot"
    /\ pc' = "init"
    /\ hook_task_started' = TRUE
    /\ UNCHANGED <<now, deferred_until, defer_new_call, wake, loopVars,
                   tickVars, histVars>>

\* hook_notify(HOOK_INIT); task_enable_all_tasks().
InitHooks ==
    /\ pc = "init"
    /\ pc' = "loop"
    /\ UNCHANGED <<now, sharedVars, loopVars, tickVars, histVars>>

\* The head of the loop: t = get_time().val; i = 0.
Loop ==
    /\ pc = "loop"
    /\ pc' = "check"
    /\ t' = now
    /\ i' = 0
    /\ next' = 0
    /\ UNCHANGED <<now, sharedVars, wake_at, tickVars, histVars>>

\* Mutant of IsDue: the last routine is left out of the loop.
IsDueButLast(f) ==
    f < DEFERRED_FUNCS_COUNT - 1 /\ deferred_until[f] # 0 /\ deferred_until[f] < t

\* __deferred_until[i] && __deferred_until[i] < t.
IsDue(f) == deferred_until[f] # 0 /\ deferred_until[f] < t

\* The loop over the deferred routines: the test.
Check ==
    /\ pc = "check"
    /\ pc' = IF i = DEFERRED_FUNCS_COUNT THEN "tick"
             ELSE IF IsDue(i) THEN "call" ELSE "check"
    /\ i' = IF i < DEFERRED_FUNCS_COUNT /\ ~IsDue(i) THEN i + 1 ELSE i
    /\ UNCHANGED <<now, sharedVars, t, next, wake_at, tickVars, histVars>>

\* Mutant of Cleared: the time is left for the next time through the loop.
ClearedForgotten(f) == deferred_until

\* __deferred_until[i] = 0.
Cleared(f) == [deferred_until EXCEPT ![f] = 0]

\* The loop over the deferred routines: the call of the routine that was
\* found due, its time cleared first.  What the routine itself requests is
\* CallDeferred after this step.
Call ==
    /\ pc = "call"
    /\ pc' = "check"
    /\ deferred_until' = Cleared(i)
    /\ i' = i + 1
    /\ requested' = [requested EXCEPT ![i] = FALSE]
    /\ UNCHANGED <<now, defer_new_call, hook_task_started, wake, t, next,
                   wake_at, tickVars, due>>

\* HOOK_TICK and HOOK_SECOND, when their interval has passed.
Periodic ==
    /\ pc = "tick"
    /\ pc' = "calc"
    /\ last_tick' = IF t - last_tick >= HOOK_TICK_INTERVAL THEN t ELSE last_tick
    /\ last_second' = IF t - last_second >= SECOND THEN t ELSE last_second
    /\ UNCHANGED <<now, sharedVars, loopVars, histVars>>

\* Mutant of ToNextTick: a tick that is already late is not told apart.
ToNextTickUnclamped == last_tick + HOOK_TICK_INTERVAL - now

\* The time to the next tick, 0 when it is late already.
ToNextTick ==
    IF last_tick + HOOK_TICK_INTERVAL > now
    THEN last_tick + HOOK_TICK_INTERVAL - now ELSE 0

\* t = get_time().val; the time to the next tick; defer_new_call = 0.
Calculate ==
    /\ pc = "calc"
    /\ pc' = "scan"
    /\ t' = now
    /\ next' = ToNextTick
    /\ defer_new_call' = FALSE
    /\ i' = 0
    /\ UNCHANGED <<now, deferred_until, hook_task_started, wake, wake_at,
                   tickVars, histVars>>

\* "Wake earlier if needed by a deferred routine": next after routine f.
Earlier(f) ==
    IF deferred_until[f] = 0 THEN next
    ELSE IF deferred_until[f] < t THEN 0
    ELSE IF deferred_until[f] - t < next THEN deferred_until[f] - t ELSE next

\* The loop that shortens the sleep.
Scan ==
    /\ pc = "scan"
    /\ pc' = IF i < DEFERRED_FUNCS_COUNT /\ next > 0 THEN "scan" ELSE "sleep"
    /\ i' = IF i < DEFERRED_FUNCS_COUNT /\ next > 0 THEN i + 1 ELSE 0
    /\ next' = IF i < DEFERRED_FUNCS_COUNT /\ next > 0 THEN Earlier(i) ELSE next
    /\ UNCHANGED <<now, sharedVars, t, wake_at, tickVars, histVars>>

\* next > 0 && !defer_new_call: go to task_wait_event(next), or around.
Sleep ==
    /\ pc = "sleep"
    /\ pc' = IF next > 0 /\ ~defer_new_call THEN "enter" ELSE "loop"
    /\ UNCHANGED <<now, sharedVars, loopVars, tickVars, histVars>>

\* task_wait_event(next): the timer is armed.
EnterWait ==
    /\ pc = "enter"
    /\ pc' = "wait"
    /\ wake_at' = now + next
    /\ UNCHANGED <<now, sharedVars, i, t, next, tickVars, histVars>>

\* task_wait_event(next) returns: woken, or the time is up.
Wake ==
    /\ pc = "wait"
    /\ wake \/ now >= wake_at
    /\ pc' = "loop"
    /\ wake' = FALSE
    /\ wake_at' = 0
    /\ UNCHANGED <<now, deferred_until, defer_new_call, hook_task_started, i, t,
                   next, tickVars, histVars>>

HookTask ==
    \/ Start \/ InitHooks \/ Loop \/ Check \/ Call \/ Periodic
    \/ Calculate \/ Scan \/ Sleep \/ EnterWait \/ Wake

Next ==
    \/ Tick
    \/ HookTask
    \/ \E f \in Funcs : CancelDeferred(f) \/ \E us \in Delays : CallDeferred(f, us)

Spec == Init /\ [][Next]_vars

\* Time passes and the hook task is scheduled: the tasks above it block
\* again and again.
FairSpec == Spec /\ WF_vars(Tick) /\ WF_vars(HookTask)

-----------------------------------------------------------------------------
(* Properties *)

\* Type invariant: the variables of hooks.c and of the hook task's frame.
TypeOK ==
    /\ now \in 1 .. Horizon
    /\ deferred_until \in [Funcs -> 0 .. Horizon]
    /\ defer_new_call \in BOOLEAN
    /\ hook_task_started \in BOOLEAN
    /\ wake \in BOOLEAN
    /\ pc \in {"boot", "init", "loop", "check", "call", "tick", "calc", "scan",
               "sleep", "enter", "wait"}
    /\ i \in 0 .. DEFERRED_FUNCS_COUNT
    /\ t \in 0 .. Horizon
    /\ next \in 0 .. HOOK_TICK_INTERVAL
    /\ wake_at \in 0 .. Horizon + HOOK_TICK_INTERVAL
    /\ last_tick \in -HOOK_TICK_INTERVAL .. Horizon
    /\ last_second \in -SECOND .. Horizon
    /\ due \in [Funcs -> 1 .. Never]
    /\ requested \in [Funcs -> BOOLEAN]

\* hook_task(), hook_call_deferred(): the hook task sleeps no longer than any
\* pending deferred call and the next tick allow, or it is about to be woken,
\* whichever of its steps a new request falls between.
SleepsNoLonger ==
    pc = "wait" /\ ~wake =>
        /\ t + next <= last_tick + HOOK_TICK_INTERVAL
        /\ \A f \in Funcs :
              deferred_until[f] # 0 => t + next <= deferred_until[f]

\* hook_task(): "Clear timer first, so it can request itself be called
\* later": a routine is called only for a request or a cancelled request
\* that no earlier call has answered.
CalledOnRequest ==
    [][Call => due[i] = Never \/ requested[i]]_vars

\* hook_call_deferred(): every request that is not cancelled leads to a call.
\* (Only requests whose time and a late sleep's end are before the horizon.)
RequestServed ==
    \A f \in Funcs :
        (requested[f] /\ due[f] + MaxLag < Horizon)
            ~> (~requested[f] \/ due[f] + MaxLag >= Horizon)

\* hooks.h: "The routine will be called after at least the specified delay",
\* "subsequent calls will change the delay", "or -1 to cancel": at the call
\* the time of the last request has come and it has not been cancelled.
AfterDelay == [][Call => now >= due[i]]_vars
=============================================================================
