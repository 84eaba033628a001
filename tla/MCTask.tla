------------------------------- MODULE MCTask -------------------------------
(***************************************************************************)
(* Liveness of the kernel on a small instance of Task.                     *)
(*                                                                         *)
(* SF on a task's kernel steps says that interrupts and the tasks above it *)
(* leave it some CPU time; SF on its unlocks says that its critical        *)
(* sections end.  The sections of this image (crc_lock in usb_pd_tcpc.c,   *)
(* bkpdata_write_mutex in chip/stm32/system.c) wait for nothing, which     *)
(* ShortSections states.                                                   *)
(***************************************************************************)
EXTENDS Task

Top == TASK_ID_COUNT - 1

\* Task t in a critical section makes no call that waits.
ShortSections(t) == holds[t] # {} => op'[t] \in {"set", "unlock"}

\* No wait of task t without a timeout lasts 2^31 us (36 minutes), where
\* time_remaining_us would wrap: critical sections are short.
ShortWaits(t) == op'[t] \in {"lock", "forever"} => ~timed'[t]

Unlocks(t) == \E m \in Mutexes : MutexUnlock(t, m)

Fairness ==
    /\ WF_vars(TaskStart)
    /\ WF_vars(PendSV)
    /\ WF_vars(EnableAll)
    /\ \A t \in Clients : SF_vars(KernelStep(t)) /\ SF_vars(Unlocks(t))

\* Next without interrupt storms: a source raises its event again only once
\* the task has had the previous one.
LiveNext ==
    \/ TaskStart
    \/ PendSV
    \/ EnableAll
    \/ \E t \in Clients :
          \/ KernelStep(t) /\ ShortWaits(t)
          \/ ClientCall(t) /\ ShortSections(t)
    \/ \E u \in Clients, e \in UserEvents : e \notin owed[u] /\ IrqSetEvent(u, e)
    \/ \E u \in Clients : ExpireTimer(u)

LiveSpec == Init /\ [][LiveNext]_vars /\ Fairness

\* mutex_lock(): the highest priority task that asks for a mutex gets it,
\* although it sleeps while a lower priority task owns it and is woken by
\* events it did not wait for.
TopTaskGetsMutex ==
    \A m \in Mutexes :
        (op[Top] = "lock" /\ mtx[Top] = m) ~> Owns(Top, m)

\* __wait_evt(): an event posted to the sleeping highest priority task
\* reaches it, i.e. it runs.
TopTaskWakes == (Top \in tasks_enabled /\ events[Top] # {}) ~> current_task = Top
=============================================================================
