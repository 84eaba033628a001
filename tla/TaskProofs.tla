----------------------------- MODULE TaskProofs -----------------------------
(* Proofs about the kernel, for any number of tasks, mutexes and events.    *)
EXTENDS Task, TLAPS, WellFoundedInduction

-----------------------------------------------------------------------------
(* The scheduler's choice *)

\* __fls(): a non-empty set of task ids has a greatest element.
LEMMA MaxExists ==
    ASSUME NEW S, S \subseteq Tasks, S # {}
    PROVE  \E i \in S : \A j \in S : j <= i
<1> DEFINE Dist == {TASK_ID_COUNT - i : i \in S}
<1>1. \A i \in S : i \in Nat /\ TASK_ID_COUNT - i \in Nat
  BY TaskAssumption DEF Tasks
<1>2. Dist \subseteq Nat /\ Dist # {}
  BY <1>1
<1>3. \E x \in Dist : \A y \in Dist : ~(<<y, x>> \in OpToRel(<, Nat))
  <2> HIDE DEF Dist
  <2> QED BY <1>2, NatLessThanWellFounded, WFMin
<1>4. PICK x \in Dist : \A y \in Dist : ~(<<y, x>> \in OpToRel(<, Nat))
  BY <1>3
<1>5. \A y \in Dist : ~(y < x)
  <2> HIDE DEF Dist
  <2> TAKE y \in Dist
  <2>1. <<y, x>> \in Nat \X Nat
    BY <1>2
  <2>2. ~(<<y, x>> \in {ss \in Nat \X Nat : ss[1] < ss[2]})
    BY <1>4 DEF OpToRel
  <2> QED BY <2>1, <2>2
<1>6. PICK i \in S : x = TASK_ID_COUNT - i
  OBVIOUS
<1>7. \A j \in S : j <= i
  BY <1>1, <1>5, <1>6, TaskAssumption
<1> QED BY <1>7

\* __fls(): the chosen task is in the bitmap.
LEMMA FlsMember ==
    ASSUME NEW S, S \subseteq Tasks, S # {}
    PROVE  Fls(S) \in S
  BY MaxExists DEF Fls

\* __svc_handler(), task_start(): what every switch leaves behind: the idle
\* task is ready, so that there is a task to run, and the task that runs is
\* ready and enabled.
SchedInv ==
    /\ IDLE \in tasks_enabled /\ HOOKS \in tasks_enabled
    /\ start_called => /\ IDLE \in tasks_ready
                       /\ current_task \in tasks_ready
                       /\ current_task \in tasks_enabled
    /\ ~start_called => ~pendsv

\* __svc_handler() called by a task, or by PendSV on behalf of one.
LEMMA SvcSwitches ==
    ASSUME TypeOK, SchedInv, start_called,
           NEW t \in Tasks, NEW d \in BOOLEAN, NEW r \in Tasks,
           d => t # IDLE, SvcHandler(t, d, r)
    PROVE  /\ tasks_ready' \subseteq Tasks
           /\ IDLE \in tasks_ready'
           /\ current_task' \in tasks_ready' \cap tasks_enabled
<1> DEFINE R == ReadyAfter(t, d, r)
<1>1. R \subseteq Tasks /\ IDLE \in R
  BY DEF ReadyAfter, TypeOK, SchedInv
<1>2. R \cap tasks_enabled \subseteq Tasks /\ R \cap tasks_enabled # {}
  BY <1>1 DEF SchedInv
<1>3. Fls(R \cap tasks_enabled) \in R \cap tasks_enabled
  <2> HIDE DEF R
  <2> QED BY <1>2, FlsMember
<1> QED BY <1>1, <1>3 DEF SvcHandler

\* task_start(): the first switch.
LEMMA StartSwitches ==
    ASSUME TypeOK, SchedInv, TaskStart
    PROVE  /\ tasks_ready' \subseteq Tasks
           /\ IDLE \in tasks_ready'
           /\ current_task' \in tasks_ready' \cap tasks_enabled
<1> DEFINE R == tasks_ready \cup {IDLE}
<1>1. R \subseteq Tasks
  BY TaskAssumption DEF TypeOK, Tasks, IDLE
<1>2. R \cap tasks_enabled \subseteq Tasks /\ R \cap tasks_enabled # {}
  BY <1>1 DEF SchedInv
<1>3. Fls(R \cap tasks_enabled) \in R \cap tasks_enabled
  <2> HIDE DEF R
  <2> QED BY <1>2, FlsMember
<1> QED BY <1>1, <1>3 DEF TaskStart

\* The ids that have a name are tasks.
LEMMA NamedTasks == IDLE \in Tasks /\ HOOKS \in Clients /\ HOOKS \in Tasks
  BY TaskAssumption DEF Tasks, Clients, IDLE, HOOKS

-----------------------------------------------------------------------------
(* Types and the scheduler *)

\* Every step keeps the types and the scheduler's invariant.
LEMMA TypeStep ==
    ASSUME TypeOK, SchedInv, [Next]_vars
    PROVE  TypeOK' /\ SchedInv'
<1> USE TaskAssumption, NamedTasks DEF TypeOK, SchedInv, Clients, PCs, Ops,
        Events, Step, Running, schedVars, mutexVars, waitVars, unlockVars
<1>1. CASE TaskStart
  BY <1>1, StartSwitches DEF TaskStart
<1>2. CASE PendSV
  <2>1. start_called /\ current_task \in Tasks
    BY <1>2 DEF PendSV
  <2>2. /\ tasks_ready' \subseteq Tasks
        /\ IDLE \in tasks_ready'
        /\ current_task' \in tasks_ready' \cap tasks_enabled
    BY <1>2, <2>1, SvcSwitches DEF PendSV
  <2> QED BY <1>2, <2>1, <2>2 DEF PendSV
<1>3. CASE EnableAll
  BY <1>3 DEF EnableAll, AllTasks
<1>4. ASSUME NEW t \in Clients, Resched(t)
      PROVE  TypeOK' /\ SchedInv'
  <2>1. start_called
    BY <1>4 DEF Resched
  <2>2. /\ tasks_ready' \subseteq Tasks
        /\ IDLE \in tasks_ready'
        /\ current_task' \in tasks_ready' \cap tasks_enabled
    BY <1>4, <2>1, SvcSwitches DEF Resched
  <2> QED BY <1>4, <2>1, <2>2 DEF Resched
<1>5. ASSUME NEW t \in Clients, TimerArm(t)
      PROVE  TypeOK' /\ SchedInv'
  BY <1>5 DEF TimerArm
<1>6. ASSUME NEW t \in Clients, ReadClear(t)
      PROVE  TypeOK' /\ SchedInv'
  BY <1>6 DEF ReadClear
<1>7. ASSUME NEW t \in Clients, Deschedule(t)
      PROVE  TypeOK' /\ SchedInv'
  <2>1. start_called
    BY <1>7 DEF Deschedule
  <2>2. /\ tasks_ready' \subseteq Tasks
        /\ IDLE \in tasks_ready'
        /\ current_task' \in tasks_ready' \cap tasks_enabled
    BY <1>7, <2>1, SvcSwitches DEF Deschedule
  <2> QED BY <1>7, <2>1, <2>2 DEF Deschedule
<1>8. ASSUME NEW t \in Clients, TimerCancel(t)
      PROVE  TypeOK' /\ SchedInv'
  BY <1>8 DEF TimerCancel
<1>9. ASSUME NEW t \in Clients, ClearTimer(t)
      PROVE  TypeOK' /\ SchedInv'
  BY <1>9 DEF ClearTimer
<1>10. ASSUME NEW t \in Clients, WaitReturn(t)
       PROVE  TypeOK' /\ SchedInv'
  BY <1>10 DEF WaitReturn
<1>11. ASSUME NEW t \in Clients, NEW late \in BOOLEAN, NEW wraps \in BOOLEAN,
              CollectEvents(t, late, wraps)
       PROVE  TypeOK' /\ SchedInv'
  BY <1>11 DEF CollectEvents, HasDeadline, WaitEntry
<1>12. ASSUME NEW t \in Clients, Repost(t)
       PROVE  TypeOK' /\ SchedInv'
  BY <1>12 DEF Repost, Unwanted, WaitExit
<1>13. ASSUME NEW t \in Clients, MutexTake(t)
       PROVE  TypeOK' /\ SchedInv'
  BY <1>13 DEF MutexTake
<1>14. ASSUME NEW t \in Clients, MutexContend(t)
       PROVE  TypeOK' /\ SchedInv'
  BY <1>14 DEF MutexContend
<1>15. ASSUME NEW t \in Clients, MutexLocked(t)
       PROVE  TypeOK' /\ SchedInv'
  BY <1>15 DEF MutexLocked
<1>16. ASSUME NEW t \in Clients, MutexNotify(t)
       PROVE  TypeOK' /\ SchedInv'
  <2>1. Fls(snap[t]) \in Tasks
    BY <1>16, FlsMember DEF MutexNotify
  <2> QED BY <1>16, <2>1 DEF MutexNotify
<1>17. ASSUME NEW t \in Clients, MutexUnlocked(t)
       PROVE  TypeOK' /\ SchedInv'
  BY <1>17 DEF MutexUnlocked
<1>18. ASSUME NEW t \in Clients, NEW u \in Clients, NEW e \in UserEvents, NEW w \in WaitFlags,
              SetEvent(t, u, e, w)
       PROVE  TypeOK' /\ SchedInv'
  BY <1>18 DEF SetEvent
<1>19. ASSUME NEW t \in Clients, NEW tmo \in BOOLEAN, WaitEvent(t, tmo)
       PROVE  TypeOK' /\ SchedInv'
  BY <1>19 DEF WaitEvent, WaitEntry
<1>20. ASSUME NEW t \in Clients, NEW m \in SUBSET UserEvents, NEW tmo \in BOOLEAN,
              WaitEventMask(t, m, tmo)
       PROVE  TypeOK' /\ SchedInv'
  BY <1>20 DEF WaitEventMask, WaitEntry
<1>21. ASSUME NEW t \in Clients, Usleep(t)
       PROVE  TypeOK' /\ SchedInv'
  BY <1>21 DEF Usleep
<1>22. ASSUME NEW t \in Clients, NEW m \in Mutexes, MutexLock(t, m)
       PROVE  TypeOK' /\ SchedInv'
  BY <1>22 DEF MutexLock
<1>23. ASSUME NEW t \in Clients, NEW m \in Mutexes, MutexUnlock(t, m)
       PROVE  TypeOK' /\ SchedInv'
  BY <1>23 DEF MutexUnlock, Snapshot
<1>24. ASSUME NEW u \in Clients, NEW e \in UserEvents, IrqSetEvent(u, e)
       PROVE  TypeOK' /\ SchedInv'
  BY <1>24 DEF IrqSetEvent, IrqPost
<1>25. ASSUME NEW u \in Clients, ExpireTimer(u)
       PROVE  TypeOK' /\ SchedInv'
  BY <1>25 DEF ExpireTimer, IrqPost
<1>26. CASE UNCHANGED vars
  BY <1>26 DEF vars
<1> HIDE DEF TypeOK, SchedInv, Clients, PCs, Ops, Events, Step, Running,
        schedVars, mutexVars, waitVars, unlockVars
<1> QED
  BY <1>1, <1>2, <1>3, <1>4, <1>5, <1>6, <1>7, <1>8, <1>9, <1>10, <1>11, <1>12, <1>13,
     <1>14, <1>15, <1>16, <1>17, <1>18, <1>19, <1>20, <1>21, <1>22, <1>23, <1>24, <1>25, <1>26
  DEF Next, KernelStep, ClientCall, Interrupt

\* The initial state has the types and the scheduler's invariant.
LEMMA TypeInit ==
    ASSUME Init
    PROVE  TypeOK /\ SchedInv
<1>1. SchedInv
  BY DEF Init, SchedInv
<1>2. /\ start_called \in BOOLEAN /\ pendsv \in BOOLEAN
      /\ current_task \in Tasks \cup {Scratchpad}
      /\ tasks_ready \subseteq Tasks /\ tasks_enabled \subseteq Tasks
      /\ timer_running \subseteq Tasks
  BY NamedTasks DEF Init
<1>3. /\ lock \in [Mutexes -> BOOLEAN]
      /\ waiters \in [Mutexes -> SUBSET Tasks]
  BY DEF Init
<1>4. /\ pc \in [Tasks -> PCs]
      /\ op \in [Tasks -> Ops]
      /\ timed \in [Tasks -> BOOLEAN]
      /\ slept \in [Tasks -> BOOLEAN]
      /\ resched \in [Tasks -> Tasks]
      /\ mtx \in [Tasks -> Mutexes]
  BY NamedTasks DEF Init, PCs, Ops
<1>5. /\ events \in [Tasks -> SUBSET Events]
      /\ evt \in [Tasks -> SUBSET Events]
      /\ got \in [Tasks -> SUBSET Events]
      /\ mask \in [Tasks -> SUBSET Events]
      /\ snap \in [Tasks -> SUBSET Tasks]
      /\ holds \in [Tasks -> SUBSET Mutexes]
      /\ owed \in [Tasks -> SUBSET UserEvents]
  BY DEF Init
<1> QED BY <1>1, <1>2, <1>3, <1>4, <1>5 DEF TypeOK

\* task.c: every variable keeps its type, for any number of tasks.
THEOREM TypeCorrect == Spec => []TypeOK
<1>1. Init => TypeOK /\ SchedInv
  BY TypeInit
<1>2. TypeOK /\ SchedInv /\ [Next]_vars => TypeOK' /\ SchedInv'
  BY TypeStep
<1> QED BY <1>1, <1>2, PTL DEF Spec

-----------------------------------------------------------------------------
(* The scheduler runs the highest priority task *)

\* task_enable_all_tasks() ends with a reschedule.
EnableInv == \A t \in Tasks : op[t] = "enable" => pc[t] = "resched"

\* Every step keeps EnableInv.
LEMMA EnableStep ==
    ASSUME TypeOK, EnableInv, [Next]_vars
    PROVE  EnableInv'
<1> USE TaskAssumption, NamedTasks DEF EnableInv, TypeOK, Clients, PCs, Ops,
        Events, Step, Running, schedVars, mutexVars, waitVars, unlockVars
<1>1. CASE TaskStart
  BY <1>1 DEF TaskStart
<1>2. CASE PendSV
  BY <1>2 DEF PendSV
<1>3. CASE EnableAll
  BY <1>3 DEF EnableAll, AllTasks
<1>4. ASSUME NEW t \in Clients, Resched(t)
      PROVE  EnableInv'
  BY <1>4 DEF Resched
<1>5. ASSUME NEW t \in Clients, TimerArm(t)
      PROVE  EnableInv'
  BY <1>5 DEF TimerArm
<1>6. ASSUME NEW t \in Clients, ReadClear(t)
      PROVE  EnableInv'
  BY <1>6 DEF ReadClear
<1>7. ASSUME NEW t \in Clients, Deschedule(t)
      PROVE  EnableInv'
  BY <1>7 DEF Deschedule
<1>8. ASSUME NEW t \in Clients, TimerCancel(t)
      PROVE  EnableInv'
  BY <1>8 DEF TimerCancel
<1>9. ASSUME NEW t \in Clients, ClearTimer(t)
      PROVE  EnableInv'
  BY <1>9 DEF ClearTimer
<1>10. ASSUME NEW t \in Clients, WaitReturn(t)
       PROVE  EnableInv'
  BY <1>10 DEF WaitReturn
<1>11. ASSUME NEW t \in Clients, NEW late \in BOOLEAN, NEW wraps \in BOOLEAN,
              CollectEvents(t, late, wraps)
       PROVE  EnableInv'
  BY <1>11 DEF CollectEvents, HasDeadline, WaitEntry
<1>12. ASSUME NEW t \in Clients, Repost(t)
       PROVE  EnableInv'
  BY <1>12 DEF Repost, Unwanted, WaitExit
<1>13. ASSUME NEW t \in Clients, MutexTake(t)
       PROVE  EnableInv'
  BY <1>13 DEF MutexTake
<1>14. ASSUME NEW t \in Clients, MutexContend(t)
       PROVE  EnableInv'
  BY <1>14 DEF MutexContend
<1>15. ASSUME NEW t \in Clients, MutexLocked(t)
       PROVE  EnableInv'
  BY <1>15 DEF MutexLocked
<1>16. ASSUME NEW t \in Clients, MutexNotify(t)
       PROVE  EnableInv'
  BY <1>16 DEF MutexNotify
<1>17. ASSUME NEW t \in Clients, MutexUnlocked(t)
       PROVE  EnableInv'
  BY <1>17 DEF MutexUnlocked
<1>18. ASSUME NEW t \in Clients, NEW u \in Clients, NEW e \in UserEvents, NEW w \in WaitFlags,
              SetEvent(t, u, e, w)
       PROVE  EnableInv'
  BY <1>18 DEF SetEvent
<1>19. ASSUME NEW t \in Clients, NEW tmo \in BOOLEAN, WaitEvent(t, tmo)
       PROVE  EnableInv'
  BY <1>19 DEF WaitEvent, WaitEntry
<1>20. ASSUME NEW t \in Clients, NEW m \in SUBSET UserEvents, NEW tmo \in BOOLEAN,
              WaitEventMask(t, m, tmo)
       PROVE  EnableInv'
  BY <1>20 DEF WaitEventMask, WaitEntry
<1>21. ASSUME NEW t \in Clients, Usleep(t)
       PROVE  EnableInv'
  BY <1>21 DEF Usleep
<1>22. ASSUME NEW t \in Clients, NEW m \in Mutexes, MutexLock(t, m)
       PROVE  EnableInv'
  BY <1>22 DEF MutexLock
<1>23. ASSUME NEW t \in Clients, NEW m \in Mutexes, MutexUnlock(t, m)
       PROVE  EnableInv'
  BY <1>23 DEF MutexUnlock, Snapshot
<1>24. ASSUME NEW u \in Clients, NEW e \in UserEvents, IrqSetEvent(u, e)
       PROVE  EnableInv'
  BY <1>24 DEF IrqSetEvent, IrqPost
<1>25. ASSUME NEW u \in Clients, ExpireTimer(u)
       PROVE  EnableInv'
  BY <1>25 DEF ExpireTimer, IrqPost
<1>26. CASE UNCHANGED vars
  BY <1>26 DEF vars
<1> HIDE DEF EnableInv, TypeOK, Clients, PCs, Ops, Events, Step, Running,
        schedVars, mutexVars, waitVars, unlockVars
<1> QED
  BY <1>1, <1>2, <1>3, <1>4, <1>5, <1>6, <1>7, <1>8, <1>9, <1>10, <1>11, <1>12, <1>13,
     <1>14, <1>15, <1>16, <1>17, <1>18, <1>19, <1>20, <1>21, <1>22, <1>23, <1>24, <1>25, <1>26
  DEF Next, KernelStep, ClientCall, Interrupt

\* Every step keeps the highest priority task running.
LEMMA PriorityStep ==
    ASSUME TypeOK, SchedInv, EnableInv, HighestPriorityRuns, [Next]_vars
    PROVE  HighestPriorityRuns'
<1> USE TaskAssumption, NamedTasks DEF HighestPriorityRuns, SchedInv,
        EnableInv, TypeOK, Clients, PCs, Ops, Events, Step, Running,
        schedVars, mutexVars, waitVars, unlockVars
<1>1. CASE TaskStart
  BY <1>1 DEF TaskStart
<1>2. CASE PendSV
  BY <1>2 DEF PendSV, SvcHandler
<1>3. CASE EnableAll
  BY <1>3 DEF EnableAll, AllTasks
<1>4. ASSUME NEW t \in Clients, Resched(t)
      PROVE  HighestPriorityRuns'
  BY <1>4 DEF Resched, SvcHandler
<1>5. ASSUME NEW t \in Clients, TimerArm(t)
      PROVE  HighestPriorityRuns'
  BY <1>5 DEF TimerArm
<1>6. ASSUME NEW t \in Clients, ReadClear(t)
      PROVE  HighestPriorityRuns'
  BY <1>6 DEF ReadClear
<1>7. ASSUME NEW t \in Clients, Deschedule(t)
      PROVE  HighestPriorityRuns'
  BY <1>7 DEF Deschedule, SvcHandler
<1>8. ASSUME NEW t \in Clients, TimerCancel(t)
      PROVE  HighestPriorityRuns'
  BY <1>8 DEF TimerCancel
<1>9. ASSUME NEW t \in Clients, ClearTimer(t)
      PROVE  HighestPriorityRuns'
  BY <1>9 DEF ClearTimer
<1>10. ASSUME NEW t \in Clients, WaitReturn(t)
       PROVE  HighestPriorityRuns'
  BY <1>10 DEF WaitReturn
<1>11. ASSUME NEW t \in Clients, NEW late \in BOOLEAN, NEW wraps \in BOOLEAN,
              CollectEvents(t, late, wraps)
       PROVE  HighestPriorityRuns'
  BY <1>11 DEF CollectEvents, HasDeadline, WaitEntry
<1>12. ASSUME NEW t \in Clients, Repost(t)
       PROVE  HighestPriorityRuns'
  BY <1>12 DEF Repost, Unwanted, WaitExit
<1>13. ASSUME NEW t \in Clients, MutexTake(t)
       PROVE  HighestPriorityRuns'
  BY <1>13 DEF MutexTake
<1>14. ASSUME NEW t \in Clients, MutexContend(t)
       PROVE  HighestPriorityRuns'
  BY <1>14 DEF MutexContend
<1>15. ASSUME NEW t \in Clients, MutexLocked(t)
       PROVE  HighestPriorityRuns'
  BY <1>15 DEF MutexLocked
<1>16. ASSUME NEW t \in Clients, MutexNotify(t)
       PROVE  HighestPriorityRuns'
  BY <1>16 DEF MutexNotify
<1>17. ASSUME NEW t \in Clients, MutexUnlocked(t)
       PROVE  HighestPriorityRuns'
  BY <1>17 DEF MutexUnlocked
<1>18. ASSUME NEW t \in Clients, NEW u \in Clients, NEW e \in UserEvents, NEW w \in WaitFlags,
              SetEvent(t, u, e, w)
       PROVE  HighestPriorityRuns'
  BY <1>18 DEF SetEvent
<1>19. ASSUME NEW t \in Clients, NEW tmo \in BOOLEAN, WaitEvent(t, tmo)
       PROVE  HighestPriorityRuns'
  BY <1>19 DEF WaitEvent, WaitEntry
<1>20. ASSUME NEW t \in Clients, NEW m \in SUBSET UserEvents, NEW tmo \in BOOLEAN,
              WaitEventMask(t, m, tmo)
       PROVE  HighestPriorityRuns'
  BY <1>20 DEF WaitEventMask, WaitEntry
<1>21. ASSUME NEW t \in Clients, Usleep(t)
       PROVE  HighestPriorityRuns'
  BY <1>21 DEF Usleep
<1>22. ASSUME NEW t \in Clients, NEW m \in Mutexes, MutexLock(t, m)
       PROVE  HighestPriorityRuns'
  BY <1>22 DEF MutexLock
<1>23. ASSUME NEW t \in Clients, NEW m \in Mutexes, MutexUnlock(t, m)
       PROVE  HighestPriorityRuns'
  BY <1>23 DEF MutexUnlock, Snapshot
<1>24. ASSUME NEW u \in Clients, NEW e \in UserEvents, IrqSetEvent(u, e)
       PROVE  HighestPriorityRuns'
  BY <1>24 DEF IrqSetEvent, IrqPost
<1>25. ASSUME NEW u \in Clients, ExpireTimer(u)
       PROVE  HighestPriorityRuns'
  BY <1>25 DEF ExpireTimer, IrqPost
<1>26. CASE UNCHANGED vars
  BY <1>26 DEF vars
<1> HIDE DEF HighestPriorityRuns, SchedInv, EnableInv, TypeOK, Clients, PCs,
        Ops, Events, Step, Running, schedVars, mutexVars, waitVars,
        unlockVars
<1> QED
  BY <1>1, <1>2, <1>3, <1>4, <1>5, <1>6, <1>7, <1>8, <1>9, <1>10, <1>11, <1>12, <1>13,
     <1>14, <1>15, <1>16, <1>17, <1>18, <1>19, <1>20, <1>21, <1>22, <1>23, <1>24, <1>25, <1>26
  DEF Next, KernelStep, ClientCall, Interrupt

\* __svc_handler(): the CPU runs the highest priority ready and enabled task
\* outside the instructions before a switch.
THEOREM PriorityCorrect == Spec => []HighestPriorityRuns
<1> DEFINE IInv == TypeOK /\ SchedInv /\ EnableInv /\ HighestPriorityRuns
<1>1. Init => IInv
  BY TypeInit DEF Init, EnableInv, HighestPriorityRuns
<1>2. IInv /\ [Next]_vars => IInv'
  BY TypeStep, EnableStep, PriorityStep
<1> QED BY <1>1, <1>2, PTL DEF Spec

-----------------------------------------------------------------------------
(* What the position of a task in the kernel says about its frame *)

WaitPCs == {"arm", "read", "svc", "cancel", "clear", "ret"}

\* The call a task is in fits its position; a wait for a mask has the mask's
\* implicit members; only a wait that is ending holds a result.
CallInv ==
    \A t \in Tasks :
        /\ pc[t] = "run" => op[t] = "none"
        /\ pc[t] = "resched" => op[t] \in {"set", "enable", "unlock"}
        /\ pc[t] = "notify" => op[t] = "unlock"
        /\ pc[t] \in {"try", "locked"} => op[t] = "lock"
        /\ pc[t] \in WaitPCs => op[t] \in {"wait", "mask", "forever", "usleep", "lock"}
        /\ pc[t] = "repost" => op[t] \in {"mask", "forever", "usleep", "lock"}
        /\ pc[t] \in WaitPCs \cup {"repost"} /\ op[t] # "wait" => "TIMER" \in mask[t]
        /\ pc[t] \in WaitPCs \cup {"repost"} /\ op[t] = "lock" => "MUTEX" \in mask[t]
        /\ pc[t] \in {"arm", "cancel", "clear"} => timed[t]
        /\ pc[t] \notin {"cancel", "clear", "ret"} => evt[t] = {}
        /\ snap[t] # {} => op[t] = "unlock"

\* Every step keeps CallInv.
LEMMA CallStep ==
    ASSUME TypeOK, CallInv, [Next]_vars
    PROVE  CallInv'
<1> USE TaskAssumption, NamedTasks DEF CallInv, WaitPCs, TypeOK, Clients,
        PCs, Ops, Events, Step, Running, schedVars, mutexVars, waitVars,
        unlockVars
<1>1. CASE TaskStart
  BY <1>1 DEF TaskStart
<1>2. CASE PendSV
  BY <1>2 DEF PendSV
<1>3. CASE EnableAll
  BY <1>3 DEF EnableAll, AllTasks
<1>4. ASSUME NEW t \in Clients, Resched(t)
      PROVE  CallInv'
  BY <1>4 DEF Resched
<1>5. ASSUME NEW t \in Clients, TimerArm(t)
      PROVE  CallInv'
  BY <1>5 DEF TimerArm
<1>6. ASSUME NEW t \in Clients, ReadClear(t)
      PROVE  CallInv'
  BY <1>6 DEF ReadClear
<1>7. ASSUME NEW t \in Clients, Deschedule(t)
      PROVE  CallInv'
  BY <1>7 DEF Deschedule
<1>8. ASSUME NEW t \in Clients, TimerCancel(t)
      PROVE  CallInv'
  BY <1>8 DEF TimerCancel
<1>9. ASSUME NEW t \in Clients, ClearTimer(t)
      PROVE  CallInv'
  BY <1>9 DEF ClearTimer
<1>10. ASSUME NEW t \in Clients, WaitReturn(t)
       PROVE  CallInv'
  BY <1>10 DEF WaitReturn
<1>11. ASSUME NEW t \in Clients, NEW late \in BOOLEAN, NEW wraps \in BOOLEAN,
              CollectEvents(t, late, wraps)
       PROVE  CallInv'
  BY <1>11 DEF CollectEvents, HasDeadline, WaitEntry
<1>12. ASSUME NEW t \in Clients, Repost(t)
       PROVE  CallInv'
  BY <1>12 DEF Repost, Unwanted, WaitExit
<1>13. ASSUME NEW t \in Clients, MutexTake(t)
       PROVE  CallInv'
  BY <1>13 DEF MutexTake
<1>14. ASSUME NEW t \in Clients, MutexContend(t)
       PROVE  CallInv'
  BY <1>14 DEF MutexContend
<1>15. ASSUME NEW t \in Clients, MutexLocked(t)
       PROVE  CallInv'
  BY <1>15 DEF MutexLocked
<1>16. ASSUME NEW t \in Clients, MutexNotify(t)
       PROVE  CallInv'
  BY <1>16 DEF MutexNotify
<1>17. ASSUME NEW t \in Clients, MutexUnlocked(t)
       PROVE  CallInv'
  BY <1>17 DEF MutexUnlocked
<1>18. ASSUME NEW t \in Clients, NEW u \in Clients, NEW e \in UserEvents, NEW w \in WaitFlags,
              SetEvent(t, u, e, w)
       PROVE  CallInv'
  BY <1>18 DEF SetEvent
<1>19. ASSUME NEW t \in Clients, NEW tmo \in BOOLEAN, WaitEvent(t, tmo)
       PROVE  CallInv'
  BY <1>19 DEF WaitEvent, WaitEntry
<1>20. ASSUME NEW t \in Clients, NEW m \in SUBSET UserEvents, NEW tmo \in BOOLEAN,
              WaitEventMask(t, m, tmo)
       PROVE  CallInv'
  BY <1>20 DEF WaitEventMask, WaitEntry
<1>21. ASSUME NEW t \in Clients, Usleep(t)
       PROVE  CallInv'
  BY <1>21 DEF Usleep
<1>22. ASSUME NEW t \in Clients, NEW m \in Mutexes, MutexLock(t, m)
       PROVE  CallInv'
  BY <1>22 DEF MutexLock
<1>23. ASSUME NEW t \in Clients, NEW m \in Mutexes, MutexUnlock(t, m)
       PROVE  CallInv'
  BY <1>23 DEF MutexUnlock, Snapshot
<1>24. ASSUME NEW u \in Clients, NEW e \in UserEvents, IrqSetEvent(u, e)
       PROVE  CallInv'
  BY <1>24 DEF IrqSetEvent, IrqPost
<1>25. ASSUME NEW u \in Clients, ExpireTimer(u)
       PROVE  CallInv'
  BY <1>25 DEF ExpireTimer, IrqPost
<1>26. CASE UNCHANGED vars
  BY <1>26 DEF vars
<1> HIDE DEF CallInv, WaitPCs, TypeOK, Clients, PCs, Ops, Events, Step,
        Running, schedVars, mutexVars, waitVars, unlockVars
<1> QED
  BY <1>1, <1>2, <1>3, <1>4, <1>5, <1>6, <1>7, <1>8, <1>9, <1>10, <1>11, <1>12, <1>13,
     <1>14, <1>15, <1>16, <1>17, <1>18, <1>19, <1>20, <1>21, <1>22, <1>23, <1>24, <1>25, <1>26
  DEF Next, KernelStep, ClientCall, Interrupt

-----------------------------------------------------------------------------
(* Mutexes *)

\* An owned mutex is locked, it has one owner, and a task in mutex_lock() is
\* registered as a waiter until it is past the wait.
MutexInv ==
    /\ MutualExclusion
    /\ \A t \in Tasks, m \in Mutexes : Owns(t, m) => lock[m]
    /\ \A t \in Tasks : op[t] = "lock" => t \in waiters[mtx[t]]

\* Every step keeps MutexInv.
LEMMA MutexStep ==
    ASSUME TypeOK, CallInv, MutexInv, [Next]_vars
    PROVE  MutexInv'
<1> USE TaskAssumption, NamedTasks DEF MutexInv, MutualExclusion, Owns,
        CallInv, TypeOK, Clients, PCs, Ops, Events, Step, Running,
        schedVars, mutexVars, waitVars, unlockVars
<1>1. CASE TaskStart
  BY <1>1 DEF TaskStart
<1>2. CASE PendSV
  BY <1>2 DEF PendSV
<1>3. CASE EnableAll
  BY <1>3 DEF EnableAll, AllTasks
<1>4. ASSUME NEW t \in Clients, Resched(t)
      PROVE  MutexInv'
  BY <1>4 DEF Resched
<1>5. ASSUME NEW t \in Clients, TimerArm(t)
      PROVE  MutexInv'
  BY <1>5 DEF TimerArm
<1>6. ASSUME NEW t \in Clients, ReadClear(t)
      PROVE  MutexInv'
  BY <1>6 DEF ReadClear
<1>7. ASSUME NEW t \in Clients, Deschedule(t)
      PROVE  MutexInv'
  BY <1>7 DEF Deschedule
<1>8. ASSUME NEW t \in Clients, TimerCancel(t)
      PROVE  MutexInv'
  BY <1>8 DEF TimerCancel
<1>9. ASSUME NEW t \in Clients, ClearTimer(t)
      PROVE  MutexInv'
  BY <1>9 DEF ClearTimer
<1>10. ASSUME NEW t \in Clients, WaitReturn(t)
       PROVE  MutexInv'
  BY <1>10 DEF WaitReturn
<1>11. ASSUME NEW t \in Clients, NEW late \in BOOLEAN, NEW wraps \in BOOLEAN,
              CollectEvents(t, late, wraps)
       PROVE  MutexInv'
  BY <1>11 DEF CollectEvents, HasDeadline, WaitEntry
<1>12. ASSUME NEW t \in Clients, Repost(t)
       PROVE  MutexInv'
  BY <1>12 DEF Repost, Unwanted, WaitExit
<1>13. ASSUME NEW t \in Clients, MutexTake(t)
       PROVE  MutexInv'
  BY <1>13 DEF MutexTake
<1>14. ASSUME NEW t \in Clients, MutexContend(t)
       PROVE  MutexInv'
  BY <1>14 DEF MutexContend
<1>15. ASSUME NEW t \in Clients, MutexLocked(t)
       PROVE  MutexInv'
  BY <1>15 DEF MutexLocked
<1>16. ASSUME NEW t \in Clients, MutexNotify(t)
       PROVE  MutexInv'
  BY <1>16 DEF MutexNotify
<1>17. ASSUME NEW t \in Clients, MutexUnlocked(t)
       PROVE  MutexInv'
  BY <1>17 DEF MutexUnlocked
<1>18. ASSUME NEW t \in Clients, NEW u \in Clients, NEW e \in UserEvents, NEW w \in WaitFlags,
              SetEvent(t, u, e, w)
       PROVE  MutexInv'
  BY <1>18 DEF SetEvent
<1>19. ASSUME NEW t \in Clients, NEW tmo \in BOOLEAN, WaitEvent(t, tmo)
       PROVE  MutexInv'
  BY <1>19 DEF WaitEvent, WaitEntry
<1>20. ASSUME NEW t \in Clients, NEW m \in SUBSET UserEvents, NEW tmo \in BOOLEAN,
              WaitEventMask(t, m, tmo)
       PROVE  MutexInv'
  BY <1>20 DEF WaitEventMask, WaitEntry
<1>21. ASSUME NEW t \in Clients, Usleep(t)
       PROVE  MutexInv'
  BY <1>21 DEF Usleep
<1>22. ASSUME NEW t \in Clients, NEW m \in Mutexes, MutexLock(t, m)
       PROVE  MutexInv'
  BY <1>22 DEF MutexLock
<1>23. ASSUME NEW t \in Clients, NEW m \in Mutexes, MutexUnlock(t, m)
       PROVE  MutexInv'
  BY <1>23 DEF MutexUnlock, Snapshot
<1>24. ASSUME NEW u \in Clients, NEW e \in UserEvents, IrqSetEvent(u, e)
       PROVE  MutexInv'
  BY <1>24 DEF IrqSetEvent, IrqPost
<1>25. ASSUME NEW u \in Clients, ExpireTimer(u)
       PROVE  MutexInv'
  BY <1>25 DEF ExpireTimer, IrqPost
<1>26. CASE UNCHANGED vars
  BY <1>26 DEF vars
<1> HIDE DEF MutexInv, MutualExclusion, Owns, CallInv, TypeOK, Clients, PCs,
        Ops, Events, Step, Running, schedVars, mutexVars, waitVars,
        unlockVars
<1> QED
  BY <1>1, <1>2, <1>3, <1>4, <1>5, <1>6, <1>7, <1>8, <1>9, <1>10, <1>11, <1>12, <1>13,
     <1>14, <1>15, <1>16, <1>17, <1>18, <1>19, <1>20, <1>21, <1>22, <1>23, <1>24, <1>25, <1>26
  DEF Next, KernelStep, ClientCall, Interrupt

\* mutex_lock()/mutex_unlock(): two tasks never own the same mutex, for any
\* number of tasks and mutexes, nested sections included.
THEOREM MutexSafe == Spec => []MutualExclusion
<1> DEFINE IInv == TypeOK /\ SchedInv /\ CallInv /\ MutexInv
<1>1. Init => IInv
  BY TypeInit DEF Init, CallInv, MutexInv, MutualExclusion, Owns, WaitPCs
<1>2. IInv /\ [Next]_vars => IInv'
  BY TypeStep, CallStep, MutexStep
<1>3. IInv => MutualExclusion
  BY DEF MutexInv
<1> QED BY <1>1, <1>2, <1>3, PTL DEF Spec

-----------------------------------------------------------------------------
(* Timeouts *)

\* A timer runs, and its event is pending, only inside the timed wait that
\* armed it.
TimerInv ==
    /\ NoStrayTimerEvent
    /\ \A t \in timer_running : timed[t] /\ pc[t] \in {"read", "svc", "cancel"}

\* Every step keeps TimerInv.
LEMMA TimerStep ==
    ASSUME TypeOK, CallInv, TimerInv, [Next]_vars
    PROVE  TimerInv'
<1> USE TaskAssumption, NamedTasks DEF TimerInv, NoStrayTimerEvent, CallInv,
        WaitPCs, TypeOK, Clients, PCs, Ops, Events, Step, Running,
        schedVars, mutexVars, waitVars, unlockVars
<1>1. CASE TaskStart
  BY <1>1 DEF TaskStart
<1>2. CASE PendSV
  BY <1>2 DEF PendSV
<1>3. CASE EnableAll
  BY <1>3 DEF EnableAll, AllTasks
<1>4. ASSUME NEW t \in Clients, Resched(t)
      PROVE  TimerInv'
  BY <1>4 DEF Resched
<1>5. ASSUME NEW t \in Clients, TimerArm(t)
      PROVE  TimerInv'
  BY <1>5 DEF TimerArm
<1>6. ASSUME NEW t \in Clients, ReadClear(t)
      PROVE  TimerInv'
  BY <1>6 DEF ReadClear
<1>7. ASSUME NEW t \in Clients, Deschedule(t)
      PROVE  TimerInv'
  BY <1>7 DEF Deschedule
<1>8. ASSUME NEW t \in Clients, TimerCancel(t)
      PROVE  TimerInv'
  BY <1>8 DEF TimerCancel
<1>9. ASSUME NEW t \in Clients, ClearTimer(t)
      PROVE  TimerInv'
  BY <1>9 DEF ClearTimer
<1>10. ASSUME NEW t \in Clients, WaitReturn(t)
       PROVE  TimerInv'
  BY <1>10 DEF WaitReturn
<1>11. ASSUME NEW t \in Clients, NEW late \in BOOLEAN, NEW wraps \in BOOLEAN,
              CollectEvents(t, late, wraps)
       PROVE  TimerInv'
  BY <1>11 DEF CollectEvents, HasDeadline, WaitEntry
<1>12. ASSUME NEW t \in Clients, Repost(t)
       PROVE  TimerInv'
  <2>1. pc[t] = "repost" /\ "TIMER" \in mask[t]
    BY <1>12 DEF Repost
  <2>2. "TIMER" \notin events[t] /\ t \notin timer_running
    BY <2>1
  <2>3. /\ timer_running' = timer_running
        /\ events' = [events EXCEPT ![t] = @ \cup (got[t] \ mask[t])]
        /\ timed' = [timed EXCEPT ![t] = FALSE]
        /\ \A s \in Tasks : s # t => pc'[s] = pc[s]
    BY <1>12 DEF Repost, Unwanted
  <2>4. "TIMER" \notin events'[t]
    BY <2>1, <2>2, <2>3
  <2>5. \A s \in Tasks : s # t =>
           events'[s] = events[s] /\ timed'[s] = timed[s] /\ pc'[s] = pc[s]
    BY <2>3
  <2>6. NoStrayTimerEvent'
    BY <2>4, <2>5
  <2>7. \A s \in timer_running' :
           timed'[s] /\ pc'[s] \in {"read", "svc", "cancel"}
    BY <2>2, <2>3, <2>5
  <2> QED BY <2>6, <2>7
<1>13. ASSUME NEW t \in Clients, MutexTake(t)
       PROVE  TimerInv'
  BY <1>13 DEF MutexTake
<1>14. ASSUME NEW t \in Clients, MutexContend(t)
       PROVE  TimerInv'
  BY <1>14 DEF MutexContend
<1>15. ASSUME NEW t \in Clients, MutexLocked(t)
       PROVE  TimerInv'
  BY <1>15 DEF MutexLocked
<1>16. ASSUME NEW t \in Clients, MutexNotify(t)
       PROVE  TimerInv'
  BY <1>16 DEF MutexNotify
<1>17. ASSUME NEW t \in Clients, MutexUnlocked(t)
       PROVE  TimerInv'
  BY <1>17 DEF MutexUnlocked
<1>18. ASSUME NEW t \in Clients, NEW u \in Clients, NEW e \in UserEvents, NEW w \in WaitFlags,
              SetEvent(t, u, e, w)
       PROVE  TimerInv'
  BY <1>18 DEF SetEvent
<1>19. ASSUME NEW t \in Clients, NEW tmo \in BOOLEAN, WaitEvent(t, tmo)
       PROVE  TimerInv'
  BY <1>19 DEF WaitEvent, WaitEntry
<1>20. ASSUME NEW t \in Clients, NEW m \in SUBSET UserEvents, NEW tmo \in BOOLEAN,
              WaitEventMask(t, m, tmo)
       PROVE  TimerInv'
  BY <1>20 DEF WaitEventMask, WaitEntry
<1>21. ASSUME NEW t \in Clients, Usleep(t)
       PROVE  TimerInv'
  BY <1>21 DEF Usleep
<1>22. ASSUME NEW t \in Clients, NEW m \in Mutexes, MutexLock(t, m)
       PROVE  TimerInv'
  BY <1>22 DEF MutexLock
<1>23. ASSUME NEW t \in Clients, NEW m \in Mutexes, MutexUnlock(t, m)
       PROVE  TimerInv'
  BY <1>23 DEF MutexUnlock, Snapshot
<1>24. ASSUME NEW u \in Clients, NEW e \in UserEvents, IrqSetEvent(u, e)
       PROVE  TimerInv'
  BY <1>24 DEF IrqSetEvent, IrqPost
<1>25. ASSUME NEW u \in Clients, ExpireTimer(u)
       PROVE  TimerInv'
  BY <1>25 DEF ExpireTimer, IrqPost
<1>26. CASE UNCHANGED vars
  BY <1>26 DEF vars
<1> HIDE DEF TimerInv, NoStrayTimerEvent, CallInv, WaitPCs, TypeOK, Clients,
        PCs, Ops, Events, Step, Running, schedVars, mutexVars, waitVars,
        unlockVars
<1> QED
  BY <1>1, <1>2, <1>3, <1>4, <1>5, <1>6, <1>7, <1>8, <1>9, <1>10, <1>11, <1>12, <1>13,
     <1>14, <1>15, <1>16, <1>17, <1>18, <1>19, <1>20, <1>21, <1>22, <1>23, <1>24, <1>25, <1>26
  DEF Next, KernelStep, ClientCall, Interrupt

LEMMA TimersKept == Spec => [](TypeOK /\ SchedInv /\ CallInv /\ TimerInv)
<1> DEFINE IInv == TypeOK /\ SchedInv /\ CallInv /\ TimerInv
<1>1. Init => IInv
  BY TypeInit DEF Init, CallInv, TimerInv, NoStrayTimerEvent, WaitPCs
<1>2. IInv /\ [Next]_vars => IInv'
  BY TypeStep, CallStep, TimerStep
<1> QED BY <1>1, <1>2, PTL DEF Spec

\* __wait_evt(): TASK_EVENT_TIMER never outlives the wait it was armed for.
THEOREM TimeoutsConfined == Spec => []NoStrayTimerEvent
<1>1. TimerInv => NoStrayTimerEvent
  BY DEF TimerInv
<1> QED BY <1>1, TimersKept, PTL

\* timer_arm() never finds the task's timer running, so that no wait goes
\* without the timeout it asked for.
THEOREM ArmsFreeTimer == Spec => []ArmSucceeds
<1>1. TimerInv => ArmSucceeds
  BY DEF TimerInv, ArmSucceeds
<1> QED BY <1>1, TimersKept, PTL

-----------------------------------------------------------------------------
(* Events *)

\* Every step keeps the events that are owed to a task.
LEMMA EventStep ==
    ASSUME TypeOK, CallInv, NoEventLost, [Next]_vars
    PROVE  NoEventLost'
<1> USE TaskAssumption, NamedTasks DEF NoEventLost, CallInv, WaitPCs,
        TypeOK, Clients, PCs, Ops, Events, Step, Running, schedVars,
        mutexVars, waitVars, unlockVars
<1>1. CASE TaskStart
  BY <1>1 DEF TaskStart
<1>2. CASE PendSV
  BY <1>2 DEF PendSV
<1>3. CASE EnableAll
  BY <1>3 DEF EnableAll, AllTasks
<1>4. ASSUME NEW t \in Clients, Resched(t)
      PROVE  NoEventLost'
  BY <1>4 DEF Resched
<1>5. ASSUME NEW t \in Clients, TimerArm(t)
      PROVE  NoEventLost'
  BY <1>5 DEF TimerArm
<1>6. ASSUME NEW t \in Clients, ReadClear(t)
      PROVE  NoEventLost'
  BY <1>6 DEF ReadClear
<1>7. ASSUME NEW t \in Clients, Deschedule(t)
      PROVE  NoEventLost'
  BY <1>7 DEF Deschedule
<1>8. ASSUME NEW t \in Clients, TimerCancel(t)
      PROVE  NoEventLost'
  BY <1>8 DEF TimerCancel
<1>9. ASSUME NEW t \in Clients, ClearTimer(t)
      PROVE  NoEventLost'
  BY <1>9 DEF ClearTimer
<1>10. ASSUME NEW t \in Clients, WaitReturn(t)
       PROVE  NoEventLost'
  BY <1>10 DEF WaitReturn
<1>11. ASSUME NEW t \in Clients, NEW late \in BOOLEAN, NEW wraps \in BOOLEAN,
              CollectEvents(t, late, wraps)
       PROVE  NoEventLost'
  BY <1>11 DEF CollectEvents, HasDeadline, WaitEntry
<1>12. ASSUME NEW t \in Clients, Repost(t)
       PROVE  NoEventLost'
  BY <1>12 DEF Repost, Unwanted, WaitExit
<1>13. ASSUME NEW t \in Clients, MutexTake(t)
       PROVE  NoEventLost'
  BY <1>13 DEF MutexTake
<1>14. ASSUME NEW t \in Clients, MutexContend(t)
       PROVE  NoEventLost'
  BY <1>14 DEF MutexContend
<1>15. ASSUME NEW t \in Clients, MutexLocked(t)
       PROVE  NoEventLost'
  BY <1>15 DEF MutexLocked
<1>16. ASSUME NEW t \in Clients, MutexNotify(t)
       PROVE  NoEventLost'
  BY <1>16 DEF MutexNotify
<1>17. ASSUME NEW t \in Clients, MutexUnlocked(t)
       PROVE  NoEventLost'
  BY <1>17 DEF MutexUnlocked
<1>18. ASSUME NEW t \in Clients, NEW u \in Clients, NEW e \in UserEvents, NEW w \in WaitFlags,
              SetEvent(t, u, e, w)
       PROVE  NoEventLost'
  BY <1>18 DEF SetEvent
<1>19. ASSUME NEW t \in Clients, NEW tmo \in BOOLEAN, WaitEvent(t, tmo)
       PROVE  NoEventLost'
  BY <1>19 DEF WaitEvent, WaitEntry
<1>20. ASSUME NEW t \in Clients, NEW m \in SUBSET UserEvents, NEW tmo \in BOOLEAN,
              WaitEventMask(t, m, tmo)
       PROVE  NoEventLost'
  BY <1>20 DEF WaitEventMask, WaitEntry
<1>21. ASSUME NEW t \in Clients, Usleep(t)
       PROVE  NoEventLost'
  BY <1>21 DEF Usleep
<1>22. ASSUME NEW t \in Clients, NEW m \in Mutexes, MutexLock(t, m)
       PROVE  NoEventLost'
  BY <1>22 DEF MutexLock
<1>23. ASSUME NEW t \in Clients, NEW m \in Mutexes, MutexUnlock(t, m)
       PROVE  NoEventLost'
  BY <1>23 DEF MutexUnlock, Snapshot
<1>24. ASSUME NEW u \in Clients, NEW e \in UserEvents, IrqSetEvent(u, e)
       PROVE  NoEventLost'
  BY <1>24 DEF IrqSetEvent, IrqPost
<1>25. ASSUME NEW u \in Clients, ExpireTimer(u)
       PROVE  NoEventLost'
  BY <1>25 DEF ExpireTimer, IrqPost
<1>26. CASE UNCHANGED vars
  BY <1>26 DEF vars
<1> HIDE DEF NoEventLost, CallInv, WaitPCs, TypeOK, Clients, PCs, Ops,
        Events, Step, Running, schedVars, mutexVars, waitVars, unlockVars
<1> QED
  BY <1>1, <1>2, <1>3, <1>4, <1>5, <1>6, <1>7, <1>8, <1>9, <1>10, <1>11, <1>12, <1>13,
     <1>14, <1>15, <1>16, <1>17, <1>18, <1>19, <1>20, <1>21, <1>22, <1>23, <1>24, <1>25, <1>26
  DEF Next, KernelStep, ClientCall, Interrupt

\* task_wait_event_mask(), usleep(), mutex_lock(): no posted event is lost.
THEOREM EventsKept == Spec => []NoEventLost
<1> DEFINE IInv == TypeOK /\ SchedInv /\ CallInv /\ NoEventLost
<1>1. Init => IInv
  BY TypeInit DEF Init, CallInv, NoEventLost, WaitPCs
<1>2. IInv /\ [Next]_vars => IInv'
  BY TypeStep, CallStep, EventStep
<1> QED BY <1>1, <1>2, PTL DEF Spec

-----------------------------------------------------------------------------
(* Wake-ups *)

\* A task on its way to make another one ready is at the svc of
\* task_set_event(), and a task with a pending event is ready or on the way
\* to be.
WakeInv ==
    /\ \A t \in Tasks : resched[t] # IDLE => pc[t] = "resched"
    /\ NoLostWakeup

\* Every step keeps WakeInv when no caller of task_set_event() waits.
LEMMA WakeStep ==
    ASSUME TypeOK, SchedInv, CallInv, WakeInv, WaitFlags \subseteq {FALSE}, [Next]_vars
    PROVE  WakeInv'
<1> USE TaskAssumption, NamedTasks DEF WakeInv, NoLostWakeup, SchedInv,
        TypeOK, Clients, PCs, Ops, Events, Step, Running, schedVars,
        mutexVars, waitVars, unlockVars
<1>1. CASE TaskStart
  BY <1>1 DEF TaskStart
<1>2. CASE PendSV
  BY <1>2 DEF PendSV, SvcHandler, ReadyAfter
<1>3. CASE EnableAll
  BY <1>3 DEF EnableAll, AllTasks
<1>4. ASSUME NEW t \in Clients, Resched(t)
      PROVE  WakeInv'
  BY <1>4 DEF Resched, SvcHandler, ReadyAfter
<1>5. ASSUME NEW t \in Clients, TimerArm(t)
      PROVE  WakeInv'
  BY <1>5 DEF TimerArm
<1>6. ASSUME NEW t \in Clients, ReadClear(t)
      PROVE  WakeInv'
  BY <1>6 DEF ReadClear
<1>7. ASSUME NEW t \in Clients, Deschedule(t)
      PROVE  WakeInv'
  BY <1>7 DEF Deschedule, SvcHandler, ReadyAfter
<1>8. ASSUME NEW t \in Clients, TimerCancel(t)
      PROVE  WakeInv'
  BY <1>8 DEF TimerCancel
<1>9. ASSUME NEW t \in Clients, ClearTimer(t)
      PROVE  WakeInv'
  BY <1>9 DEF ClearTimer
<1>10. ASSUME NEW t \in Clients, WaitReturn(t)
       PROVE  WakeInv'
  BY <1>10 DEF WaitReturn
<1>11. ASSUME NEW t \in Clients, NEW late \in BOOLEAN, NEW wraps \in BOOLEAN,
              CollectEvents(t, late, wraps)
       PROVE  WakeInv'
  BY <1>11 DEF CollectEvents, HasDeadline, WaitEntry
<1>12. ASSUME NEW t \in Clients, Repost(t)
       PROVE  WakeInv'
  BY <1>12 DEF Repost, Unwanted, WaitExit
<1>13. ASSUME NEW t \in Clients, MutexTake(t)
       PROVE  WakeInv'
  BY <1>13 DEF MutexTake
<1>14. ASSUME NEW t \in Clients, MutexContend(t)
       PROVE  WakeInv'
  BY <1>14 DEF MutexContend
<1>15. ASSUME NEW t \in Clients, MutexLocked(t)
       PROVE  WakeInv'
  BY <1>15 DEF MutexLocked
<1>16. ASSUME NEW t \in Clients, MutexNotify(t)
       PROVE  WakeInv'
  <2>1. Fls(snap[t]) \in Tasks
    BY <1>16, FlsMember DEF MutexNotify
  <2>2. NoLostWakeup'
    <3>1. /\ pc[t] = "notify" /\ tasks_ready' = tasks_ready
          /\ events' = [events EXCEPT ![Fls(snap[t])] = @ \cup {"MUTEX"}]
          /\ resched' = [resched EXCEPT ![t] = Fls(snap[t])]
      BY <1>16 DEF MutexNotify
    <3>2. resched[t] = IDLE
      BY <3>1
    <3> SUFFICES ASSUME NEW s \in Clients, events'[s] # {}
                 PROVE  s \in tasks_ready' \/ \E v \in Clients : resched'[v] = s
      OBVIOUS
    <3>3. CASE s = Fls(snap[t])
      BY <3>1, <3>3
    <3>4. CASE s # Fls(snap[t])
      <4>1. events[s] # {}
        BY <2>1, <3>1, <3>4
      <4>2. \A v \in Clients : resched[v] = s => resched'[v] = s
        BY <3>1, <3>2
      <4> QED BY <3>1, <4>1, <4>2
    <3> QED BY <3>3, <3>4
  <2>3. \A s \in Tasks : resched'[s] # IDLE => pc'[s] = "resched"
    BY <1>16, <2>1 DEF MutexNotify
  <2> QED BY <2>2, <2>3
<1>17. ASSUME NEW t \in Clients, MutexUnlocked(t)
       PROVE  WakeInv'
  BY <1>17 DEF MutexUnlocked
<1>18. ASSUME NEW t \in Clients, NEW u \in Clients, NEW e \in UserEvents, NEW w \in WaitFlags,
              SetEvent(t, u, e, w)
       PROVE  WakeInv'
  <2>1. w = FALSE
    OBVIOUS
  <2>2. NoLostWakeup'
    <3>1. /\ pc[t] = "run" /\ tasks_ready' = tasks_ready
          /\ events' = [events EXCEPT ![u] = @ \cup {e}]
          /\ resched' = [resched EXCEPT ![t] = u]
      BY <1>18 DEF SetEvent
    <3>2. resched[t] = IDLE
      BY <3>1
    <3> SUFFICES ASSUME NEW s \in Clients, events'[s] # {}
                 PROVE  s \in tasks_ready' \/ \E v \in Clients : resched'[v] = s
      OBVIOUS
    <3>3. CASE s = u
      BY <3>1, <3>3
    <3>4. CASE s # u
      <4>1. events[s] # {}
        BY <3>1, <3>4
      <4>2. \A v \in Clients : resched[v] = s => resched'[v] = s
        BY <3>1, <3>2
      <4> QED BY <3>1, <4>1, <4>2
    <3> QED BY <3>3, <3>4
  <2>3. \A s \in Tasks : resched'[s] # IDLE => pc'[s] = "resched"
    BY <1>18, <2>1 DEF SetEvent
  <2> QED BY <2>2, <2>3
<1>19. ASSUME NEW t \in Clients, NEW tmo \in BOOLEAN, WaitEvent(t, tmo)
       PROVE  WakeInv'
  BY <1>19 DEF WaitEvent, WaitEntry
<1>20. ASSUME NEW t \in Clients, NEW m \in SUBSET UserEvents, NEW tmo \in BOOLEAN,
              WaitEventMask(t, m, tmo)
       PROVE  WakeInv'
  BY <1>20 DEF WaitEventMask, WaitEntry
<1>21. ASSUME NEW t \in Clients, Usleep(t)
       PROVE  WakeInv'
  BY <1>21 DEF Usleep
<1>22. ASSUME NEW t \in Clients, NEW m \in Mutexes, MutexLock(t, m)
       PROVE  WakeInv'
  BY <1>22 DEF MutexLock
<1>23. ASSUME NEW t \in Clients, NEW m \in Mutexes, MutexUnlock(t, m)
       PROVE  WakeInv'
  BY <1>23 DEF MutexUnlock, Snapshot
<1>24. ASSUME NEW u \in Clients, NEW e \in UserEvents, IrqSetEvent(u, e)
       PROVE  WakeInv'
  BY <1>24 DEF IrqSetEvent, IrqPost
<1>25. ASSUME NEW u \in Clients, ExpireTimer(u)
       PROVE  WakeInv'
  BY <1>25 DEF ExpireTimer, IrqPost
<1>26. CASE UNCHANGED vars
  BY <1>26 DEF vars
<1> HIDE DEF WakeInv, NoLostWakeup, SchedInv, TypeOK, Clients, PCs, Ops,
        Events, Step, Running, schedVars, mutexVars, waitVars, unlockVars
<1> QED
  BY <1>1, <1>2, <1>3, <1>4, <1>5, <1>6, <1>7, <1>8, <1>9, <1>10, <1>11, <1>12, <1>13,
     <1>14, <1>15, <1>16, <1>17, <1>18, <1>19, <1>20, <1>21, <1>22, <1>23, <1>24, <1>25, <1>26
  DEF Next, KernelStep, ClientCall, Interrupt

\* task_set_event(), __svc_handler(): without the wait flag, which no code of
\* this image passes, no wake-up is lost.
THEOREM WakeupsKept ==
    ASSUME WaitFlags \subseteq {FALSE}
    PROVE  Spec => []NoLostWakeup
<1> DEFINE IInv == TypeOK /\ SchedInv /\ CallInv /\ WakeInv
<1>1. Init => IInv
  BY TypeInit DEF Init, CallInv, WakeInv, NoLostWakeup, WaitPCs, Clients
<1>2. IInv /\ [Next]_vars => IInv'
  BY TypeStep, CallStep, WakeStep
<1>3. IInv => NoLostWakeup
  BY DEF WakeInv
<1> QED BY <1>1, <1>2, <1>3, PTL DEF Spec

-----------------------------------------------------------------------------
(* Nobody sleeps on a free mutex *)

\* NoSleeperOnFreeMutex from the first wait of mutex_lock() to its last.
SleepInv ==
    \A t \in Clients :
        /\ op[t] = "lock"
        /\ pc[t] \notin {"try", "locked"}
        /\ ~lock[mtx[t]]
        => \/ "MUTEX" \in events[t] \cup evt[t] \cup got[t]
           \/ \E u \in Clients : t \in snap[u] /\ mtx[u] = mtx[t]

\* Every step keeps SleepInv.
LEMMA SleepStep ==
    ASSUME TypeOK, CallInv, MutexInv, SleepInv, [Next]_vars
    PROVE  SleepInv'
<1> USE TaskAssumption, NamedTasks DEF SleepInv, MutexInv, CallInv, WaitPCs,
        TypeOK, Clients, PCs, Ops, Events, Step, Running, schedVars,
        mutexVars, waitVars, unlockVars
<1>1. CASE TaskStart
  BY <1>1 DEF TaskStart
<1>2. CASE PendSV
  BY <1>2 DEF PendSV
<1>3. CASE EnableAll
  BY <1>3 DEF EnableAll, AllTasks
<1>4. ASSUME NEW t \in Clients, Resched(t)
      PROVE  SleepInv'
  BY <1>4 DEF Resched
<1>5. ASSUME NEW t \in Clients, TimerArm(t)
      PROVE  SleepInv'
  BY <1>5 DEF TimerArm
<1>6. ASSUME NEW t \in Clients, ReadClear(t)
      PROVE  SleepInv'
  <2>1. /\ pc[t] = "read" /\ evt'[t] = events[t]
        /\ op' = op /\ got' = got /\ lock' = lock /\ mtx' = mtx /\ snap' = snap
    BY <1>6 DEF ReadClear
  <2>2. evt[t] = {}
    BY <2>1
  <2>3. \A s \in Tasks : s # t =>
           pc'[s] = pc[s] /\ events'[s] = events[s] /\ evt'[s] = evt[s]
    BY <1>6 DEF ReadClear
  <2> SUFFICES ASSUME NEW s \in Clients, op'[s] = "lock",
                      pc'[s] \notin {"try", "locked"}, ~lock'[mtx'[s]]
               PROVE  \/ "MUTEX" \in events'[s] \cup evt'[s] \cup got'[s]
                      \/ \E u \in Clients : s \in snap'[u] /\ mtx'[u] = mtx'[s]
    OBVIOUS
  <2>4. CASE s = t
    <3>1. \/ "MUTEX" \in events[t] \cup got[t]
          \/ \E u \in Clients : t \in snap[u] /\ mtx[u] = mtx[t]
      BY <2>1, <2>2, <2>4
    <3> QED BY <2>1, <2>4, <3>1
  <2>5. CASE s # t
    BY <2>1, <2>3, <2>5
  <2> QED BY <2>4, <2>5
<1>7. ASSUME NEW t \in Clients, Deschedule(t)
      PROVE  SleepInv'
  BY <1>7 DEF Deschedule
<1>8. ASSUME NEW t \in Clients, TimerCancel(t)
      PROVE  SleepInv'
  BY <1>8 DEF TimerCancel
<1>9. ASSUME NEW t \in Clients, ClearTimer(t)
      PROVE  SleepInv'
  BY <1>9 DEF ClearTimer
<1>10. ASSUME NEW t \in Clients, WaitReturn(t)
       PROVE  SleepInv'
  BY <1>10 DEF WaitReturn
<1>11. ASSUME NEW t \in Clients, NEW late \in BOOLEAN, NEW wraps \in BOOLEAN,
              CollectEvents(t, late, wraps)
       PROVE  SleepInv'
  BY <1>11 DEF CollectEvents, HasDeadline, WaitEntry
<1>12. ASSUME NEW t \in Clients, Repost(t)
       PROVE  SleepInv'
  BY <1>12 DEF Repost, Unwanted, WaitExit
<1>13. ASSUME NEW t \in Clients, MutexTake(t)
       PROVE  SleepInv'
  BY <1>13 DEF MutexTake
<1>14. ASSUME NEW t \in Clients, MutexContend(t)
       PROVE  SleepInv'
  BY <1>14 DEF MutexContend
<1>15. ASSUME NEW t \in Clients, MutexLocked(t)
       PROVE  SleepInv'
  BY <1>15 DEF MutexLocked
<1>16. ASSUME NEW t \in Clients, MutexNotify(t)
       PROVE  SleepInv'
  BY <1>16 DEF MutexNotify
<1>17. ASSUME NEW t \in Clients, MutexUnlocked(t)
       PROVE  SleepInv'
  BY <1>17 DEF MutexUnlocked
<1>18. ASSUME NEW t \in Clients, NEW u \in Clients, NEW e \in UserEvents, NEW w \in WaitFlags,
              SetEvent(t, u, e, w)
       PROVE  SleepInv'
  BY <1>18 DEF SetEvent
<1>19. ASSUME NEW t \in Clients, NEW tmo \in BOOLEAN, WaitEvent(t, tmo)
       PROVE  SleepInv'
  BY <1>19 DEF WaitEvent, WaitEntry
<1>20. ASSUME NEW t \in Clients, NEW m \in SUBSET UserEvents, NEW tmo \in BOOLEAN,
              WaitEventMask(t, m, tmo)
       PROVE  SleepInv'
  BY <1>20 DEF WaitEventMask, WaitEntry
<1>21. ASSUME NEW t \in Clients, Usleep(t)
       PROVE  SleepInv'
  BY <1>21 DEF Usleep
<1>22. ASSUME NEW t \in Clients, NEW m \in Mutexes, MutexLock(t, m)
       PROVE  SleepInv'
  BY <1>22 DEF MutexLock
<1>23. ASSUME NEW t \in Clients, NEW m \in Mutexes, MutexUnlock(t, m)
       PROVE  SleepInv'
  <2> SUFFICES ASSUME NEW s \in Clients, op'[s] = "lock",
                      pc'[s] \notin {"try", "locked"}, ~lock'[mtx'[s]]
               PROVE  \/ "MUTEX" \in events'[s] \cup evt'[s] \cup got'[s]
                      \/ \E u \in Clients : s \in snap'[u] /\ mtx'[u] = mtx'[s]
    OBVIOUS
  <2>1. /\ s # t /\ op[s] = "lock" /\ pc[s] \notin {"try", "locked"}
        /\ mtx'[s] = mtx[s] /\ s \in waiters[mtx[s]]
    BY <1>23 DEF MutexUnlock
  <2>2. CASE mtx[s] = m
    <3>1. s \in snap'[t] /\ mtx'[t] = mtx'[s]
      BY <1>23, <2>1, <2>2 DEF MutexUnlock, Snapshot
    <3> QED BY <3>1
  <2>3. CASE mtx[s] # m
    <3>1. ~lock[mtx[s]]
      BY <1>23, <2>1, <2>3 DEF MutexUnlock
    <3>2. \A u \in Clients : s \in snap[u] =>
             s \in snap'[u] /\ mtx'[u] = mtx[u]
      <4>1. pc[t] = "run" /\ op[t] = "none"
        BY <1>23 DEF MutexUnlock
      <4>2. snap[t] = {}
        BY <4>1
      <4>3. \A u \in Clients : u # t => snap'[u] = snap[u] /\ mtx'[u] = mtx[u]
        BY <1>23 DEF MutexUnlock
      <4> QED BY <4>2, <4>3
    <3>3. /\ events'[s] = events[s] /\ evt'[s] = evt[s] /\ got'[s] = got[s]
      BY <1>23 DEF MutexUnlock
    <3> QED BY <2>1, <3>1, <3>2, <3>3
  <2> QED BY <2>2, <2>3
<1>24. ASSUME NEW u \in Clients, NEW e \in UserEvents, IrqSetEvent(u, e)
       PROVE  SleepInv'
  BY <1>24 DEF IrqSetEvent, IrqPost
<1>25. ASSUME NEW u \in Clients, ExpireTimer(u)
       PROVE  SleepInv'
  BY <1>25 DEF ExpireTimer, IrqPost
<1>26. CASE UNCHANGED vars
  BY <1>26 DEF vars
<1> HIDE DEF SleepInv, MutexInv, CallInv, WaitPCs, TypeOK, Clients, PCs,
        Ops, Events, Step, Running, schedVars, mutexVars, waitVars,
        unlockVars
<1> QED
  BY <1>1, <1>2, <1>3, <1>4, <1>5, <1>6, <1>7, <1>8, <1>9, <1>10, <1>11, <1>12, <1>13,
     <1>14, <1>15, <1>16, <1>17, <1>18, <1>19, <1>20, <1>21, <1>22, <1>23, <1>24, <1>25, <1>26
  DEF Next, KernelStep, ClientCall, Interrupt

\* mutex_lock()/mutex_unlock(): a task waiting for a free mutex has been
\* notified or is about to be.
THEOREM FreeMutexWakes == Spec => []NoSleeperOnFreeMutex
<1> DEFINE IInv == TypeOK /\ SchedInv /\ CallInv /\ MutexInv /\ SleepInv
<1>1. Init => IInv
  BY TypeInit
  DEF Init, CallInv, MutexInv, MutualExclusion, Owns, SleepInv, WaitPCs, Clients
<1>2. IInv /\ [Next]_vars => IInv'
  BY TypeStep, CallStep, MutexStep, SleepStep
<1>3. IInv => NoSleeperOnFreeMutex
  BY DEF SleepInv, NoSleeperOnFreeMutex
<1> QED BY <1>1, <1>2, <1>3, PTL DEF Spec
=============================================================================
