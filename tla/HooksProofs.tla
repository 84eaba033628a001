----------------------------- MODULE HooksProofs -----------------------------
(* Proofs about the hook task, for any number of deferred routines, any      *)
(* delays and any periods.                                                   *)
EXTENDS Hooks, TLAPS

\* hook_task(): where its loop index, its reading of the clock and the time of
\* the last tick stand to each other.
ClockInv ==
    /\ t <= now /\ last_tick <= now
    /\ pc \notin {"boot", "init", "loop", "calc"} => last_tick <= t
    /\ pc = "call" => i < DEFERRED_FUNCS_COUNT
    /\ hook_task_started <=> pc # "boot"

\* Every step keeps the types.
LEMMA TypeStep ==
    ASSUME TypeOK, ClockInv, [Next]_vars
    PROVE  TypeOK' /\ ClockInv'
<1> USE HooksAssumption DEF TypeOK, ClockInv, Never, Funcs, sharedVars, loopVars,
        tickVars, histVars
<1>1. CASE Tick
  BY <1>1 DEF Tick
<1>2. CASE Start
  BY <1>2 DEF Start
<1>3. CASE InitHooks
  BY <1>3 DEF InitHooks
<1>4. CASE Loop
  BY <1>4 DEF Loop
<1>5. CASE Check
  BY <1>5 DEF Check
<1>6. CASE Call
  BY <1>6 DEF Call, Cleared
<1>7. CASE Periodic
  BY <1>7 DEF Periodic
<1>8. CASE Calculate
  <2>1. next' \in 0 .. HOOK_TICK_INTERVAL
    BY <1>8 DEF Calculate, ToNextTick
  <2>2. defer_new_call' \in BOOLEAN
    BY <1>8 DEF Calculate
  <2>3. TypeOK'
    BY <1>8, <2>1, <2>2 DEF Calculate
  <2>4. ClockInv'
    BY <1>8 DEF Calculate
  <2> QED BY <2>3, <2>4
<1>9. CASE Scan
  <2>1. next' \in 0 .. HOOK_TICK_INTERVAL
    BY <1>9 DEF Scan, Earlier
  <2>2. TypeOK'
    BY <1>9, <2>1 DEF Scan
  <2>3. ClockInv'
    BY <1>9 DEF Scan
  <2> QED BY <2>2, <2>3
<1>10. CASE Sleep
  BY <1>10 DEF Sleep
<1>11. CASE EnterWait
  BY <1>11 DEF EnterWait
<1>12. CASE Wake
  <2>1. /\ pc' = "loop" /\ wake' = FALSE /\ wake_at' = 0
        /\ UNCHANGED <<now, deferred_until, defer_new_call, hook_task_started,
                       i, t, next, tickVars, histVars>>
    BY <1>12 DEF Wake
  <2>2. pc = "wait"
    BY <1>12 DEF Wake
  <2>3. ClockInv'
    BY <2>1, <2>2
  <2>4. wake' \in BOOLEAN
    BY <2>1
  <2>5. TypeOK'
    BY <2>1, <2>4
  <2> QED BY <2>3, <2>5
<1>13. ASSUME NEW f \in Funcs, CancelDeferred(f)
       PROVE  TypeOK' /\ ClockInv'
  BY <1>13 DEF CancelDeferred
<1>14. ASSUME NEW f \in Funcs, NEW us \in Delays, CallDeferred(f, us)
       PROVE  TypeOK' /\ ClockInv'
  BY <1>14 DEF CallDeferred, WakeNeeded
<1>15. CASE UNCHANGED vars
  BY <1>15 DEF vars
<1> HIDE DEF TypeOK, ClockInv
<1> QED
  BY <1>1, <1>2, <1>3, <1>4, <1>5, <1>6, <1>7, <1>8, <1>9, <1>10, <1>11, <1>12,
     <1>13, <1>14, <1>15 DEF Next, HookTask
\* The hook task before its loop.
LEMMA TypeInit == Init => TypeOK /\ ClockInv
<1> SUFFICES ASSUME Init PROVE TypeOK /\ ClockInv
  OBVIOUS
<1> USE HooksAssumption DEF Init, TypeOK, ClockInv, Never, Funcs
<1>1. /\ defer_new_call \in BOOLEAN /\ hook_task_started \in BOOLEAN
      /\ wake \in BOOLEAN /\ requested \in [Funcs -> BOOLEAN]
  OBVIOUS
<1>2. TypeOK
  BY <1>1
<1>3. ClockInv
  OBVIOUS
<1> QED BY <1>2, <1>3

\* The variables of hooks.c and of the hook task have the values they are
\* declared for, among them a loop index within the array of routines and a
\* sleep of at most one tick.
THEOREM TypeCorrect == Spec => []TypeOK
<1>1. TypeOK /\ ClockInv /\ [Next]_vars => (TypeOK /\ ClockInv)'
  BY TypeStep
<1> QED BY <1>1, TypeInit, PTL DEF Spec

-----------------------------------------------------------------------------
(* The sleep *)

\* No pending call of a routine below n is due before the sleep ends.
NoneBefore(n) ==
    \A f \in Funcs : f < n /\ deferred_until[f] # 0 => t + next <= deferred_until[f]

\* hook_task(): what its scan of the deferred routines has established, unless a
\* new call came in meanwhile, which defer_new_call or the wake-up says.
ScanInv ==
    /\ pc \in {"scan", "sleep", "enter", "wait"} =>
          next = 0 \/ t + next <= last_tick + HOOK_TICK_INTERVAL
    /\ pc = "scan" => next = 0 \/ defer_new_call \/ NoneBefore(i)
    /\ pc = "sleep" => next = 0 \/ defer_new_call \/ NoneBefore(DEFERRED_FUNCS_COUNT)
    /\ pc \in {"enter", "wait"} =>
          next > 0 /\ (wake \/ NoneBefore(DEFERRED_FUNCS_COUNT))

\* Every step keeps it.
LEMMA ScanStep ==
    ASSUME TypeOK, ClockInv, ScanInv, [Next]_vars
    PROVE  ScanInv'
<1> USE HooksAssumption DEF TypeOK, ClockInv, ScanInv, NoneBefore, Funcs, sharedVars,
        loopVars, tickVars, histVars
<1>1. CASE Tick
  BY <1>1 DEF Tick
<1>2. CASE Start
  BY <1>2 DEF Start
<1>3. CASE InitHooks
  BY <1>3 DEF InitHooks
<1>4. CASE Loop
  BY <1>4 DEF Loop
<1>5. CASE Check
  BY <1>5 DEF Check
<1>6. CASE Call
  BY <1>6 DEF Call
<1>7. CASE Periodic
  BY <1>7 DEF Periodic
<1>8. CASE Calculate
  BY <1>8 DEF Calculate, ToNextTick
<1>9. CASE Scan
  BY <1>9 DEF Scan, Earlier
<1>10. CASE Sleep
  BY <1>10 DEF Sleep
<1>11. CASE EnterWait
  BY <1>11 DEF EnterWait
<1>12. CASE Wake
  BY <1>12 DEF Wake
<1>13. ASSUME NEW f \in Funcs, CancelDeferred(f)
       PROVE  ScanInv'
  BY <1>13 DEF CancelDeferred
<1>14. ASSUME NEW f \in Funcs, NEW us \in Delays, CallDeferred(f, us)
       PROVE  ScanInv'
  BY <1>14 DEF CallDeferred, WakeNeeded
<1>15. CASE UNCHANGED vars
  BY <1>15 DEF vars
<1> HIDE DEF TypeOK, ClockInv, ScanInv
<1> QED
  BY <1>1, <1>2, <1>3, <1>4, <1>5, <1>6, <1>7, <1>8, <1>9, <1>10, <1>11, <1>12,
     <1>13, <1>14, <1>15 DEF Next, HookTask

\* hook_task(), hook_call_deferred(): a sleeping hook task that nobody wakes has
\* its timeout no later than the next tick and every pending deferred call,
\* whichever of its steps a new call fell between.
THEOREM SleepsInTime == Spec => []SleepsNoLonger
<1> DEFINE IInv == TypeOK /\ ClockInv /\ ScanInv
<1>1. Init => IInv
  BY TypeInit DEF Init, ScanInv
<1>2. IInv /\ [Next]_vars => IInv'
  BY TypeStep, ScanStep
<1>3. IInv => SleepsNoLonger
  BY HooksAssumption DEF TypeOK, ScanInv, NoneBefore, SleepsNoLonger, Funcs
<1> QED BY <1>1, <1>2, <1>3, PTL DEF Spec

-----------------------------------------------------------------------------
(* Calls *)

\* hook_call_deferred(), hook_task(): a time in __deferred_until belongs to a
\* request, and a routine found due was requested and not cancelled, or
\* cancelled since.
RequestInv ==
    /\ \A f \in Funcs : deferred_until[f] # 0 => requested[f]
    /\ pc = "call" => due[i] = Never \/ requested[i]

\* Every step keeps it.
LEMMA RequestStep ==
    ASSUME TypeOK, ClockInv, RequestInv, [Next]_vars
    PROVE  RequestInv'
<1> USE HooksAssumption DEF TypeOK, ClockInv, RequestInv, Funcs, sharedVars,
        loopVars, tickVars, histVars
<1>1. CASE Tick
  BY <1>1 DEF Tick
<1>2. CASE Start
  BY <1>2 DEF Start
<1>3. CASE InitHooks
  BY <1>3 DEF InitHooks
<1>4. CASE Loop
  BY <1>4 DEF Loop
<1>5. CASE Check
  BY <1>5 DEF Check, IsDue
<1>6. CASE Call
  BY <1>6 DEF Call, Cleared
<1>7. CASE Periodic
  BY <1>7 DEF Periodic
<1>8. CASE Calculate
  BY <1>8 DEF Calculate
<1>9. CASE Scan
  BY <1>9 DEF Scan
<1>10. CASE Sleep
  BY <1>10 DEF Sleep
<1>11. CASE EnterWait
  BY <1>11 DEF EnterWait
<1>12. CASE Wake
  BY <1>12 DEF Wake
<1>13. ASSUME NEW f \in Funcs, CancelDeferred(f)
       PROVE  RequestInv'
  BY <1>13 DEF CancelDeferred
<1>14. ASSUME NEW f \in Funcs, NEW us \in Delays, CallDeferred(f, us)
       PROVE  RequestInv'
  BY <1>14 DEF CallDeferred
<1>15. CASE UNCHANGED vars
  BY <1>15 DEF vars
<1> HIDE DEF TypeOK, ClockInv, RequestInv
<1> QED
  BY <1>1, <1>2, <1>3, <1>4, <1>5, <1>6, <1>7, <1>8, <1>9, <1>10, <1>11, <1>12,
     <1>13, <1>14, <1>15 DEF Next, HookTask

\* hook_task(): no routine is called twice for one request: each call answers a
\* request, or one that was cancelled between the test and the call.
THEOREM CallsAnswerRequests == Spec => CalledOnRequest
<1> DEFINE IInv == TypeOK /\ ClockInv /\ RequestInv
<1>1. Init => IInv
  BY TypeInit DEF Init, RequestInv
<1>2. IInv /\ [Next]_vars => IInv'
  BY TypeStep, RequestStep
<1>3. IInv /\ [Next]_vars => [Call => due[i] = Never \/ requested[i]]_vars
  BY DEF RequestInv, Call
<1> QED BY <1>1, <1>2, <1>3, PTL DEF Spec, CalledOnRequest
=============================================================================
