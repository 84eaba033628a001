---------------------------- MODULE TimerProofs -----------------------------
(* Proofs about the clock and the timers, for any number of tasks, any length  *)
(* of an epoch and any timeouts, without the race on the status register.      *)
EXTENDS Integers, Timer, WellFoundedInduction, TLAPS

-----------------------------------------------------------------------------
(* The inductive invariants *)

\* process_timers(): clksrc_high is right but for one overflow that is flagged and
\* not yet counted, and that one is counted long before the next.
ClockInv ==
    /\ now = Val(clksrc_high, CNT) + (IF uif THEN Epoch ELSE 0)
    /\ isr = "clear" => (overflow <=> uif)
    /\ isr # "clear" => ~overflow
    /\ uif /\ isr \in {"idle", "clear"} => CNT = 0 \/ CNT < IrqTicks + latency
    /\ uif /\ isr \notin {"idle", "clear"} => CNT < latency

\* get_time(), by the position of task t: the time the two words make up, or why the
\* overflow that spoiled them cannot be followed by another.
Timely(t) ==
    /\ pc[t] \in GetTimePCs => start[t] <= now /\ now < start[t] + Epoch
    /\ pc[t] \in {"lo", "check"} =>
         hi[t] <= clksrc_high /\ start[t] < Val(hi[t], 0) + Epoch
    /\ pc[t] = "check" /\ hi[t] = clksrc_high => Val(hi[t], lo[t]) \in start[t] .. now
    /\ pc[t] = "hi2" => start[t] < Val(clksrc_high, 0)
    /\ pc[t] = "lo2" => hi[t] <= clksrc_high /\ start[t] < Val(hi[t], 0)
    /\ pc[t] = "arm" => Val(hi[t], lo[t]) \in start[t] .. now

GetTimeInv == \A t \in Tasks : Timely(t)

\* timer_arm(): a deadline that is armed is not too early, and what has fired was due.
DeadlineInv ==
    /\ \A t \in Tasks :
         /\ pc[t] \in {"enable", "modify", "wait"} => timer_deadline[t] >= start[t] + us[t]
         /\ t \in timer_running => pc[t] \in {"modify", "wait"}
         /\ fired[t] => pc[t] \in {"modify", "wait"} /\ now >= start[t] + us[t]
    /\ isr = "scan" => inow <= now

\* process_timers(): what the scan has found, until the handler returns.
ScanInv ==
    /\ isr = "scan" => Val(clksrc_high, 0) <= inow /\ inow <= Val(clksrc_high, MaxLo)
    /\ isr = "none" => \A t \in timer_running : timer_deadline[t] >= Val(clksrc_high, MaxLo)
    /\ isr \in {"set", "flag", "test"} =>
         /\ Hi(next) = clksrc_high /\ Lo(next) < MaxLo
         /\ \A t \in timer_running : timer_deadline[t] >= next
    /\ isr \in {"flag", "test"} => ccr1 = Lo(next)
    /\ isr = "test" => next_deadline = Lo(next) /\ cc1ie

\* Between interrupts: every timer that is armed comes at next_deadline or later, and
\* the counter has not passed next_deadline unless the match is flagged.
MatchInv ==
    isr = "idle" =>
        /\ ~Requested => \A t \in timer_running :
             pc[t] = "wait" => timer_deadline[t] >= Val(clksrc_high, next_deadline)
        /\ ~uif /\ next_deadline < MaxLo =>
             cc1ie /\ ccr1 = next_deadline /\ (cc1if \/ CNT < ccr1)

-----------------------------------------------------------------------------
(* Words of a time *)

\* timestamp_t is made of its words, and they are its own.
LEMMA ValWords ==
    ASSUME NEW h \in Nat, NEW l \in 0 .. MaxLo
    PROVE  /\ Val(h, l) \in Nat /\ Hi(Val(h, l)) = h /\ Lo(Val(h, l)) = l
           /\ Val(h, l) = Val(h, 0) + l /\ Val(h + 1, 0) = Val(h, 0) + Epoch
<1>1. Epoch \in Nat /\ Epoch > 1 /\ l \in 0 .. Epoch - 1
  BY TimerAssumption DEF MaxLo
<1>2. (h * Epoch + l) \div Epoch = h /\ (h * Epoch + l) % Epoch = l
  BY <1>1
<1>3. h * Epoch \in Nat /\ (h + 1) * Epoch = h * Epoch + Epoch
  BY <1>1
<1> QED BY <1>1, <1>2, <1>3 DEF Val, Hi, Lo

LEMMA WordsVal ==
    ASSUME NEW x \in Nat
    PROVE  Hi(x) \in Nat /\ Lo(x) \in 0 .. MaxLo /\ x = Val(Hi(x), Lo(x))
<1>1. Epoch \in Nat \ {0}
  BY TimerAssumption
<1>2. x = (x \div Epoch) * Epoch + (x % Epoch)
  BY <1>1
<1>3. x \div Epoch \in Nat /\ x % Epoch \in 0 .. Epoch - 1
  BY <1>1
<1> QED BY <1>2, <1>3 DEF Val, Hi, Lo, MaxLo

\* A smaller high word makes a smaller time, by an epoch when the low words are 0.
LEMMA ValOrder ==
    ASSUME NEW h \in Nat, NEW k \in Nat, h < k
    PROVE  Val(h, 0) + Epoch <= Val(k, 0)
<1>1. Epoch \in Nat
  BY TimerAssumption
<1>2. h * Epoch + Epoch <= k * Epoch
  BY <1>1
<1> QED BY <1>1, <1>2 DEF Val

\* The counter one microsecond later.
LEMMA CountsOn ==
    ASSUME NEW x \in Nat
    PROVE  Lo(x + 1) = IF Lo(x) = MaxLo THEN 0 ELSE Lo(x) + 1
<1>1. Hi(x) \in Nat /\ Lo(x) \in 0 .. MaxLo /\ x = Val(Hi(x), Lo(x))
  BY WordsVal
<1>2. Epoch \in Nat /\ Epoch > 1 /\ MaxLo = Epoch - 1
  BY TimerAssumption DEF MaxLo
<1>3. /\ x = Val(Hi(x), 0) + Lo(x) /\ Val(Hi(x), 0) \in Nat
      /\ Val(Hi(x) + 1, 0) = Val(Hi(x), 0) + Epoch
  BY <1>1, <1>2, ValWords
<1>4. CASE Lo(x) = MaxLo
  <2>1. x + 1 = Val(Hi(x) + 1, 0)
    BY <1>2, <1>3, <1>4
  <2>2. Lo(Val(Hi(x) + 1, 0)) = 0
    BY <1>1, <1>2, ValWords
  <2> QED BY <1>4, <2>1, <2>2
<1>5. CASE Lo(x) # MaxLo
  <2>1. Lo(x) + 1 \in 0 .. MaxLo
    BY <1>1, <1>2, <1>5
  <2>2. Val(Hi(x), Lo(x) + 1) = Val(Hi(x), 0) + (Lo(x) + 1) /\ Lo(Val(Hi(x), Lo(x) + 1)) = Lo(x) + 1
    BY <1>1, <2>1, ValWords
  <2>3. x + 1 = Val(Hi(x), Lo(x) + 1)
    BY <1>1, <1>3, <2>2
  <2> QED BY <1>5, <2>2, <2>3
<1> QED BY <1>4, <1>5

\* A set of natural numbers has a least element.
LEMMA Least ==
    ASSUME NEW S \in SUBSET Nat, S # {}
    PROVE  \E x \in S : \A y \in S : x <= y
<1> DEFINE Below == {p \in Nat \X Nat : p[1] < p[2]}
<1>1. IsWellFoundedOn(Below, Nat)
  BY NatLessThanWellFounded DEF OpToRel
<1>2. PICK x \in S : \A y \in S : ~(<<y, x>> \in Below)
  BY <1>1, WFMin
<1>3. ASSUME NEW y \in S PROVE x <= y
  <2>1. x \in Nat /\ y \in Nat
    OBVIOUS
  <2>2. y < x => <<y, x>> \in Below
    BY <2>1
  <2> QED BY <1>2, <2>1, <2>2
<1> QED BY <1>3

\* process_timers(): the scan finds the first of the deadlines to come.
LEMMA NextIsLeast ==
    ASSUME TimerTypes, IsrScan, Upcoming # {}
    PROVE  next' \in Upcoming /\ \A d \in Upcoming : next' <= d
<1>1. Upcoming \in SUBSET Nat
  BY DEF Upcoming, TimerTypes
<1>2. \E d \in Upcoming : \A e \in Upcoming : d <= e
  BY <1>1, Least
<1>3. next' = CHOOSE d \in Upcoming : \A e \in Upcoming : d <= e
  BY DEF IsrScan
<1> QED BY <1>2, <1>3

\* What __wait_evt() is asked for.
LEMMA TimeoutsNat == Timeouts \cup {0} \subseteq Nat
<1>1. Timeouts \subseteq Nat \ {0}
  BY TimerAssumption
<1> QED BY <1>1

-----------------------------------------------------------------------------
(* Types *)

\* The timer interrupt's steps and the tasks' steps, by what they leave alone.
LEMMA IsrFrame ==
    ASSUME Isr
    PROVE  UNCHANGED <<now, taskVars>>
  BY DEF Isr, IsrReadStatus, IsrClearStatus, IsrGetTime, IsrScan, IsrNoDeadline,
         IsrSetMatch, IsrClearMatch, IsrTest, IsrStep

LEMMA TaskFrame ==
    ASSUME NEW t \in Tasks, TaskNext(t)
    PROVE  /\ UNCHANGED <<now, hwVars, isrVars, latency, clockVars>>
           /\ isr = "idle" /\ ~Requested
  BY DEF TaskNext, CallWait, ReadHigh, ReadLow, CheckHigh, ArmStore, ArmEnable,
         ArmModify, Cancel, TaskStep

\* Every step keeps the types of the hardware.
LEMMA HwStep ==
    ASSUME TypeOK, [Next]_vars
    PROVE  HwTypes'
<1> USE TimerAssumption DEF TypeOK, HwTypes, hwVars, MaxLo
<1>1. CASE Tick
  <2>1. uif' \in BOOLEAN /\ cc1if' \in BOOLEAN
    BY <1>1 DEF Tick
  <2>2. now' \in 0 .. Horizon /\ latency' \in 0 .. IrqTicks
    BY <1>1 DEF Tick
  <2> QED BY <1>1, <2>1, <2>2 DEF Tick
<1>2. CASE Isr
  <2>1. uif' \in BOOLEAN /\ cc1if' \in BOOLEAN /\ cc1ie' \in BOOLEAN /\ pend' \in BOOLEAN
    BY <1>2 DEF Isr, IsrReadStatus, IsrClearStatus, IsrGetTime, IsrScan, IsrNoDeadline,
                IsrSetMatch, IsrClearMatch, IsrTest
  <2>2. Lo(next) \in 0 .. MaxLo
    BY WordsVal DEF TimerTypes
  <2>3. ccr1' \in 0 .. MaxLo
    BY <1>2, <2>2 DEF Isr, IsrReadStatus, IsrClearStatus, IsrGetTime, IsrScan,
                IsrNoDeadline, IsrSetMatch, IsrClearMatch, IsrTest
  <2>4. now' = now /\ latency' \in {0, latency}
    BY <1>2 DEF Isr, IsrReadStatus, IsrClearStatus, IsrGetTime, IsrScan,
                IsrNoDeadline, IsrSetMatch, IsrClearMatch, IsrTest, IsrStep
  <2> QED BY <2>1, <2>3, <2>4
<1>3. ASSUME NEW t \in Tasks, TaskNext(t)
      PROVE  HwTypes'
  <2>1. pend' \in BOOLEAN
    BY <1>3 DEF TaskNext, CallWait, ReadHigh, ReadLow, CheckHigh, ArmStore, ArmEnable,
                ArmModify, Cancel, EventNeeded
  <2> QED BY <1>3, <2>1, TaskFrame
<1>4. CASE UNCHANGED vars
  BY <1>4 DEF vars
<1> QED BY <1>1, <1>2, <1>3, <1>4 DEF Next

\* Every step keeps the types of timer.c's variables.
LEMMA TimerStep ==
    ASSUME TypeOK, [Next]_vars
    PROVE  TimerTypes'
<1> USE TimerAssumption DEF TypeOK, TimerTypes, clockVars, timerVars, isrVars, MaxLo
<1>1. CASE Tick
  BY <1>1 DEF Tick
<1>2. CASE IsrReadStatus \/ IsrClearStatus
  <2>1. overflow' \in BOOLEAN
    BY <1>2 DEF IsrReadStatus, IsrClearStatus, HwTypes
  <2> QED BY <1>2, <2>1 DEF IsrReadStatus, IsrClearStatus, CountOverflow, IsrStep
<1>3. CASE IsrGetTime
  <2>1. IsrTime \in Nat
    BY WordsVal, ValWords DEF IsrTime, CNT, HwTypes
  <2> QED BY <1>3, <2>1 DEF IsrGetTime, IsrStep, NoDeadline
<1>4. CASE IsrScan
  <2>1. next' \in Nat
    <3>1. CASE Upcoming = {}
      BY <1>4, <3>1 DEF IsrScan, NoDeadline
    <3>2. CASE Upcoming # {}
      BY <1>4, <3>2, NextIsLeast DEF Upcoming
    <3> QED BY <3>1, <3>2
  <2> QED BY <1>4, <2>1 DEF IsrScan, IsrStep
<1>5. CASE IsrNoDeadline \/ IsrSetMatch \/ IsrClearMatch \/ IsrTest
  <2>1. Lo(next) \in 0 .. MaxLo
    BY WordsVal
  <2> QED BY <1>5, <2>1 DEF IsrNoDeadline, IsrSetMatch, IsrClearMatch, IsrTest,
                IsrStep, NoDeadline
<1>6. ASSUME NEW t \in Tasks, ArmStore(t)
      PROVE  TimerTypes'
  <2>1. hi[t] \in Nat /\ lo[t] \in 0 .. MaxLo /\ us[t] \in Timeouts \cup {0}
    BY DEF TaskTypes
  <2>2. Val(hi[t], lo[t]) \in Nat
    BY <2>1, ValWords
  <2>3. us[t] \in Nat
    BY <2>1, TimeoutsNat
  <2> QED BY <1>6, <2>2, <2>3 DEF ArmStore, TaskStep
<1>7. ASSUME NEW t \in Tasks, TaskNext(t), ~ArmStore(t)
      PROVE  TimerTypes'
  BY <1>7 DEF TaskNext, TaskStep, CallWait, ReadHigh, ReadLow, CheckHigh, ArmEnable,
              ArmModify, Cancel
<1>8. CASE UNCHANGED vars
  BY <1>8 DEF vars
<1> QED BY <1>1, <1>2, <1>3, <1>4, <1>5, <1>6, <1>7, <1>8 DEF Next, Isr, TaskNext

\* Every step keeps the types of the tasks.
LEMMA TaskTypeStep ==
    ASSUME TypeOK, [Next]_vars
    PROVE  TaskTypes'
<1> USE TimerAssumption DEF TypeOK, TaskTypes, taskVars, GetTimePCs
<1>1. CASE Tick
  BY <1>1 DEF Tick
<1>2. CASE Isr
  <2>1. UNCHANGED taskVars
    BY <1>2, IsrFrame
  <2>2. fired' \in [Tasks -> BOOLEAN]
    BY <1>2 DEF Isr, IsrReadStatus, IsrClearStatus, IsrGetTime, IsrScan, IsrNoDeadline,
                IsrSetMatch, IsrClearMatch, IsrTest
  <2> QED BY <2>1, <2>2
<1>3. ASSUME NEW t \in Tasks, TaskNext(t)
      PROVE  TaskTypes'
  <2>1. CNT \in 0 .. MaxLo /\ now \in 0 .. Horizon /\ clksrc_high \in Nat
    BY WordsVal DEF CNT, HwTypes, TimerTypes
  <2>2. 0 \in 0 .. MaxLo /\ 0 \in 0 .. Horizon
    BY DEF MaxLo
  <2>3. CASE (\E timeout \in Timeouts : CallWait(t, timeout)) \/ CheckHigh(t)
    BY <2>1, <2>3 DEF CallWait, CheckHigh, TaskStep
  <2>4. CASE ReadHigh(t) \/ ReadLow(t)
    BY <2>1, <2>4 DEF ReadHigh, ReadLow, TaskStep
  <2>5. CASE ArmStore(t) \/ ArmEnable(t) \/ ArmModify(t)
    BY <2>2, <2>5 DEF ArmStore, ArmEnable, ArmModify, TaskStep
  <2>6. CASE Cancel(t)
    BY <2>2, <2>6 DEF Cancel, TaskStep
  <2> QED BY <1>3, <2>3, <2>4, <2>5, <2>6 DEF TaskNext
<1>4. CASE UNCHANGED vars
  BY <1>4 DEF vars
<1> QED BY <1>1, <1>2, <1>3, <1>4 DEF Next

LEMMA InitTypes ==
    ASSUME Init
    PROVE  TypeOK
<1> USE TimerAssumption DEF Init, MaxLo
<1>1. uif \in BOOLEAN /\ cc1if \in BOOLEAN /\ cc1ie \in BOOLEAN /\ pend \in BOOLEAN
  OBVIOUS
<1>2. HwTypes
  BY <1>1 DEF HwTypes
<1>3. overflow \in BOOLEAN
  OBVIOUS
<1>4. TimerTypes
  BY <1>3 DEF TimerTypes, NoDeadline
<1>5. TaskTypes
  BY DEF TaskTypes
<1> QED BY <1>2, <1>4, <1>5 DEF TypeOK

\* The types are an inductive invariant, with or without the race.
LEMMA TypeInvariant == Spec => []TypeOK
<1>1. Init => TypeOK
  BY InitTypes
<1>2. TypeOK /\ [Next]_vars => TypeOK'
  BY HwStep, TimerStep, TaskTypeStep DEF TypeOK
<1> QED BY <1>1, <1>2, PTL DEF Spec

\* Types of the timer's registers and of timer.c's variables: no word leaves its
\* width and no interrupt is late.
THEOREM TypeCorrect == Spec => []TypeOK
  BY TypeInvariant

-----------------------------------------------------------------------------
(* The clock *)

\* What the proofs below use of the types.
LEMMA ClockTypes ==
    ASSUME TypeOK
    PROVE  /\ now \in Nat /\ CNT \in 0 .. MaxLo /\ clksrc_high \in Nat
           /\ latency \in Nat /\ latency <= IrqTicks /\ IrqTicks \in Nat
           /\ Epoch \in Nat /\ Epoch > 1 /\ MaxLo = Epoch - 1 /\ 2 * IrqTicks <= Epoch
           /\ Val(clksrc_high, CNT) = Val(clksrc_high, 0) + CNT
           /\ Val(clksrc_high, 0) \in Nat
           /\ Val(clksrc_high + 1, 0) = Val(clksrc_high, 0) + Epoch
<1>1. /\ now \in Nat /\ clksrc_high \in Nat /\ latency \in Nat /\ latency <= IrqTicks
      /\ IrqTicks \in Nat /\ Epoch \in Nat /\ Epoch > 1 /\ MaxLo = Epoch - 1
      /\ 2 * IrqTicks <= Epoch
  BY TimerAssumption DEF TypeOK, HwTypes, TimerTypes, MaxLo
<1>2. CNT \in 0 .. MaxLo /\ 0 \in 0 .. MaxLo
  BY <1>1, WordsVal DEF CNT
<1>3. /\ Val(clksrc_high, CNT) = Val(clksrc_high, 0) + CNT /\ Val(clksrc_high, 0) \in Nat
      /\ Val(clksrc_high + 1, 0) = Val(clksrc_high, 0) + Epoch
  BY <1>1, <1>2, ValWords
<1> QED BY <1>1, <1>2, <1>3

\* Every step keeps the clock: a tick that overflows finds no overflow flagged, and
\* the interrupt counts the one it clears.
LEMMA ClockStep ==
    ASSUME StatusRace = FALSE, TypeOK, ClockInv, [Next]_vars
    PROVE  ClockInv'
<1>1. CASE Tick
  <2>1. /\ now' = now + 1 /\ clksrc_high' = clksrc_high /\ isr' = isr
        /\ overflow' = overflow
    BY <1>1 DEF Tick, clockVars, isrVars
  <2>2. CNT' = IF CNT = MaxLo THEN 0 ELSE CNT + 1
    BY <2>1, CountsOn, ClockTypes DEF CNT
  <2>3. /\ uif' <=> uif \/ CNT = MaxLo
        /\ isr = "clear" => CNT # MaxLo
    BY <1>1 DEF Tick
  <2>4. uif => latency < IrqTicks /\ latency' = latency + 1
    BY <1>1 DEF Tick, Requested
  <2>5. isr # "idle" => latency' = latency + 1
    BY <1>1 DEF Tick
  <2>6. latency' \in Nat
    BY HwStep DEF TypeOK, HwTypes
  <2>7. ~(uif /\ CNT = MaxLo)
    <3> SUFFICES ASSUME uif, CNT = MaxLo PROVE FALSE
      OBVIOUS
    <3>1. CNT = 0 \/ CNT < IrqTicks + latency
      BY ClockTypes DEF ClockInv
    <3> QED BY <2>4, <3>1, ClockTypes
  <2>8. now' = Val(clksrc_high, CNT)' + (IF uif' THEN Epoch ELSE 0)
    <3>1. CNT' \in 0 .. MaxLo
      BY <2>2, ClockTypes
    <3>2. Val(clksrc_high, CNT)' = Val(clksrc_high, 0) + CNT'
      BY <2>1, <3>1, ValWords, ClockTypes DEF Val
    <3>3. now = Val(clksrc_high, 0) + CNT + (IF uif THEN Epoch ELSE 0)
      BY ClockTypes DEF ClockInv
    <3>4. CASE CNT = MaxLo
      <4>1. ~uif /\ uif' /\ CNT' = 0
        BY <2>2, <2>3, <2>7, <3>4
      <4>2. now = Val(clksrc_high, 0) + CNT
        BY <3>3, <4>1, ClockTypes
      <4>3. now + 1 = Val(clksrc_high, 0) + 0 + Epoch
        BY <3>4, <4>2, ClockTypes
      <4> QED BY <2>1, <3>2, <4>1, <4>3
    <3>5. CASE CNT # MaxLo
      <4>1. (uif' <=> uif) /\ CNT' = CNT + 1
        BY <2>2, <2>3, <3>5
      <4>2. CASE uif
        <5>1. now = Val(clksrc_high, 0) + CNT + Epoch
          BY <3>3, <4>2
        <5>2. now + 1 = Val(clksrc_high, 0) + (CNT + 1) + Epoch
          BY <5>1, ClockTypes
        <5> QED BY <2>1, <3>2, <4>1, <4>2, <5>2
      <4>3. CASE ~uif
        <5>1. now = Val(clksrc_high, 0) + CNT
          BY <3>3, <4>3, ClockTypes
        <5>2. now + 1 = Val(clksrc_high, 0) + (CNT + 1) + 0
          BY <5>1, ClockTypes
        <5> QED BY <2>1, <3>2, <4>1, <4>3, <5>2
      <4> QED BY <4>2, <4>3
    <3> QED BY <3>4, <3>5
  <2>9. isr' = "clear" => (overflow' <=> uif')
    BY <2>1, <2>3 DEF ClockInv
  <2>10. isr' # "clear" => ~overflow'
    BY <2>1 DEF ClockInv
  <2>11. uif' /\ isr \in {"idle", "clear"} => CNT' = 0 \/ CNT' < IrqTicks + latency'
    BY <2>2, <2>3, <2>4, ClockTypes DEF ClockInv
  <2>12. uif' /\ isr \notin {"idle", "clear"} => CNT' < latency'
    BY <2>2, <2>3, <2>5, ClockTypes DEF ClockInv
  <2> QED BY <2>1, <2>8, <2>9, <2>10, <2>11, <2>12 DEF ClockInv
<1>2. CASE IsrReadStatus
  BY <1>2 DEF IsrReadStatus, IsrStep, ClockInv, Val, CNT, hwVars, clockVars
<1>3. CASE IsrClearStatus
  <2>1. /\ now' = now /\ CNT' = CNT /\ ~uif' /\ ~overflow' /\ isr' = "now"
        /\ isr = "clear"
        /\ clksrc_high' = IF overflow THEN clksrc_high + 1 ELSE clksrc_high
    BY <1>3 DEF IsrClearStatus, IsrStep, CountOverflow, CNT
  <2>2. overflow <=> uif
    BY <2>1 DEF ClockInv
  <2>3. now = Val(clksrc_high, 0) + CNT + (IF uif THEN Epoch ELSE 0)
    BY ClockTypes DEF ClockInv
  <2>4. now' = Val(clksrc_high', CNT)
    <3>1. CASE uif
      <4>1. clksrc_high' = clksrc_high + 1
        BY <2>1, <2>2, <3>1
      <4>2. Val(clksrc_high + 1, CNT) = Val(clksrc_high + 1, 0) + CNT
        BY ValWords, ClockTypes
      <4>3. now = Val(clksrc_high, 0) + CNT + Epoch
        BY <2>3, <3>1
      <4>4. now = Val(clksrc_high + 1, CNT)
        BY <4>2, <4>3, ClockTypes
      <4> QED BY <2>1, <4>1, <4>4
    <3>2. CASE ~uif
      BY <2>1, <2>2, <2>3, <3>2, ClockTypes
    <3> QED BY <3>1, <3>2
  <2>5. Val(clksrc_high, CNT)' = Val(clksrc_high', CNT)
    BY <2>1 DEF Val
  <2>6. now' \in Nat
    BY <2>1, ClockTypes
  <2> QED BY <2>1, <2>4, <2>5, <2>6 DEF ClockInv
<1>4. CASE IsrGetTime \/ IsrScan \/ IsrNoDeadline \/ IsrSetMatch \/ IsrClearMatch \/ IsrTest
  <2>1. /\ UNCHANGED <<now, uif, clksrc_high, overflow>>
        /\ isr \notin {"idle", "clear"} /\ isr' # "clear"
        /\ latency' = IF isr' = "idle" THEN 0 ELSE latency
    BY <1>4 DEF IsrGetTime, IsrScan, IsrNoDeadline, IsrSetMatch, IsrClearMatch, IsrTest,
                IsrStep, hwVars, clockVars
  <2>2. CNT' = CNT /\ Val(clksrc_high, CNT)' = Val(clksrc_high, CNT)
    BY <2>1 DEF CNT, Val, Lo
  <2>3. now' = Val(clksrc_high, CNT)' + (IF uif' THEN Epoch ELSE 0) /\ ~overflow'
    BY <2>1, <2>2 DEF ClockInv
  <2>4. uif' => CNT < latency
    BY <2>1 DEF ClockInv
  <2>5. uif' => (isr' = "idle" => CNT < IrqTicks) /\ (isr' # "idle" => CNT < latency')
    BY <2>1, <2>4, ClockTypes
  <2>6. uif' /\ isr' \in {"idle", "clear"} => CNT' < IrqTicks + latency'
    BY <2>1, <2>2, <2>5, ClockTypes
  <2> QED BY <2>1, <2>2, <2>3, <2>5, <2>6 DEF ClockInv
<1>5. ASSUME NEW t \in Tasks, TaskNext(t)
      PROVE  ClockInv'
  BY <1>5, TaskFrame DEF ClockInv, Val, CNT, Lo, hwVars, isrVars, clockVars
<1>6. CASE UNCHANGED vars
  BY <1>6 DEF vars, ClockInv, Val, CNT, Lo, hwVars, isrVars, clockVars
<1> QED BY <1>1, <1>2, <1>3, <1>4, <1>5, <1>6 DEF Next, Isr

-----------------------------------------------------------------------------
(* get_time() *)

\* What a task's step sees of the clock: the interrupt has been served.
LEMMA TaskSeesClock ==
    ASSUME TypeOK, ClockInv, NEW t \in Tasks, TaskNext(t)
    PROVE  now = Val(clksrc_high, CNT) /\ now = Val(clksrc_high, 0) + CNT
<1>1. ~uif
  BY TaskFrame DEF Requested
<1>2. now = Val(clksrc_high, CNT) + 0
  BY <1>1 DEF ClockInv
<1> QED BY <1>2, ClockTypes

\* A step of the tasks concerns the task that takes it.
LEMMA OtherTasks ==
    ASSUME TypeOK, NEW t \in Tasks, TaskNext(t), NEW u \in Tasks, u # t
    PROVE  /\ pc'[u] = pc[u] /\ hi'[u] = hi[u] /\ lo'[u] = lo[u] /\ us'[u] = us[u]
           /\ start'[u] = start[u] /\ fired'[u] = fired[u]
           /\ timer_deadline'[u] = timer_deadline[u]
           /\ u \in timer_running' <=> u \in timer_running
<1> USE DEF TypeOK, TaskTypes, TimerTypes, TaskStep, timerVars
<1>1. CASE (\E timeout \in Timeouts : CallWait(t, timeout)) \/ ReadHigh(t)
  BY <1>1 DEF CallWait, ReadHigh
<1>2. CASE ReadLow(t) \/ CheckHigh(t)
  BY <1>2 DEF ReadLow, CheckHigh
<1>3. CASE ArmStore(t) \/ ArmEnable(t)
  BY <1>3 DEF ArmStore, ArmEnable
<1>4. CASE ArmModify(t) \/ Cancel(t)
  BY <1>4 DEF ArmModify, Cancel
<1> QED BY <1>1, <1>2, <1>3, <1>4 DEF TaskNext

\* Every step keeps get_time() exact.
LEMMA GetTimeStep ==
    ASSUME TypeOK, ClockInv, GetTimeInv, [Next]_vars
    PROVE  GetTimeInv'
<1>1. ASSUME NEW t \in Tasks
      PROVE  /\ hi[t] \in Nat /\ lo[t] \in 0 .. MaxLo /\ start[t] \in Nat
             /\ Val(hi[t], lo[t]) \in Nat /\ Val(hi[t], 0) \in Nat
  <2>1. hi[t] \in Nat /\ lo[t] \in 0 .. MaxLo /\ start[t] \in Nat /\ 0 \in 0 .. MaxLo
    BY TimerAssumption DEF TypeOK, TaskTypes, MaxLo
  <2> QED BY <2>1, ValWords
<1>2. CASE Tick
  <2> SUFFICES ASSUME NEW t \in Tasks PROVE Timely(t)'
    BY DEF GetTimeInv
  <2>1. /\ now' = now + 1 /\ UNCHANGED <<pc, hi, lo, start, clksrc_high>>
        /\ pc[t] \in GetTimePCs => now + 1 - start[t] < Epoch
    BY <1>2 DEF Tick, taskVars, clockVars
  <2>2. Timely(t)
    BY DEF GetTimeInv
  <2>3. /\ Val(hi[t], lo[t])' = Val(hi[t], lo[t]) /\ Val(hi[t], 0)' = Val(hi[t], 0)
        /\ Val(clksrc_high, 0)' = Val(clksrc_high, 0)
    BY <2>1 DEF Val
  <2>4. pc[t] \in GetTimePCs => start[t] <= now + 1 /\ now + 1 < start[t] + Epoch
    BY <1>1, <2>1, <2>2, ClockTypes DEF Timely
  <2>5. Val(hi[t], lo[t]) \in start[t] .. now => Val(hi[t], lo[t]) \in start[t] .. now + 1
    BY <1>1, ClockTypes
  <2> QED BY <2>1, <2>2, <2>3, <2>4, <2>5 DEF Timely
<1>3. CASE Isr
  <2> SUFFICES ASSUME NEW t \in Tasks PROVE Timely(t)'
    BY DEF GetTimeInv
  <2>1. UNCHANGED <<now, pc, hi, lo, start>>
    BY <1>3, IsrFrame DEF taskVars
  <2>2. clksrc_high' \in {clksrc_high, clksrc_high + 1}
    BY <1>3 DEF Isr, IsrReadStatus, IsrClearStatus, IsrGetTime, IsrScan, IsrNoDeadline,
                IsrSetMatch, IsrClearMatch, IsrTest, CountOverflow, clockVars
  <2>3. Timely(t)
    BY DEF GetTimeInv
  <2>4. /\ Val(hi[t], lo[t])' = Val(hi[t], lo[t]) /\ Val(hi[t], 0)' = Val(hi[t], 0)
        /\ Val(clksrc_high, 0)' = Val(clksrc_high', 0)
    BY <2>1 DEF Val
  <2>5. Val(clksrc_high', 0) \in Nat /\ Val(clksrc_high, 0) <= Val(clksrc_high', 0)
    BY <2>2, ClockTypes
  <2>6. hi[t] <= clksrc_high =>
          hi[t] <= clksrc_high' /\ (hi[t] = clksrc_high' => hi[t] = clksrc_high)
    BY <1>1, <2>2, ClockTypes
  <2>7. start[t] < Val(clksrc_high, 0) => start[t] < Val(clksrc_high', 0)
    BY <1>1, <2>5, ClockTypes
  <2> QED BY <2>1, <2>3, <2>4, <2>6, <2>7 DEF Timely
<1>4. ASSUME NEW t \in Tasks, TaskNext(t), NEW u \in Tasks
      PROVE  Timely(u)'
  <2>1. /\ now = Val(clksrc_high, CNT) /\ now = Val(clksrc_high, 0) + CNT
        /\ UNCHANGED <<now, clksrc_high>> /\ CNT' = CNT
    BY <1>4, TaskSeesClock, TaskFrame DEF clockVars, CNT, Lo
  <2>2. Timely(u)
    BY DEF GetTimeInv
  <2>3. CASE u # t
    <3>1. /\ pc'[u] = pc[u] /\ hi'[u] = hi[u] /\ lo'[u] = lo[u] /\ start'[u] = start[u]
      BY <1>4, <2>3, OtherTasks
    <3> QED BY <2>1, <2>2, <3>1 DEF Timely, Val
  <2>4. CASE u = t
    <3> SUFFICES Timely(t)'
      BY <2>4
    <3>1. ASSUME NEW timeout \in Timeouts, CallWait(t, timeout)
          PROVE  Timely(t)'
      <4>1. pc'[t] = "hi" /\ start'[t] = now
        BY <3>1 DEF CallWait, TypeOK, TaskTypes, TaskStep
      <4> QED BY <2>1, <4>1, ClockTypes DEF Timely, GetTimePCs
    <3>2. CASE ReadHigh(t)
      <4>1. /\ hi'[t] = clksrc_high /\ start'[t] = start[t]
            /\ \/ pc[t] = "hi" /\ pc'[t] = "lo"
               \/ pc[t] = "hi2" /\ pc'[t] = "lo2"
        BY <3>2 DEF ReadHigh, TypeOK, TaskTypes, TaskStep
      <4>2. Val(hi[t], 0)' = Val(clksrc_high, 0)
        BY <4>1 DEF Val
      <4>3. start[t] <= now /\ now < start[t] + Epoch
        BY <2>2, <2>4, <4>1 DEF Timely, GetTimePCs
      <4>4. start[t] < Val(clksrc_high, 0) + Epoch
        BY <1>1, <2>1, <4>3, ClockTypes
      <4>5. pc[t] = "hi2" => start[t] < Val(clksrc_high, 0)
        BY <2>2, <2>4 DEF Timely, GetTimePCs
      <4> QED BY <2>1, <4>1, <4>2, <4>3, <4>4, <4>5, ClockTypes DEF Timely, GetTimePCs
    <3>3. CASE ReadLow(t)
      <4>1. /\ lo'[t] = CNT /\ start'[t] = start[t] /\ hi'[t] = hi[t]
            /\ \/ pc[t] = "lo" /\ pc'[t] = "check"
               \/ pc[t] = "lo2" /\ pc'[t] = "arm"
        BY <3>3 DEF ReadLow, TypeOK, TaskTypes, TaskStep
      <4>2. /\ Val(hi[t], lo[t])' = Val(hi[t], CNT) /\ Val(hi[t], 0)' = Val(hi[t], 0)
        BY <4>1 DEF Val
      <4>3. /\ start[t] <= now /\ now < start[t] + Epoch /\ hi[t] <= clksrc_high
        BY <2>2, <2>4, <4>1 DEF Timely, GetTimePCs
      <4>4. now \in start[t] .. now
        BY <1>1, <4>3, ClockTypes
      <4>5. CASE pc[t] = "lo"
        <5>1. start[t] < Val(hi[t], 0) + Epoch
          BY <2>2, <2>4, <4>5 DEF Timely, GetTimePCs
        <5>2. pc'[t] = "check"
          BY <4>1, <4>5
        <5> QED BY <2>1, <4>1, <4>2, <4>3, <4>4, <5>1, <5>2 DEF Timely, GetTimePCs
      <4>6. CASE pc[t] = "lo2"
        <5>1. start[t] < Val(hi[t], 0)
          BY <2>2, <2>4, <4>6 DEF Timely, GetTimePCs
        <5>2. hi[t] = clksrc_high
          <6>1. hi[t] < clksrc_high => Val(hi[t], 0) + Epoch <= Val(clksrc_high, 0)
            BY <1>1, ValOrder, ClockTypes
          <6>2. Val(clksrc_high, 0) < Val(hi[t], 0) + Epoch
            BY <1>1, <2>1, <4>3, <5>1, ClockTypes
          <6> QED BY <1>1, <4>3, <6>1, <6>2, ClockTypes
        <5>3. pc'[t] = "arm"
          BY <4>1, <4>6
        <5> QED BY <2>1, <4>1, <4>2, <4>4, <5>2, <5>3 DEF Timely, GetTimePCs
      <4> QED BY <4>1, <4>5, <4>6
    <3>4. CASE CheckHigh(t)
      <4>1. /\ pc[t] = "check" /\ start'[t] = start[t] /\ hi'[t] = hi[t] /\ lo'[t] = lo[t]
            /\ pc'[t] = IF hi[t] = clksrc_high THEN "arm" ELSE "hi2"
        BY <3>4 DEF CheckHigh, HighUnchanged, TypeOK, TaskTypes, TaskStep
      <4>2. /\ start[t] <= now /\ now < start[t] + Epoch /\ hi[t] <= clksrc_high
            /\ start[t] < Val(hi[t], 0) + Epoch
            /\ hi[t] = clksrc_high => Val(hi[t], lo[t]) \in start[t] .. now
        BY <2>2, <2>4, <4>1 DEF Timely, GetTimePCs
      <4>3. CASE hi[t] = clksrc_high
        BY <2>1, <4>1, <4>2, <4>3 DEF Timely, GetTimePCs, Val
      <4>4. CASE hi[t] # clksrc_high
        <5>0. hi[t] \in Nat /\ clksrc_high \in Nat /\ hi[t] < clksrc_high
          BY <1>1, <4>2, <4>4, ClockTypes
        <5>1. Val(hi[t], 0) + Epoch <= Val(clksrc_high, 0)
          BY <5>0, ValOrder
        <5>2. start[t] < Val(clksrc_high, 0) /\ Val(clksrc_high, 0)' = Val(clksrc_high, 0)
          BY <1>1, <2>1, <4>2, <5>1, ClockTypes DEF Val
        <5>3. pc'[t] = "hi2"
          BY <4>1, <4>4
        <5> QED BY <2>1, <4>1, <4>2, <5>2, <5>3 DEF Timely, GetTimePCs
      <4> QED BY <4>3, <4>4
    <3>5. CASE ArmStore(t) \/ ArmEnable(t) \/ ArmModify(t) \/ Cancel(t)
      <4>1. pc'[t] \in {"enable", "modify", "wait", "run"}
        BY <3>5 DEF ArmStore, ArmEnable, ArmModify, Cancel, TypeOK, TaskTypes, TaskStep
      <4> QED BY <4>1 DEF Timely, GetTimePCs
    <3> QED BY <1>4, <2>4, <3>1, <3>2, <3>3, <3>4, <3>5 DEF TaskNext
  <2> QED BY <2>3, <2>4
<1>5. CASE UNCHANGED vars
  BY <1>5 DEF vars, GetTimeInv, Timely, taskVars, clockVars, Val
<1> QED BY <1>2, <1>3, <1>4, <1>5 DEF Next, GetTimeInv

-----------------------------------------------------------------------------
(* Deadlines *)

\* What the proofs below use of the types of the tasks and of the scan.
LEMMA TaskNumbers ==
    ASSUME TypeOK, NEW t \in Tasks
    PROVE  /\ timer_deadline[t] \in Nat /\ start[t] \in Nat /\ us[t] \in Nat
           /\ start[t] + us[t] \in Nat /\ inow \in Nat /\ next \in Nat
           /\ next_deadline \in 0 .. MaxLo
<1>1. us[t] \in Timeouts \cup {0} /\ start[t] \in Nat
  BY TimerAssumption DEF TypeOK, TaskTypes
<1>2. us[t] \in Nat
  BY <1>1, TimeoutsNat
<1> QED BY <1>1, <1>2 DEF TypeOK, TimerTypes

\* Every step keeps the deadlines: no timer is armed or expires too early.
LEMMA DeadlineStep ==
    ASSUME TypeOK, ClockInv, GetTimeInv, DeadlineInv, [Next]_vars
    PROVE  DeadlineInv'
<1>1. CASE Tick
  <2>1. /\ now' = now + 1 /\ isr' = isr /\ inow' = inow
        /\ UNCHANGED <<pc, us, start, timer_deadline, timer_running, fired>>
    BY <1>1 DEF Tick, taskVars, timerVars, isrVars
  <2>2. ASSUME NEW t \in Tasks
        PROVE  now >= start[t] + us[t] => now + 1 >= start[t] + us[t]
    BY TaskNumbers, ClockTypes
  <2>3. isr = "scan" => inow <= now + 1
    <3>1. inow \in Nat /\ now \in Nat
      BY ClockTypes DEF TypeOK, TimerTypes
    <3> QED BY <3>1 DEF DeadlineInv
  <2> QED BY <2>1, <2>2, <2>3 DEF DeadlineInv
<1>2. CASE Isr
  <2>1. UNCHANGED <<now, pc, us, start>>
    BY <1>2, IsrFrame DEF taskVars
  <2>2. timer_deadline' = timer_deadline /\ timer_running' \subseteq timer_running
    BY <1>2 DEF Isr, IsrReadStatus, IsrClearStatus, IsrGetTime, IsrScan, IsrNoDeadline,
                IsrSetMatch, IsrClearMatch, IsrTest, timerVars
  <2>3. ASSUME NEW t \in Tasks, fired'[t], ~fired[t]
        PROVE  pc[t] \in {"modify", "wait"} /\ now >= start[t] + us[t]
    <3>1. isr = "scan" /\ t \in timer_running /\ timer_deadline[t] <= inow
      BY <1>2, <2>3 DEF Isr, IsrReadStatus, IsrClearStatus, IsrGetTime, IsrScan,
                IsrNoDeadline, IsrSetMatch, IsrClearMatch, IsrTest, IsrStep, Expired
    <3>2. /\ pc[t] \in {"modify", "wait"} /\ timer_deadline[t] >= start[t] + us[t]
          /\ inow <= now
      BY <3>1 DEF DeadlineInv
    <3>3. now >= start[t] + us[t]
      BY <3>1, <3>2, TaskNumbers, ClockTypes
    <3> QED BY <3>2, <3>3
  <2>4. isr' = "scan" => inow' <= now
    <3>1. isr' = "scan" => inow' = Val(clksrc_high, CNT)
      BY <1>2 DEF Isr, IsrReadStatus, IsrClearStatus, IsrGetTime, IsrScan, IsrNoDeadline,
                IsrSetMatch, IsrClearMatch, IsrTest, IsrStep, IsrTime
    <3>2. Val(clksrc_high, CNT) <= now
      BY ClockTypes DEF ClockInv
    <3> QED BY <3>1, <3>2
  <2> QED BY <2>1, <2>2, <2>3, <2>4 DEF DeadlineInv
<1>3. ASSUME NEW t \in Tasks, TaskNext(t)
      PROVE  DeadlineInv'
  <2>1. now' = now /\ isr' # "scan"
    BY <1>3, TaskFrame DEF isrVars
  <2>2. ASSUME NEW u \in Tasks
        PROVE  /\ pc'[u] \in {"enable", "modify", "wait"} =>
                    timer_deadline'[u] >= start'[u] + us'[u]
               /\ u \in timer_running' => pc'[u] \in {"modify", "wait"}
               /\ fired'[u] => pc'[u] \in {"modify", "wait"} /\ now >= start'[u] + us'[u]
    <3>1. CASE u # t
      BY <1>3, <3>1, OtherTasks DEF DeadlineInv
    <3>2. CASE u = t
      <4> USE DEF TypeOK, TaskTypes, TimerTypes, TaskStep, timerVars
      <4>1. CASE \/ \E timeout \in Timeouts : CallWait(t, timeout)
                 \/ ReadHigh(t) \/ ReadLow(t) \/ CheckHigh(t)
        <5>1. /\ pc[t] \in {"run"} \cup GetTimePCs /\ pc'[t] \in {"arm"} \cup GetTimePCs
              /\ UNCHANGED <<timer_running, fired>>
          BY <4>1 DEF CallWait, ReadHigh, ReadLow, CheckHigh, GetTimePCs
        <5> QED BY <3>2, <5>1 DEF DeadlineInv, GetTimePCs
      <4>2. CASE ArmStore(t)
        <5>1. /\ pc[t] = "arm" /\ pc'[t] = "enable"
              /\ UNCHANGED <<timer_running, fired, us, start>>
              /\ timer_deadline'[t] = Val(hi[t], lo[t]) + us[t]
          BY <4>2 DEF ArmStore
        <5>2. Val(hi[t], lo[t]) \in start[t] .. now
          BY <5>1 DEF GetTimeInv, Timely
        <5>3. Val(hi[t], lo[t]) + us[t] >= start[t] + us[t]
          BY <5>2, TaskNumbers, ClockTypes
        <5> QED BY <3>2, <5>1, <5>3 DEF DeadlineInv
      <4>3. CASE ArmEnable(t) \/ ArmModify(t)
        <5>1. /\ pc[t] \in {"enable", "modify"} /\ pc'[t] \in {"modify", "wait"}
              /\ UNCHANGED <<fired, us, start, timer_deadline>>
          BY <4>3 DEF ArmEnable, ArmModify
        <5> QED BY <3>2, <5>1 DEF DeadlineInv
      <4>4. CASE Cancel(t)
        <5>1. pc'[t] = "run" /\ t \notin timer_running' /\ ~fired'[t]
          BY <4>4 DEF Cancel
        <5> QED BY <3>2, <5>1
      <4> QED BY <1>3, <4>1, <4>2, <4>3, <4>4 DEF TaskNext
    <3> QED BY <3>1, <3>2
  <2> QED BY <2>1, <2>2 DEF DeadlineInv
<1>4. CASE UNCHANGED vars
  BY <1>4 DEF vars, DeadlineInv, taskVars, timerVars, isrVars
<1> QED BY <1>1, <1>2, <1>3, <1>4 DEF Next

-----------------------------------------------------------------------------
(* The scan and the match *)

\* A time of the epoch h.
LEMMA EpochOf ==
    ASSUME NEW h \in Nat, NEW x \in Nat, Val(h, 0) <= x, x <= Val(h, MaxLo)
    PROVE  Hi(x) = h
<1>1. Epoch \in Nat /\ Epoch > 1 /\ MaxLo = Epoch - 1
  BY TimerAssumption DEF MaxLo
<1>2. Val(h, MaxLo) = Val(h, 0) + MaxLo /\ Val(h, 0) \in Nat
  BY <1>1, ValWords
<1>3. x - Val(h, 0) \in 0 .. MaxLo
  BY <1>1, <1>2
<1>4. Val(h, x - Val(h, 0)) = Val(h, 0) + (x - Val(h, 0)) /\ Hi(Val(h, x - Val(h, 0))) = h
  BY <1>3, ValWords
<1>5. Val(h, 0) + (x - Val(h, 0)) = x
  BY <1>2
<1> QED BY <1>4, <1>5

\* A time of the epoch h or later with no smaller low word than l.
LEMMA NotBefore ==
    ASSUME NEW h \in Nat, NEW l \in 0 .. MaxLo, NEW x \in Nat,
           Hi(x) > h \/ (Hi(x) = h /\ Lo(x) >= l)
    PROVE  x >= Val(h, l)
<1>1. /\ Epoch \in Nat /\ MaxLo = Epoch - 1 /\ Hi(x) \in Nat /\ Lo(x) \in 0 .. MaxLo
      /\ x = Val(Hi(x), Lo(x))
  BY TimerAssumption, WordsVal DEF MaxLo
<1>2. /\ x = Val(Hi(x), 0) + Lo(x) /\ Val(Hi(x), 0) \in Nat
      /\ Val(h, l) = Val(h, 0) + l /\ Val(h, 0) \in Nat
  <2>1. 0 \in 0 .. MaxLo
    BY <1>1
  <2> QED BY <1>1, <2>1, ValWords
<1>3. CASE Hi(x) > h
  <2>1. Val(h, 0) + Epoch <= Val(Hi(x), 0)
    BY <1>1, <1>3, ValOrder
  <2> QED BY <1>1, <1>2, <2>1
<1>4. CASE Hi(x) = h /\ Lo(x) >= l
  BY <1>1, <1>2, <1>4
<1> QED BY <1>3, <1>4

\* process_timers(): a deadline that is neither expired nor a candidate for the next
\* event is in the last microsecond of the epoch or after it.
LEMMA LeftToOverflow ==
    ASSUME TypeOK, ScanInv, isr = "scan",
           NEW t \in timer_running, t \notin Expired,
           timer_deadline[t] \notin Upcoming
    PROVE  timer_deadline[t] >= Val(clksrc_high, MaxLo)
<1> DEFINE d == timer_deadline[t]
<1>1. /\ d \in Nat /\ inow \in Nat /\ clksrc_high \in Nat
  BY DEF TypeOK, TimerTypes
<1>2. Val(clksrc_high, 0) <= inow /\ inow <= Val(clksrc_high, MaxLo)
  BY DEF ScanInv
<1>3. Hi(inow) = clksrc_high
  BY <1>1, <1>2, EpochOf
<1>4. d > inow
  <2>1. ~(d <= inow)
    BY DEF Expired
  <2> QED BY <1>1, <2>1
<1>5. ~(Hi(d) = clksrc_high /\ Lo(d) < MaxLo)
  BY <1>3 DEF Upcoming
<1>6. /\ Hi(d) \in Nat /\ Lo(d) \in 0 .. MaxLo /\ Epoch \in Nat /\ Epoch > 1
      /\ MaxLo = Epoch - 1 /\ Val(clksrc_high, 0) \in Nat
  BY <1>1, WordsVal, ClockTypes
<1>7. SUFFICES ASSUME d < Val(clksrc_high, MaxLo) PROVE FALSE
  <2>1. Val(clksrc_high, MaxLo) \in Nat
    BY <1>1, <1>6, ValWords
  <2> QED BY <1>1, <1>7, <2>1
<1>8. Val(clksrc_high, 0) <= d /\ d <= Val(clksrc_high, MaxLo)
  <2>1. Val(clksrc_high, MaxLo) \in Nat
    BY <1>1, <1>6, ValWords
  <2> QED BY <1>1, <1>2, <1>4, <1>6, <1>7, <2>1
<1>9. Hi(d) = clksrc_high
  BY <1>1, <1>8, EpochOf
<1>10. Lo(d) >= MaxLo /\ MaxLo \in 0 .. MaxLo
  BY <1>5, <1>6, <1>9
<1>11. d >= Val(clksrc_high, MaxLo)
  BY <1>1, <1>9, <1>10, NotBefore
<1>12. Val(clksrc_high, MaxLo) \in Nat
  BY <1>1, <1>10, ValWords
<1> QED BY <1>1, <1>7, <1>11, <1>12

\* Every step keeps what the scan has found.
LEMMA ScanStep ==
    ASSUME TypeOK, ScanInv, [Next]_vars
    PROVE  ScanInv'
<1>1. CASE Tick \/ UNCHANGED vars
  <2>1. UNCHANGED <<isr, clksrc_high, inow, next, timer_running, timer_deadline, ccr1,
                    next_deadline, cc1ie>>
    BY <1>1 DEF Tick, vars, isrVars, clockVars, timerVars, hwVars
  <2> QED BY <2>1 DEF ScanInv, Val, Hi, Lo
<1>2. CASE IsrReadStatus \/ IsrClearStatus
  <2>1. isr' \in {"clear", "now"}
    BY <1>2 DEF IsrReadStatus, IsrClearStatus, IsrStep
  <2> QED BY <2>1 DEF ScanInv
<1>3. CASE IsrGetTime
  <2>1. isr' = "scan" /\ inow' = Val(clksrc_high, CNT) /\ clksrc_high' = clksrc_high
    BY <1>3 DEF IsrGetTime, IsrStep, IsrTime, clockVars
  <2>2. /\ Val(clksrc_high, 0) <= Val(clksrc_high, CNT)
        /\ Val(clksrc_high, CNT) <= Val(clksrc_high, MaxLo)
    <3>1. Val(clksrc_high, MaxLo) = Val(clksrc_high, 0) + MaxLo
      <4>1. MaxLo \in 0 .. MaxLo /\ clksrc_high \in Nat
        BY ClockTypes
      <4> QED BY <4>1, ValWords
    <3> QED BY <3>1, ClockTypes
  <2>3. Val(clksrc_high, 0)' = Val(clksrc_high, 0) /\ Val(clksrc_high, MaxLo)' = Val(clksrc_high, MaxLo)
    BY <2>1 DEF Val, MaxLo
  <2> QED BY <2>1, <2>2, <2>3 DEF ScanInv
<1>4. CASE IsrScan
  <2>1. /\ isr = "scan" /\ UNCHANGED <<clksrc_high, timer_deadline>>
        /\ isr' = IF Upcoming = {} THEN "none" ELSE "set"
        /\ timer_running' = timer_running \ Expired
    BY <1>4 DEF IsrScan, IsrStep, clockVars
  <2>2. Val(clksrc_high, MaxLo)' = Val(clksrc_high, MaxLo)
    BY <2>1 DEF Val, MaxLo
  <2>3. CASE Upcoming = {}
    <3>1. ASSUME NEW t \in timer_running'
          PROVE  timer_deadline'[t] >= Val(clksrc_high, MaxLo)
      <4>1. t \in timer_running /\ t \notin Expired /\ timer_deadline[t] \notin Upcoming
        BY <2>1, <2>3, <3>1
      <4> QED BY <2>1, <4>1, LeftToOverflow
    <3> QED BY <2>1, <2>2, <2>3, <3>1 DEF ScanInv
  <2>4. CASE Upcoming # {}
    <3>1. next' \in Upcoming /\ \A d \in Upcoming : next' <= d
      BY <1>4, <2>4, NextIsLeast DEF TypeOK
    <3>2. inow \in Nat /\ clksrc_high \in Nat /\ next' \in Nat
      BY <3>1 DEF TypeOK, TimerTypes, Upcoming
    <3>3. Hi(inow) = clksrc_high
      BY <2>1, <3>2, EpochOf DEF ScanInv
    <3>4. Hi(next') = clksrc_high /\ Lo(next') < MaxLo
      BY <3>1, <3>3 DEF Upcoming
    <3>5. next' <= Val(clksrc_high, MaxLo) /\ Val(clksrc_high, MaxLo) \in Nat
      <4>1. Lo(next') \in 0 .. MaxLo /\ next' = Val(Hi(next'), Lo(next')) /\ MaxLo \in 0 .. MaxLo
        BY <3>2, WordsVal, ClockTypes
      <4>2. /\ Val(clksrc_high, Lo(next')) = Val(clksrc_high, 0) + Lo(next')
            /\ Val(clksrc_high, MaxLo) = Val(clksrc_high, 0) + MaxLo
        BY <3>2, <4>1, ValWords
      <4> QED BY <3>2, <3>4, <4>1, <4>2, ClockTypes
    <3>6. ASSUME NEW t \in timer_running'
          PROVE  timer_deadline'[t] >= next'
      <4>1. t \in timer_running /\ t \notin Expired
        BY <2>1, <3>6
      <4>2. timer_deadline[t] \in Nat
        BY <4>1 DEF TypeOK, TimerTypes
      <4>3. CASE timer_deadline[t] \in Upcoming
        BY <2>1, <3>1, <3>2, <4>2, <4>3
      <4>4. CASE timer_deadline[t] \notin Upcoming
        <5>1. timer_deadline[t] >= Val(clksrc_high, MaxLo)
          BY <2>1, <4>1, <4>4, LeftToOverflow
        <5> QED BY <2>1, <3>2, <3>5, <4>2, <5>1
      <4> QED BY <4>3, <4>4
    <3>7. isr' = "set" /\ Hi(next)' = clksrc_high' /\ Lo(next)' < MaxLo'
      BY <2>1, <2>4, <3>4 DEF Hi, Lo, MaxLo
    <3> QED BY <3>6, <3>7 DEF ScanInv
  <2> QED BY <2>3, <2>4
<1>5. CASE IsrSetMatch \/ IsrClearMatch
  <2>1. /\ isr \in {"set", "flag"} /\ isr' = (IF isr = "set" THEN "flag" ELSE "test")
        /\ UNCHANGED <<clksrc_high, timer_running, timer_deadline, next>>
        /\ isr = "set" => ccr1' = Lo(next)
        /\ isr = "flag" => ccr1' = ccr1 /\ cc1ie' /\ next_deadline' = Lo(next)
    BY <1>5 DEF IsrSetMatch, IsrClearMatch, IsrStep, clockVars, timerVars
  <2> QED BY <2>1 DEF ScanInv, Hi, Lo, MaxLo
<1>6. CASE IsrNoDeadline \/ IsrTest
  <2>1. isr' \in {"idle", "now"}
    BY <1>6 DEF IsrNoDeadline, IsrTest, IsrStep
  <2> QED BY <2>1 DEF ScanInv
<1>7. ASSUME NEW t \in Tasks, TaskNext(t)
      PROVE  ScanInv'
  <2>1. isr' = "idle"
    BY <1>7, TaskFrame DEF isrVars
  <2> QED BY <2>1 DEF ScanInv
<1> QED BY <1>1, <1>2, <1>3, <1>4, <1>5, <1>6, <1>7 DEF Next, Isr

\* Every step keeps the match: the handler returns with the compare register ahead of
\* the counter or nothing to wait for, and the counter does not pass it unseen.
LEMMA MatchStep ==
    ASSUME TypeOK, ClockInv, ScanInv, MatchInv, [Next]_vars
    PROVE  MatchInv'
<1>1. CASE Tick
  <2> SUFFICES ASSUME isr' = "idle" PROVE MatchInv'
    BY DEF MatchInv
  <2>1. /\ isr = "idle" /\ now' = now + 1
        /\ UNCHANGED <<pend, ccr1, cc1ie, next_deadline, clksrc_high, timer_running,
                       timer_deadline, pc>>
    BY <1>1 DEF Tick, clockVars, timerVars, isrVars, taskVars
  <2>2. (uif' <=> uif \/ CNT = MaxLo) /\ (cc1if' <=> cc1if \/ CNT' = ccr1)
    BY <1>1 DEF Tick, CNT
  <2>3. ~Requested' => ~Requested
    BY <2>1, <2>2 DEF Requested
  <2>4. CNT' = IF CNT = MaxLo THEN 0 ELSE CNT + 1
    BY <2>1, CountsOn, ClockTypes DEF CNT
  <2>5. ccr1 \in Nat /\ CNT \in Nat
    BY ClockTypes DEF TypeOK, HwTypes
  <2>6. ASSUME ~uif', next_deadline < MaxLo
        PROVE  cc1ie /\ ccr1 = next_deadline /\ (cc1if' \/ CNT' < ccr1)
    <3>1. ~uif /\ CNT' = CNT + 1
      BY <2>2, <2>4, <2>6
    <3>2. cc1ie /\ ccr1 = next_deadline /\ (cc1if \/ CNT < ccr1)
      BY <2>1, <2>6, <3>1 DEF MatchInv
    <3>3. CNT < ccr1 => CNT' = ccr1 \/ CNT' < ccr1
      BY <2>5, <3>1
    <3> QED BY <2>2, <3>2, <3>3
  <2>7. ~Requested' => \A t \in timer_running' :
             pc'[t] = "wait" => timer_deadline'[t] >= Val(clksrc_high, next_deadline)'
    BY <2>1, <2>3 DEF MatchInv, Val
  <2>8. MaxLo' = MaxLo
    BY DEF MaxLo
  <2> QED BY <2>1, <2>6, <2>7, <2>8 DEF MatchInv
<1>2. CASE IsrReadStatus \/ IsrClearStatus \/ IsrGetTime \/ IsrScan \/ IsrSetMatch \/ IsrClearMatch
  <2>1. isr' # "idle"
    BY <1>2 DEF IsrReadStatus, IsrClearStatus, IsrGetTime, IsrScan, IsrSetMatch,
                IsrClearMatch, IsrStep
  <2> QED BY <2>1 DEF MatchInv
<1>3. CASE IsrNoDeadline
  <2>1. /\ isr = "none" /\ next_deadline' = MaxLo
        /\ UNCHANGED <<clksrc_high, timer_running, timer_deadline>>
    BY <1>3 DEF IsrNoDeadline, IsrStep, timerVars
  <2>2. \A t \in timer_running : timer_deadline[t] >= Val(clksrc_high, MaxLo)
    BY <2>1 DEF ScanInv
  <2>3. Val(clksrc_high, next_deadline)' = Val(clksrc_high, MaxLo) /\ MaxLo' = MaxLo
    BY <2>1 DEF Val, MaxLo
  <2>4. ~(next_deadline' < MaxLo)
    BY <2>1, ClockTypes
  <2> QED BY <2>1, <2>2, <2>3, <2>4 DEF MatchInv
<1>4. CASE IsrTest
  <2> SUFFICES ASSUME isr' = "idle" PROVE MatchInv'
    BY DEF MatchInv
  <2>1. /\ isr = "test" /\ ~(next <= Val(clksrc_high, CNT))
        /\ UNCHANGED <<now, clksrc_high, next_deadline, timer_running, timer_deadline, cc1ie, ccr1>>
    BY <1>4 DEF IsrTest, IsrStep, Passed, IsrTime, timerVars, clockVars, hwVars
  <2>2. /\ Hi(next) = clksrc_high /\ next_deadline = Lo(next) /\ ccr1 = Lo(next) /\ cc1ie
        /\ \A t \in timer_running : timer_deadline[t] >= next
    BY <2>1 DEF ScanInv
  <2>3. next \in Nat /\ clksrc_high \in Nat
    BY DEF TypeOK, TimerTypes
  <2>4. next = Val(clksrc_high, next_deadline) /\ next_deadline \in 0 .. MaxLo
    BY <2>2, <2>3, WordsVal
  <2>5. next = Val(clksrc_high, 0) + next_deadline
    BY <2>3, <2>4, ValWords
  <2>6. CNT < ccr1
    BY <2>1, <2>2, <2>4, <2>5, ClockTypes
  <2>7. Val(clksrc_high, next_deadline)' = next /\ CNT' = CNT
    BY <2>1, <2>4 DEF Val, CNT
  <2> QED BY <2>1, <2>2, <2>6, <2>7 DEF MatchInv
<1>5. ASSUME NEW t \in Tasks, TaskNext(t)
      PROVE  MatchInv'
  <2>1. /\ isr = "idle" /\ ~Requested
        /\ UNCHANGED <<now, uif, cc1if, ccr1, cc1ie, clksrc_high, next_deadline>>
    BY <1>5, TaskFrame DEF hwVars, clockVars
  <2>2. Val(clksrc_high, next_deadline)' = Val(clksrc_high, next_deadline) /\ CNT' = CNT
    BY <2>1 DEF Val, CNT, Lo
  <2>3. ASSUME NEW u \in timer_running', pc'[u] = "wait", ~Requested'
        PROVE  timer_deadline'[u] >= Val(clksrc_high, next_deadline)
    <3>1. u \in Tasks
      BY <1>5, <2>3, TimerStep DEF TimerTypes, Next
    <3>2. CASE u # t
      <4>1. u \in timer_running /\ pc[u] = "wait" /\ timer_deadline'[u] = timer_deadline[u]
        BY <1>5, <2>3, <3>1, <3>2, OtherTasks
      <4> QED BY <2>1, <4>1 DEF MatchInv
    <3>3. CASE u = t
      <4>1. ArmModify(t)
        BY <1>5, <2>3, <3>3 DEF TaskNext, CallWait, ReadHigh, ReadLow, CheckHigh, ArmStore,
                ArmEnable, Cancel, TaskStep, TypeOK, TaskTypes
      <4> DEFINE d == timer_deadline[t]
      <4>2. timer_deadline' = timer_deadline /\ (pend' <=> EventNeeded(d))
        BY <4>1 DEF ArmModify, timerVars
      <4>3. ~(Hi(d) < clksrc_high) /\ ~(Hi(d) = clksrc_high /\ Lo(d) <= next_deadline)
        BY <2>3, <4>2 DEF Requested, EventNeeded
      <4>4. /\ d \in Nat /\ clksrc_high \in Nat /\ next_deadline \in 0 .. MaxLo
        BY DEF TypeOK, TimerTypes
      <4>5. Hi(d) \in Nat /\ Lo(d) \in 0 .. MaxLo
        BY <4>4, WordsVal
      <4>6. Hi(d) > clksrc_high \/ (Hi(d) = clksrc_high /\ Lo(d) >= next_deadline)
        BY <4>3, <4>4, <4>5
      <4>7. d >= Val(clksrc_high, next_deadline)
        BY <4>4, <4>6, NotBefore
      <4> QED BY <3>3, <4>2, <4>7
    <3> QED BY <3>2, <3>3
  <2>4. MaxLo' = MaxLo
    BY DEF MaxLo
  <2> QED BY <2>1, <2>2, <2>3, <2>4 DEF MatchInv
<1>6. CASE UNCHANGED vars
  BY <1>6 DEF vars, MatchInv, Requested, hwVars, isrVars, clockVars, timerVars, taskVars, Val, CNT,
              Lo, MaxLo
<1> QED BY <1>1, <1>2, <1>3, <1>4, <1>5, <1>6 DEF Next, Isr

-----------------------------------------------------------------------------
(* The theorems.  The interrupt handler that stores 0 to the status register it has   *)
(* loaded loses an overflow in between (the run TimerRace shows it), so they are      *)
(* about the executions without that race.                                            *)

IInv == TypeOK /\ ClockInv /\ GetTimeInv /\ DeadlineInv /\ ScanInv /\ MatchInv

LEMMA InitInv ==
    ASSUME Init
    PROVE  ClockInv /\ GetTimeInv /\ DeadlineInv /\ ScanInv /\ MatchInv
<1>1. Epoch \in Nat /\ Epoch > 1
  BY TimerAssumption
<1>2. CNT = 0 /\ Val(0, 0) = 0 /\ Val(clksrc_high, CNT) = 0
  <2>1. 0 % Epoch = 0 /\ 0 * Epoch + 0 = 0
    BY <1>1
  <2> QED BY <2>1 DEF Init, CNT, Lo, Val
<1>3. ~uif /\ ~overflow /\ isr = "idle" /\ now = 0 /\ next_deadline = MaxLo
      /\ timer_running = {}
  BY DEF Init
<1>4. ClockInv
  BY <1>2, <1>3 DEF ClockInv
<1>5. GetTimeInv
  BY DEF Init, GetTimeInv, Timely, GetTimePCs
<1>6. DeadlineInv
  BY DEF Init, DeadlineInv
<1>7. ScanInv
  BY <1>3 DEF ScanInv
<1>8. ~(next_deadline < MaxLo)
  BY <1>1, <1>3 DEF MaxLo
<1>9. MatchInv
  BY <1>3, <1>8 DEF MatchInv
<1> QED BY <1>4, <1>5, <1>6, <1>7, <1>9

LEMMA Invariant ==
    ASSUME StatusRace = FALSE
    PROVE  Spec => []IInv
<1>1. Init => TypeOK
  BY InitTypes
<1>2. Init => IInv
  BY <1>1, InitInv DEF IInv
<1>3. IInv /\ [Next]_vars => IInv'
  <2> SUFFICES ASSUME IInv, [Next]_vars PROVE IInv'
    OBVIOUS
  <2> USE DEF IInv
  <2>1. TypeOK'
    BY HwStep, TimerStep, TaskTypeStep DEF TypeOK
  <2>2. ClockInv' /\ GetTimeInv' /\ DeadlineInv'
    BY ClockStep, GetTimeStep, DeadlineStep
  <2>3. ScanInv' /\ MatchInv'
    BY ScanStep, MatchStep
  <2> QED BY <2>1, <2>2, <2>3
<1> QED BY <1>2, <1>3, PTL DEF Spec

\* get_time() returns a time at which the call was in progress, wherever the overflow and
\* its interrupt fall between its reads: for every length of an epoch and any tasks.
THEOREM ClockIsExact ==
    ASSUME StatusRace = FALSE
    PROVE  Spec => []GetTimeExact
<1>1. IInv => GetTimeExact
  BY DEF IInv, GetTimeInv, Timely, GetTimeExact
<1> QED BY <1>1, Invariant, PTL

\* process_timers(), usleep(): no timer expires before the timeout asked for has passed
\* since the call, whatever the length of the timeout and the epochs it spans.
THEOREM NoTimerIsEarly ==
    ASSUME StatusRace = FALSE
    PROVE  Spec => []NeverEarly
<1>1. IInv => NeverEarly
  BY DEF IInv, DeadlineInv, NeverEarly
<1> QED BY <1>1, Invariant, PTL

\* process_timers(), timer_arm(): a running timer whose deadline has passed has the timer
\* interrupt requested or running: no match is missed.
THEOREM NoMatchIsMissed ==
    ASSUME StatusRace = FALSE
    PROVE  Spec => []OverdueIsRequested
<1>1. ASSUME IInv PROVE OverdueIsRequested
  <2> SUFFICES ASSUME NEW t \in timer_running, timer_deadline[t] < now, pc[t] = "wait",
                      ~Requested, isr = "idle"
               PROVE  FALSE
    BY DEF OverdueIsRequested
  <2> USE <1>1 DEF IInv
  <2>1. ~uif /\ ~(cc1if /\ cc1ie)
    BY DEF Requested
  <2>2. now = Val(clksrc_high, CNT) + 0
    BY <2>1 DEF ClockInv
  <2>3. timer_deadline[t] \in Nat /\ clksrc_high \in Nat /\ next_deadline \in 0 .. MaxLo
    BY DEF TypeOK, TimerTypes
  <2>4. timer_deadline[t] >= Val(clksrc_high, next_deadline)
    BY DEF MatchInv
  <2>5. Val(clksrc_high, next_deadline) = Val(clksrc_high, 0) + next_deadline
    BY <2>3, ValWords
  <2>6. next_deadline < CNT
    BY <2>2, <2>3, <2>4, <2>5, ClockTypes
  <2>7. next_deadline < MaxLo
    BY <2>3, <2>6, ClockTypes
  <2>8. ccr1 = next_deadline /\ CNT < ccr1
    BY <2>1, <2>7 DEF MatchInv
  <2> QED BY <2>3, <2>6, <2>8, ClockTypes
<1> QED BY <1>1, Invariant, PTL
=============================================================================
