-------------------------- MODULE SchedulerProofs --------------------------
(***************************************************************************)
(* Scheduler, for every set of threads and priorities: when the callers of *)
(* rt_thread_resume, rt_thread_startup, rt_thread_detach and               *)
(* rt_thread_delete hold interrupts disabled, the ready table, the defunct *)
(* list and the current thread stay consistent for ever.                   *)
(*                                                                         *)
(* The argument has three layers: Queues, which says what the lists of a   *)
(* kernel state hold in terms of two sets of threads, with one lemma per   *)
(* list operation; ScheduleLemma, what a call of rt_schedule does; and the *)
(* inductive invariant IInv, with one step per action.                     *)
(***************************************************************************)
EXTENDS Scheduler, KernelProofs

ReadySet == {t \in Threads : rt.stat[t] = "READY" /\ ~BeingClosed(t)}
DeadSet  == {t \in Threads : rt.stat[t] = "CLOSE"}

(* Where each thread may stand, given that the windows are masked. *)
PointsOK ==
    /\ pc[Idle] \in {"run", "reap"}
    /\ \A t \in Threads : pc[t] = "reap" => t = Idle
    /\ \A t \in Threads : pc[t] \in Windows => t = rt.current /\ isr = "none"
    /\ \A t \in Threads : pc[t] \in Windows \ {"closing"} => rt.stat[arg[t]] = "SUSPEND"
    /\ \A t \in Threads : pc[t] = "closing" =>
            /\ arg[t] # Idle
            /\ rt.stat[arg[t]] \notin {"FREE", "CLOSE"}

(* Whoever executes its own code is RUNNING, or closed itself and owes an   *)
(* rt_schedule.                                                            *)
Executes(t) == rt.stat[t] = "RUNNING" \/ (rt.stat[t] = "CLOSE" /\ owed)

IInv ==
    /\ TypeOK
    /\ Queues(rt, ReadySet, DeadSet)
    /\ CurrentThread
    /\ TimeoutAssertion
    /\ pc[Idle] = "reap" => rt.stat[arg[Idle]] = "CLOSE" /\ rt.current # arg[Idle]
    /\ PointsOK
    /\ HighestRuns

(* What each step keeps and does. *)
Step ==
    /\ IInv'
    /\ rt'.current # rt.current => Preempts(rt.current, rt'.current)
    /\ OnlyReclaimed

-----------------------------------------------------------------------------
(* The inductive invariant, with the windows masked *)

(* Outside the windows no thread is being closed and the invariant is what  *)
(* the kernel functions rely on.                                           *)
LEMMA CalmLemma ==
    ASSUME IInv, pc[rt.current] \notin Windows
    PROVE  /\ KInv(rt)
           /\ \A t \in Threads : pc[t] \notin Windows
           /\ \A x : ~BeingClosed(x)
  <1>1. \A t \in Threads : pc[t] \notin Windows
    BY DEF IInv, PointsOK
  <1>2. \A x : ~BeingClosed(x)
    BY <1>1 DEF BeingClosed, Windows
  <1>3. ReadySet = {t \in Threads : rt.stat[t] = "READY"}
    BY <1>2 DEF ReadySet
  <1>4. KInv(rt)
    <2>1. Queues(rt, {t \in Threads : rt.stat[t] = "READY"}, {t \in Threads : rt.stat[t] = "CLOSE"})
      BY <1>3 DEF IInv, DeadSet
    <2> QED BY <2>1 DEF IInv, CurrentThread, TimeoutAssertion, KInv
  <1> QED BY <1>1, <1>2, <1>4

(* And back: what a step that leaves nobody closing has to establish. *)
LEMMA RestoredLemma ==
    ASSUME KInv(rt'),
           slice' \in Slices, pc' \in [Threads -> PCs],
           arg' \in [Threads -> Threads], isr' \in Isr,
           owed' \in BOOLEAN,
           \A t \in Threads : pc'[t] # "closing",
           CurrentThread',
           pc'[Idle] = "reap" => rt'.stat[arg'[Idle]] = "CLOSE" /\ rt'.current # arg'[Idle],
           PointsOK', HighestRuns'
    PROVE  IInv'
  <1>1. \A x : ~BeingClosed(x)'
    BY DEF BeingClosed
  <1>2. ReadySet' = {t \in Threads : rt'.stat[t] = "READY"}
    BY <1>1 DEF ReadySet
  <1>3. Queues(rt', {t \in Threads : rt'.stat[t] = "READY"}, {t \in Threads : rt'.stat[t] = "CLOSE"})
    BY DEF KInv
  <1>4. Queues(rt, ReadySet, DeadSet)'
    <2>1. Queues(rt', ReadySet', DeadSet')
      BY <1>2, <1>3 DEF DeadSet
    <2> QED BY <2>1 DEF Queues
  <1>5. TypeOK'
    BY <1>3 DEF TypeOK, Queues
  <1>6. TimeoutAssertion'
    BY DEF KInv, TimeoutAssertion
  <1> QED BY <1>4, <1>5, <1>6 DEF IInv

(* Every step that ends in rt_schedule, from a consistent kernel state k    *)
(* with the same current thread and the same dead threads as rt.           *)
LEMMA ScheduledStep ==
    ASSUME IInv, pc[rt.current] \notin Windows,
           NEW k, KInv(k), k.current = rt.current, k.nest = rt.nest,
           k.prio = rt.prio,
           k.yield[rt.current] => rt.yield[rt.current] \/ slice'[rt.current] = InitTick[rt.current],
           \A x \in Threads : k.stat[x] = "READY" => rt.stat[x] \in {"READY", "SUSPEND"},
           \A x \in Threads : rt.stat[x] = "CLOSE" <=> k.stat[x] = "CLOSE",
           rt' = rt_schedule(k), owed' = (owed /\ rt.nest # 0),
           slice' \in Slices, arg' = arg,
           isr' \in Isr,
           pc' = pc \/ (pc[rt.current] = "sched" /\ pc' = [pc EXCEPT ![rt.current] = "run"])
    PROVE  Step
  <1>1. /\ TypeOK /\ PointsOK
        /\ pc[Idle] = "reap" => rt.stat[arg[Idle]] = "CLOSE" /\ rt.current # arg[Idle]
    BY DEF IInv
  <1>2. \A t \in Threads : pc[t] \notin Windows
    BY CalmLemma
  <1>3. /\ KInv(rt') /\ rt'.nest = k.nest /\ (k.nest # 0 => rt' = k)
        /\ rt'.current # k.current => k.nest = 0 /\ k.stat[rt'.current] = "READY"
        /\ rt'.current # k.current /\ rt'.stat[k.current] = "READY" =>
             \/ k.prio[rt'.current] < k.prio[k.current]
             \/ k.prio[rt'.current] = k.prio[k.current] /\ k.yield[k.current]
        /\ \A t \in Threads : k.stat[t] = "CLOSE" => rt'.stat[t] = "CLOSE"
        /\ k.nest = 0 => /\ rt'.stat[rt'.current] = "RUNNING"
                         /\ \A t \in Threads : rt'.stat[t] = "READY" =>
                                rt'.prio[rt'.current] <= rt'.prio[t]
    BY ScheduleLemma
  <1>4. rt'.stat[rt'.current] = "RUNNING" \/ (rt'.stat[rt'.current] = "CLOSE" /\ owed')
    <2>1. CASE k.nest = 0
      BY <1>3, <2>1
    <2>2. CASE k.nest # 0
      <3>1. rt' = k /\ rt.current \in Threads /\ owed' = owed
        BY <1>1, <1>3, <2>2 DEF TypeOK, Kernel
      <3>2. k.stat[rt.current] \in {"RUNNING", "CLOSE"}
        BY <2>2 DEF KInv
      <3>3. k.stat[rt.current] = "CLOSE" => owed
        BY <2>2, <3>1 DEF IInv, CurrentThread
      <3> QED BY <3>1, <3>2, <3>3
    <2> QED BY <2>1, <2>2
  <1>5. /\ pc' \in [Threads -> PCs] /\ \A t \in Threads : pc'[t] \notin Windows
        /\ \A t \in Threads : pc'[t] = "reap" <=> pc[t] = "reap"
        /\ pc'[Idle] \in {"run", "reap"}
    BY <1>1, <1>2, ThreadsAssumption DEF TypeOK, PointsOK, PCs, Windows
  <1>6. arg' \in [Threads -> Threads] /\ owed' \in BOOLEAN
    BY <1>1 DEF TypeOK
  <1>7. ASSUME pc'[Idle] = "reap"
        PROVE  rt'.stat[arg'[Idle]] = "CLOSE" /\ rt'.current # arg'[Idle]
    <2>1. /\ arg[Idle] \in Threads /\ rt.stat[arg[Idle]] = "CLOSE" /\ rt.current # arg[Idle]
      BY <1>1, <1>5, <1>7, ThreadsAssumption DEF TypeOK
    <2>2. k.stat[arg[Idle]] = "CLOSE"
      BY <2>1
    <2>3. rt'.stat[arg[Idle]] = "CLOSE"
      BY <1>3, <2>1, <2>2
    <2>4. rt'.current # arg[Idle]
      BY <1>3, <2>1, <2>2
    <2> QED BY <2>3, <2>4
  <1>8. PointsOK'
    BY <1>1, <1>5 DEF PointsOK, Windows
  <1>9. HighestRuns' /\ CurrentThread'
    BY <1>3, <1>4 DEF HighestRuns, CurrentThread, KInv
  <1>10. \A t \in Threads : pc'[t] # "closing"
    BY <1>5 DEF Windows
  <1>11. IInv'
    BY <1>3, <1>5, <1>6, <1>7, <1>8, <1>9, <1>10, RestoredLemma
  <1>12. rt'.current # rt.current => Preempts(rt.current, rt'.current)
    BY <1>3 DEF Preempts
  <1>13. OnlyReclaimed
    <2>1. rt'.current \in Threads
      BY <1>3 DEF KInv, Queues, Kernel
    <2> QED BY <1>3, <2>1 DEF OnlyReclaimed
  <1> QED BY <1>11, <1>12, <1>13 DEF Step

(* The YIELD flag and the nesting of an executing thread's lock concern     *)
(* none of the lists.                                                      *)
LEMMA FlagsLemma ==
    ASSUME NEW k, KInv(k), NEW j \in Kernel,
           j.ready = k.ready, j.group = k.group, j.defunct = k.defunct, j.prio = k.prio,
           j.stat = k.stat, j.current = k.current, j.timer = k.timer,
           j.nest = k.nest \/ k.stat[k.current] # "SUSPEND"
    PROVE  KInv(j)
  <1>1. Queues(j, {t \in Threads : k.stat[t] = "READY"}, {t \in Threads : k.stat[t] = "CLOSE"})
    BY QueuesFrame DEF KInv
  <1> QED BY <1>1 DEF KInv

LEMMA YieldLemma ==
    ASSUME NEW k, KInv(k), NEW t \in Threads
    PROVE  LET j == [k EXCEPT !.yield[t] = TRUE] IN
           KInv(j) /\ j.stat = k.stat /\ j.prio = k.prio /\ j.current = k.current /\ j.nest = k.nest
  <1> DEFINE j == [k EXCEPT !.yield[t] = TRUE]
  <1>1. k \in Kernel /\ k.yield \in [Threads -> BOOLEAN]
    BY DEF KInv, Queues, Kernel
  <1>2. /\ j \in Kernel /\ j.ready = k.ready /\ j.group = k.group /\ j.defunct = k.defunct
        /\ j.prio = k.prio /\ j.stat = k.stat /\ j.current = k.current /\ j.timer = k.timer
        /\ j.nest = k.nest
    BY <1>1 DEF Kernel
  <1> HIDE DEF j
  <1> QED BY <1>2, FlagsLemma DEF j

-----------------------------------------------------------------------------
(* One lemma per action *)

LEMMA SliceLemma ==
    ASSUME slice \in Slices, NEW t \in Threads, NEW n \in 1 .. InitTick[t]
    PROVE  [slice EXCEPT ![t] = n] \in Slices
  BY InitTickAssumption DEF Slices

LEMMA FullSlice == \A t \in Threads : InitTick[t] \in 1 .. InitTick[t]
  BY InitTickAssumption

LEMMA RescheduleStep ==
    ASSUME IInv, NEW t \in Threads, Reschedule(t) PROVE Step
  <1>1. rt.current = t /\ pc[rt.current] = "sched" /\ pc[rt.current] \notin Windows
    BY DEF Reschedule, At, Windows
  <1>2. KInv(rt)
    BY <1>1, CalmLemma
  <1>3. /\ slice' \in Slices /\ isr' \in Isr
        /\ arg' = arg /\ owed' = (owed /\ rt.nest # 0) /\ rt' = rt_schedule(rt)
        /\ pc' = [pc EXCEPT ![rt.current] = "run"]
    BY <1>1 DEF Reschedule, Goto, Paid, IInv, TypeOK
  <1>4. /\ rt.yield[rt.current] => rt.yield[rt.current] \/ slice'[rt.current] = InitTick[rt.current]
        /\ \A x \in Threads : rt.stat[x] = "READY" => rt.stat[x] \in {"READY", "SUSPEND"}
        /\ \A x \in Threads : rt.stat[x] = "CLOSE" <=> rt.stat[x] = "CLOSE"
    OBVIOUS
  <1> QED BY <1>1, <1>2, <1>3, <1>4, ScheduledStep

LEMMA YieldStep ==
    ASSUME IInv, NEW t \in Threads, rt_thread_yield(t) PROVE Step
  <1>1. rt.current = t /\ pc[rt.current] \notin Windows
    BY DEF rt_thread_yield, App, At, Windows
  <1> DEFINE k == [rt EXCEPT !.yield[t] = TRUE]
  <1>2. KInv(k) /\ k.stat = rt.stat /\ k.prio = rt.prio /\ k.current = rt.current /\ k.nest = rt.nest
    BY <1>1, CalmLemma, YieldLemma
  <1>3. /\ slice' \in Slices /\ isr' \in Isr
        /\ arg' = arg /\ owed' = (owed /\ rt.nest # 0) /\ rt' = rt_schedule(k)
        /\ pc' = pc /\ slice'[t] = InitTick[t]
    <2>1. slice' = [slice EXCEPT ![t] = InitTick[t]] /\ slice \in Slices
      BY DEF rt_thread_yield, IInv, TypeOK
    <2>2. slice' \in Slices /\ slice'[t] = InitTick[t]
      BY <2>1, SliceLemma, FullSlice DEF Slices
    <2> QED BY <2>2 DEF rt_thread_yield, Paid, IInv, TypeOK
  <1> HIDE DEF k
  <1>4. /\ k.yield[rt.current] => rt.yield[rt.current] \/ slice'[rt.current] = InitTick[rt.current]
        /\ \A x \in Threads : k.stat[x] = "READY" => rt.stat[x] \in {"READY", "SUSPEND"}
        /\ \A x \in Threads : rt.stat[x] = "CLOSE" <=> k.stat[x] = "CLOSE"
    BY <1>1, <1>2, <1>3
  <1> QED BY <1>1, <1>2, <1>3, <1>4, ScheduledStep

LEMMA TickStep ==
    ASSUME IInv, CallerMasksIrq, rt_tick_increase PROVE Step
  <1> DEFINE c == rt.current
             k == [rt EXCEPT !.yield[c] = TRUE]
  <1>1. pc[rt.current] \notin Windows
    BY DEF rt_tick_increase, IrqEnabled
  <1>2. KInv(rt) /\ \A t \in Threads : pc[t] \notin Windows
    BY <1>1, CalmLemma
  <1>3. c \in Threads /\ slice \in Slices /\ slice[c] \in 1 .. InitTick[c]
    BY DEF IInv, TypeOK, Kernel, Slices
  <1>4. pc' = pc /\ arg' = arg /\ owed' = owed /\ isr' \in Isr
    BY DEF rt_tick_increase, Isr
  <1>5. /\ slice' \in Slices /\ KInv(rt') /\ rt'.stat = rt.stat /\ rt'.prio = rt.prio
        /\ rt'.current = c /\ rt'.nest = rt.nest
    <2>1. CASE slice[c] = 1
      <3>1. rt' = k /\ slice' = [slice EXCEPT ![c] = InitTick[c]]
        BY <2>1 DEF rt_tick_increase
      <3>2. KInv(k) /\ k.stat = rt.stat /\ k.prio = rt.prio /\ k.current = rt.current /\ k.nest = rt.nest
        BY <1>2, <1>3, YieldLemma
      <3>3. slice' \in Slices
        BY <1>3, <3>1, SliceLemma, FullSlice
      <3> HIDE DEF k
      <3> QED BY <3>1, <3>2, <3>3
    <2>2. CASE slice[c] # 1
      <3>1. rt' = rt /\ slice' = [slice EXCEPT ![c] = slice[c] - 1]
        BY <2>2 DEF rt_tick_increase
      <3>2. slice[c] - 1 \in 1 .. InitTick[c]
        <4>1. InitTick[c] \in Nat
          BY <1>3, InitTickAssumption
        <4> QED BY <1>3, <2>2, <4>1
      <3>3. slice' \in Slices
        BY <1>3, <3>1, <3>2, SliceLemma
      <3> QED BY <1>2, <3>1, <3>3
    <2> QED BY <2>1, <2>2
  <1>6. PointsOK'
    BY <1>2, <1>4, <1>5 DEF IInv, PointsOK, Windows
  <1>7. HighestRuns'
    <2>1. \A t : ~BeingClosed(t) /\ ~BeingClosed(t)'
      BY <1>1, <1>2, <1>4, CalmLemma DEF BeingClosed, Windows
    <2> QED BY <1>4, <1>5, <2>1 DEF IInv, HighestRuns
  <1>8. \A t \in Threads : pc'[t] # "closing"
    BY <1>2, <1>4 DEF Windows
  <1>9. /\ CurrentThread'
        /\ pc'[Idle] = "reap" => rt'.stat[arg'[Idle]] = "CLOSE" /\ rt'.current # arg'[Idle]
    BY <1>4, <1>5 DEF IInv, CurrentThread
  <1>10. pc' \in [Threads -> PCs] /\ arg' \in [Threads -> Threads] /\ owed' \in BOOLEAN
    BY <1>4 DEF IInv, TypeOK
  <1>11. IInv'
    BY <1>4, <1>5, <1>6, <1>7, <1>8, <1>9, <1>10, RestoredLemma
  <1> QED BY <1>5, <1>11 DEF Step, OnlyReclaimed

LEMMA TickSchedulesStep ==
    ASSUME IInv, TickSchedules PROVE Step
  <1>1. pc[rt.current] \notin Windows
    BY DEF TickSchedules, IInv, PointsOK, TypeOK, Kernel
  <1>2. KInv(rt)
    BY <1>1, CalmLemma
  <1>3. /\ slice' \in Slices /\ isr' \in Isr /\ arg' = arg /\ owed' = (owed /\ rt.nest # 0)
        /\ rt' = rt_schedule(rt) /\ pc' = pc
    BY DEF TickSchedules, Paid, IInv, TypeOK, Isr
  <1>4. /\ rt.yield[rt.current] => rt.yield[rt.current] \/ slice'[rt.current] = InitTick[rt.current]
        /\ \A x \in Threads : rt.stat[x] = "READY" => rt.stat[x] \in {"READY", "SUSPEND"}
        /\ \A x \in Threads : rt.stat[x] = "CLOSE" <=> rt.stat[x] = "CLOSE"
    OBVIOUS
  <1> QED BY <1>1, <1>2, <1>3, <1>4, ScheduledStep

LEMMA TimerExpiresStep ==
    ASSUME IInv, NEW t \in Threads, TimerExpires(t) PROVE Step
  <1> DEFINE k == ResumeThread(rt, t)
  <1>1. pc[rt.current] \notin Windows /\ rt.stat[t] = "SUSPEND"
    BY DEF TimerExpires, IInv, PointsOK, TimeoutAssertion, TypeOK, Kernel
  <1>2. KInv(rt)
    BY <1>1, CalmLemma
  <1>3. /\ KInv(k) /\ k.prio = rt.prio /\ k.yield = rt.yield /\ k.current = rt.current /\ k.nest = rt.nest
        /\ k.stat = [rt.stat EXCEPT ![t] = IF t = rt.current THEN "RUNNING" ELSE "READY"]
        /\ rt_schedule_insert_thread(Unlink([rt EXCEPT !.timer[t] = FALSE], t), t) = k
    BY <1>1, <1>2, ResumeThreadLemma
  <1>4. rt' = rt_schedule(k)
    BY <1>3 DEF TimerExpires, _thread_timeout
  <1> HIDE DEF k
  <1>5. /\ slice' \in Slices /\ isr' \in Isr
        /\ arg' = arg /\ owed' = (owed /\ rt.nest # 0) /\ pc' = pc
    BY DEF TimerExpires, Paid, IInv, TypeOK
  <1>6. /\ \A x \in Threads : rt.stat[x] = "CLOSE" <=> k.stat[x] = "CLOSE"
        /\ \A x \in Threads : k.stat[x] = "READY" => rt.stat[x] \in {"READY", "SUSPEND"}
        /\ k.yield[rt.current] => rt.yield[rt.current] \/ slice'[rt.current] = InitTick[rt.current]
    <2>1. rt.stat \in [Threads -> Stats]
      BY DEF IInv, TypeOK, Kernel
    <2> QED BY <1>1, <1>3, <2>1
  <1> QED BY <1>1, <1>3, <1>4, <1>5, <1>6, ScheduledStep

LEMMA DeviceInterruptStep ==
    ASSUME IInv, CallerMasksIrq, NEW t \in Threads, DeviceInterrupt(t) PROVE Step
  <1> DEFINE k == ResumeThread(rt, t)
  <1>1. pc[rt.current] \notin Windows /\ rt.stat[t] = "SUSPEND"
    BY DEF DeviceInterrupt, IrqEnabled
  <1>2. KInv(rt)
    BY <1>1, CalmLemma
  <1>3. /\ KInv(k) /\ k.prio = rt.prio /\ k.yield = rt.yield /\ k.current = rt.current /\ k.nest = rt.nest
        /\ k.stat = [rt.stat EXCEPT ![t] = IF t = rt.current THEN "RUNNING" ELSE "READY"]
    BY <1>1, <1>2, ResumeThreadLemma
  <1>4. rt' = rt_schedule(k)
    BY DEF DeviceInterrupt
  <1> HIDE DEF k
  <1>5. /\ slice' \in Slices /\ isr' \in Isr
        /\ arg' = arg /\ owed' = (owed /\ rt.nest # 0) /\ pc' = pc
    BY DEF DeviceInterrupt, Paid, IInv, TypeOK
  <1>6. /\ \A x \in Threads : rt.stat[x] = "CLOSE" <=> k.stat[x] = "CLOSE"
        /\ \A x \in Threads : k.stat[x] = "READY" => rt.stat[x] \in {"READY", "SUSPEND"}
        /\ k.yield[rt.current] => rt.yield[rt.current] \/ slice'[rt.current] = InitTick[rt.current]
    <2>1. rt.stat \in [Threads -> Stats]
      BY DEF IInv, TypeOK, Kernel
    <2> QED BY <1>1, <1>3, <2>1
  <1> QED BY <1>1, <1>3, <1>4, <1>5, <1>6, ScheduledStep
(* What the steps of a thread have in common that neither switch threads    *)
(* nor leave one closing.                                                  *)
LEMMA PlainStep ==
    ASSUME IInv, NEW t \in Threads, t # Idle, rt.current = t, isr = "none",
           NEW l \in PCs \ {"closing", "reap"}, NEW x \in Threads,
           pc' = [pc EXCEPT ![t] = l], arg' = [arg EXCEPT ![t] = x],
           l \in Windows => rt'.stat[x] = "SUSPEND",
           KInv(rt'), rt'.current = t, isr' = isr, owed' \in BOOLEAN,
           slice' \in Slices,
           \A y \in Threads : rt.stat[y] = "CLOSE" => rt'.stat[y] = "CLOSE",
           (l = "sched" /\ rt'.nest = 0) \/ Executes(t)',
           l = "sched" \/ rt'.nest # 0 \/ owed' \/ HighestRuns'
    PROVE  Step
  <1>1. /\ pc \in [Threads -> PCs] /\ arg \in [Threads -> Threads] /\ PointsOK
        /\ pc[Idle] = "reap" => rt.stat[arg[Idle]] = "CLOSE" /\ rt.current # arg[Idle]
    BY DEF IInv, TypeOK
  <1>2. /\ pc' \in [Threads -> PCs] /\ arg' \in [Threads -> Threads]
        /\ pc'[t] = l /\ arg'[t] = x
        /\ \A u \in Threads : u # t => pc'[u] = pc[u] /\ arg'[u] = arg[u]
    BY <1>1
  <1>3. \A u \in Threads : u # t => pc[u] \notin Windows
    BY <1>1 DEF PointsOK
  <1>4. \A u \in Threads : pc'[u] # "closing"
    BY <1>2, <1>3 DEF Windows
  <1>5. ASSUME pc'[Idle] = "reap"
        PROVE  rt'.stat[arg'[Idle]] = "CLOSE" /\ rt'.current # arg'[Idle]
    <2>1. pc[Idle] = "reap" /\ arg'[Idle] = arg[Idle] /\ arg[Idle] \in Threads
      BY <1>1, <1>2, <1>5, ThreadsAssumption
    <2> QED BY <1>1, <2>1
  <1>6. PointsOK'
    <2>1. pc'[Idle] \in {"run", "reap"}
      BY <1>1, <1>2, ThreadsAssumption DEF PointsOK
    <2>2. \A u \in Threads : pc'[u] = "reap" => u = Idle
      BY <1>1, <1>2 DEF PointsOK
    <2>3. \A u \in Threads : pc'[u] \in Windows =>
                u = rt'.current /\ isr' = "none" /\ rt'.stat[arg'[u]] = "SUSPEND"
      BY <1>2, <1>3
    <2> QED BY <1>4, <2>1, <2>2, <2>3 DEF PointsOK
  <1>7. HighestRuns'
    BY <1>2 DEF HighestRuns
  <1>8. isr' \in Isr
    BY DEF Isr
  <1>9. CurrentThread'
    BY <1>2 DEF CurrentThread, Executes, KInv
  <1>10. IInv'
    BY <1>2, <1>4, <1>5, <1>6, <1>7, <1>8, <1>9, RestoredLemma
  <1> QED BY <1>10 DEF Step, OnlyReclaimed

(* The state an application thread t starts a kernel call in. *)
LEMMA AppLemma ==
    ASSUME IInv, NEW t \in Threads, App(t)
    PROVE  /\ t # Idle /\ rt.current = t /\ isr = "none" /\ pc[t] = "run"
           /\ KInv(rt) /\ Executes(t)
           /\ \A x : ~BeingClosed(x)
           /\ \A u \in Threads : pc[u] \notin Windows
           /\ pc = [pc EXCEPT ![t] = "run"] /\ arg = [arg EXCEPT ![t] = arg[t]]
           /\ arg[t] \in Threads
  <1>1. t # Idle /\ rt.current = t /\ isr = "none" /\ pc[t] = "run" /\ pc[rt.current] \notin Windows
    BY DEF App, At, Windows
  <1>2. pc \in [Threads -> PCs] /\ arg \in [Threads -> Threads]
    BY DEF IInv, TypeOK
  <1> QED BY <1>1, <1>2, CalmLemma DEF IInv, CurrentThread, Executes

LEMMA CallsScheduleStep ==
    ASSUME IInv, NEW t \in Threads, CallsSchedule(t) PROVE Step
  <1>1. App(t)
    BY DEF CallsSchedule
  <1>2. /\ t # Idle /\ rt.current = t /\ isr = "none" /\ KInv(rt) /\ Executes(t)
        /\ arg = [arg EXCEPT ![t] = arg[t]] /\ arg[t] \in Threads
    BY <1>1, AppLemma
  <1>3. /\ rt' = rt /\ slice' = slice /\ isr' = isr /\ owed' = owed
        /\ pc' = [pc EXCEPT ![t] = "sched"] /\ arg' = [arg EXCEPT ![t] = arg[t]]
    BY <1>2 DEF CallsSchedule, Goto
  <1>4. owed' \in BOOLEAN /\ slice' \in Slices
    BY <1>3 DEF IInv, TypeOK
  <1>5. "sched" \in PCs \ {"closing", "reap"} /\ "sched" \notin Windows
    BY DEF PCs, Windows
  <1>6. Executes(t)'
    BY <1>2, <1>3 DEF Executes
  <1> QED BY <1>2, <1>3, <1>4, <1>5, <1>6, PlainStep

LEMMA SleepStep ==
    ASSUME IInv, NEW t \in Threads, NEW timed \in BOOLEAN, rt_thread_sleep(t, timed)
    PROVE  Step
  <1> DEFINE u == rt_schedule_remove_thread(rt, t)
             S == {s \in Threads : rt.stat[s] = "READY"}
             D == {s \in Threads : rt.stat[s] = "CLOSE"}
  <1>1. App(t) /\ rt.nest = 0 /\ rt.stat[t] # "CLOSE"
    BY DEF rt_thread_sleep
  <1>2. /\ t # Idle /\ rt.current = t /\ isr = "none" /\ KInv(rt) /\ rt.stat[t] = "RUNNING"
        /\ arg = [arg EXCEPT ![t] = arg[t]] /\ arg[t] \in Threads
    BY <1>1, AppLemma DEF Executes
  <1>3. /\ Queues(u, S \ {t}, D \ {t}) /\ u.stat = rt.stat /\ u.prio = rt.prio
        /\ u.current = rt.current /\ u.nest = rt.nest /\ u.timer = rt.timer
    <2>1. Queues(rt, S, D) /\ S \subseteq Threads
      BY <1>2 DEF KInv
    <2> HIDE DEF S, D
    <2> QED BY <2>1, RemoveThreadLemma
  <1>4. S \ {t} = S /\ D \ {t} = D
    BY <1>2
  <1>5. /\ u \in Kernel /\ u.stat \in [Threads -> Stats] /\ u.timer \in [Threads -> BOOLEAN]
    BY <1>3 DEF Queues, Kernel
  <1>6. rt' = [u EXCEPT !.stat[t] = "SUSPEND", !.timer[t] = timed]
    BY DEF rt_thread_sleep, SuspendThread
  <1> HIDE DEF u
  <1>7. /\ rt'.stat = [rt.stat EXCEPT ![t] = "SUSPEND"]
        /\ rt'.timer = [rt.timer EXCEPT ![t] = timed]
        /\ rt'.ready = u.ready /\ rt'.group = u.group /\ rt'.defunct = u.defunct
        /\ rt'.prio = u.prio /\ rt'.current = rt.current /\ rt'.nest = rt.nest
    BY <1>3, <1>5, <1>6 DEF Kernel
  <1>8. rt' \in Kernel
    <2>1. /\ [u.stat EXCEPT ![t] = "SUSPEND"] \in [Threads -> Stats]
          /\ [u.timer EXCEPT ![t] = timed] \in [Threads -> BOOLEAN]
      BY <1>5 DEF Stats
    <2> QED BY <1>5, <1>6, <2>1 DEF Kernel
  <1>9. Queues(rt', S, D)
    <2>1. Queues(u, S, D)
      BY <1>3, <1>4
    <2> HIDE DEF S, D
    <2> QED BY <2>1, <1>7, <1>8, QueuesFrame
  <1>10. \A s \in Threads : /\ rt'.stat[s] = IF s = t THEN "SUSPEND" ELSE rt.stat[s]
                            /\ s # t => rt'.timer[s] = rt.timer[s]
    BY <1>3, <1>5, <1>7
  <1>11. KInv(rt')
    <2>1. S = {s \in Threads : rt'.stat[s] = "READY"} /\ D = {s \in Threads : rt'.stat[s] = "CLOSE"}
      BY <1>2, <1>10
    <2>2. /\ \A s \in Threads : rt'.stat[s] = "RUNNING" => s = rt'.current
          /\ rt'.stat[rt'.current] = "SUSPEND" /\ rt'.nest = 0
          /\ rt'.stat[Idle] \in {"READY", "RUNNING"}
          /\ \A s \in Threads : rt'.timer[s] => rt'.stat[s] = "SUSPEND"
      BY <1>1, <1>2, <1>7, <1>10, ThreadsAssumption DEF KInv
    <2> HIDE DEF S, D
    <2> QED BY <1>9, <2>1, <2>2, KInvIntro
  <1>12. /\ pc' = [pc EXCEPT ![t] = "sched"] /\ arg' = [arg EXCEPT ![t] = arg[t]]
         /\ isr' = isr /\ owed' \in BOOLEAN /\ slice' \in Slices
    BY <1>2 DEF rt_thread_sleep, Goto, IInv, TypeOK
  <1>13. "sched" \in PCs \ {"closing", "reap"} /\ "sched" \notin Windows
    BY DEF PCs, Windows
  <1>14. /\ rt'.current = t /\ rt'.nest = 0
         /\ \A y \in Threads : rt.stat[y] = "CLOSE" => rt'.stat[y] = "CLOSE"
    BY <1>1, <1>2, <1>7, <1>10
  <1> HIDE DEF S, D
  <1> QED BY <1>2, <1>11, <1>12, <1>13, <1>14, PlainStep

(* The windows other than that of rt_thread_delete leave nobody closing. *)
LEMMA OpenLemma ==
    ASSUME IInv, NEW t \in Threads, NEW l \in {"run", "sched", "startup", "startlink", "relink", "reap"},
           At(t, l)
    PROVE  /\ KInv(rt) /\ rt.current = t /\ isr = "none" /\ pc[t] = l
           /\ \A x : ~BeingClosed(x)
           /\ l # "sched" => Executes(t)
           /\ l \notin {"run", "reap"} => t # Idle
           /\ arg[t] \in Threads /\ arg = [arg EXCEPT ![t] = arg[t]]
  <1>1. rt.current = t /\ isr = "none" /\ pc[t] = l
    BY DEF At
  <1>2. \A x : ~BeingClosed(x)
    BY <1>1 DEF IInv, PointsOK, BeingClosed, Windows
  <1>3. ReadySet = {s \in Threads : rt.stat[s] = "READY"}
    BY <1>2 DEF ReadySet
  <1>4. KInv(rt)
    <2>1. Queues(rt, {s \in Threads : rt.stat[s] = "READY"}, {s \in Threads : rt.stat[s] = "CLOSE"})
      BY <1>3 DEF IInv, DeadSet
    <2> QED BY <2>1 DEF IInv, CurrentThread, TimeoutAssertion, KInv
  <1>5. l # "sched" => Executes(t)
    BY <1>1 DEF IInv, CurrentThread, Executes
  <1>6. l \notin {"run", "reap"} => t # Idle
    BY <1>1 DEF IInv, PointsOK
  <1>7. arg[t] \in Threads /\ arg = [arg EXCEPT ![t] = arg[t]]
    BY DEF IInv, TypeOK
  <1> QED BY <1>1, <1>2, <1>4, <1>5, <1>6, <1>7

(* HighestRuns survives a step that makes nobody ready. *)
LEMMA KeepsHighest ==
    ASSUME HighestRuns, pc[rt.current] # "sched", \A x : ~BeingClosed(x),
           rt'.current = rt.current, rt'.stat[rt.current] = rt.stat[rt.current],
           rt'.prio = rt.prio, rt'.nest = rt.nest, owed' = owed,
           \A x \in Threads : rt'.stat[x] = "READY" => rt.stat[x] = "READY"
    PROVE  HighestRuns'
  BY DEF HighestRuns

LEMMA InitStep ==
    ASSUME IInv, NEW t \in Threads, NEW x \in Threads, rt_thread_init(t, x)
    PROVE  Step
  <1> DEFINE S == {s \in Threads : rt.stat[s] = "READY"}
             D == {s \in Threads : rt.stat[s] = "CLOSE"}
  <1>1. App(t) /\ rt.stat[x] = "FREE"
    BY DEF rt_thread_init
  <1>2. /\ t # Idle /\ rt.current = t /\ isr = "none" /\ pc[t] = "run"
        /\ KInv(rt) /\ Executes(t) /\ \A y : ~BeingClosed(y)
        /\ \A u \in Threads : pc[u] \notin Windows
    BY <1>1, AppLemma
  <1>3. /\ rt \in Kernel /\ rt.stat \in [Threads -> Stats] /\ rt.yield \in [Threads -> BOOLEAN]
        /\ rt.prio \in [Threads -> Priorities] /\ rt.timer \in [Threads -> BOOLEAN]
    BY <1>2 DEF KInv, Queues, Kernel
  <1>4. x # t /\ x # Idle
    BY <1>1, <1>2 DEF KInv, Executes
  <1>5. rt' = [rt EXCEPT !.stat[x] = "INIT", !.yield[x] = FALSE,
                         !.prio[x] = InitPrio[x], !.timer[x] = FALSE]
    BY DEF rt_thread_init
  <1>6. /\ rt'.stat = [rt.stat EXCEPT ![x] = "INIT"]
        /\ rt'.prio = [rt.prio EXCEPT ![x] = InitPrio[x]]
        /\ rt'.timer = [rt.timer EXCEPT ![x] = FALSE]
        /\ rt'.ready = rt.ready /\ rt'.group = rt.group /\ rt'.defunct = rt.defunct
        /\ rt'.current = rt.current /\ rt'.nest = rt.nest
    BY <1>3, <1>5 DEF Kernel
  <1>7. rt' \in Kernel
    <2>1. /\ [rt.stat EXCEPT ![x] = "INIT"] \in [Threads -> Stats]
          /\ [rt.yield EXCEPT ![x] = FALSE] \in [Threads -> BOOLEAN]
          /\ [rt.timer EXCEPT ![x] = FALSE] \in [Threads -> BOOLEAN]
          /\ [rt.prio EXCEPT ![x] = InitPrio[x]] \in [Threads -> Priorities]
      BY <1>3, InitPrioAssumption DEF Stats
    <2> QED BY <1>3, <1>5, <2>1 DEF Kernel
  <1>8. \A s \in Threads : /\ rt'.stat[s] = IF s = x THEN "INIT" ELSE rt.stat[s]
                           /\ rt'.timer[s] = IF s = x THEN FALSE ELSE rt.timer[s]
                           /\ s # x => rt'.prio[s] = rt.prio[s]
    BY <1>3, <1>6
  <1>9. Queues(rt', S, D)
    <2>1. Queues(rt, S, D) /\ S \subseteq Threads /\ x \notin S
      BY <1>1, <1>2 DEF KInv
    <2> HIDE DEF S, D
    <2> QED BY <2>1, <1>6, <1>7, PriorityLemma
  <1>10. KInv(rt')
    <2>1. S = {s \in Threads : rt'.stat[s] = "READY"} /\ D = {s \in Threads : rt'.stat[s] = "CLOSE"}
      BY <1>1, <1>8
    <2>2. /\ \A s \in Threads : rt'.stat[s] = "RUNNING" => s = rt'.current
          /\ rt'.stat[rt'.current] \in {"RUNNING", "CLOSE"}
          /\ rt'.stat[Idle] \in {"READY", "RUNNING"}
          /\ \A s \in Threads : rt'.timer[s] => rt'.stat[s] = "SUSPEND"
      <3>1. \A s \in Threads : rt'.timer[s] => rt'.stat[s] = "SUSPEND"
        BY <1>2, <1>8 DEF KInv
      <3>2. \A s \in Threads : rt'.stat[s] = "RUNNING" => s = rt'.current
        BY <1>2, <1>6, <1>8 DEF KInv
      <3>3. rt'.stat[rt'.current] \in {"RUNNING", "CLOSE"}
        BY <1>2, <1>3, <1>4, <1>6, <1>8 DEF Kernel, Executes
      <3>4. rt'.stat[Idle] \in {"READY", "RUNNING"}
        BY <1>2, <1>4, <1>8, ThreadsAssumption DEF KInv
      <3> QED BY <3>1, <3>2, <3>3, <3>4
    <2> HIDE DEF S, D
    <2> QED BY <1>9, <2>1, <2>2, KInvIntro
  <1>11. /\ pc' = [pc EXCEPT ![x] = "run"] /\ arg' = [arg EXCEPT ![x] = x]
         /\ isr' = isr /\ owed' = owed /\ slice' = [slice EXCEPT ![x] = InitTick[x]]
    BY DEF rt_thread_init, Return, Goto
  <1>12. /\ pc \in [Threads -> PCs] /\ arg \in [Threads -> Threads] /\ owed \in BOOLEAN
         /\ slice \in Slices /\ PointsOK
         /\ pc[Idle] = "reap" => rt.stat[arg[Idle]] = "CLOSE" /\ rt.current # arg[Idle]
    BY DEF IInv, TypeOK
  <1>13. /\ pc' \in [Threads -> PCs] /\ arg' \in [Threads -> Threads] /\ owed' \in BOOLEAN
         /\ slice' \in Slices /\ isr' \in Isr
    <2>1. slice' \in Slices /\ "run" \in PCs /\ isr' \in Isr
      BY <1>2, <1>11, <1>12, SliceLemma, FullSlice DEF PCs, Isr
    <2> QED BY <1>2, <1>11, <1>12, <2>1
  <1>14. \A u \in Threads : pc'[u] = IF u = x THEN "run" ELSE pc[u]
    BY <1>11, <1>12
  <1>15. pc'[Idle] = pc[Idle] /\ arg'[Idle] = arg[Idle] /\ arg[Idle] \in Threads
    BY <1>4, <1>11, <1>12, ThreadsAssumption
  <1>16. pc'[Idle] = "reap" => rt'.stat[arg'[Idle]] = "CLOSE" /\ rt'.current # arg'[Idle]
    BY <1>1, <1>6, <1>8, <1>12, <1>15
  <1>17. PointsOK'
    BY <1>2, <1>12, <1>14, <1>15 DEF PointsOK, Windows
  <1>18. HighestRuns'
    <2>1. ASSUME rt.nest = 0, ~owed, NEW y \in Threads, rt'.stat[y] = "READY"
          PROVE  rt'.prio[t] <= rt'.prio[y]
      <3>1. y # x /\ rt.stat[y] = "READY"
        BY <1>8, <2>1
      <3>2. rt.prio[t] <= rt.prio[y]
        BY <1>2, <2>1, <3>1 DEF IInv, HighestRuns
      <3> QED BY <1>4, <1>8, <3>1, <3>2
    <2>2. /\ ~owed => rt'.stat[t] = "RUNNING"
          /\ rt'.current = t /\ rt'.nest = rt.nest /\ owed' = owed
      BY <1>2, <1>4, <1>6, <1>8, <1>11 DEF Executes
    <2> QED BY <2>1, <2>2 DEF HighestRuns
  <1>19. \A u \in Threads : pc'[u] # "closing"
    BY <1>2, <1>14 DEF Windows
  <1>20. CurrentThread'
    BY <1>2, <1>4, <1>6, <1>8, <1>10, <1>11 DEF CurrentThread, Executes, KInv
  <1>21. IInv'
    BY <1>10, <1>13, <1>16, <1>17, <1>18, <1>19, <1>20, RestoredLemma
  <1>22. rt'.current = rt.current /\ \A s \in Threads : rt.stat[s] = "CLOSE" => rt'.stat[s] = "CLOSE"
    BY <1>1, <1>6, <1>8
  <1> QED BY <1>21, <1>22 DEF Step, OnlyReclaimed

LEMMA StartupStep ==
    ASSUME IInv, NEW t \in Threads, NEW x \in Threads, rt_thread_startup(t, x)
    PROVE  Step
  <1> DEFINE S == {s \in Threads : rt.stat[s] = "READY"}
             D == {s \in Threads : rt.stat[s] = "CLOSE"}
  <1>1. App(t) /\ rt.stat[x] = "INIT"
    BY DEF rt_thread_startup
  <1>2. /\ t # Idle /\ rt.current = t /\ isr = "none" /\ pc[t] = "run"
        /\ KInv(rt) /\ Executes(t) /\ \A y : ~BeingClosed(y)
    BY <1>1, AppLemma
  <1>3. /\ rt \in Kernel /\ rt.stat \in [Threads -> Stats] /\ rt.yield \in [Threads -> BOOLEAN]
    BY <1>2 DEF KInv, Queues, Kernel
  <1>4. x # t /\ x # Idle
    BY <1>1, <1>2 DEF KInv, Executes
  <1>5. rt' = [rt EXCEPT !.stat[x] = "SUSPEND", !.yield[x] = FALSE]
    BY DEF rt_thread_startup
  <1>6. /\ rt'.stat = [rt.stat EXCEPT ![x] = "SUSPEND"] /\ rt'.prio = rt.prio
        /\ rt'.timer = rt.timer /\ rt'.ready = rt.ready /\ rt'.group = rt.group
        /\ rt'.defunct = rt.defunct /\ rt'.current = rt.current /\ rt'.nest = rt.nest
    BY <1>3, <1>5 DEF Kernel
  <1>7. rt' \in Kernel
    <2>1. /\ [rt.stat EXCEPT ![x] = "SUSPEND"] \in [Threads -> Stats]
          /\ [rt.yield EXCEPT ![x] = FALSE] \in [Threads -> BOOLEAN]
      BY <1>3 DEF Stats
    <2> QED BY <1>3, <1>5, <2>1 DEF Kernel
  <1>8. \A s \in Threads : rt'.stat[s] = IF s = x THEN "SUSPEND" ELSE rt.stat[s]
    BY <1>3, <1>6
  <1>9. Queues(rt', S, D)
    <2>1. Queues(rt, S, D)
      BY <1>2 DEF KInv
    <2> HIDE DEF S, D
    <2> QED BY <2>1, <1>6, <1>7, QueuesFrame
  <1>10. KInv(rt')
    <2>1. S = {s \in Threads : rt'.stat[s] = "READY"} /\ D = {s \in Threads : rt'.stat[s] = "CLOSE"}
      BY <1>1, <1>8
    <2>2. /\ \A s \in Threads : rt'.stat[s] = "RUNNING" => s = rt'.current
          /\ rt'.stat[rt'.current] \in {"RUNNING", "CLOSE"}
          /\ rt'.stat[Idle] \in {"READY", "RUNNING"}
          /\ \A s \in Threads : rt'.timer[s] => rt'.stat[s] = "SUSPEND"
      BY <1>2, <1>4, <1>6, <1>8, ThreadsAssumption DEF KInv, Executes
    <2> HIDE DEF S, D
    <2> QED BY <1>9, <2>1, <2>2, KInvIntro
  <1>11. /\ pc' = [pc EXCEPT ![t] = "startup"] /\ arg' = [arg EXCEPT ![t] = x]
         /\ isr' = isr /\ owed' = owed /\ owed' \in BOOLEAN /\ slice' \in Slices
    BY DEF rt_thread_startup, Goto, IInv, TypeOK
  <1>12. /\ rt'.current = t /\ rt'.stat[t] = rt.stat[t] /\ rt'.stat[x] = "SUSPEND"
         /\ \A y \in Threads : rt.stat[y] = "CLOSE" => rt'.stat[y] = "CLOSE"
         /\ \A y \in Threads : rt'.stat[y] = "READY" => rt.stat[y] = "READY"
    BY <1>1, <1>2, <1>4, <1>6, <1>8
  <1>13. HighestRuns'
    BY <1>2, <1>6, <1>11, <1>12, KeepsHighest DEF IInv
  <1>14. "startup" \in PCs \ {"closing", "reap"}
    BY DEF PCs
  <1>15. Executes(t)'
    BY <1>2, <1>11, <1>12 DEF Executes
  <1> HIDE DEF S, D
  <1> QED BY <1>2, <1>10, <1>11, <1>12, <1>13, <1>14, <1>15, PlainStep

LEMMA StartupResumesStep ==
    ASSUME IInv, NEW t \in Threads, StartupResumes(t) PROVE Step
  <1>1. /\ KInv(rt) /\ rt.current = t /\ isr = "none" /\ pc[t] = "startup"
        /\ \A x : ~BeingClosed(x) /\ Executes(t) /\ t # Idle
        /\ arg[t] \in Threads /\ arg = [arg EXCEPT ![t] = arg[t]]
    BY OpenLemma DEF StartupResumes
  <1>2. rt' = rt /\ slice' = slice /\ isr' = isr /\ owed' = owed
    BY DEF StartupResumes
  <1>3. owed' \in BOOLEAN /\ slice' \in Slices /\ Executes(t)'
    BY <1>1, <1>2 DEF IInv, TypeOK, Executes
  <1>4. HighestRuns'
    BY <1>1, <1>2, KeepsHighest DEF IInv
  <1>5. CASE rt.stat[arg[t]] = "SUSPEND"
    <2>1. pc' = [pc EXCEPT ![t] = "startlink"] /\ arg' = [arg EXCEPT ![t] = arg[t]]
      BY <1>1, <1>5 DEF StartupResumes, Goto
    <2>2. "startlink" \in PCs \ {"closing", "reap"}
      BY DEF PCs
    <2> QED BY <1>1, <1>2, <1>3, <1>4, <1>5, <2>1, <2>2, PlainStep
  <1>6. CASE rt.stat[arg[t]] # "SUSPEND"
    <2>1. pc' = [pc EXCEPT ![t] = "sched"] /\ arg' = [arg EXCEPT ![t] = t]
      BY <1>6 DEF StartupResumes, Return, Goto
    <2>2. "sched" \in PCs \ {"closing", "reap"} /\ "sched" \notin Windows
      BY DEF PCs, Windows
    <2> QED BY <1>1, <1>2, <1>3, <1>4, <2>1, <2>2, PlainStep
  <1> QED BY <1>5, <1>6

LEMMA StartupLinksStep ==
    ASSUME IInv, NEW t \in Threads, StartupLinks(t) PROVE Step
  <1> DEFINE x == arg[t]
  <1>1. /\ KInv(rt) /\ rt.current = t /\ isr = "none" /\ pc[t] = "startlink"
        /\ Executes(t) /\ t # Idle /\ x \in Threads
    BY OpenLemma DEF StartupLinks
  <1>2. rt.stat[x] = "SUSPEND"
    BY <1>1 DEF IInv, PointsOK, Windows
  <1>3. /\ rt' = ResumeThread(rt, x) /\ slice' = slice /\ isr' = isr /\ owed' = owed
        /\ pc' = [pc EXCEPT ![t] = "sched"] /\ arg' = [arg EXCEPT ![t] = t]
    BY DEF StartupLinks, Return, Goto
  <1>4. owed' \in BOOLEAN /\ slice' \in Slices /\ rt.stat \in [Threads -> Stats]
    BY <1>3 DEF IInv, TypeOK, Kernel
  <1>5. /\ KInv(rt') /\ rt'.current = t
        /\ rt'.stat = [rt.stat EXCEPT ![x] = IF x = rt.current THEN "RUNNING" ELSE "READY"]
    BY <1>1, <1>2, <1>3, ResumeThreadLemma
  <1>6. /\ Executes(t)'
        /\ \A y \in Threads : rt.stat[y] = "CLOSE" => rt'.stat[y] = "CLOSE"
    BY <1>1, <1>2, <1>3, <1>4, <1>5 DEF Executes
  <1>7. "sched" \in PCs \ {"closing", "reap"} /\ "sched" \notin Windows
    BY DEF PCs, Windows
  <1> QED BY <1>1, <1>3, <1>4, <1>5, <1>6, <1>7, PlainStep

LEMMA ResumeStep ==
    ASSUME IInv, NEW t \in Threads, NEW x \in Threads, rt_thread_resume(t, x)
    PROVE  Step
  <1>1. App(t) /\ rt.stat[x] = "SUSPEND"
    BY DEF rt_thread_resume
  <1>2. /\ t # Idle /\ rt.current = t /\ isr = "none" /\ pc[t] = "run"
        /\ KInv(rt) /\ Executes(t) /\ \A y : ~BeingClosed(y)
    BY <1>1, AppLemma
  <1>3. /\ rt' = rt /\ slice' = slice /\ isr' = isr /\ owed' = owed
        /\ pc' = [pc EXCEPT ![t] = "relink"] /\ arg' = [arg EXCEPT ![t] = x]
    BY DEF rt_thread_resume, Goto
  <1>4. owed' \in BOOLEAN /\ slice' \in Slices /\ Executes(t)'
    BY <1>2, <1>3 DEF IInv, TypeOK, Executes
  <1>5. HighestRuns'
    BY <1>2, <1>3, KeepsHighest DEF IInv
  <1>6. "relink" \in PCs \ {"closing", "reap"}
    BY DEF PCs
  <1> QED BY <1>1, <1>2, <1>3, <1>4, <1>5, <1>6, PlainStep

LEMMA ResumeLinksStep ==
    ASSUME IInv, NEW t \in Threads, ResumeLinks(t) PROVE Step
  <1> DEFINE x == arg[t]
  <1>1. /\ KInv(rt) /\ rt.current = t /\ isr = "none" /\ pc[t] = "relink"
        /\ Executes(t) /\ t # Idle /\ x \in Threads
    BY OpenLemma DEF ResumeLinks
  <1>2. rt.stat[x] = "SUSPEND"
    BY <1>1 DEF IInv, PointsOK, Windows
  <1>3. /\ rt' = ResumeThread(rt, x) /\ slice' = slice /\ isr' = isr /\ owed'
        /\ pc' = [pc EXCEPT ![t] = "run"] /\ arg' = [arg EXCEPT ![t] = t]
    BY DEF ResumeLinks, Return, Goto
  <1>4. owed' \in BOOLEAN /\ slice' \in Slices /\ rt.stat \in [Threads -> Stats]
    BY <1>3 DEF IInv, TypeOK, Kernel, ResumeLinks
  <1>5. /\ KInv(rt') /\ rt'.current = t
        /\ rt'.stat = [rt.stat EXCEPT ![x] = IF x = rt.current THEN "RUNNING" ELSE "READY"]
    BY <1>1, <1>2, <1>3, ResumeThreadLemma
  <1>6. /\ Executes(t)'
        /\ \A y \in Threads : rt.stat[y] = "CLOSE" => rt'.stat[y] = "CLOSE"
    BY <1>1, <1>2, <1>3, <1>4, <1>5 DEF Executes
  <1>7. "run" \in PCs \ {"closing", "reap"} /\ "run" \notin Windows
    BY DEF PCs, Windows
  <1> QED BY <1>1, <1>3, <1>4, <1>5, <1>6, <1>7, PlainStep

(* After rt_schedule_remove_thread the thread being closed is on no queue.  *)
LEMMA DeleteStep ==
    ASSUME IInv, NEW t \in Threads, NEW x \in Threads, rt_thread_delete(t, x)
    PROVE  Step
  <1> DEFINE S == {s \in Threads : rt.stat[s] = "READY"}
             D == {s \in Threads : rt.stat[s] = "CLOSE"}
             u == rt_schedule_remove_thread(rt, x)
  <1>1. App(t) /\ x # Idle /\ rt.stat[x] \notin {"FREE", "CLOSE"}
    BY DEF rt_thread_delete
  <1>2. /\ t # Idle /\ rt.current = t /\ isr = "none" /\ pc[t] = "run"
        /\ KInv(rt) /\ Executes(t) /\ \A y : ~BeingClosed(y)
        /\ \A v \in Threads : pc[v] \notin Windows
    BY <1>1, AppLemma
  <1>3. /\ pc' = [pc EXCEPT ![t] = "closing"] /\ arg' = [arg EXCEPT ![t] = x]
        /\ slice' = slice /\ isr' = isr /\ owed' = owed
        /\ rt' = IF rt.stat[x] = "INIT" THEN rt ELSE u
    BY DEF rt_thread_delete, Goto
  <1>4. /\ pc \in [Threads -> PCs] /\ arg \in [Threads -> Threads] /\ owed \in BOOLEAN
        /\ slice \in Slices /\ PointsOK
        /\ pc[Idle] = "reap" => rt.stat[arg[Idle]] = "CLOSE" /\ rt.current # arg[Idle]
    BY DEF IInv, TypeOK
  <1>5. Queues(rt, S, D) /\ S \subseteq Threads /\ x \notin D
    BY <1>1, <1>2 DEF KInv
  <1>6. /\ Queues(u, S \ {x}, D) /\ u.stat = rt.stat /\ u.prio = rt.prio
        /\ u.current = rt.current /\ u.nest = rt.nest /\ u.timer = rt.timer
    <2>1. D \ {x} = D
      BY <1>5
    <2> HIDE DEF S, D
    <2>2. /\ Queues(u, S \ {x}, D \ {x}) /\ u.stat = rt.stat /\ u.prio = rt.prio
          /\ u.current = rt.current /\ u.nest = rt.nest /\ u.timer = rt.timer
      BY <1>5, RemoveThreadLemma
    <2> QED BY <2>1, <2>2
  <1> HIDE DEF u
  <1>7. /\ Queues(rt', S \ {x}, D) /\ rt'.stat = rt.stat /\ rt'.prio = rt.prio
        /\ rt'.current = rt.current /\ rt'.nest = rt.nest /\ rt'.timer = rt.timer
    <2>1. CASE rt.stat[x] = "INIT"
      <3>1. S \ {x} = S
        BY <2>1
      <3> QED BY <1>3, <1>5, <2>1, <3>1
    <2>2. CASE rt.stat[x] # "INIT"
      BY <1>3, <1>6, <2>2
    <2> QED BY <2>1, <2>2
  <1>8. \A v \in Threads : /\ pc'[v] = IF v = t THEN "closing" ELSE pc[v]
                           /\ arg'[v] = IF v = t THEN x ELSE arg[v]
    BY <1>3, <1>4
  <1>9. \A y \in Threads : BeingClosed(y)' <=> y = x
    BY <1>2, <1>8 DEF BeingClosed, Windows
  <1>10. ReadySet' = S \ {x} /\ DeadSet' = D
    BY <1>7, <1>9 DEF ReadySet, DeadSet
  <1>11. Queues(rt, ReadySet, DeadSet)'
    <2>1. Queues(rt', ReadySet', DeadSet')
      BY <1>7, <1>10
    <2> QED BY <2>1 DEF Queues
  <1>12. TypeOK'
    <2>1. "closing" \in PCs
      BY DEF PCs
    <2> QED BY <1>2, <1>3, <1>4, <1>7, <2>1 DEF TypeOK, Queues, Isr, Slices
  <1>13. CurrentThread' /\ TimeoutAssertion'
    BY <1>2, <1>3, <1>7 DEF KInv, CurrentThread, TimeoutAssertion, Executes
  <1>14. pc'[Idle] = "reap" => rt'.stat[arg'[Idle]] = "CLOSE" /\ rt'.current # arg'[Idle]
    BY <1>2, <1>4, <1>7, <1>8, ThreadsAssumption
  <1>15. PointsOK'
    <2>1. pc'[Idle] \in {"run", "reap"} /\ \A v \in Threads : pc'[v] = "reap" => v = Idle
      BY <1>2, <1>4, <1>8, ThreadsAssumption DEF PointsOK
    <2>2. \A v \in Threads : pc'[v] \in Windows => v = t
      BY <1>2, <1>8
    <2>3. pc'[t] = "closing" /\ arg'[t] = x /\ rt'.current = t /\ isr' = "none"
      BY <1>2, <1>3, <1>7, <1>8
    <2> QED BY <1>1, <1>7, <2>1, <2>2, <2>3 DEF PointsOK, Windows
  <1>16. HighestRuns'
    BY <1>2, <1>3, <1>7, KeepsHighest DEF IInv
  <1>17. IInv'
    BY <1>11, <1>12, <1>13, <1>14, <1>15, <1>16 DEF IInv
  <1> QED BY <1>7, <1>17 DEF Step, OnlyReclaimed

LEMMA DeleteClosesStep ==
    ASSUME IInv, NEW t \in Threads, DeleteCloses(t) PROVE Step
  <1> DEFINE x == arg[t]
             S == ReadySet
             D == DeadSet
             n == CloseThread(rt, x)
  <1>1. /\ rt.current = t /\ isr = "none" /\ pc[t] = "closing"
        /\ rt' = n /\ slice' = slice /\ isr' = isr /\ owed' = (owed \/ x = t)
    BY DEF DeleteCloses, At
  <1>2. PICK l \in {"run", "sched"} : /\ pc' = [pc EXCEPT ![t] = l]
                                      /\ arg' = [arg EXCEPT ![t] = t]
    BY DEF DeleteCloses, Return, Goto
  <1>3. /\ t # Idle /\ x \in Threads /\ x # Idle /\ rt.stat[x] \notin {"FREE", "CLOSE"}
        /\ Executes(t) /\ rt.stat \in [Threads -> Stats]
        /\ rt.timer \in [Threads -> BOOLEAN]
        /\ owed' \in BOOLEAN /\ slice' \in Slices
    BY <1>1 DEF IInv, PointsOK, CurrentThread, TypeOK, Kernel, Executes
  <1>4. \A y \in Threads : BeingClosed(y) <=> y = x
    BY <1>1 DEF IInv, PointsOK, BeingClosed, Windows
  <1>5. /\ Queues(n, S, D \cup {x}) /\ n.stat = [rt.stat EXCEPT ![x] = "CLOSE"]
        /\ n.timer = [rt.timer EXCEPT ![x] = FALSE]
        /\ n.prio = rt.prio /\ n.current = rt.current /\ n.nest = rt.nest
    <2>1. Queues(rt, S, D) /\ x \notin D
      BY <1>3 DEF IInv, DeadSet
    <2> HIDE DEF S, D, x
    <2> QED BY <1>3, <2>1, CloseThreadLemma
  <1> HIDE DEF n
  <1>6. \A y \in Threads : /\ n.stat[y] = IF y = x THEN "CLOSE" ELSE rt.stat[y]
                           /\ n.timer[y] = IF y = x THEN FALSE ELSE rt.timer[y]
    BY <1>3, <1>5
  <1>7. KInv(n)
    <2>1. S = {s \in Threads : n.stat[s] = "READY"}
      <3>1. ASSUME NEW s \in Threads
            PROVE  rt.stat[s] = "READY" /\ ~BeingClosed(s) <=> n.stat[s] = "READY"
        BY <1>4, <1>6
      <3> QED BY <3>1 DEF ReadySet
    <2>2. D \cup {x} = {s \in Threads : n.stat[s] = "CLOSE"}
      BY <1>3, <1>6 DEF DeadSet
    <2>3. \A s \in Threads : n.stat[s] = "RUNNING" => s = n.current
      BY <1>5, <1>6 DEF IInv, CurrentThread
    <2>4. n.stat[n.current] \in {"RUNNING", "CLOSE"}
      BY <1>1, <1>3, <1>5, <1>6 DEF Executes
    <2>5. n.stat[Idle] \in {"READY", "RUNNING"}
      BY <1>3, <1>6, ThreadsAssumption DEF IInv, CurrentThread
    <2>6. \A s \in Threads : n.timer[s] => n.stat[s] = "SUSPEND"
      BY <1>6 DEF IInv, TimeoutAssertion
    <2> HIDE DEF S, D, x
    <2> QED BY <1>5, <2>1, <2>2, <2>3, <2>4, <2>5, <2>6, KInvIntro
  <1>8. /\ rt'.current = t /\ l \in PCs \ {"closing", "reap"} /\ l \notin Windows
        /\ \A y \in Threads : rt.stat[y] = "CLOSE" => rt'.stat[y] = "CLOSE"
        /\ Executes(t)'
    BY <1>1, <1>2, <1>3, <1>5, <1>6 DEF PCs, Windows, Executes
  <1>9. l = "sched" \/ owed' \/ HighestRuns'
    <2>1. SUFFICES ASSUME l # "sched", rt.nest = 0, ~owed, x # t PROVE HighestRuns'
      BY <1>1, <1>5 DEF HighestRuns
    <2>2. \A y \in Threads : n.stat[y] = "READY" => rt.stat[y] = "READY" /\ ~BeingClosed(y)
      BY <1>4, <1>6
    <2>3. \A y \in Threads : n.stat[y] = "READY" => rt.prio[t] <= rt.prio[y]
      BY <1>1, <2>1, <2>2 DEF IInv, HighestRuns
    <2>4. n.stat[t] = "RUNNING"
      BY <1>3, <1>6, <2>1 DEF Executes
    <2> QED BY <1>1, <1>5, <2>3, <2>4 DEF HighestRuns
  <1> QED BY <1>1, <1>2, <1>3, <1>7, <1>8, <1>9, PlainStep

LEMMA ExitStep ==
    ASSUME IInv, NEW t \in Threads, _thread_exit(t) PROVE Step
  <1> DEFINE S == {s \in Threads : rt.stat[s] = "READY"}
             D == {s \in Threads : rt.stat[s] = "CLOSE"}
             u == rt_schedule_remove_thread(rt, t)
             n == CloseThread(u, t)
  <1>1. App(t) /\ rt.nest = 0 /\ rt' = n /\ rt.stat[t] # "CLOSE"
    BY DEF _thread_exit
  <1>2. /\ t # Idle /\ rt.current = t /\ isr = "none" /\ KInv(rt) /\ rt.stat[t] = "RUNNING"
        /\ arg = [arg EXCEPT ![t] = arg[t]] /\ arg[t] \in Threads
    BY <1>1, AppLemma DEF Executes
  <1>3. /\ Queues(u, S, D) /\ u.stat = rt.stat /\ u.prio = rt.prio
        /\ u.current = rt.current /\ u.nest = rt.nest /\ u.timer = rt.timer
    <2>1. Queues(rt, S, D) /\ S \subseteq Threads /\ S \ {t} = S /\ D \ {t} = D
      BY <1>2 DEF KInv
    <2> HIDE DEF S, D
    <2>2. /\ Queues(u, S \ {t}, D \ {t}) /\ u.stat = rt.stat /\ u.prio = rt.prio
          /\ u.current = rt.current /\ u.nest = rt.nest /\ u.timer = rt.timer
      BY <2>1, RemoveThreadLemma
    <2> QED BY <2>1, <2>2
  <1> HIDE DEF u
  <1>4. /\ Queues(n, S, D \cup {t}) /\ n.stat = [rt.stat EXCEPT ![t] = "CLOSE"]
        /\ n.timer = [rt.timer EXCEPT ![t] = FALSE]
        /\ n.current = rt.current /\ n.nest = rt.nest
    <2>1. t \notin D
      BY <1>2
    <2> HIDE DEF S, D
    <2> QED BY <1>3, <2>1, CloseThreadLemma
  <1> HIDE DEF n
  <1>5. \A y \in Threads : /\ n.stat[y] = IF y = t THEN "CLOSE" ELSE rt.stat[y]
                           /\ n.timer[y] = IF y = t THEN FALSE ELSE rt.timer[y]
    <2>1. rt.stat \in [Threads -> Stats] /\ rt.timer \in [Threads -> BOOLEAN]
      BY DEF IInv, TypeOK, Kernel
    <2> QED BY <1>4, <2>1
  <1>6. KInv(n)
    <2>0. /\ \A s \in Threads : n.stat[s] = IF s = t THEN "CLOSE" ELSE rt.stat[s]
          /\ rt.stat[t] = "RUNNING" /\ n.stat[t] = "CLOSE" /\ n.current = t
      BY <1>2, <1>4, <1>5
    <2>1. S = {s \in Threads : n.stat[s] = "READY"} /\ D \cup {t} = {s \in Threads : n.stat[s] = "CLOSE"}
      BY <2>0
    <2>2. /\ \A s \in Threads : n.stat[s] = "RUNNING" => s = n.current
          /\ n.stat[n.current] = "CLOSE" /\ n.nest = 0
      <3>1. \A s \in Threads : rt.stat[s] = "RUNNING" => s = t
        BY <1>2 DEF KInv
      <3> QED BY <1>1, <1>4, <2>0, <3>1
    <2>3. n.stat[Idle] \in {"READY", "RUNNING"}
      BY <1>2, <1>5, ThreadsAssumption DEF KInv
    <2>4. \A s \in Threads : n.timer[s] => n.stat[s] = "SUSPEND"
      BY <1>2, <1>5 DEF KInv
    <2> HIDE DEF S, D
    <2> QED BY <1>4, <2>1, <2>2, <2>3, <2>4, KInvIntro
  <1>7. /\ pc' = [pc EXCEPT ![t] = "sched"] /\ arg' = [arg EXCEPT ![t] = arg[t]]
        /\ isr' = isr /\ owed' \in BOOLEAN /\ slice' \in Slices
    BY <1>2 DEF _thread_exit, Goto, IInv, TypeOK
  <1>8. "sched" \in PCs \ {"closing", "reap"} /\ "sched" \notin Windows
    BY DEF PCs, Windows
  <1>9. /\ rt'.current = t /\ rt'.nest = 0
        /\ \A y \in Threads : rt.stat[y] = "CLOSE" => rt'.stat[y] = "CLOSE"
    BY <1>1, <1>2, <1>3, <1>4, <1>5
  <1> HIDE DEF S, D
  <1> QED BY <1>1, <1>2, <1>6, <1>7, <1>8, <1>9, PlainStep

LEMMA ControlStep ==
    ASSUME IInv, NEW t \in Threads, NEW x \in Threads, NEW p \in Priorities,
           rt_thread_control(t, x, p)
    PROVE  Step
  <1> DEFINE S == {s \in Threads : rt.stat[s] = "READY"}
             D == {s \in Threads : rt.stat[s] = "CLOSE"}
  <1>1. App(t) /\ x # Idle /\ rt' = ChangePriority(rt, x, p)
    BY DEF rt_thread_control
  <1>2. /\ t # Idle /\ rt.current = t /\ isr = "none" /\ KInv(rt) /\ Executes(t)
        /\ pc = [pc EXCEPT ![t] = "run"] /\ arg = [arg EXCEPT ![t] = arg[t]] /\ arg[t] \in Threads
    BY <1>1, AppLemma
  <1>3. Queues(rt, S, D) /\ S \subseteq Threads
    BY <1>2 DEF KInv
  <1>4. /\ Queues(rt', S, D) /\ rt'.stat = rt.stat /\ rt'.timer = rt.timer
        /\ rt'.current = rt.current /\ rt'.nest = rt.nest
    <2>1. CASE rt.stat[x] = "READY"
      <3> DEFINE u == rt_schedule_remove_thread(rt, x)
                 v == [u EXCEPT !.prio[x] = p]
      <3>1. rt' = rt_schedule_insert_thread(v, x)
        BY <1>1, <2>1 DEF ChangePriority
      <3>2. /\ Queues(u, S \ {x}, D) /\ u.stat = rt.stat /\ u.prio = rt.prio
            /\ u.current = rt.current /\ u.nest = rt.nest /\ u.timer = rt.timer
        <4>1. D \ {x} = D
          BY <2>1
        <4> HIDE DEF S, D
        <4>2. /\ Queues(u, S \ {x}, D \ {x}) /\ u.stat = rt.stat /\ u.prio = rt.prio
              /\ u.current = rt.current /\ u.nest = rt.nest /\ u.timer = rt.timer
          BY <1>3, RemoveThreadLemma
        <4> QED BY <4>1, <4>2
      <3> HIDE DEF u
      <3>3. u \in Kernel /\ u.prio \in [Threads -> Priorities] /\ u.stat \in [Threads -> Stats]
        BY <3>2 DEF Queues, Kernel
      <3>4. /\ v.prio = [u.prio EXCEPT ![x] = p] /\ v.stat = u.stat /\ v.ready = u.ready
            /\ v.group = u.group /\ v.defunct = u.defunct /\ v.current = u.current
            /\ v.nest = u.nest /\ v.timer = u.timer
        BY <3>3 DEF Kernel
      <3>5. v \in Kernel
        <4>1. [u.prio EXCEPT ![x] = p] \in [Threads -> Priorities]
          BY <3>3
        <4> QED BY <3>3, <4>1 DEF Kernel
      <3> HIDE DEF v
      <3>6. Queues(v, S \ {x}, D)
        <4>1. S \ {x} \subseteq Threads /\ x \notin S \ {x}
          BY <1>3
        <4> HIDE DEF S, D
        <4> QED BY <3>2, <3>4, <3>5, <4>1, PriorityLemma
      <3>7. /\ Queues(rt', (S \ {x}) \cup {x}, D) /\ rt'.stat = [v.stat EXCEPT ![x] = "READY"]
            /\ rt'.current = v.current /\ rt'.nest = v.nest /\ rt'.timer = v.timer
        <4>1. S \ {x} \subseteq Threads /\ x \notin S \ {x} /\ x # v.current
          BY <1>2, <1>3, <2>1, <3>2, <3>4 DEF Executes
        <4> HIDE DEF S, D
        <4> QED BY <3>1, <3>6, <4>1, InsertThreadLemma
      <3>8. (S \ {x}) \cup {x} = S /\ [v.stat EXCEPT ![x] = "READY"] = rt.stat
        BY <2>1, <3>2, <3>3, <3>4
      <3> QED BY <3>2, <3>4, <3>7, <3>8
    <2>2. CASE rt.stat[x] # "READY"
      <3>1. rt' = [rt EXCEPT !.prio[x] = p]
        BY <1>1, <2>2 DEF ChangePriority
      <3>2. rt \in Kernel /\ [rt.prio EXCEPT ![x] = p] \in [Threads -> Priorities]
        BY DEF IInv, TypeOK, Kernel
      <3>3. /\ rt' \in Kernel /\ rt'.prio = [rt.prio EXCEPT ![x] = p] /\ rt'.stat = rt.stat
            /\ rt'.ready = rt.ready /\ rt'.group = rt.group /\ rt'.defunct = rt.defunct
            /\ rt'.current = rt.current /\ rt'.nest = rt.nest /\ rt'.timer = rt.timer
        BY <3>1, <3>2 DEF Kernel
      <3>4. x \notin S
        BY <2>2
      <3>5. Queues(rt', S, D)
        <4> HIDE DEF S, D
        <4> QED BY <1>3, <3>3, <3>4, PriorityLemma
      <3> QED BY <3>3, <3>5
    <2> QED BY <2>1, <2>2
  <1>5. KInv(rt')
    BY <1>2, <1>4 DEF KInv
  <1>6. /\ pc' = [pc EXCEPT ![t] = "run"] /\ arg' = [arg EXCEPT ![t] = arg[t]]
        /\ isr' = isr /\ owed' /\ owed' \in BOOLEAN /\ slice' \in Slices
    BY <1>2 DEF rt_thread_control, IInv, TypeOK
  <1>7. "run" \in PCs \ {"closing", "reap"} /\ "run" \notin Windows
    BY DEF PCs, Windows
  <1>8. /\ rt'.current = t /\ Executes(t)'
        /\ \A y \in Threads : rt.stat[y] = "CLOSE" => rt'.stat[y] = "CLOSE"
    BY <1>2, <1>4, <1>6 DEF Executes
  <1> HIDE DEF S, D
  <1> QED BY <1>2, <1>5, <1>6, <1>7, <1>8, PlainStep

LEMMA EnterCriticalStep ==
    ASSUME IInv, NEW t \in Threads, rt_enter_critical(t) PROVE Step
  <1>1. App(t) /\ rt.nest < MaxNest /\ rt' = [rt EXCEPT !.nest = rt.nest + 1]
    BY DEF rt_enter_critical
  <1>2. /\ t # Idle /\ rt.current = t /\ isr = "none" /\ KInv(rt) /\ Executes(t)
        /\ pc = [pc EXCEPT ![t] = "run"] /\ arg = [arg EXCEPT ![t] = arg[t]] /\ arg[t] \in Threads
    BY <1>1, AppLemma
  <1>3. rt \in Kernel /\ rt.nest + 1 \in 0 .. MaxNest /\ rt.nest + 1 # 0
    BY <1>1, MaxNestAssumption DEF IInv, TypeOK, Kernel
  <1>4. /\ rt' \in Kernel /\ rt'.nest = rt.nest + 1 /\ rt'.prio = rt.prio /\ rt'.stat = rt.stat
        /\ rt'.ready = rt.ready /\ rt'.group = rt.group /\ rt'.defunct = rt.defunct
        /\ rt'.current = rt.current /\ rt'.timer = rt.timer
    BY <1>1, <1>3 DEF Kernel
  <1>5. KInv(rt')
    BY <1>2, <1>4, FlagsLemma DEF Executes
  <1>6. /\ pc' = [pc EXCEPT ![t] = "run"] /\ arg' = [arg EXCEPT ![t] = arg[t]]
        /\ isr' = isr /\ owed' \in BOOLEAN /\ slice' \in Slices /\ Executes(t)'
    BY <1>2, <1>4 DEF rt_enter_critical, IInv, TypeOK, Executes
  <1>7. "run" \in PCs \ {"closing", "reap"} /\ "run" \notin Windows
    BY DEF PCs, Windows
  <1> QED BY <1>2, <1>3, <1>4, <1>5, <1>6, <1>7, PlainStep

LEMMA ExitCriticalStep ==
    ASSUME IInv, NEW t \in Threads, rt_exit_critical(t) PROVE Step
  <1>1. App(t) /\ rt.nest > 0 /\ rt' = [rt EXCEPT !.nest = rt.nest - 1]
    BY DEF rt_exit_critical
  <1>2. /\ t # Idle /\ rt.current = t /\ isr = "none" /\ KInv(rt) /\ Executes(t)
        /\ pc = [pc EXCEPT ![t] = "run"] /\ arg = [arg EXCEPT ![t] = arg[t]] /\ arg[t] \in Threads
    BY <1>1, AppLemma
  <1>3. rt \in Kernel /\ rt.nest - 1 \in 0 .. MaxNest /\ (rt.nest # 1 => rt.nest - 1 # 0)
    BY <1>1, MaxNestAssumption DEF IInv, TypeOK, Kernel
  <1>4. /\ rt' \in Kernel /\ rt'.nest = rt.nest - 1 /\ rt'.prio = rt.prio /\ rt'.stat = rt.stat
        /\ rt'.ready = rt.ready /\ rt'.group = rt.group /\ rt'.defunct = rt.defunct
        /\ rt'.current = rt.current /\ rt'.timer = rt.timer
    BY <1>1, <1>3 DEF Kernel
  <1>5. KInv(rt')
    BY <1>2, <1>4, FlagsLemma DEF Executes
  <1>6. PICK l \in {"run", "sched"} : (rt.nest = 1 => l = "sched") /\ pc' = [pc EXCEPT ![t] = l]
    BY <1>2 DEF rt_exit_critical, Goto
  <1>7. /\ arg' = [arg EXCEPT ![t] = arg[t]]
        /\ isr' = isr /\ owed' \in BOOLEAN /\ slice' \in Slices /\ Executes(t)'
    BY <1>2, <1>4 DEF rt_exit_critical, IInv, TypeOK, Executes
  <1>8. l \in PCs \ {"closing", "reap"} /\ l \notin Windows
    BY DEF PCs, Windows
  <1> QED BY <1>2, <1>3, <1>4, <1>5, <1>6, <1>7, <1>8, PlainStep

(* Idle only ever holds a dead thread. *)
LEMMA DequeueStep ==
    ASSUME IInv, rt_thread_defunct_dequeue PROVE Step
  <1> DEFINE x == Head(rt.defunct)
  <1>1. At(Idle, "run") /\ rt.defunct # <<>>
    BY DEF rt_thread_defunct_dequeue, rt_list_isempty
  <1>2. /\ KInv(rt) /\ rt.current = Idle /\ isr = "none" /\ pc[Idle] = "run"
        /\ \A y : ~BeingClosed(y) /\ rt.stat[Idle] = "RUNNING"
    BY <1>1, OpenLemma, ThreadsAssumption DEF Executes, KInv
  <1>3. /\ rt' = rt /\ slice' = slice /\ isr' = isr /\ owed' = owed
        /\ arg' = [arg EXCEPT ![Idle] = x] /\ pc' = [pc EXCEPT ![Idle] = "reap"]
    BY DEF rt_thread_defunct_dequeue, Goto
  <1>4. x \in Threads /\ rt.stat[x] = "CLOSE"
    <2>1. /\ rt.defunct \in Seq(Threads)
          /\ Linked(rt.defunct) = {s \in Threads : rt.stat[s] = "CLOSE"}
      BY <1>2 DEF KInv, Queues, Kernel
    <2>2. x \in Linked(rt.defunct)
      BY <1>1, <2>1, EmptyLemma
    <2> QED BY <2>1, <2>2
  <1>5. /\ pc \in [Threads -> PCs] /\ arg \in [Threads -> Threads] /\ PointsOK
        /\ owed' \in BOOLEAN /\ slice' \in Slices /\ isr' \in Isr
    BY <1>3 DEF IInv, TypeOK
  <1>6. pc' \in [Threads -> PCs] /\ arg' \in [Threads -> Threads]
    BY <1>3, <1>4, <1>5 DEF PCs
  <1>7. /\ pc'[Idle] = "reap" /\ arg'[Idle] = x
        /\ \A t \in Threads : t # Idle => pc'[t] = pc[t]
    BY <1>3, <1>5, ThreadsAssumption
  <1>8. \A t \in Threads : pc'[t] \notin Windows
    BY <1>2, <1>5, <1>7 DEF PointsOK, Windows
  <1>9. PointsOK'
    BY <1>5, <1>7, <1>8 DEF PointsOK, Windows
  <1>10. HighestRuns'
    BY <1>2, <1>3, KeepsHighest DEF IInv
  <1>11. rt'.stat[arg'[Idle]] = "CLOSE" /\ rt'.current # arg'[Idle]
    BY <1>2, <1>3, <1>4, <1>7
  <1>12. \A t \in Threads : pc'[t] # "closing"
    BY <1>8 DEF Windows
  <1>13. CurrentThread' /\ KInv(rt')
    BY <1>2, <1>3 DEF CurrentThread, KInv
  <1>14. IInv'
    BY <1>5, <1>6, <1>9, <1>10, <1>11, <1>12, <1>13, RestoredLemma
  <1> QED BY <1>3, <1>14 DEF Step, OnlyReclaimed

(* A thread on no ready queue leaves the defunct list only. *)
LEMMA UnlinkDeadLemma ==
    ASSUME NEW k, NEW S, NEW D, Queues(k, S, D), NEW t \in Threads, t \notin S
    PROVE  LET u == Unlink(k, t) IN
           /\ Queues(u, S, D \ {t})
           /\ u.stat = k.stat /\ u.prio = k.prio /\ u.current = k.current
           /\ u.nest = k.nest /\ u.timer = k.timer
  <1> DEFINE u == Unlink(k, t)
             d == rt_list_remove(k.defunct, t)
  <1>1. k \in Kernel /\ k.ready \in [Priorities -> Seq(Threads)] /\ k.defunct \in Seq(Threads)
        /\ NoDup(k.defunct) /\ Linked(k.defunct) = D
    BY DEF Queues, Kernel
  <1>2. ASSUME NEW p \in Priorities PROVE rt_list_remove(k.ready[p], t) = k.ready[p]
    <2>1. t \notin Linked(k.ready[p])
      BY DEF Queues
    <2> QED BY <2>1 DEF rt_list_remove
  <1>3. [p \in Priorities |-> rt_list_remove(k.ready[p], t)] = k.ready
    BY <1>1, <1>2
  <1>4. d \in Seq(Threads) /\ NoDup(d) /\ Linked(d) = D \ {t}
    BY <1>1, RemoveLemma
  <1>5. u = [k EXCEPT !.ready = k.ready, !.defunct = d]
    BY <1>3 DEF Unlink
  <1> HIDE DEF u, d
  <1>6. /\ u \in Kernel /\ u.stat = k.stat /\ u.prio = k.prio /\ u.current = k.current
        /\ u.nest = k.nest /\ u.timer = k.timer /\ u.ready = k.ready /\ u.group = k.group
        /\ u.defunct = d
    BY <1>1, <1>4, <1>5 DEF Kernel
  <1>7. Queues(u, S, D \ {t})
    BY <1>4, <1>6 DEF Queues
  <1> QED BY <1>6, <1>7 DEF u

LEMMA ReapStep ==
    ASSUME IInv, rt_defunct_execute PROVE Step
  <1> DEFINE x == arg[Idle]
             S == {s \in Threads : rt.stat[s] = "READY"}
             D == {s \in Threads : rt.stat[s] = "CLOSE"}
             u == Unlink(rt, x)
  <1>1. At(Idle, "reap")
    BY DEF rt_defunct_execute
  <1>2. /\ KInv(rt) /\ rt.current = Idle /\ isr = "none" /\ pc[Idle] = "reap"
        /\ \A y : ~BeingClosed(y) /\ rt.stat[Idle] = "RUNNING" /\ x \in Threads
    BY <1>1, OpenLemma, ThreadsAssumption DEF Executes, KInv
  <1>3. /\ rt' = [u EXCEPT !.stat[x] = "FREE"] /\ slice' = slice /\ isr' = isr /\ owed' = owed
        /\ arg' = [arg EXCEPT ![Idle] = Idle] /\ pc' = [pc EXCEPT ![Idle] = "run"]
    BY DEF rt_defunct_execute, Return, Goto
  <1>4. rt.stat[x] = "CLOSE" /\ x # Idle
    BY <1>2 DEF IInv
  <1>5. /\ Queues(u, S, D \ {x}) /\ u.stat = rt.stat /\ u.prio = rt.prio
        /\ u.current = rt.current /\ u.nest = rt.nest /\ u.timer = rt.timer
    <2>1. Queues(rt, S, D) /\ x \notin S
      BY <1>2, <1>4 DEF KInv
    <2> HIDE DEF S, D, x
    <2> QED BY <1>2, <2>1, UnlinkDeadLemma
  <1> HIDE DEF u
  <1>6. u \in Kernel /\ u.stat \in [Threads -> Stats]
    BY <1>5 DEF Queues, Kernel
  <1>7. /\ rt' \in Kernel /\ rt'.stat = [rt.stat EXCEPT ![x] = "FREE"] /\ rt'.prio = rt.prio
        /\ rt'.ready = u.ready /\ rt'.group = u.group /\ rt'.defunct = u.defunct
        /\ rt'.current = rt.current /\ rt'.nest = rt.nest /\ rt'.timer = rt.timer
    <2>1. [u.stat EXCEPT ![x] = "FREE"] \in [Threads -> Stats]
      BY <1>6 DEF Stats
    <2> QED BY <1>3, <1>5, <1>6, <2>1 DEF Kernel
  <1>8. Queues(rt', S, D \ {x})
    <2> HIDE DEF S, D, x
    <2> QED BY <1>5, <1>7, QueuesFrame
  <1>9. \A s \in Threads : rt'.stat[s] = IF s = x THEN "FREE" ELSE rt.stat[s]
    BY <1>5, <1>6, <1>7
  <1>10. KInv(rt')
    <2>1. S = {s \in Threads : rt'.stat[s] = "READY"} /\ D \ {x} = {s \in Threads : rt'.stat[s] = "CLOSE"}
      BY <1>4, <1>9
    <2>2. \A s \in Threads : rt'.stat[s] = "RUNNING" => s = rt'.current
      BY <1>2, <1>7, <1>9 DEF KInv
    <2>3. rt'.stat[rt'.current] = "RUNNING" /\ rt'.stat[Idle] = "RUNNING"
      BY <1>2, <1>4, <1>7, <1>9, ThreadsAssumption
    <2>4. \A s \in Threads : rt'.timer[s] => rt'.stat[s] = "SUSPEND"
      BY <1>2, <1>4, <1>7, <1>9 DEF KInv
    <2> HIDE DEF S, D, x
    <2> QED BY <1>8, <2>1, <2>2, <2>3, <2>4, KInvIntro
  <1>11. /\ pc \in [Threads -> PCs] /\ arg \in [Threads -> Threads] /\ PointsOK
         /\ owed' \in BOOLEAN /\ slice' \in Slices /\ isr' \in Isr
    BY <1>3 DEF IInv, TypeOK
  <1>12. pc' \in [Threads -> PCs] /\ arg' \in [Threads -> Threads]
    BY <1>3, <1>11, ThreadsAssumption DEF PCs
  <1>13. pc'[Idle] = "run" /\ \A t \in Threads : t # Idle => pc'[t] = pc[t]
    BY <1>3, <1>11, ThreadsAssumption
  <1>14. \A t \in Threads : pc'[t] \notin Windows /\ pc'[t] # "reap"
    BY <1>2, <1>11, <1>13 DEF PointsOK, Windows
  <1>15. PointsOK'
    BY <1>13, <1>14 DEF PointsOK, Windows
  <1>16. \A y \in Threads : rt'.stat[y] = "READY" => rt.stat[y] = "READY"
    BY <1>9
  <1>17. rt'.stat[rt'.current] = "RUNNING"
    BY <1>2, <1>4, <1>7, <1>9, ThreadsAssumption
  <1>18. HighestRuns'
    BY <1>2, <1>3, <1>7, <1>16, <1>17, KeepsHighest DEF IInv
  <1>19. \A t \in Threads : pc'[t] # "closing"
    BY <1>14 DEF Windows
  <1>20. pc'[Idle] # "reap"
    BY <1>13
  <1> HIDE DEF S, D, x
  <1>21. IInv'
    <2>1. CurrentThread'
      BY <1>10, <1>17 DEF CurrentThread, KInv
    <2> QED BY <1>10, <1>11, <1>12, <1>15, <1>18, <1>19, <1>20, <2>1, RestoredLemma
  <1>22. rt'.current = rt.current
    BY <1>7
  <1> QED BY <1>9, <1>21, <1>22 DEF Step, OnlyReclaimed

(* SysTick moves on, or nothing happens: the windows stay closed to it.     *)
LEMMA IsrStep ==
    ASSUME IInv, UNCHANGED <<rt, slice, pc, arg, owed>>,
           isr' \in Isr, isr' = isr \/ isr # "none"
    PROVE  Step
  <1>1. \A x : BeingClosed(x)' <=> BeingClosed(x)
    BY DEF BeingClosed
  <1>2. ReadySet' = ReadySet /\ DeadSet' = DeadSet
    BY <1>1 DEF ReadySet, DeadSet
  <1>3. Queues(rt, ReadySet, DeadSet)'
    <2>1. Queues(rt', ReadySet', DeadSet')
      BY <1>2 DEF IInv
    <2> QED BY <2>1 DEF Queues
  <1>4. TypeOK'
    BY DEF IInv, TypeOK
  <1>5. CurrentThread' /\ TimeoutAssertion'
    BY DEF IInv, CurrentThread, TimeoutAssertion
  <1>6. PointsOK'
    BY DEF IInv, PointsOK
  <1>7. HighestRuns'
    BY <1>1 DEF IInv, HighestRuns
  <1>8. pc'[Idle] = "reap" => rt'.stat[arg'[Idle]] = "CLOSE" /\ rt'.current # arg'[Idle]
    BY DEF IInv
  <1>9. IInv'
    BY <1>3, <1>4, <1>5, <1>6, <1>7, <1>8 DEF IInv
  <1> QED BY <1>9 DEF Step, OnlyReclaimed

LEMMA InitLemma == Init => IInv
  <1> SUFFICES ASSUME Init PROVE IInv
    OBVIOUS
  <1> DEFINE p0 == InitPrio[Idle]
  <1>1. /\ rt.stat = [t \in Threads |-> IF t = Main THEN "RUNNING"
                                        ELSE IF t = Idle THEN "READY" ELSE "FREE"]
        /\ rt.yield = [t \in Threads |-> FALSE] /\ rt.prio = InitPrio
        /\ rt.ready = [p \in Priorities |-> IF p = p0 THEN <<Idle>> ELSE <<>>]
        /\ rt.group = {p0} /\ rt.current = Main /\ rt.nest = 0
        /\ rt.timer = [t \in Threads |-> FALSE] /\ rt.defunct = <<>>
        /\ pc = [t \in Threads |-> "run"] /\ arg = [t \in Threads |-> t]
        /\ isr = "none" /\ owed = FALSE /\ slice = InitTick
    BY DEF Init
  <1>2. p0 \in Priorities /\ InitPrio \in [Threads -> Priorities]
    BY InitPrioAssumption, ThreadsAssumption
  <1>3. rt \in Kernel
    <2>1. <<Idle>> \in Seq(Threads) /\ <<>> \in Seq(Threads)
      BY ThreadsAssumption
    <2>2. [p \in Priorities |-> IF p = p0 THEN <<Idle>> ELSE <<>>] \in [Priorities -> Seq(Threads)]
      BY <2>1
    <2>3. [t \in Threads |-> IF t = Main THEN "RUNNING" ELSE IF t = Idle THEN "READY" ELSE "FREE"]
             \in [Threads -> Stats]
      BY DEF Stats
    <2>4. 0 \in 0 .. MaxNest
      BY MaxNestAssumption
    <2>5. [t \in Threads |-> FALSE] \in [Threads -> BOOLEAN]
      OBVIOUS
    <2> HIDE DEF p0
    <2> QED BY <1>2, <2>1, <2>2, <2>3, <2>4, <2>5, ThreadsAssumption DEF Init, Kernel, p0
  <1>4. TypeOK
    <2>1. InitTick \in Slices /\ "run" \in PCs /\ "none" \in Isr
      BY InitTickAssumption DEF PCs, Slices, Isr
    <2> QED BY <1>1, <1>3, <2>1 DEF TypeOK
  <1>5. \A x : ~BeingClosed(x)
    BY <1>1 DEF BeingClosed
  <1>6. \A t \in Threads : rt.stat[t] = IF t = Main THEN "RUNNING"
                                        ELSE IF t = Idle THEN "READY" ELSE "FREE"
    BY <1>1
  <1>7. ReadySet = {Idle} /\ DeadSet = {}
    BY <1>5, <1>6, ThreadsAssumption DEF ReadySet, DeadSet
  <1>8. Queues(rt, {Idle}, {})
    <2>1. ASSUME NEW p \in Priorities
          PROVE  NoDup(rt.ready[p]) /\ Linked(rt.ready[p]) = {t \in {Idle} : rt.prio[t] = p}
      <3>1. CASE p = p0
        <4>1. rt.ready[p] = <<Idle>>
          BY <1>1, <3>1
        <4> QED BY <1>1, <3>1, <4>1 DEF NoDup, Linked
      <3>2. CASE p # p0
        <4>1. rt.ready[p] = <<>>
          BY <1>1, <3>2
        <4> QED BY <1>1, <3>2, <4>1 DEF NoDup, Linked
      <3> QED BY <3>1, <3>2
    <2>2. rt.group = {p \in Priorities : \E t \in {Idle} : rt.prio[t] = p}
      BY <1>1, <1>2
    <2>3. NoDup(rt.defunct) /\ Linked(rt.defunct) = {}
      BY <1>1 DEF NoDup, Linked
    <2> QED BY <1>3, <2>1, <2>2, <2>3 DEF Queues
  <1>9. CurrentThread /\ TimeoutAssertion
    BY <1>1, <1>6, ThreadsAssumption DEF CurrentThread, TimeoutAssertion
  <1>10. pc[Idle] # "reap" /\ PointsOK
    BY <1>1, ThreadsAssumption DEF PointsOK, Windows
  <1>11. HighestRuns
    BY <1>1, <1>6, ThreadsAssumption, MainFirstAssumption DEF HighestRuns
  <1> QED BY <1>4, <1>7, <1>8, <1>9, <1>10, <1>11 DEF IInv

LEMMA NextLemma ==
    ASSUME CallerMasksIrq, IInv, [Next]_vars PROVE Step
  <1>1. ASSUME NEW t \in Threads, ThreadStep(t) PROVE Step
    <2>1. CASE \E timed \in BOOLEAN : rt_thread_sleep(t, timed)
      BY <2>1, SleepStep
    <2>2. CASE \E x \in Threads : rt_thread_init(t, x)
      BY <2>2, InitStep
    <2>3. CASE \E x \in Threads : rt_thread_startup(t, x)
      BY <2>3, StartupStep
    <2>4. CASE \E x \in Threads : rt_thread_resume(t, x)
      BY <2>4, ResumeStep
    <2>5. CASE \E x \in Threads : rt_thread_delete(t, x)
      BY <2>5, DeleteStep
    <2>6. CASE \E x \in Threads : \E p \in Priorities : rt_thread_control(t, x, p)
      BY <2>6, ControlStep
    <2>7. CASE Reschedule(t) \/ CallsSchedule(t) \/ rt_thread_yield(t) \/ _thread_exit(t)
      BY <2>7, RescheduleStep, CallsScheduleStep, YieldStep, ExitStep
    <2>8. CASE StartupResumes(t) \/ StartupLinks(t) \/ ResumeLinks(t) \/ DeleteCloses(t)
      BY <2>8, StartupResumesStep, StartupLinksStep, ResumeLinksStep, DeleteClosesStep
    <2>9. CASE rt_enter_critical(t) \/ rt_exit_critical(t)
      BY <2>9, EnterCriticalStep, ExitCriticalStep
    <2> QED BY <1>1, <2>1, <2>2, <2>3, <2>4, <2>5, <2>6, <2>7, <2>8, <2>9 DEF ThreadStep
  <1>2. ASSUME rt_thread_defunct_dequeue \/ rt_defunct_execute PROVE Step
    BY <1>2, DequeueStep, ReapStep
  <1>3. ASSUME Interrupt PROVE Step
    <2>1. CASE rt_tick_increase
      BY <2>1, TickStep
    <2>5. CASE TickSchedules
      BY <2>5, TickSchedulesStep
    <2>2. CASE rt_timer_check
      BY <2>2, IsrStep DEF rt_timer_check, Isr
    <2>3. CASE TimerCheckEnds
      BY <2>3, IsrStep DEF TimerCheckEnds, Isr
    <2>4. CASE \E t \in Threads : TimerExpires(t) \/ DeviceInterrupt(t)
      BY <2>4, TimerExpiresStep, DeviceInterruptStep
    <2> QED BY <1>3, <2>1, <2>2, <2>3, <2>4, <2>5 DEF Interrupt
  <1>4. ASSUME UNCHANGED vars PROVE Step
    <2>1. isr \in Isr
      BY DEF IInv, TypeOK
    <2> QED BY <1>4, <2>1, IsrStep DEF vars
  <1> QED BY <1>1, <1>2, <1>3, <1>4 DEF Next

-----------------------------------------------------------------------------
(* The theorems *)

(* With the windows masked the inductive invariant holds for ever. *)
THEOREM Invariance == CallerMasksIrq => (Spec => []IInv)
  <1> SUFFICES ASSUME CallerMasksIrq PROVE Spec => []IInv
    OBVIOUS
  <1>1. Init => IInv
    BY InitLemma
  <1>2. IInv /\ [Next]_vars => IInv'
    BY NextLemma DEF Step
  <1> QED BY <1>1, <1>2, PTL DEF Spec

(* Every kernel structure keeps its type: in particular the slice of a      *)
(* thread is never zero and the lock nesting never leaves its bounds.       *)
THEOREM TypeCorrect == CallerMasksIrq => (Spec => []TypeOK)
  <1>1. IInv => TypeOK
    BY DEF IInv
  <1> QED BY <1>1, Invariance, PTL

(* The ready table agrees with the states and the bitmap of scheduler.c.    *)
THEOREM ReadyTableCorrect == CallerMasksIrq => (Spec => []ReadyTable)
  <1>1. IInv => ReadyTable
    <2> SUFFICES ASSUME IInv PROVE ReadyTable
      OBVIOUS
    <2>1. /\ rt.ready \in [Priorities -> Seq(Threads)] /\ rt.prio \in [Threads -> Priorities]
          /\ Queues(rt, ReadySet, DeadSet)
      BY DEF IInv, TypeOK, Kernel
    <2>2. \A p \in Priorities : /\ NoDup(rt.ready[p])
                                /\ Linked(rt.ready[p]) = {t \in ReadySet : rt.prio[t] = p}
      BY <2>1 DEF Queues
    <2>3. \A p \in Priorities : \A t \in Linked(rt.ready[p]) : rt.stat[t] = "READY" /\ rt.prio[t] = p
      BY <2>2 DEF ReadySet
    <2>4. \A t \in Threads : rt.stat[t] = "READY" =>
              t \in Linked(rt.ready[rt.prio[t]]) \/ BeingClosed(t)
      BY <2>1, <2>2 DEF ReadySet
    <2>5. \A p \in Priorities : rt.ready[p] = <<>> <=> Linked(rt.ready[p]) = {}
      BY <2>1, EmptyLemma
    <2>6. rt.group = {p \in Priorities : \E t \in ReadySet : rt.prio[t] = p}
      BY <2>1 DEF Queues
    <2>7. rt.group = {p \in Priorities : ~rt_list_isempty(rt.ready[p])}
      BY <2>2, <2>5, <2>6 DEF rt_list_isempty
    <2> QED BY <2>2, <2>3, <2>4, <2>7 DEF ReadyTable
  <1> QED BY <1>1, Invariance, PTL

(* Dead threads, all of them and nobody else, wait on the defunct list, and *)
(* idle reclaims only what nobody runs on.                                  *)
THEOREM DefunctListCorrect == CallerMasksIrq => (Spec => []DefunctList)
  <1>1. IInv => DefunctList
    BY DEF IInv, Queues, DeadSet, DefunctList
  <1> QED BY <1>1, Invariance, PTL

(* One thread is RUNNING, the current one; one that is suspended is on its   *)
(* way into rt_schedule, and one that is closed goes on only after it closed *)
(* itself, until the next rt_schedule.                                      *)
THEOREM CurrentThreadCorrect == CallerMasksIrq => (Spec => []CurrentThread)
  <1>1. IInv => CurrentThread
    BY DEF IInv
  <1> QED BY <1>1, Invariance, PTL

(* RT_ASSERT at thread.c:136 never fires. *)
THEOREM TimeoutAssertionHolds == CallerMasksIrq => (Spec => []TimeoutAssertion)
  <1>1. IInv => TimeoutAssertion
    BY DEF IInv
  <1> QED BY <1>1, Invariance, PTL

(* The thread that runs is a most urgent one. *)
THEOREM PriorityScheduling == CallerMasksIrq => (Spec => []HighestRuns)
  <1>1. IInv => HighestRuns
    BY DEF IInv
  <1> QED BY <1>1, Invariance, PTL

(* Nobody is preempted without a reason, nor with the scheduler locked. *)
THEOREM Preemption == CallerMasksIrq => (Spec => PreemptionJustified)
  <1> SUFFICES ASSUME CallerMasksIrq PROVE Spec => PreemptionJustified
    OBVIOUS
  <1>1. IInv /\ [Next]_vars => [rt'.current # rt.current => Preempts(rt.current, rt'.current)]_vars
    BY NextLemma DEF Step
  <1>2. Spec => []IInv
    BY Invariance
  <1> QED BY <1>1, <1>2, PTL DEF Spec, PreemptionJustified

(* A closed thread never runs again until idle has reclaimed it. *)
THEOREM ClosedForGood == CallerMasksIrq => (Spec => ClosedStaysOff)
  <1> SUFFICES ASSUME CallerMasksIrq PROVE Spec => ClosedStaysOff
    OBVIOUS
  <1>1. IInv /\ [Next]_vars => [OnlyReclaimed]_vars
    BY NextLemma DEF Step
  <1>2. Spec => []IInv
    BY Invariance
  <1> QED BY <1>1, <1>2, PTL DEF Spec, ClosedStaysOff

(* "The thread object will be removed from thread queue" (thread.c:385): a   *)
(* thread that was detached is on no ready queue, if rt_thread_detach and    *)
(* rt_thread_delete are called with interrupts disabled.                     *)
THEOREM DetachedThreadsLeaveQueues == CallerMasksIrq => (Spec => []DetachedLeavesQueue)
  <1> SUFFICES ASSUME CallerMasksIrq PROVE Spec => []DetachedLeavesQueue
    OBVIOUS
  <1>1. ReadyTable => DetachedLeavesQueue
    BY DEF ReadyTable, DetachedLeavesQueue
  <1>2. Spec => []ReadyTable
    BY ReadyTableCorrect
  <1> QED BY <1>1, <1>2, PTL
=============================================================================
