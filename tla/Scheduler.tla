----------------------------- MODULE Scheduler -----------------------------
(***************************************************************************)
(* The uniprocessor priority scheduler (src/scheduler.c), the life of a    *)
(* thread (src/thread.c), the time slice (src/clock.c) and the reclaiming  *)
(* of dead threads by the idle thread (src/idle.c), with RT_USING_SMP off. *)
(*                                                                         *)
(* A region the code runs with interrupts disabled is one step; between    *)
(* two such regions an interrupt may come in, and through rt_schedule any  *)
(* other thread.                                                           *)
(***************************************************************************)
EXTENDS Kernel

CONSTANTS
    Main,           \* the thread rt_system_scheduler_start switches to
    InitPrio,       \* the priority each thread is created with
    InitTick,       \* the time slice each thread is created with
    CallerMasksIrq  \* do callers of rt_thread_resume, _startup, _detach and
                    \* _delete hold interrupts disabled around the call?

ASSUME ThreadsAssumption    == Idle \in Threads /\ Main \in Threads /\ Main # Idle
ASSUME InitPrioAssumption   == InitPrio \in [Threads -> Priorities]
ASSUME MainFirstAssumption  == InitPrio[Main] <= InitPrio[Idle]
ASSUME InitTickAssumption   == InitTick \in [Threads -> Nat \ {0}]
ASSUME MasksAssumption      == CallerMasksIrq \in BOOLEAN

VARIABLES
    rt,      \* the kernel state, see Kernel
    slice,   \* remaining_tick of each thread
    pc,      \* where each thread is when it runs next, see PCs
    arg,     \* the thread object its kernel call is about
    isr,     \* how far SysTick has come, see Isr
    owed     \* history: a thread made another ready, changed a priority or
             \* closed itself, without an rt_schedule since (rt_thread_resume,
             \* rt_thread_control, rt_thread_detach and rt_thread_delete leave
             \* that to their caller)

vars == <<rt, slice, pc, arg, isr, owed>>

(***************************************************************************)
(* run        in its own code                                              *)
(* sched      about to call rt_schedule at the end of a kernel function    *)
(* startup    stat is SUSPEND, about to call rt_thread_resume (thread.c:373) *)
(* startlink  the same, past the check of rt_thread_resume                 *)
(* relink     past the check of rt_thread_resume, before its critical part *)
(* closing    past rt_schedule_remove_thread in rt_thread_detach/_delete   *)
(* reap       idle holds the first defunct thread, not yet unlinked        *)
(***************************************************************************)
PCs == {"run", "sched", "startup", "startlink", "relink", "closing", "reap"}

(***************************************************************************)
(* none    no SysTick is being served                                      *)
(* slice   a time slice is over, rt_tick_increase is about to rt_schedule  *)
(* tick    about to call rt_timer_check                                    *)
(* timers  inside rt_timer_check, interrupts disabled                      *)
(***************************************************************************)
Isr == {"none", "slice", "tick", "timers"}

(* The windows a caller can close by disabling interrupts around the call. *)
Windows == {"startup", "startlink", "relink", "closing"}

-----------------------------------------------------------------------------
(* The thread rt_system_scheduler_start switched to, with idle started and  *)
(* no other thread created.                                                *)
Init ==
    /\ rt = [stat    |-> [t \in Threads |-> IF t = Main THEN "RUNNING"
                                            ELSE IF t = Idle THEN "READY" ELSE "FREE"],
             yield   |-> [t \in Threads |-> FALSE],
             prio    |-> InitPrio,
             ready   |-> [p \in Priorities |-> IF p = InitPrio[Idle] THEN <<Idle>> ELSE <<>>],
             group   |-> {InitPrio[Idle]},
             current |-> Main,
             nest    |-> 0,
             timer   |-> [t \in Threads |-> FALSE],
             defunct |-> <<>>]
    /\ slice = InitTick
    /\ pc = [t \in Threads |-> "run"]
    /\ arg = [t \in Threads |-> t]
    /\ isr = "none"
    /\ owed = FALSE

(* Thread t executes, at point l of its code. *)
At(t, l) == rt.current = t /\ isr = "none" /\ pc[t] = l

App(t) == t # Idle /\ At(t, "run")

Goto(t, l) == pc' = [pc EXCEPT ![t] = l]

(* The kernel call about arg[t] is over. *)
Return(t, l) == Goto(t, l) /\ arg' = [arg EXCEPT ![t] = t]

(* A call of rt_schedule pays what is owed, unless the scheduler is locked. *)
Paid == owed' = (owed /\ rt.nest # 0)

IrqEnabled == ~(CallerMasksIrq /\ pc[rt.current] \in Windows)

(* The rt_schedule call a kernel function ends with. *)
Reschedule(t) ==
    /\ At(t, "sched")
    /\ rt' = rt_schedule(rt)
    /\ Goto(t, "run") /\ Paid
    /\ UNCHANGED <<slice, arg, isr>>

rt_thread_yield(t) ==
    /\ App(t)
    /\ rt' = rt_schedule([rt EXCEPT !.yield[t] = TRUE])
    /\ slice' = [slice EXCEPT ![t] = InitTick[t]]
    /\ Paid
    /\ UNCHANGED <<pc, arg, isr>>

(* A plausible slip: the suspended thread goes on without rt_schedule. *)
SleepForgetsSchedule(t, timed) ==
    /\ App(t) /\ rt.nest = 0
    /\ rt' = SuspendThread(rt, t, timed)
    /\ UNCHANGED <<pc, slice, arg, isr, owed>>

(* A thread calls rt_schedule itself, as rt_thread_resume and the others    *)
(* expect of their callers; so does rt_thread_control(RT_THREAD_CTRL_CLOSE) *)
(* of a thread that is closed already.                                     *)
CallsSchedule(t) ==
    /\ App(t)
    /\ Goto(t, "sched")
    /\ UNCHANGED <<rt, slice, arg, isr, owed>>

(* rt_thread_sleep, rt_thread_delay_until, and every wait of src/ipc.c: the  *)
(* thread suspends itself and arms its timer in one region.  A thread that  *)
(* blocks holds no scheduler lock: RT_DEBUG_SCHEDULER_AVAILABLE.  Nor is it *)
(* closed: rt_thread_suspend refuses that (thread.c:850), and a timed wait  *)
(* then ends in RT_ASSERT at the detached timer (timer.c:565), an endless   *)
(* one in a node linked twice (ipc.c:131).  Both are outside this module.   *)
rt_thread_sleep(t, timed) ==
    /\ App(t) /\ rt.nest = 0 /\ rt.stat[t] # "CLOSE"
    /\ rt' = SuspendThread(rt, t, timed)
    /\ Goto(t, "sched")
    /\ UNCHANGED <<slice, arg, isr, owed>>

(* rt_thread_create or rt_thread_init of an object that does not exist yet. *)
rt_thread_init(t, x) ==
    /\ App(t) /\ rt.stat[x] = "FREE"
    /\ rt' = [rt EXCEPT !.stat[x] = "INIT", !.yield[x] = FALSE,
                        !.prio[x] = InitPrio[x], !.timer[x] = FALSE]
    /\ slice' = [slice EXCEPT ![x] = InitTick[x]]
    /\ Return(x, "run")
    /\ UNCHANGED <<isr, owed>>

rt_thread_startup(t, x) ==
    /\ App(t) /\ rt.stat[x] = "INIT"
    /\ rt' = [rt EXCEPT !.stat[x] = "SUSPEND", !.yield[x] = FALSE]
    /\ Goto(t, "startup")
    /\ arg' = [arg EXCEPT ![t] = x]
    /\ UNCHANGED <<slice, isr, owed>>

(* The check of rt_thread_resume inside rt_thread_startup. *)
StartupResumes(t) ==
    /\ At(t, "startup")
    /\ IF rt.stat[arg[t]] = "SUSPEND" THEN Goto(t, "startlink") /\ UNCHANGED arg
                                      ELSE Return(t, "sched")
    /\ UNCHANGED <<rt, slice, isr, owed>>

StartupLinks(t) ==
    /\ At(t, "startlink")
    /\ rt' = ResumeThread(rt, arg[t])
    /\ Return(t, "sched")
    /\ UNCHANGED <<slice, isr, owed>>

(* rt_thread_resume called by a thread: the check, with interrupts enabled ... *)
rt_thread_resume(t, x) ==
    /\ App(t) /\ rt.stat[x] = "SUSPEND"
    /\ Goto(t, "relink")
    /\ arg' = [arg EXCEPT ![t] = x]
    /\ UNCHANGED <<rt, slice, isr, owed>>

(* ... and the critical part, which does not look at the state again. *)
ResumeLinks(t) ==
    /\ At(t, "relink")
    /\ rt' = ResumeThread(rt, arg[t])
    /\ owed' = TRUE
    /\ Return(t, "run")
    /\ UNCHANGED <<slice, isr>>

(* rt_thread_detach and rt_thread_delete up to the end of                  *)
(* rt_schedule_remove_thread, also with the scheduler locked.              *)
rt_thread_delete(t, x) ==
    /\ App(t) /\ x # Idle /\ rt.stat[x] \notin {"FREE", "CLOSE"}
    /\ rt' = IF rt.stat[x] = "INIT" THEN rt ELSE rt_schedule_remove_thread(rt, x)
    /\ Goto(t, "closing")
    /\ arg' = [arg EXCEPT ![t] = x]
    /\ UNCHANGED <<slice, isr, owed>>

(* Their critical part.  rt_thread_control(RT_THREAD_CTRL_CLOSE) goes on to *)
(* rt_schedule.  A direct caller goes on in its own code, even if it closed *)
(* itself: the next rt_schedule that is not locked out takes it away.      *)
DeleteCloses(t) ==
    /\ At(t, "closing")
    /\ rt' = CloseThread(rt, arg[t])
    /\ \E l \in {"run", "sched"} : Return(t, l)
    /\ owed' = (owed \/ arg[t] = t)
    /\ UNCHANGED <<slice, isr>>

(* The thread's entry function returned.  One that closed itself before is  *)
(* stopped by RT_ASSERT of rt_timer_detach instead (timer.c:295).          *)
_thread_exit(t) ==
    /\ App(t) /\ rt.nest = 0 /\ rt.stat[t] # "CLOSE"
    /\ rt' = CloseThread(rt_schedule_remove_thread(rt, t), t)
    /\ Goto(t, "sched")
    /\ UNCHANGED <<slice, arg, isr, owed>>

(* RT_THREAD_CTRL_CHANGE_PRIORITY; the caller is left to call rt_schedule. *)
rt_thread_control(t, x, p) ==
    /\ App(t) /\ x # Idle /\ rt.stat[x] # "FREE"
    /\ rt' = ChangePriority(rt, x, p)
    /\ owed' = TRUE
    /\ UNCHANGED <<slice, pc, arg, isr>>

rt_enter_critical(t) ==
    /\ App(t) /\ rt.nest < MaxNest
    /\ rt' = [rt EXCEPT !.nest = @ + 1]
    /\ UNCHANGED <<slice, pc, arg, isr, owed>>

(* A plausible slip: leaving the critical section does not reschedule. *)
ExitNoSchedule(t) ==
    /\ App(t) /\ rt.nest > 0
    /\ rt' = [rt EXCEPT !.nest = @ - 1]
    /\ UNCHANGED <<slice, pc, arg, isr, owed>>

rt_exit_critical(t) ==
    /\ App(t) /\ rt.nest > 0
    /\ rt' = [rt EXCEPT !.nest = @ - 1]
    /\ IF rt.nest = 1 THEN Goto(t, "sched") ELSE UNCHANGED pc
    /\ UNCHANGED <<slice, arg, isr, owed>>

(* rt_thread_defunct_dequeue reads the first entry with interrupts enabled *)
rt_thread_defunct_dequeue ==
    /\ At(Idle, "run") /\ ~rt_list_isempty(rt.defunct)
    /\ arg' = [arg EXCEPT ![Idle] = Head(rt.defunct)]
    /\ Goto(Idle, "reap")
    /\ UNCHANGED <<rt, slice, isr, owed>>

(* then unlinks it.  The cleanup that follows, up to the release of stack   *)
(* and object, changes nothing another thread looks at.                    *)
rt_defunct_execute ==
    /\ At(Idle, "reap")
    /\ rt' = [Unlink(rt, arg[Idle]) EXCEPT !.stat[arg[Idle]] = "FREE"]
    /\ Return(Idle, "run")
    /\ UNCHANGED <<slice, isr, owed>>

-----------------------------------------------------------------------------
(* Interrupts *)

(* A plausible slip: a slice that ran out is not reloaded. *)
TickNoReload ==
    /\ isr = "none" /\ IrqEnabled
    /\ slice' = [slice EXCEPT ![rt.current] = @ - 1]
    /\ isr' = "tick"
    /\ UNCHANGED <<rt, pc, arg, owed>>

(* rt_tick_increase charges the current thread; when its slice is over it   *)
(* enables interrupts before it calls rt_schedule.                         *)
rt_tick_increase ==
    /\ isr = "none" /\ IrqEnabled
    /\ LET c == rt.current IN
       IF slice[c] = 1
       THEN /\ slice' = [slice EXCEPT ![c] = InitTick[c]]
            /\ rt' = [rt EXCEPT !.yield[c] = TRUE]
            /\ isr' = "slice"
       ELSE /\ slice' = [slice EXCEPT ![c] = @ - 1]
            /\ isr' = "tick"
            /\ UNCHANGED rt
    /\ UNCHANGED <<pc, arg, owed>>

TickSchedules ==
    /\ isr = "slice"
    /\ rt' = rt_schedule(rt)
    /\ isr' = "tick" /\ Paid
    /\ UNCHANGED <<slice, pc, arg>>

(* rt_timer_check disables interrupts ... *)
rt_timer_check ==
    /\ isr = "tick"
    /\ isr' = "timers"
    /\ UNCHANGED <<rt, slice, pc, arg, owed>>

(* ... expires any of the active thread timers, one after the other ... *)
TimerExpires(t) ==
    /\ isr = "timers" /\ rt.timer[t]
    /\ rt' = _thread_timeout(rt, t)
    /\ Paid
    /\ UNCHANGED <<slice, pc, arg, isr>>

(* ... and returns from SysTick_Handler. *)
TimerCheckEnds ==
    /\ isr = "timers"
    /\ isr' = "none"
    /\ UNCHANGED <<rt, slice, pc, arg, owed>>

BeingClosed(x) == \E t \in Threads : pc[t] = "closing" /\ arg[t] = x

(* A device interrupt, which may come on top of SysTick, releases what x    *)
(* waits for: src/ipc.c finds x on its list of suspended threads, resumes  *)
(* it with interrupts disabled and calls rt_schedule.  A thread            *)
(* rt_schedule_remove_thread took off that list is no longer found.        *)
DeviceInterrupt(x) ==
    /\ isr # "timers" /\ IrqEnabled
    /\ rt.stat[x] = "SUSPEND" /\ ~BeingClosed(x)
    /\ rt' = rt_schedule(ResumeThread(rt, x))
    /\ Paid
    /\ UNCHANGED <<slice, pc, arg, isr>>

ThreadStep(t) ==
    \/ Reschedule(t) \/ CallsSchedule(t)
    \/ rt_thread_yield(t)
    \/ \E timed \in BOOLEAN : rt_thread_sleep(t, timed)
    \/ StartupResumes(t) \/ StartupLinks(t) \/ ResumeLinks(t) \/ DeleteCloses(t)
    \/ _thread_exit(t)
    \/ rt_enter_critical(t) \/ rt_exit_critical(t)
    \/ \E x \in Threads :
        \/ rt_thread_init(t, x) \/ rt_thread_startup(t, x)
        \/ rt_thread_resume(t, x) \/ rt_thread_delete(t, x)
        \/ \E p \in Priorities : rt_thread_control(t, x, p)

Interrupt ==
    \/ rt_tick_increase \/ TickSchedules \/ rt_timer_check \/ TimerCheckEnds
    \/ \E t \in Threads : TimerExpires(t) \/ DeviceInterrupt(t)

Next ==
    \/ \E t \in Threads : ThreadStep(t)
    \/ rt_thread_defunct_dequeue \/ rt_defunct_execute
    \/ Interrupt

Spec == Init /\ [][Next]_vars

-----------------------------------------------------------------------------
(* Properties *)

Slices == {f \in [Threads -> Nat] : \A t \in Threads : f[t] \in 1 .. InitTick[t]}

TypeOK ==
    /\ rt \in Kernel
    /\ slice \in Slices
    /\ pc \in [Threads -> PCs]
    /\ arg \in [Threads -> Threads]
    /\ isr \in Isr
    /\ owed \in BOOLEAN

(* The ready table agrees with the states: a priority's queue holds exactly *)
(* the READY threads of that priority, each once, and the group bitmap has  *)
(* a bit exactly for the non-empty queues, so that __rt_ffs finds the most  *)
(* urgent thread.  A READY thread just taken out to be closed is excepted.  *)
ReadyTable ==
    /\ \A p \in Priorities : NoDup(rt.ready[p])
    /\ \A p \in Priorities : \A t \in Linked(rt.ready[p]) :
            rt.stat[t] = "READY" /\ rt.prio[t] = p
    /\ \A t \in Threads : rt.stat[t] = "READY" =>
            t \in Linked(rt.ready[rt.prio[t]]) \/ BeingClosed(t)
    /\ rt.group = {p \in Priorities : ~rt_list_isempty(rt.ready[p])}

(* A closed thread is on the defunct list and on no ready queue, and idle   *)
(* reclaims only such threads: it never frees a stack somebody may run on.  *)
DefunctList ==
    /\ NoDup(rt.defunct)
    /\ Linked(rt.defunct) = {t \in Threads : rt.stat[t] = "CLOSE"}
    /\ pc[Idle] = "reap" => rt.stat[arg[Idle]] = "CLOSE" /\ rt.current # arg[Idle]

(* Only the current thread is RUNNING.  It is suspended only on its way     *)
(* into rt_schedule, with the scheduler unlocked, so that nobody goes on in *)
(* its own code while it waits.  It is closed only there, or after it       *)
(* closed itself with rt_thread_detach or rt_thread_delete: it goes on in   *)
(* its own code until an rt_schedule that no lock holds up takes it away.  *)
(* Idle can always be switched to.                                         *)
CurrentThread ==
    /\ \A t \in Threads : rt.stat[t] = "RUNNING" => t = rt.current
    /\ \/ rt.stat[rt.current] = "RUNNING"
       \/ /\ rt.stat[rt.current] \in {"SUSPEND", "CLOSE"}
          /\ pc[rt.current] = "sched" /\ rt.nest = 0
       \/ rt.stat[rt.current] = "CLOSE" /\ owed
    /\ rt.stat[Idle] \in {"READY", "RUNNING"}

(* RT_ASSERT of _thread_timeout (thread.c:136): a thread timer only expires *)
(* on a suspended thread.                                                  *)
TimeoutAssertion ==
    \A t \in Threads : rt.timer[t] => rt.stat[t] = "SUSPEND"

(* Whoever executes thread code with the scheduler unlocked, and no         *)
(* rt_schedule outstanding, is a most urgent ready thread.                 *)
HighestRuns ==
    rt.nest = 0 /\ ~owed /\ pc[rt.current] # "sched" =>
        /\ rt.stat[rt.current] = "RUNNING"
        /\ \A t \in Threads : rt.stat[t] = "READY" /\ ~BeingClosed(t) =>
                rt.prio[rt.current] <= rt.prio[t]

(* The same promise seen from rt_thread_detach: "The thread object will be  *)
(* removed from thread queue" (thread.c:385).                              *)
DetachedLeavesQueue ==
    \A t \in Threads : rt.stat[t] = "CLOSE" =>
        \A p \in Priorities : t \notin Linked(rt.ready[p])

(* A RUNNING thread loses the processor to another one only if that one is  *)
(* more urgent, or as urgent and the loser's slice was refilled since it    *)
(* was last looked at; and never while the scheduler is locked.            *)
Preempts(c, n) ==
    /\ rt.nest = 0
    /\ rt'.stat[c] = "READY" =>
          \/ rt.prio[n] < rt.prio[c]
          \/ rt.prio[n] = rt.prio[c] /\ (rt.yield[c] \/ slice'[c] = InitTick[c])

PreemptionJustified ==
    [][rt'.current # rt.current => Preempts(rt.current, rt'.current)]_vars

(* Once closed, a thread never gets the processor again, whatever timer or  *)
(* interrupt fires: the only way back is to be reclaimed and created anew.  *)
OnlyReclaimed ==
    /\ rt'.current # rt.current => rt.stat[rt'.current] \in {"READY", "SUSPEND"}
    /\ \A t \in Threads : rt.stat[t] = "CLOSE" => rt'.stat[t] \in {"CLOSE", "FREE"}

ClosedStaysOff == [][OnlyReclaimed]_vars
=============================================================================
