------------------------------- MODULE Kernel -------------------------------
(***************************************************************************)
(* The state the kernel keeps about its threads, and the parts of           *)
(* src/scheduler.c and src/thread.c that run with interrupts disabled, as   *)
(* functions on it, composed the way the C functions call each other.       *)
(***************************************************************************)
EXTENDS Naturals, RtList

CONSTANTS
    Threads,        \* thread objects, static or from the heap
    Idle,           \* tidle: never blocks, never dies
    Priorities,     \* 0 .. RT_THREAD_PRIORITY_MAX - 1, 0 the most urgent
    MaxNest         \* bound on the nesting of rt_enter_critical

ASSUME IdleAssumption       == Idle \in Threads
ASSUME PrioritiesAssumption == Priorities \subseteq Nat
ASSUME MaxNestAssumption    == MaxNest \in Nat

(* RT_THREAD_INIT and so on; FREE is an object not yet, or no longer, there. *)
Stats == {"FREE", "INIT", "READY", "SUSPEND", "RUNNING", "CLOSE"}

Kernel == [stat    : [Threads -> Stats],
           yield   : [Threads -> BOOLEAN],              \* RT_THREAD_STAT_YIELD
           prio    : [Threads -> Priorities],           \* current_priority
           ready   : [Priorities -> Seq(Threads)],      \* rt_thread_priority_table
           group   : SUBSET Priorities,                 \* rt_thread_ready_priority_group
           current : Threads,                           \* rt_current_thread
           nest    : 0 .. MaxNest,                      \* rt_scheduler_lock_nest
           timer   : [Threads -> BOOLEAN],              \* thread_timer is active
           defunct : Seq(Threads)]                      \* _rt_thread_defunct

-----------------------------------------------------------------------------
(* src/scheduler.c *)

(* rt_list_remove(&t->tlist): t leaves whatever list it is linked on. *)
Unlink(k, t) ==
    [k EXCEPT !.ready   = [p \in Priorities |-> rt_list_remove(k.ready[p], t)],
              !.defunct = rt_list_remove(k.defunct, t)]

rt_schedule_insert_thread(k, t) ==
    IF t = k.current
    THEN [k EXCEPT !.stat[t] = "RUNNING"]
    ELSE [k EXCEPT !.stat[t] = "READY",
                   !.ready[k.prio[t]] = rt_list_insert_before(@, t),
                   !.group = @ \cup {k.prio[t]}]

rt_schedule_remove_thread(k, t) ==
    LET u == Unlink(k, t) IN
    IF rt_list_isempty(u.ready[k.prio[t]])
    THEN [u EXCEPT !.group = @ \ {k.prio[t]}]
    ELSE u

highest_ready_priority(k) ==
    CHOOSE p \in k.group : \A q \in k.group : p <= q

_scheduler_get_highest_priority_thread(k) ==
    Head(k.ready[highest_ready_priority(k)])

SwitchTo(k, t) ==
    [rt_schedule_remove_thread(k, t) EXCEPT !.stat[t] = "RUNNING"]

(* The branches of rt_schedule on whether current is still RUNNING.  The    *)
(* YIELD flag goes once it is looked at, whoever is chosen.                *)
ScheduleRunning(k) ==
    LET c    == k.current
        p    == highest_ready_priority(k)
        kept == [k EXCEPT !.yield[c] = FALSE]
    IN  IF k.prio[c] < p \/ (k.prio[c] = p /\ ~k.yield[c])
        THEN SwitchTo(kept, c)
        ELSE LET to == _scheduler_get_highest_priority_thread(k) IN
             SwitchTo(rt_schedule_insert_thread([kept EXCEPT !.current = to], c), to)

ScheduleStopped(k) ==
    LET to == _scheduler_get_highest_priority_thread(k) IN
    SwitchTo([k EXCEPT !.current = to], to)

(* A plausible slip: every switch treats the slice as used up. *)
ScheduleIgnoresSlice(k) ==
    IF k.nest # 0 \/ k.group = {}
    THEN k
    ELSE IF k.stat[k.current] = "RUNNING"
         THEN ScheduleRunning([k EXCEPT !.yield[k.current] = TRUE])
         ELSE ScheduleStopped(k)

rt_schedule(k) ==
    IF k.nest # 0 \/ k.group = {}
    THEN k
    ELSE IF k.stat[k.current] = "RUNNING" THEN ScheduleRunning(k)
                                          ELSE ScheduleStopped(k)

-----------------------------------------------------------------------------
(* src/thread.c and src/idle.c, the parts that run with interrupts disabled *)

(* A plausible slip: the thread is READY with its timer still armed. *)
ResumeLeavesTimer(k, t) == rt_schedule_insert_thread(Unlink(k, t), t)

(* rt_thread_resume past its check: off the suspend list, timer stopped. *)
ResumeThread(k, t) ==
    rt_schedule_insert_thread([Unlink(k, t) EXCEPT !.timer[t] = FALSE], t)

(* rt_thread_suspend of the running thread; its callers arm the timer next, *)
(* unless they wait forever.                                               *)
SuspendThread(k, t, timed) ==
    [rt_schedule_remove_thread(k, t) EXCEPT !.stat[t] = "SUSPEND",
                                            !.timer[t] = timed]

(* A plausible slip: a closed thread leaves its timer armed. *)
CloseNoTimerDetach(k, t) ==
    [k EXCEPT !.stat[t] = "CLOSE", !.yield[t] = FALSE,
              !.defunct = rt_list_insert_after(@, t)]

(* The end of _thread_exit, rt_thread_detach and rt_thread_delete. *)
CloseThread(k, t) ==
    [k EXCEPT !.timer[t] = FALSE, !.stat[t] = "CLOSE", !.yield[t] = FALSE,
              !.defunct = rt_list_insert_after(@, t)]

(* rt_timer_check took the one-shot timer of t off its list and calls this. *)
_thread_timeout(k, t) ==
    rt_schedule(rt_schedule_insert_thread(Unlink([k EXCEPT !.timer[t] = FALSE], t), t))

(* A plausible slip: the READY thread keeps its old queue. *)
ChangePriorityInPlace(k, t, p) == [k EXCEPT !.prio[t] = p]

(* RT_THREAD_CTRL_CHANGE_PRIORITY: only a READY thread changes queues. *)
ChangePriority(k, t, p) ==
    IF k.stat[t] = "READY"
    THEN rt_schedule_insert_thread([rt_schedule_remove_thread(k, t) EXCEPT !.prio[t] = p], t)
    ELSE [k EXCEPT !.prio[t] = p]
=============================================================================
