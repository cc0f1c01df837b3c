------------------------------- MODULE Mutex -------------------------------
(***************************************************************************)
(* The recursive mutexes of src/ipc.c with their priority inheritance, on  *)
(* top of the scheduler: the thread that executes is the one rt_schedule   *)
(* chose, so that a priority inversion can really happen.                  *)
(*                                                                         *)
(* A region with interrupts disabled is one step.  SysTick may come in     *)
(* between any two: it ends a time slice, or expires a thread timer.       *)
(***************************************************************************)
EXTENDS Kernel, IpcList

CONSTANTS
    Mutexes,    \* mutex objects
    Base,       \* the priority each thread was created with
    None,       \* RT_NULL
    MaxHold,    \* RT_MUTEX_HOLD_MAX
    Nested      \* may a thread own two mutexes at a time?

NoPriority == 255       \* RT_THREAD_PRIORITY_MAX is 32

ASSUME NoPriorityAssumption == NoPriority \notin Priorities
ASSUME NoneAssumption    == None \notin Threads \cup Mutexes
ASSUME BaseAssumption    == Base \in [Threads -> Priorities]
ASSUME MaxHoldAssumption == MaxHold \in Nat \ {0}
ASSUME NestedAssumption  == Nested \in BOOLEAN

VARIABLES
    rt,      \* the kernel state, see Kernel
    mutex,   \* the objects, see Object
    pc,      \* where each thread is when it runs next, see PCs
    want,    \* the mutex each thread waits for or deletes, None elsewhere
    error,   \* thread->error as rt_mutex_take reads it, EOK elsewhere
    owed,    \* history: ready threads or priorities changed since rt_schedule
    own      \* history: the priority each thread has to itself: that of its
             \* creation, or the one it was left with when it deleted a mutex

threadvars == <<pc, want, error>>
vars == <<rt, mutex, threadvars, owed, own>>

Object == [value    : {0, 1},
           owner    : Threads \cup {None},
           hold     : 0 .. MaxHold,
           original : Priorities \cup {NoPriority},     \* original_priority
           list     : Seq(Threads),
           live     : BOOLEAN]

Free == [value |-> 1, owner |-> None, hold |-> 0, original |-> NoPriority,
         list |-> <<>>, live |-> TRUE]

(***************************************************************************)
(* run     in its own code                                                 *)
(* sched   about to call rt_schedule at the end of a kernel function       *)
(* take    the same inside rt_mutex_take, put on the list                  *)
(* woken   past that rt_schedule, about to look at thread->error           *)
(* delete  deletes the mutex want, inside _ipc_list_resume_all             *)
(***************************************************************************)
PCs == {"run", "sched", "take", "woken", "delete"}

(* Every thread sleeps with a timeout, and idle runs. *)
Init ==
    /\ rt = [stat    |-> [t \in Threads |-> IF t = Idle THEN "RUNNING" ELSE "SUSPEND"],
             yield   |-> [t \in Threads |-> FALSE],
             prio    |-> Base,
             ready   |-> [p \in Priorities |-> <<>>],
             group   |-> {},
             current |-> Idle,
             nest    |-> 0,
             timer   |-> [t \in Threads |-> t # Idle],
             defunct |-> <<>>]
    /\ mutex = [m \in Mutexes |-> Free]
    /\ pc = [t \in Threads |-> "run"]
    /\ want = [t \in Threads |-> None]
    /\ error = [t \in Threads |-> "EOK"]
    /\ owed = FALSE
    /\ own = Base

-----------------------------------------------------------------------------
At(t, l) == rt.current = t /\ pc[t] = l

Owned(t) == {m \in Mutexes : mutex[m].owner = t}

(* A mutex call of t about m, from the thread's own code. *)
Calls(t, m) == t # Idle /\ At(t, "run") /\ mutex[m].live

Goto(t, l) == pc' = [pc EXCEPT ![t] = l]

TakeFree(t, m) ==
    /\ Calls(t, m) /\ (Nested \/ Owned(t) = {})
    /\ mutex[m].value > 0
    /\ mutex' = [mutex EXCEPT ![m].value = @ - 1,
                              ![m].owner = t,
                              ![m].original = rt.prio[t],
                              ![m].hold = @ + 1]
    /\ UNCHANGED <<rt, threadvars, owed, own>>

(* A plausible slip: the hold count has no limit. *)
TakeAgainUnbounded(t, m) ==
    /\ Calls(t, m) /\ mutex[m].owner = t
    /\ mutex' = [mutex EXCEPT ![m].hold = @ + 1]
    /\ UNCHANGED <<rt, threadvars, owed, own>>

(* The owner takes m once more; at the limit it gets -RT_EFULL. *)
TakeAgain(t, m) ==
    /\ Calls(t, m) /\ mutex[m].owner = t /\ mutex[m].hold < MaxHold
    /\ mutex' = [mutex EXCEPT ![m].hold = @ + 1]
    /\ UNCHANGED <<rt, threadvars, owed, own>>

(* A plausible slip: the owner keeps its priority when a more urgent one waits. *)
InheritNothing(k, owner, t) == k

(* The owner runs at least as urgently as the thread that waits for it. *)
Inherit(k, owner, t) ==
    IF k.prio[t] < k.prio[owner] THEN ChangePriority(k, owner, k.prio[t]) ELSE k

(* rt_mutex_take up to its rt_schedule, when another thread owns m and the  *)
(* caller is ready to wait: ticks with a timeout, else forever.            *)
TakeWaits(t, m, ticks) ==
    /\ Calls(t, m) /\ (Nested \/ Owned(t) = {})
    /\ mutex[m].owner # t /\ mutex[m].value = 0
    /\ rt' = SuspendThread(Inherit(rt, mutex[m].owner, t), t, ticks)
    /\ mutex' = [mutex EXCEPT ![m].list = _ipc_list_suspend(@, t, "PRIO", rt.prio)]
    /\ Goto(t, "take")
    /\ want' = [want EXCEPT ![t] = m]
    /\ error' = [error EXCEPT ![t] = "EOK"]
    /\ UNCHANGED <<owed, own>>

(* The wait is over and rt_mutex_take returns thread->error. *)
TakeReturns(t) ==
    /\ At(t, "woken")
    /\ pc' = [pc EXCEPT ![t] = "run"]
    /\ want' = [want EXCEPT ![t] = None]
    /\ error' = [error EXCEPT ![t] = "EOK"]
    /\ UNCHANGED <<rt, mutex, owed, own>>

(* The owner's priority as it was when it became the owner. *)
Restore(k, t, m) ==
    IF mutex[m].original # k.prio[t] THEN ChangePriority(k, t, mutex[m].original) ELSE k

ReleaseInner(t, m) ==
    /\ Calls(t, m) /\ mutex[m].owner = t /\ mutex[m].hold > 1
    /\ mutex' = [mutex EXCEPT ![m].hold = @ - 1]
    /\ UNCHANGED <<rt, threadvars, owed, own>>

(* A plausible slip: the owner leaves with the priority it inherited. *)
FreeKeepsPriority(t, m) ==
    /\ Calls(t, m) /\ mutex[m].owner = t /\ mutex[m].hold = 1
    /\ rt_list_isempty(mutex[m].list)
    /\ mutex' = [mutex EXCEPT ![m] = Free]
    /\ UNCHANGED <<rt, threadvars, owed, own>>

(* The last release with nobody waiting.  The owner may lose an inherited   *)
(* priority here, and there is no rt_schedule.                             *)
ReleaseFrees(t, m) ==
    /\ Calls(t, m) /\ mutex[m].owner = t /\ mutex[m].hold = 1
    /\ rt_list_isempty(mutex[m].list)
    /\ rt' = Restore(rt, t, m)
    /\ mutex' = [mutex EXCEPT ![m] = Free]
    /\ owed' = (owed \/ rt'.prio # rt.prio)
    /\ UNCHANGED <<threadvars, own>>

(* A plausible slip: the hold count stays 0 for the new owner. *)
HandOverUncounted(t, m) ==
    /\ Calls(t, m) /\ mutex[m].owner = t /\ mutex[m].hold = 1
    /\ ~rt_list_isempty(mutex[m].list)
    /\ LET x == Head(mutex[m].list) IN
       /\ rt' = ResumeThread(Restore(rt, t, m), x)
       /\ mutex' = [mutex EXCEPT ![m].owner = x, ![m].original = rt'.prio[x],
                                 ![m].hold = 0,
                                 ![m].list = rt_list_remove(@, x)]
    /\ Goto(t, "sched")
    /\ UNCHANGED <<want, error, owed, own>>

(* The last release with waiters: the first of them owns m from now on. *)
ReleaseHandsOver(t, m) ==
    /\ Calls(t, m) /\ mutex[m].owner = t /\ mutex[m].hold = 1
    /\ ~rt_list_isempty(mutex[m].list)
    /\ LET x == Head(mutex[m].list) IN
       /\ rt' = ResumeThread(Restore(rt, t, m), x)
       /\ mutex' = [mutex EXCEPT ![m].owner = x, ![m].original = rt'.prio[x],
                                 ![m].list = rt_list_remove(@, x)]
    /\ Goto(t, "sched")
    /\ UNCHANGED <<want, error, owed, own>>

(* rt_mutex_detach, rt_mutex_delete by the owner, with interrupts disabled  *)
(* as _ipc_list_resume_all needs it.                                       *)
rt_mutex_delete(t, m) ==
    /\ Calls(t, m) /\ mutex[m].owner = t
    /\ Goto(t, "delete")
    /\ want' = [want EXCEPT ![t] = m]
    /\ UNCHANGED <<rt, mutex, error, owed, own>>

ResumeAllPops(t) ==
    /\ At(t, "delete") /\ ~rt_list_isempty(mutex[want[t]].list)
    /\ LET x == Head(mutex[want[t]].list) IN
       /\ mutex' = [mutex EXCEPT ![want[t]].list = rt_list_remove(@, x)]
       /\ error' = [error EXCEPT ![x] = "ERROR"]
       /\ rt' = ResumeThread(rt, x)
    /\ owed' = TRUE
    /\ UNCHANGED <<pc, want, own>>

(* The object goes, whatever priority its owner inherited from it stays,    *)
(* and there is no rt_schedule.                                            *)
rt_object_delete(t) ==
    /\ At(t, "delete") /\ rt_list_isempty(mutex[want[t]].list)
    /\ mutex' = [mutex EXCEPT ![want[t]] = [Free EXCEPT !.live = FALSE]]
    /\ own' = [own EXCEPT ![t] = rt.prio[t]]
    /\ Goto(t, "run")
    /\ want' = [want EXCEPT ![t] = None]
    /\ UNCHANGED <<rt, error, owed>>

(* rt_mutex_init, rt_mutex_create of a mutex at the same place. *)
rt_mutex_init(t, m) ==
    /\ t # Idle /\ At(t, "run") /\ ~mutex[m].live
    /\ mutex' = [mutex EXCEPT ![m] = Free]
    /\ UNCHANGED <<rt, threadvars, owed, own>>

-----------------------------------------------------------------------------
(* What the threads do besides, see Scheduler. *)

(* The rt_schedule call a kernel function ends with. *)
Reschedule(t) ==
    /\ rt.current = t /\ pc[t] \in {"sched", "take"}
    /\ rt' = rt_schedule(rt)
    /\ Goto(t, IF pc[t] = "take" THEN "woken" ELSE "run")
    /\ owed' = FALSE
    /\ UNCHANGED <<mutex, want, error, own>>

rt_thread_sleep(t) ==
    /\ t # Idle /\ At(t, "run")
    /\ rt' = SuspendThread(rt, t, TRUE)
    /\ Goto(t, "sched")
    /\ UNCHANGED <<mutex, want, error, owed, own>>

(* The thread that executes has interrupts enabled. *)
IrqEnabled == pc[rt.current] # "delete"

(* The end of a time slice in rt_tick_increase. *)
SliceEnds ==
    /\ IrqEnabled
    /\ rt' = rt_schedule([rt EXCEPT !.yield[rt.current] = TRUE])
    /\ owed' = FALSE
    /\ UNCHANGED <<mutex, threadvars, own>>

(* A plausible slip: without error set, the caller believes it owns m. *)
TimeoutSaysOk(t) ==
    /\ IrqEnabled /\ rt.timer[t]
    /\ rt' = _thread_timeout(rt, t)
    /\ mutex' = [m \in Mutexes |-> [mutex[m] EXCEPT !.list = rt_list_remove(@, t)]]
    /\ owed' = FALSE
    /\ UNCHANGED <<threadvars, own>>

(* rt_timer_check expires the thread timer of t, asleep or on some list. *)
TimerExpires(t) ==
    /\ IrqEnabled /\ rt.timer[t]
    /\ rt' = _thread_timeout(rt, t)
    /\ mutex' = [m \in Mutexes |-> [mutex[m] EXCEPT !.list = rt_list_remove(@, t)]]
    /\ error' = IF want[t] = None THEN error ELSE [error EXCEPT ![t] = "ETIMEOUT"]
    /\ owed' = FALSE
    /\ UNCHANGED <<pc, want, own>>

MutexCall(t, m) ==
    \/ TakeFree(t, m) \/ TakeAgain(t, m) \/ \E ticks \in BOOLEAN : TakeWaits(t, m, ticks)
    \/ ReleaseInner(t, m) \/ ReleaseFrees(t, m) \/ ReleaseHandsOver(t, m)
    \/ rt_mutex_delete(t, m) \/ rt_mutex_init(t, m)

Next ==
    \/ \E t \in Threads :
        \/ \E m \in Mutexes : MutexCall(t, m)
        \/ TakeReturns(t) \/ ResumeAllPops(t) \/ rt_object_delete(t)
        \/ Reschedule(t) \/ rt_thread_sleep(t) \/ TimerExpires(t)
    \/ SliceEnds

Spec == Init /\ [][Next]_vars

-----------------------------------------------------------------------------
(* Properties *)

Errors == {"EOK", "ETIMEOUT", "ERROR"}

TypeOK ==
    /\ rt \in Kernel
    /\ mutex \in [Mutexes -> Object]
    /\ pc \in [Threads -> PCs]
    /\ want \in [Threads -> Mutexes \cup {None}]
    /\ error \in [Threads -> Errors]
    /\ owed \in BOOLEAN
    /\ own \in [Threads -> Priorities]

(* On a list of suspended threads, whichever way it comes to leave it. *)
Waiting(t) == pc[t] \in {"take", "woken"} /\ rt.stat[t] = "SUSPEND"

Held(m) == mutex[m].owner # None

(* A mutex is owned, counted and not available, or free with nobody         *)
(* waiting: no thread waits for a mutex nobody will release.               *)
OwnedOrFree ==
    /\ \A m \in Mutexes :
        /\ Held(m) <=> mutex[m].value = 0
        /\ Held(m) <=> mutex[m].hold > 0
        /\ Held(m) <=> mutex[m].original # NoPriority
        /\ NoDup(mutex[m].list)
        /\ Linked(mutex[m].list) = {t \in Threads : Waiting(t) /\ want[t] = m}
    /\ \A t \in Threads : Waiting(t) =>
            want[t] \in Mutexes /\ Held(want[t]) /\ mutex[want[t]].owner # t

(* A thread that comes back from its wait owns the mutex exactly when       *)
(* rt_mutex_take says RT_EOK, even if its timeout, a release and a deletion *)
(* came close together.                                                    *)
TakeTellsOwner ==
    \A t \in Threads : pc[t] \in {"take", "woken"} /\ ~Waiting(t) =>
        (error[t] = "EOK" <=> mutex[want[t]].owner = t)

(* RT_IPC_FLAG_FIFO "cannot solve the unbounded priority inversion problem" *)
(* (ipc.c:755), which is why mutexes use priorities: an owner runs at least *)
(* as urgently as every thread that waits for it.                          *)
NoInversion ==
    \A m \in Mutexes : \A x \in Linked(mutex[m].list) :
        rt.prio[mutex[m].owner] <= rt.prio[x]

(* What inheritance is for: while x waits for a mutex whose owner could     *)
(* run, the processor is not with a thread less urgent than x, but for the  *)
(* steps until the rt_schedule that is still owed.                         *)
InversionBounded ==
    \A m \in Mutexes : \A x \in Linked(mutex[m].list) :
        /\ rt.stat[mutex[m].owner] \in {"READY", "RUNNING"}
        /\ ~owed /\ pc[rt.current] \in {"run", "woken"}
        => rt.prio[rt.current] <= rt.prio[x]

(* A release takes back what the owner inherited ("change the owner thread  *)
(* to original priority", ipc.c:1128): whoever owns no mutex has its own    *)
(* priority, and inheriting never makes a thread less urgent.  A deletion   *)
(* does not: rt_mutex_detach and rt_mutex_delete (ipc.c:781, 865) leave the *)
(* owner what it inherited, which is its own priority from there on, and    *)
(* the one every later release comes back to.                              *)
BaseRestored ==
    \A t \in Threads :
        /\ rt.prio[t] <= own[t] /\ own[t] <= Base[t]
        /\ Owned(t) = {} => rt.prio[t] = own[t]
=============================================================================
