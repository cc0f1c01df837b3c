----------------------------- MODULE WorkQueue -----------------------------
(***************************************************************************)
(* A work queue of components/drivers/ipc/workqueue.c: works submitted at   *)
(* once or after a delay by threads, interrupt handlers and work functions, *)
(* timers that move the delayed ones, and the thread that executes them.    *)
(*                                                                         *)
(* Soft timers are off in rtconfig.h: the timeout handler runs in SysTick   *)
(* with interrupts disabled.                                               *)
(***************************************************************************)
EXTENDS RtList, FiniteSets

CONSTANTS
    Works,      \* the work items
    Nothing,    \* not one of them
    Callers,    \* those who may be inside rt_workqueue_submit_work at a time
    Careful     \* a work with a delay is only submitted again with a delay,
                \* and nobody cancels it while it is being submitted

ASSUME WorksAssumption   == IsFiniteSet(Works) /\ Nothing \notin Works
ASSUME CarefulAssumption == Careful \in BOOLEAN

VARIABLES
    work_list,     \* queue->work_list
    delayed_list,  \* queue->delayed_list, its order of no account
    work_current,  \* queue->work_current
    work,          \* the work items, see Item
    worker,        \* where queue->work_thread is, see PCs
    starting,      \* the work a caller has put on the delayed list and whose
                   \* timer it is about to start
    accepted,      \* history: works submitted with RT_EOK, neither executed
                   \* nor cancelled since
    dropped,       \* history: those taken off the lists because they executed
    clash          \* history: works submitted again or cancelled while a caller
                   \* was about to start their timer, and one still is

wqVars == <<work_list, delayed_list, work_current, work, worker, starting, accepted,
            dropped, clash>>

(* timer: none before rt_timer_init and after rt_timer_detach. *)
Item == [queue      : BOOLEAN,     \* work->workqueue is not RT_NULL
         pending    : BOOLEAN,     \* RT_WORK_STATE_PENDING
         submitting : BOOLEAN,     \* RT_WORK_STATE_SUBMITTING
         timer      : {"none", "stopped", "active"}]

(***************************************************************************)
(* test     at the head of the loop of _workqueue_thread_entry              *)
(* asleep   RT_THREAD_SUSPEND, with nothing to do                           *)
(* work     in the work function                                            *)
(* clean    the work function has returned                                  *)
(***************************************************************************)
PCs == {"test", "asleep", "work", "clean"}

WqInit ==
    /\ work_list = <<>> /\ delayed_list = {} /\ work_current = Nothing
    /\ work = [w \in Works |-> [queue |-> FALSE, pending |-> FALSE,
                                submitting |-> FALSE, timer |-> "none"]]
    /\ worker = "test"
    /\ starting = [c \in Callers |-> Nothing]
    /\ accepted = {} /\ dropped = {} /\ clash = {}

-----------------------------------------------------------------------------
(* rt_list_remove(&work->list): off whatever list it is on. *)
Unlinked(w) == rt_list_remove(work_list, w)

(* A plausible slip: the worker is resumed if no work executes and another  *)
(* one is already waiting.                                                 *)
WokenIfBusy ==
    IF work_current = Nothing /\ worker = "asleep" /\ work_list # <<>> THEN "test" ELSE worker

(* The end of each submission: the worker is resumed if it sleeps.  It is   *)
(* suspended with work_current set only when a work function waits.        *)
Woken == IF work_current = Nothing /\ worker = "asleep" THEN "test" ELSE worker

Accept(w) == accepted' = accepted \cup {w} /\ dropped' = dropped \ {w}

(* A caller is between linking w and starting its timer. *)
BeingStarted(w) == \E c \in Callers : starting[c] = w

Clashing(w) == IF BeingStarted(w) THEN clash \cup {w} ELSE clash

(* _workqueue_submit_work without a delay.  A work that executes is taken   *)
(* off the lists all the same, and -RT_EBUSY returned.                      *)
rt_workqueue_dowork(w) ==
    /\ Careful => ~work[w].submitting
    /\ delayed_list' = delayed_list \ {w}
    /\ worker' = Woken
    /\ IF work_current # w
       THEN /\ work_list' = Append(Unlinked(w), w)
            /\ work' = [work EXCEPT ![w].pending = TRUE, ![w].queue = TRUE]
            /\ Accept(w)
       ELSE /\ work_list' = Unlinked(w)
            /\ work' = [work EXCEPT ![w].pending = FALSE]
            /\ dropped' = dropped \cup {w} /\ UNCHANGED accepted
    /\ UNCHANGED <<work_current, starting, clash>>

(* With a delay: linked, its timer initialised or stopped, in one region... *)
rt_workqueue_submit_work(c, w) ==
    /\ starting[c] = Nothing
    /\ starting' = [starting EXCEPT ![c] = w]
    /\ work_list' = Unlinked(w)
    /\ delayed_list' = delayed_list \cup {w}
    /\ work' = [work EXCEPT ![w] = [queue |-> TRUE, pending |-> FALSE,
                                    submitting |-> TRUE, timer |-> "stopped"]]
    /\ Accept(w)
    /\ clash' = Clashing(w)
    /\ UNCHANGED <<work_current, worker>>

(* ... and started with interrupts enabled again.  If it was detached in     *)
(* between, RT_ASSERT of rt_timer_start (timer.c:409) fails and the caller   *)
(* stays in rt_assert_handler: no action of its own any more.               *)
SubmitStarts(c) ==
    /\ starting[c] # Nothing /\ work[starting[c]].timer # "none"
    /\ work' = [work EXCEPT ![starting[c]].timer = "active"]
    /\ starting' = [starting EXCEPT ![c] = Nothing]
    /\ clash' = {w \in clash : BeingStarted(w)'}
    /\ UNCHANGED <<work_list, delayed_list, work_current, worker, accepted, dropped>>

(* Neither workqueue nor the flags are touched, nor is the current work     *)
(* refused.                                                                *)
rt_workqueue_urgent_work(w) ==
    /\ Careful => ~work[w].submitting
    /\ work_list' = rt_list_insert_after(Unlinked(w), w)
    /\ delayed_list' = delayed_list \ {w}
    /\ worker' = Woken
    /\ Accept(w)
    /\ UNCHANGED <<work_current, work, starting, clash>>

(* Also by rt_workqueue_cancel_work_sync of a work that does not execute.   *)
(* rt_workqueue_cancel_all_work, which looks for the first work of each list *)
(* with interrupts enabled, is not modelled.                               *)
rt_workqueue_cancel_work(w) ==
    /\ Careful => ~BeingStarted(w)
    /\ work_list' = Unlinked(w)
    /\ delayed_list' = delayed_list \ {w}
    /\ work' = [work EXCEPT ![w] = [queue |-> FALSE, pending |-> FALSE, submitting |-> FALSE,
                    timer |-> IF @.submitting THEN "none" ELSE @.timer]]
    /\ accepted' = accepted \ {w} /\ dropped' = dropped \ {w}
    /\ clash' = Clashing(w)
    /\ UNCHANGED <<work_current, worker, starting>>

(* The delay is over.  A work that executes just then is not queued. *)
_delayed_work_timeout_handler(w) ==
    /\ work[w].timer = "active"
    /\ delayed_list' = delayed_list \ {w}
    /\ IF work_current # w
       THEN work_list' = Append(Unlinked(w), w) /\ UNCHANGED dropped
       ELSE work_list' = Unlinked(w) /\ dropped' = dropped \cup {w}
    /\ work' = [work EXCEPT ![w].timer = "none", ![w].submitting = FALSE,
                            ![w].pending = @ \/ work_current # w]
    /\ worker' = Woken
    /\ UNCHANGED <<work_current, starting, accepted, clash>>

-----------------------------------------------------------------------------
(* _workqueue_thread_entry.  Being resumed before it has switched away, it  *)
(* goes on.                                                                *)
WorkerSleeps ==
    /\ worker = "test" /\ work_list = <<>>
    /\ worker' = "asleep"
    /\ UNCHANGED <<work_list, delayed_list, work_current, work, starting, accepted,
                   dropped, clash>>

WorkerTakes ==
    /\ worker = "test" /\ work_list # <<>>
    /\ LET w == Head(work_list) IN
       /\ work_list' = Tail(work_list)
       /\ work_current' = w
       /\ work' = [work EXCEPT ![w].pending = FALSE, ![w].queue = FALSE]
       /\ accepted' = accepted \ {w}
    /\ worker' = "work"
    /\ UNCHANGED <<delayed_list, starting, dropped, clash>>

WorkDone ==
    /\ worker = "work"
    /\ worker' = "clean"
    /\ UNCHANGED <<work_list, delayed_list, work_current, work, starting, accepted,
                   dropped, clash>>

(* The store to work_current; _workqueue_work_completion then wakes all who *)
(* wait in rt_workqueue_cancel_work_sync and leaves the semaphore at 0.     *)
WorkerCleans ==
    /\ worker = "clean"
    /\ work_current' = Nothing
    /\ worker' = "test"
    /\ UNCHANGED <<work_list, delayed_list, work, starting, accepted, dropped, clash>>

WqNext ==
    \/ \E w \in Works :
        \/ rt_workqueue_dowork(w) \/ rt_workqueue_urgent_work(w)
        \/ rt_workqueue_cancel_work(w) \/ _delayed_work_timeout_handler(w)
        \/ \E c \in Callers : rt_workqueue_submit_work(c, w)
    \/ \E c \in Callers : SubmitStarts(c)
    \/ WorkerSleeps \/ WorkerTakes \/ WorkDone \/ WorkerCleans

-----------------------------------------------------------------------------
(* Properties *)

(* A submission that returned RT_EOK is not lost: the work is listed, once, *)
(* for a worker that is not asleep, or delayed with a timer that runs, or    *)
(* that is stopped and about to be started.                                *)
(* Excepted is the work that executes when its delay ends, which the        *)
(* handler drops, or when rt_workqueue_dowork refuses it, which also takes  *)
(* off the list what rt_workqueue_urgent_work had queued.                   *)
(* And a caller finds the timer it starts to be one (the assertion of        *)
(* rt_timer_start) unless the work was submitted again, or cancelled, after  *)
(* it had linked it: then the timer may have fired or been detached.         *)
AcceptedIsHeld ==
    /\ worker = "asleep" => work_list = <<>>
    /\ NoDup(work_list) /\ Linked(work_list) \cap delayed_list = {}
    /\ \A w \in accepted :
        \/ w \in Linked(work_list)
        \/ /\ w \in delayed_list /\ work[w].queue
           /\ \/ work[w].timer = "active"
              \/ work[w].timer = "stopped" /\ BeingStarted(w)
        \/ w \in dropped
    /\ \A w \in Works : BeingStarted(w) /\ work[w].timer = "none" => w \in clash

(* RT_ASSERT(queue != RT_NULL) of _delayed_work_timeout_handler. *)
HandlerFindsQueue ==
    [][\A w \in Works : _delayed_work_timeout_handler(w) => work[w].queue]_wqVars
=============================================================================
