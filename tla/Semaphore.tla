----------------------------- MODULE Semaphore -----------------------------
(***************************************************************************)
(* A counting semaphore of src/ipc.c: take with and without a timeout,     *)
(* release from threads and interrupts, reset, and deletion under the feet *)
(* of its waiters, with the thread timer and rt_thread_delete as they act  *)
(* on a waiting thread.                                                    *)
(*                                                                         *)
(* A region with interrupts disabled is one step.  Which thread runs       *)
(* between two regions is left open: whatever rt_schedule would choose,    *)
(* and whichever interrupt comes in, is among the behaviours.              *)
(***************************************************************************)
EXTENDS IpcList, FiniteSets

CONSTANTS
    Threads,        \* the threads that use the semaphore
    Prio,           \* their current_priority
    MaxValue,       \* RT_SEM_VALUE_MAX
    CallerMasksIrq  \* is rt_sem_delete called with interrupts disabled?

ASSUME SemThreadsAssumption == IsFiniteSet(Threads)
ASSUME SemPrioAssumption    == Prio \in [Threads -> Nat]
ASSUME SemValueAssumption   == MaxValue \in Nat \ {0}
ASSUME SemMasksAssumption   == CallerMasksIrq \in BOOLEAN

VARIABLES
    sem,      \* the object, see Object
    pc,       \* where each thread is, see PCs
    error,    \* thread->error
    timed,    \* was rt_sem_take called with a timeout?
    timer,    \* thread_timer is active
    arrived,  \* history: the waiters in the order they arrived
    era       \* history: flips when the tokens are counted anew

thread == <<pc, error, timed, timer>>
vars   == <<sem, thread, arrived, era>>

Object == [value : 0 .. MaxValue, flag : Flags, live : BOOLEAN,
           list  : Seq(Threads)]

(***************************************************************************)
(* run        not in a call about this semaphore                           *)
(* waiting    RT_THREAD_SUSPEND on the list                                *)
(* woken      resumed, not yet past rt_schedule in rt_sem_take             *)
(* resumeall  at the emptiness test of _ipc_list_resume_all                *)
(* pop        past the test, before interrupts are disabled                *)
(* object     list seen empty, before rt_object_detach / _delete           *)
(***************************************************************************)
PCs == {"run", "waiting", "woken", "resumeall", "pop", "object"}

Deleting == {"resumeall", "pop", "object"}

Errors == {"EOK", "ETIMEOUT", "ERROR"}

Init ==
    /\ sem \in [value : 0 .. MaxValue, flag : Flags, live : {TRUE}, list : {<<>>}]
    /\ pc = [t \in Threads |-> "run"]
    /\ error = [t \in Threads |-> "EOK"]
    /\ timed = [t \in Threads |-> FALSE]
    /\ timer = [t \in Threads |-> FALSE]
    /\ arrived = <<>>
    /\ era = 0

-----------------------------------------------------------------------------
(* Interrupts, and with them other threads, get in. *)
Enabled == CallerMasksIrq => \A u \in Threads : pc[u] \notin Deleting

Calls(t) == Enabled /\ pc[t] = "run" /\ sem.live

(* A plausible slip: rt_thread_suspend after rt_timer_start, which it undoes. *)
ArmBeforeSuspend(t, ticks) ==
    /\ Calls(t) /\ sem.value = 0
    /\ sem' = [sem EXCEPT !.list = _ipc_list_suspend(@, t, sem.flag, Prio)]
    /\ pc' = [pc EXCEPT ![t] = "waiting"]
    /\ error' = [error EXCEPT ![t] = "EOK"]
    /\ timed' = [timed EXCEPT ![t] = ticks]
    /\ UNCHANGED timer
    /\ arrived' = Append(arrived, t)
    /\ UNCHANGED era

(* rt_sem_take when there is a token ... *)
TakeToken(t) ==
    /\ Calls(t) /\ sem.value > 0
    /\ sem' = [sem EXCEPT !.value = @ - 1]
    /\ UNCHANGED <<thread, arrived, era>>

(* ... and when there is none; without waiting it then changes nothing.     *)
(* ticks: with a timeout, else forever.                                    *)
TakeSuspends(t, ticks) ==
    /\ Calls(t) /\ sem.value = 0
    /\ sem' = [sem EXCEPT !.list = _ipc_list_suspend(@, t, sem.flag, Prio)]
    /\ pc' = [pc EXCEPT ![t] = "waiting"]
    /\ error' = [error EXCEPT ![t] = "EOK"]
    /\ timed' = [timed EXCEPT ![t] = ticks]
    /\ timer' = [timer EXCEPT ![t] = ticks]
    /\ arrived' = Append(arrived, t)
    /\ UNCHANGED era

(* rt_sem_take comes back from rt_schedule and returns thread->error. *)
TakeReturns(t) ==
    /\ Enabled /\ pc[t] = "woken"
    /\ pc' = [pc EXCEPT ![t] = "run"]
    /\ UNCHANGED <<sem, error, timed, timer, arrived, era>>

(* A plausible slip: a waiter that was handed its token can still time out. *)
WakeLeavesTimer(x, e) ==
    /\ pc' = [pc EXCEPT ![x] = "woken"]
    /\ error' = [error EXCEPT ![x] = e]
    /\ arrived' = rt_list_remove(arrived, x)
    /\ UNCHANGED <<timed, timer>>

(* x leaves the list and is ready again, its timer off. *)
Wake(x, e) ==
    /\ pc' = [pc EXCEPT ![x] = "woken"]
    /\ error' = [error EXCEPT ![x] = e]
    /\ timer' = [timer EXCEPT ![x] = FALSE]
    /\ arrived' = rt_list_remove(arrived, x)
    /\ UNCHANGED timed

_thread_timeout(t) ==
    /\ Enabled /\ timer[t]
    /\ sem' = [sem EXCEPT !.list = rt_list_remove(@, t)]
    /\ Wake(t, "ETIMEOUT")
    /\ UNCHANGED era

(* Plausible slips: the count has no limit; it goes up for a waiter as well. *)
ReleaseNoLimit ==
    /\ Enabled /\ sem.live
    /\ IF rt_list_isempty(sem.list)
       THEN sem' = [sem EXCEPT !.value = @ + 1] /\ UNCHANGED <<thread, arrived>>
       ELSE /\ sem' = [sem EXCEPT !.list = rt_list_remove(@, Head(@))]
            /\ Wake(Head(sem.list), error[Head(sem.list)])
    /\ UNCHANGED era

ReleaseAlwaysCounts ==
    /\ Enabled /\ sem.live /\ sem.value < MaxValue
    /\ sem' = [sem EXCEPT !.value = @ + 1,
                          !.list = IF @ = <<>> THEN @ ELSE rt_list_remove(@, Head(@))]
    /\ IF rt_list_isempty(sem.list)
       THEN UNCHANGED <<thread, arrived>>
       ELSE Wake(Head(sem.list), error[Head(sem.list)])
    /\ UNCHANGED era

(* By a thread or an interrupt handler; -RT_EFULL changes nothing. *)
rt_sem_release ==
    /\ Enabled /\ sem.live
    /\ IF rt_list_isempty(sem.list)
       THEN /\ sem.value < MaxValue
            /\ sem' = [sem EXCEPT !.value = @ + 1]
            /\ UNCHANGED <<thread, arrived>>
       ELSE LET x == Head(sem.list) IN
            /\ sem' = [sem EXCEPT !.list = rt_list_remove(@, x)]
            /\ Wake(x, error[x])
    /\ UNCHANGED era

(* RT_IPC_CMD_RESET: one region, inside which _ipc_list_resume_all empties  *)
(* the list.  The argument is cut to 16 bits, which is MaxValue's width.    *)
rt_sem_control(v) ==
    /\ Enabled /\ sem.live
    /\ LET all == Linked(sem.list) IN
       /\ sem' = [sem EXCEPT !.list = <<>>, !.value = v % (MaxValue + 1)]
       /\ pc' = [t \in Threads |-> IF t \in all THEN "woken" ELSE pc[t]]
       /\ error' = [t \in Threads |-> IF t \in all THEN "ERROR" ELSE error[t]]
       /\ timer' = [t \in Threads |-> timer[t] /\ t \notin all]
    /\ arrived' = <<>>
    /\ era' = 1 - era
    /\ UNCHANGED timed

Goto(t, l) ==
    /\ pc' = [pc EXCEPT ![t] = l]
    /\ UNCHANGED <<sem, error, timed, timer, arrived, era>>

(* rt_sem_detach, rt_sem_delete.  One thread deletes a semaphore once. *)
rt_sem_delete(t) ==
    /\ Calls(t) /\ \A u \in Threads : pc[u] \notin Deleting
    /\ Goto(t, "resumeall")

ResumeAllTests(t) ==
    /\ pc[t] = "resumeall"
    /\ Goto(t, IF rt_list_isempty(sem.list) THEN "object" ELSE "pop")

(* Taking the first entry of an empty list is undefined: see               *)
(* ResumeAllFindsThread.                                                   *)
ResumeAllPops(t) ==
    /\ pc[t] = "pop" /\ ~rt_list_isempty(sem.list)
    /\ LET x == Head(sem.list) IN
       /\ sem' = [sem EXCEPT !.list = rt_list_remove(@, x)]
       /\ pc' = [pc EXCEPT ![x] = "woken", ![t] = "resumeall"]
       /\ error' = [error EXCEPT ![x] = "ERROR"]
       /\ timer' = [timer EXCEPT ![x] = FALSE]
       /\ arrived' = rt_list_remove(arrived, x)
    /\ UNCHANGED <<timed, era>>

rt_object_delete(t) ==
    /\ pc[t] = "object"
    /\ sem' = [sem EXCEPT !.live = FALSE]
    /\ pc' = [pc EXCEPT ![t] = "run"]
    /\ UNCHANGED <<error, timed, timer, arrived, era>>

(* rt_sem_init, rt_sem_create of a semaphore at the same place. *)
rt_sem_init(t, v, flag) ==
    /\ Enabled /\ pc[t] = "run" /\ ~sem.live
    /\ sem' = [value |-> v, flag |-> flag, live |-> TRUE, list |-> <<>>]
    /\ era' = 1 - era
    /\ UNCHANGED <<thread, arrived>>

(* Somebody deletes x inside its take, and the object serves a new thread.  *)
(* rt_thread_delete with interrupts disabled, as Scheduler asks for.       *)
rt_thread_delete(x) ==
    /\ Enabled /\ pc[x] \in {"waiting", "woken"}
    /\ sem' = [sem EXCEPT !.list = rt_list_remove(@, x)]
    /\ pc' = [pc EXCEPT ![x] = "run"]
    /\ timer' = [timer EXCEPT ![x] = FALSE]
    /\ arrived' = rt_list_remove(arrived, x)
    /\ UNCHANGED <<error, timed, era>>

Next ==
    \/ \E t \in Threads :
        \/ TakeToken(t) \/ (\E ticks \in BOOLEAN : TakeSuspends(t, ticks))
        \/ TakeReturns(t) \/ _thread_timeout(t) \/ rt_thread_delete(t)
        \/ rt_sem_delete(t) \/ ResumeAllTests(t) \/ ResumeAllPops(t)
        \/ rt_object_delete(t)
        \/ \E v \in 0 .. MaxValue, flag \in Flags : rt_sem_init(t, v, flag)
    \/ rt_sem_release
    \/ \E v \in 0 .. MaxValue + 1 : rt_sem_control(v)

Spec == Init /\ [][Next]_vars

(* SysTick keeps coming, at whatever priority the threads run, so an active *)
(* thread timer expires.  Threads are promised nothing: a more urgent one   *)
(* may keep them from running.  A caller that masks interrupts unmasks them.*)
Fairness == \A t \in Threads :
    /\ WF_vars(_thread_timeout(t))
    /\ WF_vars(ResumeAllTests(t) \/ ResumeAllPops(t) \/ rt_object_delete(t))

FairSpec == Spec /\ Fairness

-----------------------------------------------------------------------------
(* Properties *)

TypeOK ==
    /\ sem \in Object
    /\ pc \in [Threads -> PCs]
    /\ error \in [Threads -> Errors]
    /\ timed \in [Threads -> BOOLEAN]
    /\ timer \in [Threads -> BOOLEAN]
    /\ arrived \in Seq(Threads)
    /\ era \in {0, 1}

(* Nobody waits in vain: a suspended thread is on the list where the next   *)
(* release finds it, the semaphore exists, and there is no token left.      *)
WaitsForToken ==
    \A t \in Threads : pc[t] = "waiting" =>
        t \in Linked(sem.list) /\ sem.live /\ sem.value = 0

(* The list is in the order the flag asks for, first come first served      *)
(* among equals, whoever left from its middle by a timeout or a deletion.   *)
WaitersInOrder ==
    \A i, j \in DOMAIN sem.list : i < j =>
        LET x == sem.list[i]  y == sem.list[j]
            before == Position(arrived, x) < Position(arrived, y)
        IN  IF sem.flag = "FIFO" THEN before
            ELSE Prio[x] < Prio[y] \/ (Prio[x] = Prio[y] /\ before)

(* RT_ASSERT of rt_thread_resume (thread.c:890), reached from               *)
(* _ipc_list_resume_all: what it resumes is a thread, so its list is not    *)
(* empty when it takes the first entry.                                    *)
ResumeAllFindsThread ==
    \A t \in Threads : pc[t] = "pop" => ~rt_list_isempty(sem.list)

(* Resumed by a release, and not back from rt_sem_take yet: a token on its way. *)
Granted == {t \in Threads : pc[t] = "woken" /\ error[t] = "EOK"}

T == INSTANCE Tokens WITH
        tokens <- sem.value + Cardinality(Granted),
        taking <- {t \in Threads : pc[t] \in {"waiting", "woken"}}

(* Timeout, hand-over, deletion and reset race for the waiters, and still   *)
(* no token is lost or made twice.                                         *)
ImplementsTokens == T!Spec

(* A take with a timeout does not wait forever. *)
TimedTakeReturns ==
    \A t \in Threads : (pc[t] = "waiting" /\ timed[t]) ~> pc[t] # "waiting"
=============================================================================
