----------------------------- MODULE WaitQueue -----------------------------
(***************************************************************************)
(* The wait queue of components/drivers/ipc/waitqueue.c, with what it is    *)
(* for: a thread looks whether something is there and calls rt_wqueue_wait  *)
(* until it is; who puts it there calls rt_wqueue_wakeup.                   *)
(***************************************************************************)
EXTENDS RtList, FiniteSets

CONSTANTS
    Pollers,     \* threads that wait
    MaxThings    \* bound: things there, and wake-ups owed, at once

ASSUME PollersAssumption == IsFiniteSet(Pollers) /\ MaxThings \in Nat

VARIABLES
    wakeup,         \* queue->flag = RT_WQ_FLAG_WAKEUP
    waiting_list,   \* the nodes on queue->waiting_list, each its thread's
    poller,         \* where each poller is, see PollerPCs
    there,          \* how many of the things the pollers wait for are there
    waking,         \* how many of those who put one there have yet to wake the queue
    alone,          \* one thread at a time looks and waits; never changes
    lost            \* history: a wake-up was lost on a thread it was not meant
                    \* for, and what it announced may still be there

waitqVars == <<wakeup, waiting_list, poller, there, waking, alone, lost>>

(***************************************************************************)
(* run               not interested                                        *)
(* looked            about to call rt_wqueue_wait, having found nothing     *)
(* wait, waitTimed   suspended                                             *)
(* awake             resumed by rt_wqueue_wakeup                           *)
(* remove            the flag is cleared, the node not removed yet          *)
(* again             about to look again                                   *)
(* late, lateRemove  the same after its timeout, the node still linked;     *)
(*                   then it gives up                                      *)
(***************************************************************************)
PollerPCs == {"run", "looked", "wait", "waitTimed", "awake", "remove", "again",
              "late", "lateRemove"}

Suspended == {"wait", "waitTimed"}

WaitqInit ==
    /\ wakeup = FALSE /\ waiting_list = <<>>
    /\ there = 0 /\ waking = 0 /\ lost = FALSE
    /\ alone \in BOOLEAN
    /\ poller = [t \in Pollers |-> "run"]

(* Threads that will look, and more is there than they and the wake-ups to  *)
(* come account for.                                                       *)
OnTheWay == {t \in Pollers : poller[t] \in {"awake", "remove", "again"}}

Unanswered == there > waking + Cardinality(OnTheWay)

-----------------------------------------------------------------------------
(* The caller's side: it looks, and takes one or more of what is there. *)
PollerLooks(t) ==
    /\ poller[t] \in {"run", "again"}
    /\ alone => \A u \in Pollers \ {t} : poller[u] = "run"
    /\ \/ /\ there = 0 /\ UNCHANGED there
          /\ poller' = [poller EXCEPT ![t] = "looked"]
       \/ /\ there' \in 0 .. there - 1
          /\ poller' = [poller EXCEPT ![t] = "run"]
    /\ lost' = (lost /\ there' > 0)
    /\ UNCHANGED <<wakeup, waiting_list, waking>>

(* The other side, which may be several threads: each puts one thing there  *)
(* and then wakes the queue.                                               *)
PutsThere ==
    /\ there < MaxThings /\ waking < MaxThings
    /\ there' = there + 1 /\ waking' = waking + 1
    /\ UNCHANGED <<wakeup, waiting_list, poller, lost>>

(* A plausible slip: a wake-up that came when nobody slept is not heeded. *)
WaitIgnoresFlag(t, suspended) ==
    /\ poller[t] = "looked"
    /\ waiting_list' = Append(waiting_list, t)
    /\ poller' = [poller EXCEPT ![t] = suspended]
    /\ UNCHANGED <<wakeup, there, waking, lost>>

(* Back at once if a wake-up has left its flag, which it clears however many *)
(* have set it; otherwise the node is linked and the thread suspended, in    *)
(* the same region.                                                        *)
rt_wqueue_wait(t, suspended) ==
    /\ poller[t] = "looked"
    /\ UNCHANGED <<there, waking>>
    /\ \/ /\ wakeup /\ wakeup' = FALSE
          /\ poller' = [poller EXCEPT ![t] = "again"]
          /\ lost' = (lost \/ Unanswered')
          /\ UNCHANGED waiting_list
       \/ /\ ~wakeup /\ waiting_list' = Append(waiting_list, t)
          /\ poller' = [poller EXCEPT ![t] = suspended]
          /\ UNCHANGED <<wakeup, lost>>

(* _thread_timeout knows nothing of the node. *)
WaitqTimeout(t) ==
    /\ poller[t] = "waitTimed"
    /\ poller' = [poller EXCEPT ![t] = "late"]
    /\ UNCHANGED <<wakeup, waiting_list, there, waking, lost>>

(* Awake, it clears the flag in one region... *)
WaitResumes(t) ==
    /\ poller[t] \in {"awake", "late"}
    /\ wakeup' = FALSE
    /\ poller' = [poller EXCEPT ![t] = IF @ = "awake" THEN "remove" ELSE "lateRemove"]
    /\ UNCHANGED <<waiting_list, there, waking>>
    /\ lost' = (lost \/ (wakeup /\ Unanswered'))

(* ... and removes its node in another. *)
WaitRemoves(t) ==
    /\ poller[t] \in {"remove", "lateRemove"}
    /\ waiting_list' = rt_list_remove(waiting_list, t)
    /\ poller' = [poller EXCEPT ![t] = IF @ = "remove" THEN "again" ELSE "run"]
    /\ UNCHANGED <<wakeup, there, waking, lost>>

(* The flag is set in any case.  The first node is taken off -- the default *)
(* wake-up function accepts every one -- and its thread resumed if it is    *)
(* suspended.                                                              *)
rt_wqueue_wakeup ==
    /\ waking > 0 /\ waking' = waking - 1
    /\ wakeup' = TRUE
    /\ UNCHANGED there
    /\ \/ waiting_list = <<>> /\ UNCHANGED <<waiting_list, poller, lost>>
       \/ /\ waiting_list # <<>> /\ waiting_list' = Tail(waiting_list)
          /\ LET t == Head(waiting_list) IN
             IF poller[t] \in Suspended
             THEN poller' = [poller EXCEPT ![t] = "awake"] /\ UNCHANGED lost
             ELSE UNCHANGED poller /\ lost' = (lost \/ Unanswered')

WaitqNext ==
    /\ UNCHANGED alone
    /\ \/ \E t \in Pollers :
            \/ PollerLooks(t) \/ WaitqTimeout(t) \/ WaitResumes(t) \/ WaitRemoves(t)
            \/ \E suspended \in Suspended : rt_wqueue_wait(t, suspended)
       \/ PutsThere \/ rt_wqueue_wakeup

-----------------------------------------------------------------------------
(* Properties *)

(* Nobody stays suspended with something there and every wake-up given,      *)
(* unless somebody is on the way who will look.  This holds without          *)
(* exception while one thread at a time looks and waits, however puts and    *)
(* wake-ups fall between its look, its call, its timeout and the removal of  *)
(* its node.  With several threads a wake-up can be lost, in three ways: it  *)
(* takes off the node of a thread whose timeout has come; its flag is        *)
(* cleared by a thread that wakes, in time or late, and meant for another    *)
(* that looked before; and two wake-ups find nobody on the list and leave    *)
(* one flag, for two threads that looked (pipe.c:212-228).  No other way is  *)
(* there: a wake-up is lost only where the flag is cleared, or a late        *)
(* thread's node spent, with more there than anybody is coming for.         *)
WakeupReachesPoller ==
    there > 0 /\ waking = 0 /\ (\E t \in Pollers : poller[t] \in Suspended) =>
        OnTheWay # {} \/ (lost /\ ~alone)
=============================================================================
