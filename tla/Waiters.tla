------------------------------ MODULE Waiters ------------------------------
(***************************************************************************)
(* The threads inside the calls of one IPC object that, unlike a semaphore *)
(* or a mutex, hands nothing to the thread it wakes: a woken thread tests   *)
(* again, and another thread may have been faster.  Mailboxes, message      *)
(* queues, memory pools, data queues and events share it.                   *)
(*                                                                         *)
(* A thread resumed with an error only returns the error, which is its own  *)
(* thread->error, so it is out of the call at once.                        *)
(***************************************************************************)
EXTENDS IpcList, FiniteSets

CONSTANTS
    Threads,  \* the threads that use the object
    Prio,     \* their current_priority
    Flag      \* parent.parent.flag of the object

ASSUME WaitersThreadsAssumption == IsFiniteSet(Threads)
ASSUME WaitersPrioAssumption    == Prio \in [Threads -> Nat]
ASSUME WaitersFlagAssumption    == Flag \in Flags

VARIABLES
    list,    \* list["recv"] is suspend_thread, list["send"] is suspend_sender_thread
    pc,      \* where each thread is, see PCs
    timed,   \* was its call made with a timeout?
    forgot   \* history: a woken thread was deleted before it tested again

waiters == <<list, pc, timed, forgot>>

Sides == {"recv", "send"}

(***************************************************************************)
(* run                    not in a call about this object                  *)
(* recv, send             RT_THREAD_SUSPEND on the list of that name        *)
(* recvAgain, sendAgain   resumed by the other side, not yet in the region  *)
(*                        that tests again                                 *)
(* The other values are those of the message queue, whose calls go on       *)
(* after they have got hold of a block.                                    *)
(***************************************************************************)
Again(side) == IF side = "recv" THEN "recvAgain" ELSE "sendAgain"

PCs == Sides \cup {"recvAgain", "sendAgain", "sendCopy", "urgentCopy",
                   "sendLink", "urgentLink", "recvCopy", "recvFree"}

WaitersInit ==
    /\ list = [side \in Sides |-> <<>>]
    /\ pc = [t \in Threads |-> "run"]
    /\ timed = [t \in Threads |-> FALSE]
    /\ forgot = FALSE

WaitersTypeOK ==
    /\ DOMAIN list = Sides
    /\ \A side \in Sides :
        /\ NoDup(list[side])
        /\ Linked(list[side]) = {t \in Threads : pc[t] = side}
    /\ pc \in [Threads -> PCs \cup {"run"}]
    /\ timed \in [Threads -> BOOLEAN]
    /\ forgot \in BOOLEAN

-----------------------------------------------------------------------------
(* t enters the call, or is in its loop again after it was woken. *)
Tests(t, side) == pc[t] \in {"run", Again(side)}

(* t is suspended, newList being the list with t on it.  ticks says whether *)
(* there is a time left to wait for; only a call that came with one has.    *)
Suspend(t, side, newList, ticks) ==
    /\ pc[t] = Again(side) => ticks = timed[t]
    /\ list' = [list EXCEPT ![side] = newList]
    /\ pc' = [pc EXCEPT ![t] = side]
    /\ timed' = [timed EXCEPT ![t] = ticks]
    /\ UNCHANGED forgot

(* t was woken late, finds nothing, and its time is up. *)
GivesUp(t, side) ==
    /\ pc[t] = Again(side) /\ timed[t]
    /\ pc' = [pc EXCEPT ![t] = "run"]
    /\ timed' = [timed EXCEPT ![t] = FALSE]
    /\ UNCHANGED <<list, forgot>>

First(side) == IF rt_list_isempty(list[side]) THEN {} ELSE {Head(list[side])}

(* A plausible slip: a woken thread stays linked. *)
ResumeKeepsLinked(side, t, next) ==
    /\ pc' = [u \in Threads |-> IF u \in First(side) THEN Again(side)
                                ELSE IF u = t THEN next ELSE pc[u]]
    /\ timed' = [timed EXCEPT ![t] = FALSE]
    /\ UNCHANGED <<list, forgot>>

(* _ipc_list_resume of the list of that side, if anybody is on it, by       *)
(* thread t, which goes to next.                                           *)
ResumeFirst(side, t, next) ==
    /\ list' = [list EXCEPT ![side] = IF @ = <<>> THEN @ ELSE Tail(@)]
    /\ pc' = [u \in Threads |-> IF u \in First(side) THEN Again(side)
                                ELSE IF u = t THEN next ELSE pc[u]]
    /\ timed' = [timed EXCEPT ![t] = FALSE]
    /\ UNCHANGED forgot

Goto(t, next) ==
    /\ pc' = [pc EXCEPT ![t] = next]
    /\ timed' = [timed EXCEPT ![t] = FALSE]
    /\ UNCHANGED <<list, forgot>>

(* _ipc_list_resume_all of both lists, with interrupts disabled. *)
_ipc_list_resume_all ==
    /\ list' = [side \in Sides |-> <<>>]
    /\ pc' = [u \in Threads |-> IF pc[u] \in Sides THEN "run" ELSE pc[u]]
    /\ timed' = [u \in Threads |-> timed[u] /\ pc[u] \notin Sides]
    /\ UNCHANGED forgot

(* x leaves whatever list it is on and is out of the call. *)
Leave(x) ==
    /\ list' = [side \in Sides |-> rt_list_remove(list[side], x)]
    /\ pc' = [pc EXCEPT ![x] = "run"]
    /\ timed' = [timed EXCEPT ![x] = FALSE]

_thread_timeout(x) ==
    /\ pc[x] \in Sides /\ timed[x]
    /\ Leave(x)
    /\ UNCHANGED forgot

(* With interrupts disabled, as Scheduler asks for; x serves a new thread. *)
rt_thread_delete(x) ==
    /\ pc[x] # "run"
    /\ Leave(x)
    /\ forgot' = (forgot \/ \E side \in Sides : pc[x] = Again(side))

(* The object may go: nobody will touch it again.  A thread that was woken  *)
(* or has a block in hand would.                                           *)
NobodyInside == \A t \in Threads : pc[t] \in Sides \cup {"run"}

(* Of n things that are there for the taking, at most as many as threads    *)
(* were woken for are left while another thread is suspended for want of    *)
(* one: nobody waits for what is there.                                    *)
Served(side, n) ==
    \/ rt_list_isempty(list[side])
    \/ n <= Cardinality({t \in Threads : pc[t] = Again(side)})
    \/ forgot
=============================================================================
