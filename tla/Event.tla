------------------------------- MODULE Event -------------------------------
(***************************************************************************)
(* An event set of src/ipc.c.  Unlike the other objects with waiters that   *)
(* test again, a send decides for each waiter whether it has what it asked  *)
(* for, and takes the bits on its behalf.                                   *)
(***************************************************************************)
EXTENDS Waiters

CONSTANT Bits    \* the events in use, of 32

VARIABLES
    event,       \* the object: its set of events, and whether it exists
    event_set,   \* thread->event_set: what it waits for, or got when woken
    event_info,  \* thread->event_info, see Options
    asked        \* history: the set of the call the thread is in

eventVars == <<event, event_set, event_info, asked>>

(* RT_EVENT_FLAG_AND or else RT_EVENT_FLAG_OR, with or without               *)
(* RT_EVENT_FLAG_CLEAR.                                                     *)
Options == [all : BOOLEAN, clear : BOOLEAN]

NoOption == [all |-> FALSE, clear |-> FALSE]

EventStored(live) ==
    /\ event = [set |-> {}, live |-> live]
    /\ event_set = [t \in Threads |-> {}]
    /\ event_info = [t \in Threads |-> NoOption]
    /\ asked = [t \in Threads |-> {}]

EventInit == WaitersInit /\ EventStored(TRUE)

-----------------------------------------------------------------------------
Satisfied(want, option, set) ==
    IF option.all THEN want \subseteq set ELSE want \cap set # {}

(* The walk of rt_event_send along the waiters begins with everybody linked  *)
(* and nobody resumed.                                                     *)
WalkStart(set) == [set |-> set, left |-> list["recv"], woken |-> {}, got |-> event_set]

(* Plausible slips: the walk ends at the first thread it resumes; what one   *)
(* waiter clears is still there for the next one.                          *)
VisitFirstOnly(walk, t) ==
    IF walk.woken # {} \/ ~Satisfied(event_set[t], event_info[t], walk.set) THEN walk
    ELSE LET option == event_info[t]
             got == IF option.all THEN event_set[t] ELSE event_set[t] \cap walk.set
         IN  [set   |-> IF option.clear THEN walk.set \ got ELSE walk.set,
              left  |-> rt_list_remove(walk.left, t),
              woken |-> walk.woken \cup {t},
              got   |-> [walk.got EXCEPT ![t] = got]]

VisitKeepsBits(walk, t) ==
    IF ~Satisfied(event_set[t], event_info[t], walk.set) THEN walk
    ELSE LET option == event_info[t]
             got == IF option.all THEN event_set[t] ELSE event_set[t] \cap walk.set
         IN  [set   |-> walk.set,
              left  |-> rt_list_remove(walk.left, t),
              woken |-> walk.woken \cup {t},
              got   |-> [walk.got EXCEPT ![t] = got]]

(* One step of it: a waiter that has what it asked for is unlinked and       *)
(* resumed with its bits, which are cleared if it said so.                  *)
Visit(walk, t) ==
    IF ~Satisfied(event_set[t], event_info[t], walk.set) THEN walk
    ELSE LET option == event_info[t]
             got == IF option.all THEN event_set[t] ELSE event_set[t] \cap walk.set
         IN  [set   |-> IF option.clear THEN walk.set \ got ELSE walk.set,
              left  |-> rt_list_remove(walk.left, t),
              woken |-> walk.woken \cup {t},
              got   |-> [walk.got EXCEPT ![t] = got]]

(* What is left of the set, who is left waiting, who is resumed and with     *)
(* what.                                                                   *)
Walk(set) ==
    LET waiting == list["recv"]
        walk[i \in 0 .. Len(waiting)] ==
            IF i = 0 THEN WalkStart(set) ELSE Visit(walk[i - 1], waiting[i])
    IN  walk[Len(waiting)]

(* By a thread or an interrupt handler. *)
rt_event_send(set) ==
    /\ event.live /\ set # {}
    /\ LET end == Walk(event.set \cup set) IN
       /\ event' = [event EXCEPT !.set = end.set]
       /\ event_set' = end.got
       /\ list' = [list EXCEPT !["recv"] = end.left]
       /\ pc' = [t \in Threads |-> IF t \in end.woken THEN "recvAgain" ELSE pc[t]]
    /\ UNCHANGED <<event_info, asked, timed, forgot>>

Forget(gone) ==
    /\ event_set' = [t \in Threads |-> IF t \in gone THEN {} ELSE event_set[t]]
    /\ event_info' = [t \in Threads |-> IF t \in gone THEN NoOption ELSE event_info[t]]
    /\ asked' = [t \in Threads |-> IF t \in gone THEN {} ELSE asked[t]]

(* rt_event_recv when the events are there: it is back at once ... *)
EventRecv(t, set, option) ==
    /\ pc[t] = "run" /\ event.live /\ set # {}
    /\ Satisfied(set, option, event.set)
    /\ event' = [event EXCEPT !.set = IF option.clear THEN @ \ set ELSE @]
    /\ UNCHANGED <<waiters, event_set, event_info, asked>>

(* ... and when they are not. *)
EventRecvSuspends(t, set, option, ticks) ==
    /\ pc[t] = "run" /\ event.live /\ set # {}
    /\ ~Satisfied(set, option, event.set)
    /\ event_set' = [event_set EXCEPT ![t] = set]
    /\ event_info' = [event_info EXCEPT ![t] = option]
    /\ asked' = [asked EXCEPT ![t] = set]
    /\ Suspend(t, "recv", _ipc_list_suspend(list["recv"], t, Flag, Prio), ticks)
    /\ UNCHANGED event

(* A resumed thread returns event_set, without looking at the event again. *)
EventRecvReturns(t) ==
    /\ pc[t] = "recvAgain"
    /\ Goto(t, "run")
    /\ Forget({t})
    /\ UNCHANGED event

EventGone(t) ==
    /\ _thread_timeout(t) \/ rt_thread_delete(t)
    /\ Forget({t})
    /\ UNCHANGED event

(* RT_IPC_CMD_RESET, one region. *)
rt_event_control ==
    /\ event.live
    /\ event' = [event EXCEPT !.set = {}]
    /\ _ipc_list_resume_all
    /\ Forget({t \in Threads : pc[t] = "recv"})

(* rt_event_detach, rt_event_delete by a caller that disables interrupts.   *)
(* A resumed thread does not touch the object any more.                     *)
rt_event_delete ==
    /\ event.live
    /\ event' = [event EXCEPT !.live = FALSE]
    /\ _ipc_list_resume_all
    /\ Forget({t \in Threads : pc[t] = "recv"})

(* rt_event_init, rt_event_create at the same place. *)
rt_event_init ==
    /\ ~event.live
    /\ event' = [set |-> {}, live |-> TRUE]
    /\ UNCHANGED <<waiters, event_set, event_info, asked>>

EventThread(t) ==
    \/ \E set \in SUBSET Bits, option \in Options :
        \/ EventRecv(t, set, option)
        \/ \E ticks \in BOOLEAN : EventRecvSuspends(t, set, option, ticks)
    \/ EventRecvReturns(t) \/ EventGone(t)

EventNext ==
    \/ \E t \in Threads : EventThread(t)
    \/ \E set \in SUBSET Bits : rt_event_send(set)
    \/ rt_event_control \/ rt_event_delete \/ rt_event_init

EventSpec == EventInit /\ [][EventNext]_<<waiters, eventVars>>

-----------------------------------------------------------------------------
(* Properties *)

EventTypeOK ==
    /\ WaitersTypeOK
    /\ event \in [set : SUBSET Bits, live : BOOLEAN]
    /\ event_set \in [Threads -> SUBSET Bits]
    /\ event_info \in [Threads -> Options]
    /\ asked \in [Threads -> SUBSET Bits]

(* Nobody waits for events that are set. *)
EventServed ==
    \A t \in Threads : event.live /\ pc[t] = "recv" =>
        ~Satisfied(event_set[t], event_info[t], event.set)

(* What a send delivers: to each thread it resumes what that thread asked   *)
(* for, and bits that one of them clears to nobody behind it in the list,   *)
(* nor to anybody later.                                                   *)
Woken == {t \in Threads : event.live /\ pc[t] = "recv" /\ pc'[t] = "recvAgain"}

Delivers ==
    \A x \in Woken :
        /\ IF event_info[x].all THEN event_set'[x] = asked[x]
           ELSE event_set'[x] # {} /\ event_set'[x] \subseteq asked[x]
        /\ event_info[x].clear =>
            /\ event_set'[x] \cap event'.set = {}
            /\ \A y \in Woken :
                Position(list["recv"], x) < Position(list["recv"], y)
                    => event_set'[x] \cap event_set'[y] = {}

DeliveredOnce == [][Delivers]_<<waiters, eventVars>>
=============================================================================
