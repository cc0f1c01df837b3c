----------------------------- MODULE DataQueue -----------------------------
(***************************************************************************)
(* The data queue of components/drivers/ipc/dataqueue.c: a ring of items    *)
(* with two indices and two flags, whose pushers are woken only when the    *)
(* ring has drained to the low water mark.  list["send"] is                 *)
(* suspended_push_list, list["recv"] is suspended_pop_list.                 *)
(***************************************************************************)
EXTENDS Waiters

CONSTANTS
    Items,    \* what is pushed
    NoItem,   \* not one of them
    DqSize,   \* queue->size
    Lwm       \* queue->lwm

ASSUME DqItemsAssumption == NoItem \notin Items
ASSUME DqSizeAssumption  == DqSize \in Nat \ {0} /\ Lwm \in Nat

VARIABLES
    dq,       \* the object, see DqObject
    popped    \* history: the item popped last since dq was emptied

dqVars == <<dq, popped>>

(* resetting: rt_data_queue_reset has emptied the ring and not yet woken    *)
(* everybody.  found: the list it has found somebody on, and whom it is      *)
(* about to wake.                                                          *)
DqObject == [queue     : [0 .. DqSize - 1 -> Items \cup {NoItem}],
             get_index : 0 .. DqSize - 1,
             put_index : 0 .. DqSize - 1,
             is_empty  : BOOLEAN,
             is_full   : BOOLEAN,
             resetting : BOOLEAN,
             found     : Sides \cup {"none"},
             magic     : BOOLEAN]

EmptyQueue == [queue |-> [i \in 0 .. DqSize - 1 |-> NoItem],
               get_index |-> 0, put_index |-> 0,
               is_empty |-> TRUE, is_full |-> FALSE,
               resetting |-> FALSE, found |-> "none", magic |-> TRUE]

DqStored(live) == dq = [EmptyQueue EXCEPT !.magic = live] /\ popped = NoItem

DqInit == WaitersInit /\ DqStored(TRUE)

-----------------------------------------------------------------------------
Following(index) == IF index + 1 = DqSize THEN 0 ELSE index + 1

rt_data_queue_len(object) ==
    IF object.is_empty THEN 0
    ELSE IF object.put_index > object.get_index
         THEN object.put_index - object.get_index
         ELSE DqSize + object.put_index - object.get_index

(* A plausible slip: the flag is_full is set when the last slot is reached. *)
PushFullAtEnd(t, item) ==
    /\ Tests(t, "send") /\ dq.magic /\ ~dq.is_full
    /\ dq' = [dq EXCEPT !.queue[dq.put_index] = item,
                        !.put_index = Following(@),
                        !.is_empty = FALSE,
                        !.is_full = (Following(dq.put_index) = 0)]
    /\ ResumeFirst("recv", t, "run")
    /\ UNCHANGED popped

rt_data_queue_push(t, item) ==
    /\ Tests(t, "send") /\ dq.magic /\ ~dq.is_full
    /\ dq' = [dq EXCEPT !.queue[dq.put_index] = item,
                        !.put_index = Following(@),
                        !.is_empty = FALSE,
                        !.is_full = (Following(dq.put_index) = dq.get_index)]
    /\ ResumeFirst("recv", t, "run")
    /\ UNCHANGED popped

(* Each time round the loop the whole timeout begins again, so nobody gives *)
(* up after having been woken.                                             *)
DqPushSuspends(t, ticks) ==
    /\ Tests(t, "send") /\ dq.magic /\ dq.is_full
    /\ Suspend(t, "send", rt_list_insert_before(list["send"], t), ticks)
    /\ UNCHANGED dqVars

Drained == [dq EXCEPT !.get_index = Following(@),
                      !.is_full = FALSE,
                      !.is_empty = (Following(dq.get_index) = dq.put_index)]

rt_data_queue_pop(t) ==
    /\ Tests(t, "recv") /\ dq.magic /\ ~dq.is_empty
    /\ popped' = dq.queue[dq.get_index]
    /\ dq' = Drained
    /\ IF rt_data_queue_len(Drained) <= Lwm
       THEN ResumeFirst("send", t, "run")
       ELSE Goto(t, "run")

DqPopSuspends(t, ticks) ==
    /\ Tests(t, "recv") /\ dq.magic /\ dq.is_empty
    /\ Suspend(t, "recv", rt_list_insert_before(list["recv"], t), ticks)
    /\ UNCHANGED dqVars

(* rt_data_queue_reset: the ring is emptied in one region, ... *)
rt_data_queue_reset ==
    /\ dq.magic /\ ~dq.resetting
    /\ dq' = [dq EXCEPT !.get_index = 0, !.put_index = 0, !.is_empty = TRUE,
                        !.is_full = FALSE, !.resetting = TRUE]
    /\ popped' = NoItem
    /\ UNCHANGED waiters

(* ... and then the waiters are woken one region each, first those that     *)
(* pop.  Whether there is one is tested with interrupts enabled. *)
ResetTests ==
    /\ dq.resetting /\ dq.found = "none"
    /\ \/ \E side \in Sides :
            /\ ~rt_list_isempty(list[side])
            /\ side = "send" => rt_list_isempty(list["recv"])
            /\ dq' = [dq EXCEPT !.found = side]
       \/ /\ rt_list_isempty(list["recv"]) /\ rt_list_isempty(list["send"])
          /\ dq' = [dq EXCEPT !.resetting = FALSE]
    /\ UNCHANGED <<waiters, popped>>

(* Who is first by now is woken.  If timeouts have emptied the list since    *)
(* the test, the code takes the head of the list for a thread: what it does  *)
(* then is undefined, and no step here.                                     *)
ResetWakes ==
    /\ dq.resetting /\ dq.found # "none" /\ ~rt_list_isempty(list[dq.found])
    /\ Leave(Head(list[dq.found]))
    /\ dq' = [dq EXCEPT !.found = "none"]
    /\ UNCHANGED <<popped, forgot>>

(* The end of rt_data_queue_deinit, when nobody is left who would touch the *)
(* queue.                                                                  *)
rt_data_queue_deinit ==
    /\ dq.magic /\ ~dq.resetting /\ dq.is_empty
    /\ \A t \in Threads : pc[t] = "run"
    /\ dq' = [dq EXCEPT !.magic = FALSE]
    /\ UNCHANGED <<waiters, popped>>

rt_data_queue_init ==
    /\ ~dq.magic
    /\ dq' = EmptyQueue
    /\ popped' = NoItem
    /\ UNCHANGED waiters

DqThread(t) ==
    \/ \E item \in Items : rt_data_queue_push(t, item)
    \/ rt_data_queue_pop(t)
    \/ \E ticks \in BOOLEAN : DqPushSuspends(t, ticks) \/ DqPopSuspends(t, ticks)
    \/ (_thread_timeout(t) \/ rt_thread_delete(t)) /\ UNCHANGED dqVars

DqNext ==
    \/ \E t \in Threads : DqThread(t)
    \/ rt_data_queue_reset \/ ResetTests \/ ResetWakes
    \/ rt_data_queue_deinit \/ rt_data_queue_init

DqSpec == DqInit /\ [][DqNext]_<<waiters, dqVars>>

-----------------------------------------------------------------------------
(* Properties *)

DqTypeOK ==
    /\ WaitersTypeOK
    /\ dq \in DqObject
    /\ popped \in Items \cup {NoItem}

(* Nobody waits for an item that is there; and although a pop above the low *)
(* water mark wakes no pusher, and one below it only one, an empty queue    *)
(* never has all its pushers asleep, except while it is reset.              *)
DqServed == dq.magic =>
    /\ Served("recv", rt_data_queue_len(dq))
    /\ dq.is_empty /\ ~dq.resetting => Served("send", 1)

ItemsOf(object) == [i \in 1 .. rt_data_queue_len(object) |->
    object.queue[(object.get_index + i - 1) % DqSize]]

DqChannel == INSTANCE Channel WITH
    Msgs <- Items, NoMsg <- NoItem, Capacity <- DqSize,
    q <- ItemsOf(dq), got <- popped

(* Every item comes out once and in order, with both flags telling an empty *)
(* ring from a full one.                                                   *)
DqImplementsChannel == DqChannel!Spec
=============================================================================
