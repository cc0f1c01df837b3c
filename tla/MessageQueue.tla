---------------------------- MODULE MessageQueue ----------------------------
(***************************************************************************)
(* A message queue of src/ipc.c.  Its blocks are on the free list or on the *)
(* queue, both chained through next; a sender or receiver takes a block off *)
(* its list with interrupts disabled, copies the message with interrupts    *)
(* enabled, and puts the block on the other list with interrupts disabled.  *)
(***************************************************************************)
EXTENDS Waiters, Chains

CONSTANTS
    Messages,   \* what is sent
    NoMessage,  \* not one of them
    MaxMsgs     \* mq->max_msgs

ASSUME MqMessagesAssumption == NoMessage \notin Messages
ASSUME MqMaxMsgsAssumption  == MaxMsgs \in Nat \ {0}

VARIABLES
    mq,        \* the object, see MqObject
    msg,       \* the local variable msg of each thread: the block in its hand
    carried,   \* history: the message that block is meant to hold
    received,  \* history: the message taken off last since mq was emptied
    lost       \* history: the blocks that went with a deleted thread

mqVars == <<mq, msg, carried, received, lost>>

Blocks == 1 .. MaxMsgs

MqObject == [next  : [Blocks -> Blocks \cup {Null}],
             data  : [Blocks -> Messages \cup {NoMessage}],
             head  : Blocks \cup {Null},
             tail  : Blocks \cup {Null},
             free  : Blocks \cup {Null},
             entry : 0 .. MaxMsgs,
             live  : BOOLEAN]

(* rt_mq_init puts the blocks on the free list one by one, each first. *)
Initialised == [next |-> [b \in Blocks |-> b - 1],
                data |-> [b \in Blocks |-> NoMessage],
                head |-> Null, tail |-> Null, free |-> MaxMsgs,
                entry |-> 0, live |-> TRUE]

MqStored(live) ==
    /\ mq = [Initialised EXCEPT !.live = live]
    /\ msg = [t \in Threads |-> Null]
    /\ carried = [t \in Threads |-> NoMessage]
    /\ received = NoMessage
    /\ lost = {}

MqInit == WaitersInit /\ MqStored(TRUE)

-----------------------------------------------------------------------------
(* rt_mq_send_wait, rt_mq_urgent: the region that takes a free block. *)
TakeBlock(t, next) ==
    /\ mq.live /\ mq.free # Null
    /\ msg' = [msg EXCEPT ![t] = mq.free]
    /\ mq' = [mq EXCEPT !.free = mq.next[mq.free]]
    /\ Goto(t, next)
    /\ UNCHANGED <<carried, received, lost>>

rt_mq_send_wait(t) == Tests(t, "send") /\ TakeBlock(t, "sendCopy")
rt_mq_urgent(t)    == pc[t] = "run" /\ TakeBlock(t, "urgentCopy")

MqSendSuspends(t, ticks) ==
    /\ Tests(t, "send") /\ mq.live /\ mq.free = Null
    /\ Suspend(t, "send", _ipc_list_suspend(list["send"], t, Flag, Prio), ticks)
    /\ UNCHANGED mqVars

MqSendGivesUp(t) ==
    /\ mq.free = Null /\ GivesUp(t, "send")
    /\ UNCHANGED mqVars

(* With interrupts enabled.  rt_mq_urgent leaves next alone. *)
CopyIn(t, m) ==
    /\ pc[t] \in {"sendCopy", "urgentCopy"}
    /\ mq' = [mq EXCEPT !.next[msg[t]] = IF pc[t] = "sendCopy" THEN Null ELSE @,
                        !.data[msg[t]] = m]
    /\ carried' = [carried EXCEPT ![t] = m]
    /\ Goto(t, IF pc[t] = "sendCopy" THEN "sendLink" ELSE "urgentLink")
    /\ UNCHANGED <<msg, received, lost>>

DropBlock(t) ==
    /\ msg' = [msg EXCEPT ![t] = Null]
    /\ carried' = [carried EXCEPT ![t] = NoMessage]

LinkLast(t) ==
    /\ pc[t] = "sendLink"
    /\ mq' = [mq EXCEPT !.next = IF mq.tail # Null
                                 THEN [@ EXCEPT ![mq.tail] = msg[t]] ELSE @,
                        !.tail = msg[t],
                        !.head = IF @ = Null THEN msg[t] ELSE @,
                        !.entry = @ + 1]
    /\ DropBlock(t)
    /\ ResumeFirst("recv", t, "run")
    /\ UNCHANGED <<received, lost>>

(* Plausible slips: the urgent message is not linked to those behind it;    *)
(* the only message in the queue has no tail.                              *)
LinkFirstDropsRest(t) ==
    /\ pc[t] = "urgentLink"
    /\ mq' = [mq EXCEPT !.next[msg[t]] = Null,
                        !.head = msg[t],
                        !.tail = IF @ = Null THEN msg[t] ELSE @,
                        !.entry = @ + 1]
    /\ DropBlock(t)
    /\ ResumeFirst("recv", t, "run")
    /\ UNCHANGED <<received, lost>>

LinkFirstForgetsTail(t) ==
    /\ pc[t] = "urgentLink"
    /\ mq' = [mq EXCEPT !.next[msg[t]] = mq.head,
                        !.head = msg[t],
                        !.entry = @ + 1]
    /\ DropBlock(t)
    /\ ResumeFirst("recv", t, "run")
    /\ UNCHANGED <<received, lost>>

LinkFirst(t) ==
    /\ pc[t] = "urgentLink"
    /\ mq' = [mq EXCEPT !.next[msg[t]] = mq.head,
                        !.head = msg[t],
                        !.tail = IF @ = Null THEN msg[t] ELSE @,
                        !.entry = @ + 1]
    /\ DropBlock(t)
    /\ ResumeFirst("recv", t, "run")
    /\ UNCHANGED <<received, lost>>

-----------------------------------------------------------------------------
(* The object after the first message is unlinked. *)
Unlinked == [mq EXCEPT !.head = mq.next[mq.head],
                       !.tail = IF @ = mq.head THEN Null ELSE @,
                       !.entry = @ - 1]

(* A plausible slip: the block is free as soon as its message is unlinked. *)
RecvFreesEarly(t) ==
    /\ Tests(t, "recv") /\ mq.live /\ mq.entry # 0
    /\ msg' = [msg EXCEPT ![t] = mq.head]
    /\ carried' = [carried EXCEPT ![t] = mq.data[mq.head]]
    /\ received' = mq.data[mq.head]
    /\ mq' = [Unlinked EXCEPT !.next[mq.head] = mq.free, !.free = mq.head]
    /\ Goto(t, "recvCopy")
    /\ UNCHANGED lost

rt_mq_recv(t) ==
    /\ Tests(t, "recv") /\ mq.live /\ mq.entry # 0
    /\ msg' = [msg EXCEPT ![t] = mq.head]
    /\ carried' = [carried EXCEPT ![t] = mq.data[mq.head]]
    /\ received' = mq.data[mq.head]
    /\ mq' = Unlinked
    /\ Goto(t, "recvCopy")
    /\ UNCHANGED lost

MqRecvSuspends(t, ticks) ==
    /\ Tests(t, "recv") /\ mq.live /\ mq.entry = 0
    /\ Suspend(t, "recv", _ipc_list_suspend(list["recv"], t, Flag, Prio), ticks)
    /\ UNCHANGED mqVars

MqRecvGivesUp(t) ==
    /\ mq.entry = 0 /\ GivesUp(t, "recv")
    /\ UNCHANGED mqVars

CopyOut(t) ==
    /\ pc[t] = "recvCopy"
    /\ Goto(t, "recvFree")
    /\ UNCHANGED mqVars

(* A plausible slip: the freed block is announced to the wrong list. *)
FreeWakesReceiver(t) ==
    /\ pc[t] = "recvFree"
    /\ mq' = [mq EXCEPT !.next[msg[t]] = mq.free, !.free = msg[t]]
    /\ DropBlock(t)
    /\ ResumeFirst("recv", t, "run")
    /\ UNCHANGED <<received, lost>>

FreeBlock(t) ==
    /\ pc[t] = "recvFree"
    /\ mq' = [mq EXCEPT !.next[msg[t]] = mq.free, !.free = msg[t]]
    /\ DropBlock(t)
    /\ ResumeFirst("send", t, "run")
    /\ UNCHANGED <<received, lost>>

-----------------------------------------------------------------------------
(* The queue's blocks go to the free list one by one, each first: the chain *)
(* turns round.                                                            *)
Reversed(object) ==
    LET queue == Chain(object.next, object.head) IN
    [object EXCEPT
        !.next = [b \in Blocks |->
                    IF b \notin Linked(queue) THEN object.next[b]
                    ELSE IF b = object.head THEN object.free
                    ELSE queue[Position(queue, b) - 1]],
        !.free = IF queue = <<>> THEN @ ELSE queue[Len(queue)],
        !.head = Null,
        !.tail = IF @ \in Linked(queue) THEN Null ELSE @,
        !.entry = 0]

(* RT_IPC_CMD_RESET, one region.  Blocks in somebody's hand stay there. *)
rt_mq_control ==
    /\ mq.live
    /\ mq' = Reversed(mq)
    /\ received' = NoMessage
    /\ _ipc_list_resume_all
    /\ UNCHANGED <<msg, carried, lost>>

(* rt_mq_detach, rt_mq_delete by a caller that disables interrupts, when     *)
(* nobody is left who would touch the object.                              *)
rt_mq_delete ==
    /\ mq.live /\ NobodyInside
    /\ mq' = [mq EXCEPT !.live = FALSE]
    /\ _ipc_list_resume_all
    /\ UNCHANGED <<msg, carried, received, lost>>

(* rt_mq_init, rt_mq_create at the same place. *)
rt_mq_init ==
    /\ ~mq.live
    /\ mq' = Initialised
    /\ received' = NoMessage
    /\ lost' = {}
    /\ UNCHANGED <<waiters, msg, carried>>

(* A thread that is deleted takes the block in its hand with it. *)
MqThreadDelete(t) ==
    /\ rt_thread_delete(t)
    /\ lost' = lost \cup ({msg[t]} \ {Null})
    /\ DropBlock(t)
    /\ UNCHANGED <<mq, received>>

MqThread(t) ==
    \/ rt_mq_send_wait(t) \/ rt_mq_urgent(t) \/ rt_mq_recv(t)
    \/ \E m \in Messages : CopyIn(t, m)
    \/ LinkLast(t) \/ LinkFirst(t) \/ CopyOut(t) \/ FreeBlock(t)
    \/ \E ticks \in BOOLEAN : MqSendSuspends(t, ticks) \/ MqRecvSuspends(t, ticks)
    \/ MqSendGivesUp(t) \/ MqRecvGivesUp(t)
    \/ _thread_timeout(t) /\ UNCHANGED mqVars
    \/ MqThreadDelete(t)

MqNext ==
    \/ \E t \in Threads : MqThread(t)
    \/ rt_mq_control \/ rt_mq_delete \/ rt_mq_init

MqSpec == MqInit /\ [][MqNext]_<<waiters, mqVars>>

-----------------------------------------------------------------------------
(* Properties *)

MqTypeOK ==
    /\ WaitersTypeOK
    /\ mq \in MqObject
    /\ msg \in [Threads -> Blocks \cup {Null}]
    /\ carried \in [Threads -> Messages \cup {NoMessage}]
    /\ received \in Messages \cup {NoMessage}
    /\ lost \subseteq Blocks

(* Every block is in one place: on the free list, on the queue, in one      *)
(* thread's hand, or gone with a deleted thread; the queue has as many as   *)
(* entry says and ends at tail.                                            *)
BlocksConserved ==
    LET free  == Chain(mq.next, mq.free)
        queue == Chain(mq.next, mq.head)
        held  == {t \in Threads : msg[t] # Null}
        hands == {msg[t] : t \in held}
    IN  /\ NoDup(free \o queue)
        /\ Cardinality(held) = Cardinality(hands)
        /\ (Linked(free \o queue) \cup hands) \cap lost = {}
        /\ Linked(free \o queue) \cap hands = {}
        /\ Linked(free \o queue) \cup hands \cup lost = Blocks
        /\ mq.entry = Len(queue)
        /\ mq.tail = IF queue = <<>> THEN Null ELSE queue[Len(queue)]

(* Nobody writes to a block while another thread copies from it, or before  *)
(* its message is linked.                                                   *)
CopiedIntact ==
    \A t \in Threads : carried[t] # NoMessage => mq.data[msg[t]] = carried[t]

(* Nobody waits for a message that is there, nor for a block that is free. *)
MqServed == mq.live =>
    /\ Served("recv", mq.entry)
    /\ Served("send", Len(Chain(mq.next, mq.free)))

MqChannel == INSTANCE Channel WITH
    Msgs <- Messages, NoMsg <- NoMessage, Capacity <- MaxMsgs,
    q <- LET queue == Chain(mq.next, mq.head)
         IN  [i \in DOMAIN queue |-> mq.data[queue[i]]],
    got <- received

(* Every message comes out once, in the order in which the senders linked   *)
(* them, urgent ones first.                                                *)
MqImplementsChannel == MqChannel!Spec
=============================================================================
