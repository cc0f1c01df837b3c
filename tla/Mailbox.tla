------------------------------ MODULE Mailbox ------------------------------
(***************************************************************************)
(* A mailbox of src/ipc.c: a ring of words, senders that wait while it is   *)
(* full and receivers that wait while it is empty.                          *)
(***************************************************************************)
EXTENDS Waiters

CONSTANTS
    Mails,    \* the words that are sent
    NoMail,   \* not one of them
    MbSize    \* mb->size

ASSUME MbMailsAssumption == NoMail \notin Mails
ASSUME MbSizeAssumption  == MbSize \in Nat \ {0}

VARIABLES
    mb,       \* the object, see MbObject
    mail      \* history: the mail received last since mb was emptied

mbVars == <<mb, mail>>

(* msg_pool holds anything where nothing was sent to: here NoMail. *)
MbObject == [msg_pool   : [0 .. MbSize - 1 -> Mails \cup {NoMail}],
             in_offset  : 0 .. MbSize - 1,
             out_offset : 0 .. MbSize - 1,
             entry      : 0 .. MbSize,
             live       : BOOLEAN]

Emptied == [msg_pool |-> [i \in 0 .. MbSize - 1 |-> NoMail],
            in_offset |-> 0, out_offset |-> 0, entry |-> 0, live |-> TRUE]

MbStored(live) == mb = [Emptied EXCEPT !.live = live] /\ mail = NoMail

MbInit == WaitersInit /\ MbStored(TRUE)

-----------------------------------------------------------------------------
Advance(offset) == IF offset + 1 >= MbSize THEN 0 ELSE offset + 1

(* The region of rt_mb_send_wait that finds room. *)
rt_mb_send_wait(t, value) ==
    /\ Tests(t, "send") /\ mb.live /\ mb.entry # MbSize
    /\ mb' = [mb EXCEPT !.msg_pool[mb.in_offset] = value,
                        !.in_offset = Advance(@),
                        !.entry = @ + 1]
    /\ ResumeFirst("recv", t, "run")
    /\ UNCHANGED mail

(* The region that finds none.  Without a timeout nothing changes; a woken  *)
(* sender whose time is up leaves with -RT_EFULL.                           *)
MbSendSuspends(t, ticks) ==
    /\ Tests(t, "send") /\ mb.live /\ mb.entry = MbSize
    /\ Suspend(t, "send", _ipc_list_suspend(list["send"], t, Flag, Prio), ticks)
    /\ UNCHANGED mbVars

MbSendGivesUp(t) ==
    /\ mb.entry = MbSize /\ GivesUp(t, "send")
    /\ UNCHANGED mbVars

(* A plausible slip: the offset is not taken back round the end of the ring. *)
UrgentWrapsToZero(t, value) ==
    /\ pc[t] = "run" /\ mb.live /\ mb.entry # MbSize
    /\ LET out == IF mb.out_offset > 0 THEN mb.out_offset - 1 ELSE 0 IN
       mb' = [mb EXCEPT !.out_offset = out, !.msg_pool[out] = value,
                        !.entry = @ + 1]
    /\ ResumeFirst("recv", t, "run")
    /\ UNCHANGED mail

rt_mb_urgent(t, value) ==
    /\ pc[t] = "run" /\ mb.live /\ mb.entry # MbSize
    /\ LET out == IF mb.out_offset > 0 THEN mb.out_offset - 1 ELSE MbSize - 1 IN
       mb' = [mb EXCEPT !.out_offset = out, !.msg_pool[out] = value,
                        !.entry = @ + 1]
    /\ ResumeFirst("recv", t, "run")
    /\ UNCHANGED mail

rt_mb_recv(t) ==
    /\ Tests(t, "recv") /\ mb.live /\ mb.entry # 0
    /\ mail' = mb.msg_pool[mb.out_offset]
    /\ mb' = [mb EXCEPT !.out_offset = Advance(@), !.entry = @ - 1]
    /\ ResumeFirst("send", t, "run")

MbRecvSuspends(t, ticks) ==
    /\ Tests(t, "recv") /\ mb.live /\ mb.entry = 0
    /\ Suspend(t, "recv", _ipc_list_suspend(list["recv"], t, Flag, Prio), ticks)
    /\ UNCHANGED mbVars

MbRecvGivesUp(t) ==
    /\ mb.entry = 0 /\ GivesUp(t, "recv")
    /\ UNCHANGED mbVars

(* RT_IPC_CMD_RESET, one region. *)
rt_mb_control ==
    /\ mb.live
    /\ mb' = [mb EXCEPT !.entry = 0, !.in_offset = 0, !.out_offset = 0]
    /\ mail' = NoMail
    /\ _ipc_list_resume_all

(* rt_mb_detach, rt_mb_delete by a caller that disables interrupts, when     *)
(* nobody is left who would touch the object.                              *)
rt_mb_delete ==
    /\ mb.live /\ NobodyInside
    /\ mb' = [mb EXCEPT !.live = FALSE]
    /\ _ipc_list_resume_all
    /\ UNCHANGED mail

(* rt_mb_init, rt_mb_create at the same place. *)
rt_mb_init ==
    /\ ~mb.live
    /\ mb' = Emptied
    /\ mail' = NoMail
    /\ UNCHANGED waiters

MbThread(t) ==
    \/ \E value \in Mails : rt_mb_send_wait(t, value) \/ rt_mb_urgent(t, value)
    \/ rt_mb_recv(t)
    \/ \E ticks \in BOOLEAN : MbSendSuspends(t, ticks) \/ MbRecvSuspends(t, ticks)
    \/ MbSendGivesUp(t) \/ MbRecvGivesUp(t)
    \/ (_thread_timeout(t) \/ rt_thread_delete(t)) /\ UNCHANGED mbVars

MbNext ==
    \/ \E t \in Threads : MbThread(t)
    \/ rt_mb_control \/ rt_mb_delete \/ rt_mb_init

MbSpec == MbInit /\ [][MbNext]_<<waiters, mbVars>>

-----------------------------------------------------------------------------
(* Properties *)

MbTypeOK ==
    /\ WaitersTypeOK
    /\ mb \in MbObject
    /\ mail \in Mails \cup {NoMail}

(* Nobody waits for a mail that is there, nor for room that is there, with  *)
(* timeouts, faster third parties and resets in between.                    *)
MbServed == mb.live =>
    Served("recv", mb.entry) /\ Served("send", MbSize - mb.entry)

(* The mails in the ring, the next to be received first. *)
RingOf(object) == [i \in 1 .. object.entry |->
    object.msg_pool[(object.out_offset + i - 1) % MbSize]]

MbChannel == INSTANCE Channel WITH
    Msgs <- Mails, NoMsg <- NoMail, Capacity <- MbSize,
    q <- RingOf(mb), got <- mail

(* Every mail comes out once, in order, urgent ones first, however the two  *)
(* offsets run round the ring.                                             *)
MbImplementsChannel == MbChannel!Spec
=============================================================================
