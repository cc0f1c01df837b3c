------------------------------- MODULE MCIpc -------------------------------
(***************************************************************************)
(* One object of each class that keeps its waiters as Waiters does, each   *)
(* by itself: class says which of them a behaviour is about.               *)
(***************************************************************************)
EXTENDS Mailbox, MessageQueue, MemPool, Event, DataQueue, TLC

CONSTANTS t1, t2, t3, m1, m2, e1, e2

MCThreads == {t1, t2, t3}
MCData    == {m1, m2}
MCBits    == {e1, e2}
MCPrio    == [t \in MCThreads |-> 0]

(* Threads are alike, so are what is sent and the bits of an event. *)
MCSymmetry == Permutations(MCThreads) \cup Permutations(MCData) \cup Permutations(MCBits)

VARIABLE class

vars == <<waiters, mbVars, mqVars, mpVars, eventVars, dqVars, class>>

Init ==
    /\ class \in {"mailbox", "messagequeue", "mempool", "event", "dataqueue"}
    /\ WaitersInit
    /\ MbStored(class = "mailbox")
    /\ MqStored(class = "messagequeue")
    /\ MpStored(class = "mempool")
    /\ EventStored(class = "event")
    /\ DqStored(class = "dataqueue")

Next ==
    /\ UNCHANGED class
    /\ \/ class = "mailbox" /\ MbNext /\ UNCHANGED <<mqVars, mpVars, eventVars, dqVars>>
       \/ class = "messagequeue" /\ MqNext /\ UNCHANGED <<mbVars, mpVars, eventVars, dqVars>>
       \/ class = "mempool" /\ MpNext /\ UNCHANGED <<mbVars, mqVars, eventVars, dqVars>>
       \/ class = "event" /\ EventNext /\ UNCHANGED <<mbVars, mqVars, mpVars, dqVars>>
       \/ class = "dataqueue" /\ DqNext /\ UNCHANGED <<mbVars, mqVars, mpVars, eventVars>>

Spec == Init /\ [][Next]_vars

TypeOK == MbTypeOK /\ MqTypeOK /\ MpTypeOK /\ EventTypeOK /\ DqTypeOK

(* Nobody is suspended for want of what is there: a message, a free block,  *)
(* room.  Each was told, or a thread that was is about to look and, if it   *)
(* was too late, waits again.                                              *)
NobodyWaitsForWhatIsThere == MbServed /\ MqServed /\ MpServed /\ DqServed
=============================================================================
