------------------------------ MODULE Channel ------------------------------
(***************************************************************************)
(* What a mailbox, a message queue and a data queue promise: messages come  *)
(* out once each in the order they went in, urgent ones overtake, and never *)
(* are more than Capacity inside.                                          *)
(***************************************************************************)
EXTENDS Naturals, Sequences

CONSTANTS Msgs, NoMsg, Capacity

VARIABLES
    q,    \* sent and not yet received, the oldest first
    got   \* the message received last since the channel was cleared

vars == <<q, got>>

Init == q = <<>> /\ got = NoMsg

Send(m) ==
    /\ Len(q) < Capacity
    /\ q' = Append(q, m)
    /\ UNCHANGED got

Urgent(m) ==
    /\ Len(q) < Capacity
    /\ q' = <<m>> \o q
    /\ UNCHANGED got

Receive ==
    /\ q # <<>>
    /\ got' = Head(q)
    /\ q' = Tail(q)

Clear == q' = <<>> /\ got' = NoMsg

Next == (\E m \in Msgs : Send(m) \/ Urgent(m)) \/ Receive \/ Clear

Spec == Init /\ [][Next]_vars
=============================================================================
