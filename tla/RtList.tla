------------------------------- MODULE RtList -------------------------------
(***************************************************************************)
(* The intrusive doubly linked list of include/rtservice.h, as the kernel  *)
(* uses it for its queues of threads and timers: the sequence of the list  *)
(* entries met from head.next to head.prev.  A node knows its neighbours   *)
(* and not its list, so unlinking never says which list it is done to.     *)
(***************************************************************************)
EXTENDS Naturals, Sequences

(* The entries that are linked on list q. *)
Linked(q) == {q[i] : i \in DOMAIN q}

(* No entry is linked twice: a list the code can walk without looping. *)
NoDup(q) == \A i, j \in DOMAIN q : q[i] = q[j] => i = j

rt_list_isempty(q) == q = <<>>

(* rt_list_insert_before(&head, n): n becomes the last entry. *)
rt_list_insert_before(q, n) == Append(q, n)

(* rt_list_insert_after(&head, n): n becomes the first entry. *)
rt_list_insert_after(q, n) ==
    [i \in 1 .. Len(q) + 1 |-> IF i = 1 THEN n ELSE q[i - 1]]

(* rt_list_insert_before(&q[k], n) for 1 <= k <= Len(q) + 1, the last of   *)
(* which stands for the head itself.                                       *)
InsertAtPosition(q, k, n) ==
    [i \in 1 .. Len(q) + 1 |->
        IF i < k THEN q[i] ELSE IF i = k THEN n ELSE q[i - 1]]

Position(q, n) == CHOOSE i \in DOMAIN q : q[i] = n

(* rt_list_remove(n), seen by a list n may be on. *)
rt_list_remove(q, n) ==
    IF n \in Linked(q)
    THEN [i \in 1 .. Len(q) - 1 |->
            IF i < Position(q, n) THEN q[i] ELSE q[i + 1]]
    ELSE q
=============================================================================
