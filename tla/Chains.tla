------------------------------- MODULE Chains -------------------------------
(***************************************************************************)
(* Blocks chained through a pointer to the next one, as message queues and  *)
(* memory pools keep them: a block is a number from 1, Null is RT_NULL.     *)
(***************************************************************************)
EXTENDS Naturals, Sequences

Null == 0

(* The blocks met in n steps, given those met in one step less: the chain   *)
(* goes on while it leads to a block.                                      *)
Longer(next, n, before) ==
    IF Len(before) < n \/ next[before[n]] \notin DOMAIN next
    THEN before
    ELSE Append(before, next[before[n]])

Walked(next, first) ==
    LET walk[n \in {0} \cup DOMAIN next] ==
            IF n = 0 THEN (IF first = Null THEN <<>> ELSE <<first>>)
            ELSE Longer(next, n, walk[n - 1])
    IN  walk

(* The blocks met from first on.  A chain that has a loop is cut when it is *)
(* longer than the number of blocks.                                       *)
Chain(next, first) ==
    Walked(next, first)[CHOOSE n \in {0} \cup DOMAIN next :
                        \A m \in {0} \cup DOMAIN next : m <= n]
=============================================================================
