------------------------------- MODULE Arena -------------------------------
(***************************************************************************)
(* What a heap promises: a block is a stretch of the memory, as long as was *)
(* asked for, that belongs to nobody else until it is freed; a block that   *)
(* is resized may move.                                                    *)
(***************************************************************************)
EXTENDS Naturals

CONSTANTS Words, Sizes

VARIABLE blocks   \* the blocks in use: address of the first word |-> words asked for

Stretch(a, n) == a .. a + n - 1

Vacant(others, a, n) ==
    /\ Stretch(a, n) \subseteq Words
    /\ \A b \in others : Stretch(a, n) \cap Stretch(b, blocks[b]) = {}

Without(a)    == [b \in DOMAIN blocks \ {a} |-> blocks[b]]
With(f, a, n) == [b \in DOMAIN f \cup {a} |-> IF b = a THEN n ELSE f[b]]

Init == blocks = [a \in {} |-> 0]

Alloc(a, n) == Vacant(DOMAIN blocks, a, n) /\ blocks' = With(blocks, a, n)

Free(a) == a \in DOMAIN blocks /\ blocks' = Without(a)

Resize(a, b, n) ==
    /\ a \in DOMAIN blocks
    /\ Vacant(DOMAIN blocks \ {a}, b, n)
    /\ blocks' = With(Without(a), b, n)

Next ==
    \E a \in Words :
        \/ Free(a)
        \/ \E n \in Sizes : Alloc(a, n) \/ \E b \in Words : Resize(a, b, n)

Spec == Init /\ [][Next]_blocks
=============================================================================
