----------------------------- MODULE MCDrivers -----------------------------
(***************************************************************************)
(* A work queue, a serial device that receives and one that transmits, a    *)
(* ring buffer, a completion, a wait queue and the heap that driver objects *)
(* come from, each by itself: class says which a behaviour is about.       *)
(***************************************************************************)
EXTENDS WorkQueue, SerialRx, SerialTx, RingBuffer, Completion, WaitQueue, Heap, TLC

CONSTANTS
    Classes,   \* the drivers a run is about
    w1, w2, w3, c1, c2, x1, x2, b1, b2, b3

MCWorks    == {w1, w2, w3}
MCCallers  == {c1, c2}
MCChars    == {x1, x2}
MCLengths  == {1, 3}
MCBuffers  == {b1, b2, b3}
MCBlocks   == UNION {[1 .. n -> MCChars] : n \in 0 .. 5}
MCSizes    == {1, 3, 4, 9}   \* below, at and above the minimum
MCSymmetry == Permutations(MCWorks) \cup Permutations(MCCallers)
                  \cup Permutations(MCChars) \cup Permutations(MCBuffers)

MCAll      == {"workqueue", "rx", "tx", "ringbuffer", "completion", "waitqueue"}
MCWorkOnly == {"workqueue"}
MCTxOnly   == {"tx"}
MCHeapOnly == {"heap"}

VARIABLE class

vars == <<wqVars, rxVars, txVars, ringVars, completionVars, waitqVars, heapVars, class>>

Init ==
    /\ class \in Classes
    /\ WqInit /\ RxInit /\ TxInit /\ RingInit /\ CompletionInit /\ WaitqInit /\ HeapInit

Next ==
    /\ UNCHANGED class
    /\ \/ /\ class = "workqueue" /\ WqNext
          /\ UNCHANGED <<rxVars, txVars, ringVars, completionVars, waitqVars, heapVars>>
       \/ /\ class = "rx" /\ RxNext
          /\ UNCHANGED <<wqVars, txVars, ringVars, completionVars, waitqVars, heapVars>>
       \/ /\ class = "tx" /\ TxNext
          /\ UNCHANGED <<wqVars, rxVars, ringVars, completionVars, waitqVars, heapVars>>
       \/ /\ class = "ringbuffer" /\ RingNext
          /\ UNCHANGED <<wqVars, rxVars, txVars, completionVars, waitqVars, heapVars>>
       \/ /\ class = "completion" /\ CompletionNext
          /\ UNCHANGED <<wqVars, rxVars, txVars, ringVars, waitqVars, heapVars>>
       \/ /\ class = "waitqueue" /\ WaitqNext
          /\ UNCHANGED <<wqVars, rxVars, txVars, ringVars, completionVars, heapVars>>
       \/ /\ class = "heap" /\ HeapNext
          /\ UNCHANGED <<wqVars, rxVars, txVars, ringVars, completionVars, waitqVars>>

Spec == Init /\ [][Next]_vars
=============================================================================
