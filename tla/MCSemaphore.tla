---------------------------- MODULE MCSemaphore ----------------------------
(* Semaphore with three threads, two of them as urgent as each other. *)
EXTENDS Semaphore

CONSTANTS t1, t2, t3

MCThreads == {t1, t2, t3}
MCPrio == [t \in MCThreads |-> IF t = t1 THEN 0 ELSE 1]
=============================================================================
