---------------------------- MODULE MCScheduler ----------------------------
(* Scheduler with idle, main and two threads that are alike, for TLC. *)
EXTENDS Scheduler, TLC

CONSTANTS idle, main, t1, t2

MCThreads == {idle, main, t1, t2}
MCPriorities == 0 .. 1
MCInitPrio == [t \in MCThreads |-> IF t = idle THEN 1 ELSE 0]
MCInitTick == [t \in MCThreads |-> IF t = main THEN 2 ELSE 1]
MCSymmetry == Permutations({t1, t2})
=============================================================================
