------------------------------ MODULE MCMutex ------------------------------
(* Mutex with idle and a low, a middle and a high priority thread. *)
EXTENDS Mutex, TLC

CONSTANTS idle, low, middle, high, m1, m2

MCThreads == {idle, low, middle, high}
MCMutexes == {m1, m2}
MCPriorities == 0 .. 3
MCBase == high :> 0 @@ middle :> 1 @@ low :> 2 @@ idle :> 3
MCSymmetry == Permutations(MCMutexes)
=============================================================================
