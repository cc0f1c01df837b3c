------------------------------ MODULE MCTimer ------------------------------
(* Timers on a tick of eight values, so that it wraps around all the time. *)
EXTENDS Timer, TLC

CONSTANTS a, b, c

MCTimers   == {a, b, c}
MCTimes    == {1, 2}
MCSymmetry == Permutations(MCTimers)
=============================================================================
