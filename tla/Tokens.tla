------------------------------- MODULE Tokens -------------------------------
(***************************************************************************)
(* What a counting semaphore promises its clients, whatever its queue, its  *)
(* timeouts and its hand-over look like inside: a take that succeeds uses   *)
(* up one token, one that fails uses up none, and only a release adds one.  *)
(***************************************************************************)
EXTENDS Naturals

CONSTANT Threads

VARIABLES
    tokens,   \* released and not yet taken
    taking,   \* threads inside a take
    era       \* flips when the semaphore is reset or made anew

vars == <<tokens, taking, era>>

Init == tokens \in Nat /\ taking = {} /\ era = 0

Request(t) ==
    /\ t \notin taking
    /\ taking' = taking \cup {t}
    /\ UNCHANGED <<tokens, era>>

(* A take succeeds, or the thread is killed with the token in its hand. *)
Obtain(t) ==
    /\ tokens > 0
    /\ tokens' = tokens - 1
    /\ taking' = taking \ {t}
    /\ UNCHANGED era

(* A take times out or is refused, or the thread is killed without a token. *)
Fail(t) ==
    /\ t \in taking
    /\ taking' = taking \ {t}
    /\ UNCHANGED <<tokens, era>>

Give == tokens' = tokens + 1 /\ UNCHANGED <<taking, era>>

(* The tokens are counted anew; who is inside a take stays inside. *)
Restart == tokens' \in Nat /\ era' = 1 - era /\ UNCHANGED taking

Next ==
    \/ \E t \in Threads : Request(t) \/ Obtain(t) \/ Fail(t)
    \/ Give \/ Restart

Spec == Init /\ [][Next]_vars
=============================================================================
