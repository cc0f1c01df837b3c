------------------------------- MODULE Alarms -------------------------------
(***************************************************************************)
(* What timers promise: an alarm that is set for n ticks rings after n      *)
(* ticks, neither earlier nor later, unless it is set again or put off; one *)
(* that was periodic when it rang and still is when its function returns is *)
(* set again, unless the function itself has dealt with it.                 *)
(***************************************************************************)
EXTENDS Naturals

CONSTANTS Timers, Delays, Round, Off, None

VARIABLES
    now,       \* the tick, on a clock of Round ticks
    left,      \* ticks to go, or Off
    delay,     \* after how many ticks it rings when it is set
    periodic,  \* is it set again?
    function,  \* the timer whose function runs
    dealt,     \* has that function set its own timer or put it off?
    again      \* was the timer periodic when it rang?

vars == <<now, left, delay, periodic, function, dealt, again>>

Init ==
    /\ now \in 0 .. Round - 1
    /\ left = [t \in Timers |-> Off]
    /\ delay \in [Timers -> Delays] /\ periodic \in [Timers -> BOOLEAN]
    /\ function = None /\ dealt = FALSE /\ again = FALSE

Deal(t) ==
    IF function = t THEN dealt' = TRUE /\ again' = FALSE ELSE UNCHANGED <<dealt, again>>

Set(t) ==
    /\ left' = [left EXCEPT ![t] = delay[t]] /\ Deal(t)
    /\ UNCHANGED <<now, delay, periodic, function>>

PutOff(t) ==
    /\ left' = [left EXCEPT ![t] = Off] /\ Deal(t)
    /\ UNCHANGED <<now, delay, periodic, function>>

(* What is running is not affected. *)
Change(t, n, p) ==
    /\ delay' = [delay EXCEPT ![t] = n] /\ periodic' = [periodic EXCEPT ![t] = p]
    /\ UNCHANGED <<now, left, function, dealt, again>>

(* A tick goes by when every alarm that is due has rung. *)
Tick ==
    /\ function = None /\ \A t \in Timers : left[t] # 0
    /\ now' = (now + 1) % Round
    /\ left' = [t \in Timers |-> IF left[t] = Off THEN Off ELSE left[t] - 1]
    /\ UNCHANGED <<delay, periodic, function, dealt, again>>

Ring(t) ==
    /\ function = None /\ left[t] = 0
    /\ left' = [left EXCEPT ![t] = Off]
    /\ function' = t
    /\ again' = periodic[t]
    /\ UNCHANGED <<now, delay, periodic, dealt>>

Rung ==
    /\ function # None
    /\ left' = IF dealt THEN left
               ELSE [left EXCEPT ![function] =
                        IF again /\ periodic[function] THEN delay[function] ELSE Off]
    /\ function' = None /\ dealt' = FALSE /\ again' = FALSE
    /\ UNCHANGED <<now, delay, periodic>>

Next ==
    \/ \E t \in Timers :
        \/ Set(t) \/ PutOff(t) \/ Ring(t)
        \/ \E n \in Delays, p \in BOOLEAN : Change(t, n, p)
    \/ Tick \/ Rung

Spec == Init /\ [][Next]_vars
=============================================================================
