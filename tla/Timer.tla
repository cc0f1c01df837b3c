------------------------------- MODULE Timer -------------------------------
(***************************************************************************)
(* The hard timers of src/timer.c: one list sorted by the tick at which a   *)
(* timer is due, on a tick that wraps around, checked in each SysTick, and  *)
(* timeout functions that act on timers themselves.                         *)
(*                                                                         *)
(* RT_TIMER_SKIP_LIST_LEVEL is 1 and soft timers are off in rtconfig.h.     *)
(* timeout_tick is kept only while the timer is linked.                     *)
(***************************************************************************)
EXTENDS RtList, Integers, FiniteSets

CONSTANTS
    Timers,      \* the timer objects
    Nobody,      \* not one of them
    Wrap,        \* the number of values of rt_tick_t, 2^32
    Times        \* the init_ticks in use

Half == (Wrap - 1) \div 2      \* RT_TICK_MAX / 2

ASSUME TimerTimersAssumption == IsFiniteSet(Timers) /\ Nobody \notin Timers
ASSUME TimerWrapAssumption   == Wrap \in Nat /\ Wrap >= 4

(* Below the limit that rt_timer_init asserts, and at least 1: a periodic   *)
(* timer of 0 ticks would be due again for ever inside rt_timer_check.      *)
ASSUME TimerTimesAssumption == Times \subseteq 1 .. Half - 1

VARIABLES
    rt_tick,      \* the tick
    list,         \* _timer_list
    timer,        \* the timer objects, see Object
    pc,           \* where SysTick is, see PCs
    hold,         \* the temporary list of rt_timer_check
    calling,      \* the timer whose timeout function runs
    stopping,     \* the timer a caller of rt_timer_stop found active
    earlier       \* history: <<t, u>>, due at the same tick, t started before u

vars == <<rt_tick, list, timer, pc, hold, calling, stopping, earlier>>

Object == [live : BOOLEAN, periodic : BOOLEAN, activated : BOOLEAN,
           init_tick : Times, timeout_tick : 0 .. Wrap - 1]

(***************************************************************************)
(* idle       not in rt_tick_increase                                      *)
(* tick       the tick is counted, rt_timer_check has not masked interrupts *)
(* check      at the head of the loop of rt_timer_check                     *)
(* callback   in the timeout function of calling                            *)
(* From check on interrupts are disabled: only the timeout function acts.   *)
(***************************************************************************)
PCs == {"idle", "tick", "check", "callback"}

Init ==
    /\ rt_tick \in 0 .. Wrap - 1
    /\ list = <<>> /\ hold = <<>> /\ earlier = {}
    /\ timer \in [Timers -> [live : {TRUE}, periodic : BOOLEAN, activated : {FALSE},
                             init_tick : Times, timeout_tick : {0}]]
    /\ pc = "idle" /\ calling = Nobody /\ stopping = Nobody

-----------------------------------------------------------------------------
(* A thread, an interrupt handler or the timeout function gets to act. *)
MayAct == pc # "check"

(* What is left of a timer that is off the list. *)
Removed(object, active) == [object EXCEPT !.activated = active, !.timeout_tick = 0]

Without(t) == {p \in earlier : t \notin {p[1], p[2]}}

_timer_remove(t) ==
    /\ list' = rt_list_remove(list, t)
    /\ hold' = rt_list_remove(hold, t)
    /\ earlier' = Without(t)

(* tick a comes after tick b, the two being less than Half apart. *)
After(a, b) == (a - b) % Wrap \in 1 .. Half - 1

(* A plausible slip: the new timer goes before those due at the same tick. *)
PlaceBeforeEquals(queue, due) ==
    CHOOSE k \in 1 .. Len(queue) + 1 :
        /\ \A i \in 1 .. k - 1 :
            due # timer[queue[i]].timeout_tick /\ ~After(timer[queue[i]].timeout_tick, due)
        /\ k <= Len(queue) =>
            due = timer[queue[k]].timeout_tick \/ After(timer[queue[k]].timeout_tick, due)

(* Where rt_timer_start puts a timer due then: before the first one that is *)
(* due later.                                                              *)
Place(queue, due) ==
    CHOOSE k \in 1 .. Len(queue) + 1 :
        /\ \A i \in 1 .. k - 1 : ~After(timer[queue[i]].timeout_tick, due)
        /\ k <= Len(queue) => After(timer[queue[k]].timeout_tick, due)

(* A plausible slip: a timer that is started again is not taken off first. *)
StartedTwice(t) ==
    LET due == (rt_tick + timer[t].init_tick) % Wrap
    IN  /\ list' = InsertAtPosition(list, Place(list, due), t)
        /\ timer' = [timer EXCEPT ![t].timeout_tick = due, ![t].activated = TRUE]
        /\ UNCHANGED <<hold, earlier>>

(* One region: taken off whatever list it is on, and inserted. *)
Started(t) ==
    LET due   == (rt_tick + timer[t].init_tick) % Wrap
        queue == rt_list_remove(list, t)
    IN  /\ list' = InsertAtPosition(queue, Place(queue, due), t)
        /\ hold' = rt_list_remove(hold, t)
        /\ earlier' = Without(t) \cup
                {<<u, t>> : u \in {v \in Linked(queue) : timer[v].timeout_tick = due}}
        /\ timer' = [timer EXCEPT ![t].timeout_tick = due, ![t].activated = TRUE]

rt_timer_start(t) ==
    /\ MayAct /\ timer[t].live
    /\ Started(t)
    /\ UNCHANGED <<rt_tick, pc, calling, stopping>>

(* rt_timer_stop looks at the flag before it disables interrupts.  In a     *)
(* timeout function nothing comes in between.                              *)
StopTests(t) ==
    /\ pc \in {"idle", "tick"} /\ timer[t].live /\ timer[t].activated
    /\ stopping = Nobody
    /\ stopping' = t
    /\ UNCHANGED <<rt_tick, list, timer, pc, hold, calling, earlier>>

StopInside(t) ==
    /\ pc = "callback" /\ timer[t].live /\ timer[t].activated
    /\ _timer_remove(t)
    /\ timer' = [timer EXCEPT ![t] = Removed(@, FALSE)]
    /\ UNCHANGED <<rt_tick, pc, calling, stopping>>

rt_timer_stop ==
    /\ pc \in {"idle", "tick"} /\ stopping # Nobody
    /\ _timer_remove(stopping)
    /\ timer' = [timer EXCEPT ![stopping] = Removed(@, FALSE)]
    /\ stopping' = Nobody
    /\ UNCHANGED <<rt_tick, pc, calling>>

(* RT_TIMER_CTRL_SET_TIME, SET_ONESHOT, SET_PERIODIC: one region, which      *)
(* leaves a running timer where it is.                                     *)
rt_timer_control(t, time, periodic) ==
    /\ MayAct /\ timer[t].live
    /\ time = timer[t].init_tick \/ periodic = timer[t].periodic
    /\ timer' = [timer EXCEPT ![t].init_tick = time, ![t].periodic = periodic]
    /\ UNCHANGED <<rt_tick, list, pc, hold, calling, stopping, earlier>>

(* rt_timer_detach, rt_timer_delete: not while somebody else is stopping it. *)
rt_timer_delete(t) ==
    /\ MayAct /\ timer[t].live /\ stopping # t
    /\ _timer_remove(t)
    /\ timer' = [timer EXCEPT ![t] = [Removed(@, FALSE) EXCEPT !.live = FALSE]]
    /\ UNCHANGED <<rt_tick, pc, calling, stopping>>

(* rt_timer_init, rt_timer_create at the same place. *)
rt_timer_init(t, time, periodic) ==
    /\ MayAct /\ ~timer[t].live
    /\ timer' = [timer EXCEPT ![t] = [live |-> TRUE, periodic |-> periodic,
                    activated |-> FALSE, init_tick |-> time, timeout_tick |-> 0]]
    /\ UNCHANGED <<rt_tick, list, pc, hold, calling, stopping, earlier>>

-----------------------------------------------------------------------------
(* SysTick.  It does not interrupt itself. *)
rt_tick_increase ==
    /\ pc = "idle"
    /\ rt_tick' = (rt_tick + 1) % Wrap
    /\ pc' = "tick"
    /\ UNCHANGED <<list, timer, hold, calling, stopping, earlier>>

rt_timer_check ==
    /\ pc = "tick"
    /\ pc' = "check"
    /\ UNCHANGED <<rt_tick, list, timer, hold, calling, stopping, earlier>>

Expired(t) == (rt_tick - timer[t].timeout_tick) % Wrap < Half

NothingDue == IF list = <<>> THEN TRUE ELSE ~Expired(Head(list))

(* The first timer is taken off the list and held, and its function called. *)
CheckFires ==
    /\ pc = "check" /\ ~NothingDue
    /\ LET t == Head(list) IN
       /\ list' = Tail(list)
       /\ earlier' = Without(t)
       /\ timer' = [timer EXCEPT ![t] = Removed(@, timer[t].periodic)]
       /\ hold' = rt_list_insert_after(hold, t)
       /\ calling' = t
    /\ pc' = "callback"
    /\ UNCHANGED <<rt_tick, stopping>>

(* A plausible slip: the temporary list is not looked at. *)
ReturnRestartsAnyway ==
    /\ pc = "callback"
    /\ pc' = "check" /\ calling' = Nobody
    /\ IF timer[calling].periodic /\ timer[calling].activated
       THEN Started(calling)
       ELSE _timer_remove(calling) /\ UNCHANGED timer
    /\ UNCHANGED <<rt_tick, stopping>>

(* The timeout function returns.  It has detached or started its timer when *)
(* the temporary list is empty.                                            *)
CallbackReturns ==
    /\ pc = "callback"
    /\ pc' = "check" /\ calling' = Nobody
    /\ IF hold = <<>> THEN UNCHANGED <<list, hold, timer, earlier>>
       ELSE IF timer[calling].periodic /\ timer[calling].activated
       THEN Started(calling)
       ELSE /\ hold' = rt_list_remove(hold, calling)
            /\ UNCHANGED <<list, timer, earlier>>
    /\ UNCHANGED <<rt_tick, stopping>>

CheckEnds ==
    /\ pc = "check" /\ NothingDue
    /\ pc' = "idle"
    /\ UNCHANGED <<rt_tick, list, timer, hold, calling, stopping, earlier>>

Next ==
    \/ \E t \in Timers :
        \/ rt_timer_start(t) \/ StopTests(t) \/ StopInside(t) \/ rt_timer_delete(t)
        \/ \E time \in Times, periodic \in BOOLEAN :
            rt_timer_control(t, time, periodic) \/ rt_timer_init(t, time, periodic)
    \/ rt_timer_stop
    \/ rt_tick_increase \/ rt_timer_check \/ CheckFires \/ CallbackReturns \/ CheckEnds

Spec == Init /\ [][Next]_vars

-----------------------------------------------------------------------------
(* Properties *)

(* Types, and what links the objects to the lists: a linked timer exists    *)
(* and is flagged active.  The converse fails for one that its own timeout  *)
(* function makes one-shot, which stays flagged.                           *)
TypeOK ==
    /\ rt_tick \in 0 .. Wrap - 1
    /\ timer \in [Timers -> Object]
    /\ pc \in PCs
    /\ list \in Seq(Timers) /\ NoDup(list)
    /\ \A t \in Linked(list) : timer[t].live /\ timer[t].activated
    /\ earlier \subseteq Linked(list) \X Linked(list)
    /\ calling \in Timers \cup {Nobody} /\ (calling # Nobody <=> pc = "callback")
    /\ hold \in {<<>>, <<calling>>} /\ (pc # "callback" => hold = <<>>)
    /\ stopping \in Timers \cup {Nobody}

(* Ticks until a linked timer is due. *)
TicksLeft(t) == (timer[t].timeout_tick - rt_tick) % Wrap

(* The list is in the order in which the timers are due, and those due at   *)
(* the same tick in the order in which they were started, across the        *)
(* wrap-around of the tick and whatever was started, stopped or detached    *)
(* between.                                                                *)
StartedEarlyCalledEarly ==
    \A i, j \in DOMAIN list : i < j =>
        \/ TicksLeft(list[i]) < TicksLeft(list[j])
        \/ /\ TicksLeft(list[i]) = TicksLeft(list[j])
           /\ <<list[i], list[j]>> \in earlier

A == INSTANCE Alarms WITH
    Delays <- Times, Round <- Wrap, Off <- -1, None <- Nobody,
    now <- rt_tick,
    left <- [t \in Timers |-> IF t \in Linked(list) THEN TicksLeft(t) ELSE -1],
    delay <- [t \in Timers |-> timer[t].init_tick],
    periodic <- [t \in Timers |-> timer[t].periodic],
    function <- calling,
    dealt <- calling # Nobody /\ hold = <<>>,
    again <- IF hold = <<>> THEN FALSE ELSE timer[calling].activated

(* Every timer fires at its tick and at no other, once, whatever timeout    *)
(* functions do to their own or other timers; and so rt_timer_check, with   *)
(* interrupts disabled, calls no function twice in one tick.                *)
ImplementsAlarms == A!Spec
=============================================================================
