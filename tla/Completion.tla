----------------------------- MODULE Completion -----------------------------
(***************************************************************************)
(* The completion of components/drivers/ipc/completion.c: a thread waits,   *)
(* with or without a timeout, until an interrupt handler or another thread  *)
(* says that something is done.                                            *)
(***************************************************************************)
EXTENDS Naturals, Sequences

CONSTANTS
    Sleepers,    \* threads that wait
    Finishers    \* those who may be inside rt_completion_done at a time

VARIABLES
    completed,        \* flag = RT_COMPLETED
    suspended_list,   \* completion->suspended_list
    sleeper,          \* where each sleeper is: run, suspended, suspendedTimed,
                      \* woken, late (its timeout came first)
    finisher,         \* has each finisher found the flag not set?
    oneSleeper        \* one thread at most is inside rt_completion_wait; never
                      \* changes

completionVars == <<completed, suspended_list, sleeper, finisher, oneSleeper>>

CompletionInit ==
    /\ completed = FALSE /\ suspended_list = <<>>
    /\ sleeper = [t \in Sleepers |-> "run"]
    /\ finisher = [f \in Finishers |-> FALSE]
    /\ oneSleeper \in BOOLEAN

-----------------------------------------------------------------------------
(* Nothing to wait for: the flag is consumed. *)
WaitFinds(t) ==
    /\ sleeper[t] = "run" /\ completed
    /\ oneSleeper => \A u \in Sleepers : sleeper[u] = "run"
    /\ completed' = FALSE
    /\ UNCHANGED <<suspended_list, sleeper, finisher>>

(* RT_ASSERT(rt_list_isempty(...)): a second caller that would have to wait  *)
(* fails it and stays in rt_assert_handler.                                *)
(* A call with timeout 0 returns without having changed anything.           *)
rt_completion_wait(t, suspended) ==
    /\ sleeper[t] = "run" /\ ~completed /\ suspended_list = <<>>
    /\ oneSleeper => \A u \in Sleepers : sleeper[u] = "run"
    /\ suspended_list' = <<t>>
    /\ sleeper' = [sleeper EXCEPT ![t] = suspended]
    /\ UNCHANGED <<completed, finisher>>

(* _thread_timeout of a thread that waits. *)
CompletionTimeout(t) ==
    /\ sleeper[t] = "suspendedTimed"
    /\ suspended_list' = <<>>
    /\ sleeper' = [sleeper EXCEPT ![t] = "late"]
    /\ UNCHANGED <<completed, finisher>>

(* Awake, for whichever reason, it clears the flag. *)
WaitReturns(t) ==
    /\ sleeper[t] \in {"woken", "late"}
    /\ completed' = FALSE
    /\ sleeper' = [sleeper EXCEPT ![t] = "run"]
    /\ UNCHANGED <<suspended_list, finisher>>

(* The flag is looked at with interrupts enabled... *)
DoneTests(f) ==
    /\ ~finisher[f] /\ ~completed
    /\ finisher' = [finisher EXCEPT ![f] = TRUE]
    /\ UNCHANGED <<completed, suspended_list, sleeper>>

(* A plausible slip: the flag is set only when nobody is there to be woken. *)
DoneWakesOnly(f) ==
    /\ finisher[f]
    /\ finisher' = [finisher EXCEPT ![f] = FALSE]
    /\ completed' = (suspended_list = <<>>)
    /\ suspended_list' = <<>>
    /\ sleeper' = [t \in Sleepers |-> IF suspended_list = <<t>> THEN "woken" ELSE sleeper[t]]

(* ... and set without looking again. *)
rt_completion_done(f) ==
    /\ finisher[f]
    /\ finisher' = [finisher EXCEPT ![f] = FALSE]
    /\ completed' = TRUE
    /\ suspended_list' = <<>>
    /\ sleeper' = [t \in Sleepers |-> IF suspended_list = <<t>> THEN "woken" ELSE sleeper[t]]

CompletionNext ==
    /\ UNCHANGED oneSleeper
    /\ \/ \E t \in Sleepers :
            \/ WaitFinds(t) \/ CompletionTimeout(t) \/ WaitReturns(t)
            \/ \E suspended \in {"suspended", "suspendedTimed"} :
                    rt_completion_wait(t, suspended)
       \/ \E f \in Finishers : DoneTests(f) \/ rt_completion_done(f)

-----------------------------------------------------------------------------
(* Properties *)

(* Nobody is suspended while a completion stands, of however many callers    *)
(* (two that are signalled before anybody runs are one: it is a flag).  With *)
(* one thread at most inside rt_completion_wait, one that was woken moreover *)
(* returns RT_EOK for a completion that still stands when it gets to run, so *)
(* that no two calls return RT_EOK for one.  With a second one it may not:   *)
(* that one calls in between and consumes the flag, and nothing in the       *)
(* drivers keeps a second one out (two writers in _serial_int_tx,            *)
(* serial.c:336).  Nothing is said of a thread whose timeout came: it clears *)
(* the flag of a completion signalled before it gets to run                  *)
(* (completion.c:110).                                                      *)
CompletionIsSeen ==
    /\ suspended_list # <<>> => ~completed
    /\ \A t \in Sleepers :
        sleeper[t] \in {"suspended", "suspendedTimed"} <=> suspended_list = <<t>>
    /\ oneSleeper => \A t \in Sleepers : sleeper[t] = "woken" => completed
=============================================================================
