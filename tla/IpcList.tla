------------------------------ MODULE IpcList ------------------------------
(***************************************************************************)
(* The list of suspended threads every IPC object of src/ipc.c has, as a   *)
(* sequence of threads, the next to be resumed first.  prio is the         *)
(* current_priority of each thread, 0 the most urgent.                     *)
(***************************************************************************)
EXTENDS RtList

Flags == {"FIFO", "PRIO"}     \* RT_IPC_FLAG_FIFO, RT_IPC_FLAG_PRIO

(* Where _ipc_list_suspend puts t: before the first strictly less urgent    *)
(* thread, or last.                                                        *)
SuitablePosition(list, t, prio) ==
    CHOOSE k \in 1 .. Len(list) + 1 :
        /\ \A i \in 1 .. k - 1 : prio[list[i]] <= prio[t]
        /\ k <= Len(list) => prio[t] < prio[list[k]]

(* A plausible slip: a late comer goes before its equals. *)
SuspendBeforeEquals(list, t, flag, prio) ==
    IF flag = "FIFO"
    THEN rt_list_insert_before(list, t)
    ELSE InsertAtPosition(list,
            CHOOSE k \in 1 .. Len(list) + 1 :
                /\ \A i \in 1 .. k - 1 : prio[list[i]] < prio[t]
                /\ k <= Len(list) => prio[t] <= prio[list[k]], t)

_ipc_list_suspend(list, t, flag, prio) ==
    IF flag = "FIFO"
    THEN rt_list_insert_before(list, t)
    ELSE InsertAtPosition(list, SuitablePosition(list, t, prio), t)
=============================================================================
