-------------------------- MODULE SemaphoreProofs --------------------------
(***************************************************************************)
(* Semaphore for any set of threads, priorities and maximal value: nobody   *)
(* waits while there is a token, the list of suspended threads is exactly   *)
(* the threads that wait, and every step is one of Tokens or changes        *)
(* nothing a client sees.  As in SchedulerProofs, callers of rt_sem_delete  *)
(* and rt_thread_delete are taken to hold interrupts disabled.             *)
(***************************************************************************)
EXTENDS Semaphore, ListProofs, FiniteSetTheorems

Waiting == {t \in Threads : pc[t] = "waiting"}

(* Both lists, the code's and the history, hold exactly the waiting threads. *)
Line ==
    /\ sem.list \in Seq(Threads) /\ arrived \in Seq(Threads)
    /\ NoDup(sem.list) /\ NoDup(arrived)
    /\ Linked(sem.list) = Waiting /\ Linked(arrived) = Waiting

(* WaitsForToken is not inductive: that a release can neither find an entry  *)
(* that is not waiting nor pass over one that is takes Line, and that no     *)
(* waiter is left when the object goes takes the state of the deletion.      *)
IInv ==
    /\ TypeOK
    /\ Line
    /\ Waiting # {} => sem.value = 0 /\ sem.live
    /\ \A t \in Threads : timer[t] => t \in Waiting
    /\ \A t \in Waiting : error[t] = "EOK"
    /\ \A t \in Threads : pc[t] \in Deleting => sem.live
    /\ \A t, u \in Threads : pc[t] \in Deleting /\ pc[u] \in Deleting => t = u
    /\ \A t \in Threads : pc[t] = "object" => Waiting = {}
    /\ \A t \in Threads : pc[t] = "pop" => Waiting # {}

tokens == sem.value + Cardinality(Granted)
taking == {t \in Threads : pc[t] \in {"waiting", "woken"}}

-----------------------------------------------------------------------------
(* A thread leaves both lists as it stops waiting. *)
LEMMA LeaveLemma ==
    ASSUME Line, NEW x, sem'.list = rt_list_remove(sem.list, x),
           arrived' = rt_list_remove(arrived, x), Waiting' = Waiting \ {x}
    PROVE  Line'
  BY RemoveLemma DEF Line

(* A thread joins both as it starts to wait. *)
LEMMA JoinLemma ==
    ASSUME Line, NEW t \in Threads, t \notin Waiting,
           sem'.list = _ipc_list_suspend(sem.list, t, sem.flag, Prio),
           arrived' = Append(arrived, t), Waiting' = Waiting \cup {t}
    PROVE  Line'
  <1>1. Prio \in [Threads -> Nat]
    BY SemPrioAssumption
  <1>2. sem'.list \in Seq(Threads) /\ NoDup(sem'.list) /\ Linked(sem'.list) = Waiting \cup {t}
    BY <1>1, SuspendLemma DEF Line
  <1>3. arrived' \in Seq(Threads) /\ NoDup(arrived') /\ Linked(arrived') = Waiting \cup {t}
    BY InsertBeforeLemma DEF Line, rt_list_insert_before
  <1> QED BY <1>2, <1>3 DEF Line

(* The empty list is a line for nobody. *)
LEMMA EmptyLineLemma ==
    ASSUME sem'.list = <<>>, arrived' = <<>>, Waiting' = {}
    PROVE  Line'
  BY DEF Line, Linked, NoDup

(* The outstanding tokens are finitely many. *)
LEMMA GrantedFinite == IsFiniteSet(Granted) /\ Cardinality(Granted) \in Nat
  <1>1. Granted \subseteq Threads
    BY DEF Granted
  <1> QED BY <1>1, SemThreadsAssumption, FS_Subset, FS_CardinalityType

(* One token more or one less on its way. *)
LEMMA GrantLemma ==
    ASSUME NEW x
    PROVE  /\ x \notin Granted /\ Granted' = Granted \cup {x} =>
                Cardinality(Granted') = Cardinality(Granted) + 1
           /\ x \in Granted /\ Granted' = Granted \ {x} =>
                Cardinality(Granted') + 1 = Cardinality(Granted)
  <1>1. IsFiniteSet(Granted) /\ Cardinality(Granted) \in Nat
    BY GrantedFinite
  <1>2. IsFiniteSet(Granted \ {x}) /\ Cardinality(Granted \ {x}) \in Nat
    BY <1>1, FS_RemoveElement, FS_CardinalityType
  <1>3. Cardinality(Granted \cup {x}) = IF x \in Granted THEN Cardinality(Granted)
                                                        ELSE Cardinality(Granted) + 1
    BY <1>1, FS_AddElement
  <1>4. Cardinality(Granted \ {x}) = IF x \in Granted THEN Cardinality(Granted) - 1
                                                      ELSE Cardinality(Granted)
    BY <1>1, FS_RemoveElement
  <1>5. ASSUME x \notin Granted, Granted' = Granted \cup {x}
        PROVE  Cardinality(Granted') = Cardinality(Granted) + 1
    BY <1>3, <1>5, Zenon
  <1>6. ASSUME x \in Granted, Granted' = Granted \ {x}
        PROVE  Cardinality(Granted') + 1 = Cardinality(Granted)
    <2>1. Cardinality(Granted') = Cardinality(Granted) - 1
      BY <1>4, <1>6, Zenon
    <2> QED BY <1>1, <2>1
  <1> QED BY <1>5, <1>6

-----------------------------------------------------------------------------
(* The initial states, of the invariant and of the tokens. *)
LEMMA InitLemma == Init => IInv /\ T!Init
  <1> SUFFICES ASSUME Init PROVE IInv /\ T!Init
    OBVIOUS
  <1> USE DEF Init
  <1>1. Waiting = {} /\ Granted = {} /\ taking = {}
    BY DEF Waiting, Granted, taking
  <1>0. sem \in Object /\ sem.list = <<>>
    <2>1. PICK v \in 0 .. MaxValue, f \in Flags :
            sem = [value |-> v, flag |-> f, live |-> TRUE, list |-> <<>>]
      OBVIOUS
    <2>2. <<>> \in Seq(Threads)
      OBVIOUS
    <2> QED BY <2>1, <2>2 DEF Object
  <1>2. Line
    <2>1. sem.list \in Seq(Threads) /\ arrived \in Seq(Threads)
      BY <1>0 DEF Object
    <2>2. Linked(<<>>) = {} /\ NoDup(<<>>)
      BY DEF Linked, NoDup
    <2> QED BY <1>0, <1>1, <2>1, <2>2 DEF Line
  <1>3. TypeOK
    BY <1>0 DEF TypeOK, PCs, Errors
  <1>4. T!Init
    <2>1. sem.value + Cardinality(Granted) \in Nat
      BY <1>1, <1>3, FS_EmptySet, SemValueAssumption DEF TypeOK, Object
    <2> QED BY <1>1, <2>1 DEF T!Init, taking
  <1> QED BY <1>1, <1>2, <1>3, <1>4 DEF IInv, Deleting

(* What every step has to establish. *)
Step == IInv' /\ (T!Next \/ UNCHANGED T!vars)

(* Both lists stay as they are. *)
LEMMA SameLineLemma ==
    ASSUME Line, sem'.list = sem.list, arrived' = arrived, Waiting' = Waiting
    PROVE  Line'
  BY DEF Line

(* While a masked deletion is under way nobody else gets in. *)
LEMMA EnabledLemma ==
    ASSUME CallerMasksIrq, Enabled
    PROVE  \A u \in Threads : pc[u] \notin Deleting
  BY DEF Enabled

(* The immediate take. *)
LEMMA TakeTokenStep ==
    ASSUME IInv, NEW t \in Threads, TakeToken(t)
    PROVE  Step
  <1> USE DEF TakeToken, thread
  <1>1. sem \in Object /\ sem.value > 0 /\ sem.value \in 0 .. MaxValue
    BY DEF IInv, TypeOK, Object
  <1>2. sem' = [sem EXCEPT !.value = sem.value - 1] /\ sem.value - 1 \in 0 .. MaxValue
    BY <1>1, SemValueAssumption
  <1>3. sem' \in Object /\ sem'.list = sem.list /\ sem'.live = sem.live
        /\ sem'.value = sem.value - 1
    BY <1>1, <1>2 DEF Object
  <1>4. Waiting = {} /\ Waiting' = Waiting /\ Granted' = Granted /\ taking' = taking
        /\ T!vars' = <<tokens', taking', era'>>
    BY <1>1 DEF IInv, Waiting, Granted, taking, tokens, T!vars
  <1>5. IInv'
    BY <1>3, <1>4, SameLineLemma DEF IInv, TypeOK
  <1>6. Calls(t) /\ t \notin taking
    BY DEF Calls, taking
  <1>7. T!Obtain(t)
    <2>1. tokens \in Nat /\ tokens > 0 /\ tokens' = tokens - 1
      BY <1>1, <1>3, <1>4, GrantedFinite DEF tokens
    <2> QED BY <1>4, <1>6, <2>1 DEF T!Obtain, tokens, taking
  <1> QED BY <1>5, <1>7 DEF Step, T!Next

(* A thread goes to sleep on the semaphore. *)
LEMMA TakeSuspendsStep ==
    ASSUME CallerMasksIrq, IInv, NEW t \in Threads, NEW ticks \in BOOLEAN,
           TakeSuspends(t, ticks)
    PROVE  Step
  <1> USE DEF TakeSuspends
  <1>1. sem \in Object /\ pc \in [Threads -> PCs] /\ error \in [Threads -> Errors]
        /\ timed \in [Threads -> BOOLEAN] /\ timer \in [Threads -> BOOLEAN]
    BY DEF IInv, TypeOK
  <1>2. pc[t] = "run" /\ sem.live /\ sem.value = 0 /\ t \notin Waiting
        /\ \A u \in Threads : pc[u] \notin Deleting
    BY EnabledLemma DEF Calls, Waiting
  <1>3. Waiting' = Waiting \cup {t}
    BY <1>1 DEF Waiting
  <1>4. sem'.list = _ipc_list_suspend(sem.list, t, sem.flag, Prio)
        /\ sem'.value = sem.value /\ sem'.live = sem.live /\ sem'.flag = sem.flag
    BY <1>1 DEF Object
  <1>5. Line'
    BY <1>2, <1>3, <1>4, JoinLemma DEF IInv
  <1>6. sem' \in Object
    <2>1. _ipc_list_suspend(sem.list, t, sem.flag, Prio) \in Seq(Threads)
      BY <1>4, <1>5 DEF Line
    <2> QED BY <1>1, <2>1 DEF Object
  <1>7. TypeOK'
    BY <1>1, <1>5, <1>6 DEF TypeOK, Line, PCs, Errors, IInv
  <1>8. \A u \in Threads : pc'[u] \notin Deleting
    BY <1>1, <1>2 DEF Deleting
  <1>9. /\ \A u \in Threads : timer'[u] => u \in Waiting'
        /\ \A u \in Waiting' : error'[u] = "EOK"
    BY <1>1, <1>3 DEF IInv, Waiting
  <1>10. IInv'
    BY <1>2, <1>4, <1>5, <1>7, <1>8, <1>9 DEF IInv, Deleting
  <1>11. T!Request(t)
    <2>1. Granted' = Granted
      BY <1>1, <1>2 DEF Granted
    <2>2. taking' = taking \cup {t} /\ t \notin taking
      BY <1>1, <1>2 DEF taking
    <2> QED BY <1>4, <2>1, <2>2 DEF T!Request, taking
  <1> QED BY <1>10, <1>11 DEF Step, T!Next

(* A take returns: with its token, or without one. *)
LEMMA TakeReturnsStep ==
    ASSUME CallerMasksIrq, IInv, NEW t \in Threads, TakeReturns(t)
    PROVE  Step
  <1> USE DEF TakeReturns
  <1>1. pc \in [Threads -> PCs] /\ pc[t] = "woken"
        /\ \A u \in Threads : pc[u] \notin Deleting
    BY EnabledLemma DEF IInv, TypeOK
  <1>2. Waiting' = Waiting
    BY <1>1 DEF Waiting
  <1>3. \A u \in Threads : pc'[u] \notin Deleting
    BY <1>1 DEF Deleting
  <1>4. TypeOK'
    BY <1>1 DEF IInv, TypeOK, PCs
  <1>5. IInv'
    BY <1>2, <1>3, <1>4, SameLineLemma DEF IInv, Deleting
  <1>6. T!Obtain(t) \/ T!Fail(t)
    <2>1. t \in taking /\ taking' = taking \ {t}
      BY <1>1 DEF taking
    <2>2. CASE error[t] = "EOK"
      <3>1. t \in Granted /\ Granted' = Granted \ {t}
        BY <1>1, <2>2 DEF Granted
      <3>2. Cardinality(Granted') + 1 = Cardinality(Granted)
            /\ Cardinality(Granted) \in Nat
        BY <3>1, GrantLemma, GrantedFinite
      <3>3. sem.value \in Nat /\ IsFiniteSet(Granted')
        <4>1. sem.value \in Nat
          BY SemValueAssumption DEF IInv, TypeOK, Object
        <4> QED BY <3>1, <4>1, GrantedFinite, FS_RemoveElement
      <3>4. Cardinality(Granted') \in Nat
        BY <3>3, FS_CardinalityType
      <3> QED BY <2>1, <3>2, <3>3, <3>4 DEF T!Obtain, taking
    <2>3. CASE error[t] # "EOK"
      <3>1. Granted' = Granted
        BY <1>1, <2>3 DEF Granted
      <3> QED BY <2>1, <3>1 DEF T!Fail, taking
    <2> QED BY <2>2, <2>3
  <1> QED BY <1>5, <1>6 DEF Step, T!Next

(* A waiter leaves the list and is awake: its invariant, whatever the reason. *)
LEMMA WakeLemma ==
    ASSUME CallerMasksIrq, IInv, Enabled, NEW x \in Waiting, NEW e \in Errors, Wake(x, e),
           sem' = [sem EXCEPT !.list = rt_list_remove(sem.list, x)], UNCHANGED era
    PROVE  IInv' /\ taking' = taking /\ sem'.value = sem.value
           /\ Granted' = (IF e = "EOK" THEN Granted \cup {x} ELSE Granted)
           /\ x \notin Granted
  <1> USE DEF Wake
  <1>1. sem \in Object /\ pc \in [Threads -> PCs] /\ error \in [Threads -> Errors]
        /\ timer \in [Threads -> BOOLEAN] /\ x \in Threads /\ pc[x] = "waiting"
        /\ \A u \in Threads : pc[u] \notin Deleting
    BY EnabledLemma DEF IInv, TypeOK, Waiting
  <1>2. Waiting' = Waiting \ {x}
    BY <1>1 DEF Waiting
  <1>3. sem'.list = rt_list_remove(sem.list, x) /\ sem'.value = sem.value
        /\ sem'.live = sem.live
    BY <1>1 DEF Object
  <1>4. Line'
    BY <1>2, <1>3, LeaveLemma DEF IInv
  <1>5. sem' \in Object
    <2>1. rt_list_remove(sem.list, x) \in Seq(Threads)
      BY <1>3, <1>4 DEF Line
    <2> QED BY <1>1, <2>1 DEF Object
  <1>6. TypeOK'
    BY <1>1, <1>4, <1>5 DEF IInv, TypeOK, Line, PCs
  <1>7. \A u \in Threads : pc'[u] \notin Deleting
    BY <1>1 DEF Deleting
  <1>8. /\ \A u \in Threads : timer'[u] => u \in Waiting'
        /\ \A u \in Waiting' : error'[u] = "EOK"
    BY <1>1, <1>2 DEF IInv
  <1>9. IInv'
    BY <1>2, <1>3, <1>4, <1>6, <1>7, <1>8 DEF IInv, Deleting
  <1>10. Granted' = (IF e = "EOK" THEN Granted \cup {x} ELSE Granted) /\ x \notin Granted
    BY <1>1 DEF Granted
  <1>11. taking' = taking
    BY <1>1 DEF taking
  <1> QED BY <1>3, <1>9, <1>10, <1>11

(* A timeout: the client sees nothing until the take returns. *)
LEMMA TimeoutStep ==
    ASSUME CallerMasksIrq, IInv, NEW t \in Threads, _thread_timeout(t)
    PROVE  Step
  <1>1. t \in Waiting /\ Enabled /\ Wake(t, "ETIMEOUT") /\ era' = era
        /\ sem' = [sem EXCEPT !.list = rt_list_remove(sem.list, t)]
    BY DEF _thread_timeout, IInv
  <1>2. IInv' /\ taking' = taking /\ sem'.value = sem.value /\ Granted' = Granted
    BY <1>1, WakeLemma DEF Errors
  <1>3. UNCHANGED T!vars
    BY <1>1, <1>2 DEF T!vars, taking
  <1> QED BY <1>2, <1>3 DEF Step

(* A release: one token more, for the first waiter or for the count. *)
LEMMA ReleaseStep ==
    ASSUME CallerMasksIrq, IInv, rt_sem_release
    PROVE  Step
  <1> USE DEF rt_sem_release
  <1>1. sem \in Object /\ sem.value \in Nat /\ Cardinality(Granted) \in Nat
        /\ sem.list \in Seq(Threads) /\ Linked(sem.list) = Waiting
    BY GrantedFinite, SemValueAssumption DEF IInv, TypeOK, Object, Line
  <1>2. CASE sem.list = <<>>
    <2>1. sem.value < MaxValue /\ sem' = [sem EXCEPT !.value = sem.value + 1]
          /\ UNCHANGED <<thread, arrived, era>>
      BY <1>2 DEF rt_list_isempty
    <2>2. sem.value + 1 \in 0 .. MaxValue
      BY <1>1, <2>1, SemValueAssumption
    <2>3. sem' \in Object /\ sem'.list = sem.list /\ sem'.live = sem.live
          /\ sem'.value = sem.value + 1
      BY <1>1, <2>1, <2>2 DEF Object
    <2>4. Waiting = {}
      BY <1>1, <1>2, EmptyLemma
    <2>5. Waiting' = Waiting /\ Granted' = Granted /\ taking' = taking
      BY <2>1 DEF thread, Waiting, Granted, taking
    <2>6. IInv'
      BY <2>1, <2>3, <2>4, <2>5, SameLineLemma DEF IInv, TypeOK, thread
    <2>7. T!Give
      BY <1>1, <2>1, <2>3, <2>5 DEF T!Give, taking
    <2> QED BY <2>6, <2>7 DEF Step, T!Next
  <1>3. CASE sem.list # <<>>
    <2> DEFINE x == Head(sem.list)
    <2>1. x \in Waiting /\ error[x] = "EOK"
      BY <1>1, <1>3, EmptyLemma DEF IInv
    <2>2. Wake(x, "EOK") /\ UNCHANGED era /\ Enabled
          /\ sem' = [sem EXCEPT !.list = rt_list_remove(sem.list, x)]
      BY <1>3, <2>1 DEF rt_list_isempty
    <2> HIDE DEF x
    <2>3. IInv' /\ taking' = taking /\ sem'.value = sem.value
          /\ Granted' = Granted \cup {x} /\ x \notin Granted
      BY <2>1, <2>2, WakeLemma DEF Errors
    <2>4. Cardinality(Granted') = Cardinality(Granted) + 1
      BY <2>3, GrantLemma
    <2>5. T!Give
      <3>1. /\ Cardinality(Granted') = Cardinality(Granted) + 1 /\ sem'.value = sem.value
            /\ sem.value \in Nat /\ Cardinality(Granted) \in Nat /\ taking' = taking
        BY <1>1, <2>3, <2>4
      <3>2. sem'.value + Cardinality(Granted') = (sem.value + Cardinality(Granted)) + 1
        BY ONLY <3>1
      <3> QED BY <2>2, <3>1, <3>2 DEF T!Give, taking
    <2> QED BY <2>3, <2>5 DEF Step, T!Next
  <1> QED BY <1>2, <1>3

(* A reset: the waiters are refused, those already served keep their token. *)
LEMMA ControlStep ==
    ASSUME CallerMasksIrq, IInv, NEW v \in 0 .. MaxValue + 1, rt_sem_control(v)
    PROVE  Step
  <1> USE DEF rt_sem_control
  <1>1. sem \in Object /\ pc \in [Threads -> PCs] /\ error \in [Threads -> Errors]
        /\ timer \in [Threads -> BOOLEAN] /\ Linked(sem.list) = Waiting
        /\ \A u \in Threads : pc[u] \notin Deleting
    BY EnabledLemma DEF IInv, TypeOK, Line
  <1>2. v % (MaxValue + 1) \in 0 .. MaxValue
    BY SemValueAssumption
  <1>3. /\ sem' = [sem EXCEPT !.list = <<>>, !.value = v % (MaxValue + 1)]
        /\ pc' = [t \in Threads |-> IF t \in Waiting THEN "woken" ELSE pc[t]]
        /\ error' = [t \in Threads |-> IF t \in Waiting THEN "ERROR" ELSE error[t]]
        /\ timer' = [t \in Threads |-> timer[t] /\ t \notin Waiting]
        /\ arrived' = <<>> /\ era' = 1 - era /\ timed' = timed
    BY <1>1
  <1>4. sem' \in Object /\ sem'.list = <<>> /\ sem'.value \in Nat
    <2>1. <<>> \in Seq(Threads) /\ v % (MaxValue + 1) \in Nat
      BY <1>2, SemValueAssumption
    <2> QED BY <1>1, <1>2, <1>3, <2>1 DEF Object
  <1>5. Waiting' = {}
    BY <1>3 DEF Waiting
  <1>6. Line'
    BY <1>3, <1>4, <1>5, EmptyLineLemma
  <1>7. TypeOK'
    <2>1. \A t \in Threads : (timer[t] /\ t \notin Waiting) \in BOOLEAN
      OBVIOUS
    <2>2. timer' \in [Threads -> BOOLEAN]
      BY <1>3, <2>1, Zenon
    <2>3. pc' \in [Threads -> PCs] /\ error' \in [Threads -> Errors]
      BY <1>1, <1>3 DEF PCs, Errors
    <2>4. timed' \in [Threads -> BOOLEAN] /\ era' \in {0, 1}
      BY <1>3 DEF IInv, TypeOK
    <2> QED BY <1>4, <1>6, <2>2, <2>3, <2>4 DEF TypeOK, Line
  <1>8. /\ \A u \in Threads : pc'[u] \notin Deleting
        /\ \A u \in Threads : timer'[u] => u \in Waiting'
    <2>1. \A u \in Threads : pc'[u] \notin Deleting
      BY <1>1, <1>3 DEF Deleting
    <2>2. \A u \in Threads : timer[u] => u \in Waiting
      BY DEF IInv
    <2>3. \A u \in Threads : ~timer'[u]
      BY <1>3, <2>2, Zenon
    <2> QED BY <2>1, <2>3
  <1>9. IInv'
    BY <1>5, <1>6, <1>7, <1>8 DEF IInv, Deleting
  <1>10. Granted' = Granted
    BY <1>1, <1>3 DEF Granted, Waiting
  <1>11. T!Restart
    <2>1. taking' = taking
      BY <1>1, <1>3 DEF taking, Waiting
    <2>2. sem'.value + Cardinality(Granted') \in Nat
      BY <1>4, <1>10, GrantedFinite
    <2> QED BY <1>3, <2>1, <2>2 DEF T!Restart, taking
  <1> QED BY <1>9, <1>11 DEF Step, T!Next

(* A deletion starts, and looks whether somebody still waits. *)
LEMMA DeleteTestStep ==
    ASSUME CallerMasksIrq, IInv, NEW t \in Threads, rt_sem_delete(t) \/ ResumeAllTests(t)
    PROVE  Step
  <1>1. sem \in Object /\ pc \in [Threads -> PCs] /\ sem.list \in Seq(Threads)
        /\ Linked(sem.list) = Waiting
    BY DEF IInv, TypeOK, Line
  <1>2. PICK l \in Deleting : Goto(t, l)
    BY DEF rt_sem_delete, ResumeAllTests, Deleting
  <1>3. UNCHANGED <<sem, error, timed, timer, arrived, era>> /\ pc' = [pc EXCEPT ![t] = l]
    BY <1>2 DEF Goto
  <1>4. pc[t] \in {"run", "resumeall"} /\ sem.live
        /\ \A u \in Threads \ {t} : pc[u] \notin Deleting
    BY EnabledLemma DEF rt_sem_delete, ResumeAllTests, Calls, IInv, Deleting
  <1>5. (l = "object" => Waiting = {}) /\ (l = "pop" => Waiting # {})
    <2>1. CASE rt_sem_delete(t)
      <3>1. pc'[t] = "resumeall"
        BY <1>1, <2>1 DEF rt_sem_delete, Goto
      <3> QED BY <1>1, <1>3, <3>1
    <2>2. CASE ResumeAllTests(t)
      <3>1. (l = "object" => sem.list = <<>>) /\ (l = "pop" => sem.list # <<>>)
        BY <1>1, <1>3, <2>2 DEF ResumeAllTests, Goto, rt_list_isempty
      <3> QED BY <1>1, <3>1, EmptyLemma
    <2> QED BY <2>1, <2>2
  <1>6. Waiting' = Waiting /\ Granted' = Granted /\ taking' = taking
    BY <1>1, <1>2, <1>3, <1>4 DEF Waiting, Granted, taking, Deleting
  <1>7. TypeOK' /\ Line'
    BY <1>1, <1>2, <1>3, <1>6, SameLineLemma DEF IInv, TypeOK, PCs, Deleting
  <1>8. \A u \in Threads : pc'[u] \in Deleting => u = t
    BY <1>1, <1>3, <1>4
  <1>9. \A u \in Threads : /\ pc'[u] = "object" => Waiting' = {}
                           /\ pc'[u] = "pop" => Waiting' # {}
    BY <1>1, <1>3, <1>4, <1>5, <1>6 DEF Deleting
  <1>10. IInv'
    BY <1>3, <1>4, <1>6, <1>7, <1>8, <1>9 DEF IInv
  <1>11. UNCHANGED T!vars
    BY <1>3, <1>6 DEF T!vars, taking
  <1> QED BY <1>10, <1>11 DEF Step

(* A deletion refuses the first waiter. *)
LEMMA ResumeAllPopsStep ==
    ASSUME CallerMasksIrq, IInv, NEW t \in Threads, ResumeAllPops(t)
    PROVE  Step
  <1> USE DEF ResumeAllPops
  <1> DEFINE x == Head(sem.list)
  <1>1. sem \in Object /\ pc \in [Threads -> PCs] /\ error \in [Threads -> Errors]
        /\ timer \in [Threads -> BOOLEAN] /\ sem.list \in Seq(Threads)
        /\ Linked(sem.list) = Waiting
    BY DEF IInv, TypeOK, Line
  <1>2. x \in Waiting /\ x \in Threads /\ pc[x] = "waiting"
    BY <1>1, EmptyLemma DEF rt_list_isempty, Waiting
  <1>3. /\ sem' = [sem EXCEPT !.list = rt_list_remove(sem.list, x)]
        /\ pc' = [pc EXCEPT ![x] = "woken", ![t] = "resumeall"]
        /\ error' = [error EXCEPT ![x] = "ERROR"]
        /\ timer' = [timer EXCEPT ![x] = FALSE]
        /\ arrived' = rt_list_remove(arrived, x)
        /\ UNCHANGED <<timed, era>> /\ pc[t] = "pop"
    OBVIOUS
  <1> HIDE DEF x, ResumeAllPops
  <1>4. sem.live /\ \A u \in Threads \ {t} : pc[u] \notin Deleting
    BY <1>3 DEF IInv, Deleting
  <1>5. Waiting' = Waiting \ {x}
    BY <1>1, <1>2, <1>3 DEF Waiting
  <1>6. sem'.list = rt_list_remove(sem.list, x) /\ sem'.value = sem.value
        /\ sem'.live = sem.live
    BY <1>1, <1>3 DEF Object
  <1>7. Line'
    BY <1>3, <1>5, <1>6, LeaveLemma DEF IInv
  <1>8. sem' \in Object
    <2>1. rt_list_remove(sem.list, x) \in Seq(Threads)
      BY <1>6, <1>7 DEF Line
    <2> QED BY <1>1, <1>3, <2>1 DEF Object
  <1>9. TypeOK'
    BY <1>1, <1>3, <1>7, <1>8 DEF IInv, TypeOK, Line, PCs, Errors
  <1>10. /\ \A u \in Threads : pc'[u] \in Deleting => u = t
         /\ \A u \in Threads : pc'[u] \notin {"object", "pop"}
    BY <1>1, <1>2, <1>3, <1>4 DEF Deleting
  <1>11. /\ \A u \in Threads : timer'[u] => u \in Waiting'
         /\ \A u \in Waiting' : error'[u] = "EOK"
    BY <1>1, <1>3, <1>5 DEF IInv, Waiting
  <1>12. IInv'
    BY <1>4, <1>5, <1>6, <1>7, <1>9, <1>10, <1>11 DEF IInv
  <1>13. Granted' = Granted /\ taking' = taking
    BY <1>1, <1>2, <1>3 DEF Granted, taking
  <1>14. UNCHANGED T!vars
    BY <1>3, <1>6, <1>13 DEF T!vars, taking
  <1> QED BY <1>12, <1>14 DEF Step

(* The object goes, with nobody waiting. *)
LEMMA ObjectDeleteStep ==
    ASSUME CallerMasksIrq, IInv, NEW t \in Threads, rt_object_delete(t)
    PROVE  Step
  <1> USE DEF rt_object_delete
  <1>1. sem \in Object /\ pc \in [Threads -> PCs] /\ Waiting = {}
        /\ \A u \in Threads \ {t} : pc[u] \notin Deleting
    BY DEF IInv, TypeOK, Deleting
  <1>2. sem' \in Object /\ sem'.list = sem.list /\ sem'.value = sem.value
    BY <1>1 DEF Object
  <1>3. Waiting' = Waiting /\ Granted' = Granted /\ taking' = taking
    BY <1>1 DEF Waiting, Granted, taking
  <1>4. TypeOK' /\ Line'
    BY <1>1, <1>2, <1>3, SameLineLemma DEF IInv, TypeOK, PCs
  <1>5. \A u \in Threads : pc'[u] \notin Deleting
    BY <1>1 DEF Deleting
  <1>6. IInv'
    BY <1>1, <1>3, <1>4, <1>5 DEF IInv, Deleting
  <1>7. UNCHANGED T!vars
    BY <1>2, <1>3 DEF T!vars, taking
  <1> QED BY <1>6, <1>7 DEF Step

(* A new semaphore in its place. *)
LEMMA SemInitStep ==
    ASSUME CallerMasksIrq, IInv, NEW t \in Threads, NEW v \in 0 .. MaxValue,
           NEW flag \in Flags, rt_sem_init(t, v, flag)
    PROVE  Step
  <1> USE DEF rt_sem_init, thread
  <1>1. Waiting = {} /\ \A u \in Threads : pc[u] \notin Deleting
    BY DEF IInv
  <1>2. sem' \in Object /\ sem'.list = <<>> /\ sem'.value \in Nat
    <2>1. <<>> \in Seq(Threads) /\ v \in Nat
      BY SemValueAssumption
    <2> QED BY <2>1 DEF Object
  <1>3. Waiting' = Waiting /\ Granted' = Granted /\ taking' = taking
    BY DEF Waiting, Granted, taking
  <1>4. Line'
    <2>1. sem'.list \in Seq(Threads) /\ Linked(<<>>) = {} /\ NoDup(<<>>)
      BY <1>2 DEF Linked, NoDup
    <2> QED BY <1>1, <1>2, <1>3, <2>1 DEF Line, IInv
  <1>5. TypeOK'
    BY <1>2 DEF IInv, TypeOK
  <1>6. IInv'
    BY <1>1, <1>3, <1>4, <1>5 DEF IInv, Deleting
  <1>7. T!Restart
    <2>1. sem'.value + Cardinality(Granted') \in Nat
      BY <1>2, <1>3, GrantedFinite
    <2> QED BY <1>3, <2>1 DEF T!Restart, taking
  <1> QED BY <1>6, <1>7 DEF Step, T!Next

(* A thread is deleted inside its take, with a token in its hand or without. *)
LEMMA ThreadDeleteStep ==
    ASSUME CallerMasksIrq, IInv, NEW x \in Threads, rt_thread_delete(x)
    PROVE  Step
  <1> USE DEF rt_thread_delete
  <1>1. sem \in Object /\ pc \in [Threads -> PCs] /\ pc[x] \in {"waiting", "woken"}
        /\ timer \in [Threads -> BOOLEAN] /\ \A u \in Threads : pc[u] \notin Deleting
    BY EnabledLemma DEF IInv, TypeOK
  <1>2. Waiting' = Waiting \ {x}
    BY <1>1 DEF Waiting
  <1>3. sem'.list = rt_list_remove(sem.list, x) /\ sem'.value = sem.value
        /\ sem'.live = sem.live
    BY <1>1 DEF Object
  <1>4. Line'
    BY <1>2, <1>3, LeaveLemma DEF IInv
  <1>5. TypeOK'
    <2>1. rt_list_remove(sem.list, x) \in Seq(Threads)
      BY <1>3, <1>4 DEF Line
    <2>2. sem' \in Object
      BY <1>1, <2>1 DEF Object
    <2> QED BY <1>1, <1>4, <2>2 DEF IInv, TypeOK, Line, PCs
  <1>6. \A u \in Threads : pc'[u] \notin Deleting
    BY <1>1 DEF Deleting
  <1>7. /\ \A u \in Threads : timer'[u] => u \in Waiting'
        /\ \A u \in Waiting' : error'[u] = "EOK"
    BY <1>1, <1>2 DEF IInv
  <1>8. IInv'
    BY <1>2, <1>3, <1>4, <1>5, <1>6, <1>7 DEF IInv, Deleting
  <1>9. x \in taking /\ taking' = taking \ {x}
    BY <1>1 DEF taking
  <1>10. CASE x \in Granted
    <2>1. Granted' = Granted \ {x}
      BY <1>1 DEF Granted
    <2>2. Cardinality(Granted') + 1 = Cardinality(Granted) /\ IsFiniteSet(Granted')
      BY <1>10, <2>1, GrantLemma, GrantedFinite, FS_RemoveElement
    <2>3. Cardinality(Granted') \in Nat /\ sem.value \in Nat
      BY <1>1, <2>2, FS_CardinalityType, SemValueAssumption DEF Object
    <2>4. T!Obtain(x)
      BY <1>3, <1>9, <2>2, <2>3 DEF T!Obtain, taking
    <2> QED BY <1>8, <2>4 DEF Step, T!Next
  <1>11. CASE x \notin Granted
    <2>1. Granted' = Granted
      BY <1>1, <1>11 DEF Granted
    <2>2. T!Fail(x)
      BY <1>3, <1>9, <2>1 DEF T!Fail, taking
    <2> QED BY <1>8, <2>2 DEF Step, T!Next
  <1> QED BY <1>10, <1>11

(* Nothing happens. *)
LEMMA StutterStep ==
    ASSUME IInv, UNCHANGED vars
    PROVE  Step
  <1> USE DEF vars, thread
  <1>1. Waiting' = Waiting /\ Granted' = Granted /\ taking' = taking
    BY DEF Waiting, Granted, taking
  <1>2. TypeOK' /\ Line'
    BY <1>1, SameLineLemma DEF IInv, TypeOK
  <1>3. IInv'
    BY <1>1, <1>2 DEF IInv
  <1>4. UNCHANGED T!vars
    BY <1>1 DEF T!vars, taking
  <1> QED BY <1>3, <1>4 DEF Step

(* Every step keeps the invariant and is one of Tokens, or none of it. *)
LEMMA NextLemma ==
    ASSUME CallerMasksIrq, IInv, [Next]_vars
    PROVE  Step
  <1>1. CASE UNCHANGED vars
    BY <1>1, StutterStep
  <1>2. CASE rt_sem_release
    BY <1>2, ReleaseStep
  <1>3. ASSUME NEW v \in 0 .. MaxValue + 1, rt_sem_control(v) PROVE Step
    BY <1>3, ControlStep
  <1>4. ASSUME NEW t \in Threads, TakeToken(t) PROVE Step
    BY <1>4, TakeTokenStep
  <1>5. ASSUME NEW t \in Threads, NEW ticks \in BOOLEAN, TakeSuspends(t, ticks) PROVE Step
    BY <1>5, TakeSuspendsStep
  <1>6. ASSUME NEW t \in Threads, TakeReturns(t) PROVE Step
    BY <1>6, TakeReturnsStep
  <1>7. ASSUME NEW t \in Threads, _thread_timeout(t) PROVE Step
    BY <1>7, TimeoutStep
  <1>8. ASSUME NEW t \in Threads, rt_thread_delete(t) PROVE Step
    BY <1>8, ThreadDeleteStep
  <1>9. ASSUME NEW t \in Threads, rt_sem_delete(t) \/ ResumeAllTests(t) PROVE Step
    BY <1>9, DeleteTestStep
  <1>10. ASSUME NEW t \in Threads, ResumeAllPops(t) PROVE Step
    BY <1>10, ResumeAllPopsStep
  <1>11. ASSUME NEW t \in Threads, rt_object_delete(t) PROVE Step
    BY <1>11, ObjectDeleteStep
  <1>12. ASSUME NEW t \in Threads, NEW v \in 0 .. MaxValue, NEW flag \in Flags,
                rt_sem_init(t, v, flag)
         PROVE  Step
    BY <1>12, SemInitStep
  <1> QED BY <1>1, <1>2, <1>3, <1>4, <1>5, <1>6, <1>7, <1>8, <1>9, <1>10, <1>11, <1>12
          DEF Next

-----------------------------------------------------------------------------
(* The inductive invariant. *)
THEOREM Invariance == CallerMasksIrq => (Spec => []IInv)
  <1> SUFFICES ASSUME CallerMasksIrq PROVE Spec => []IInv
    OBVIOUS
  <1>1. Init => IInv
    BY InitLemma
  <1>2. IInv /\ [Next]_vars => IInv'
    BY NextLemma DEF Step
  <1> QED BY <1>1, <1>2, PTL DEF Spec

(* The object, the threads' errors and timers keep their types; the value    *)
(* stays within sixteen bits.                                               *)
THEOREM SemaphoreTypeCorrect == CallerMasksIrq => (Spec => []TypeOK)
  <1>1. IInv => TypeOK
    BY DEF IInv
  <1> QED BY <1>1, Invariance, PTL

(* Nobody waits while there is a token, off the list, or on a dead object.  *)
THEOREM NobodyWaitsInVain == CallerMasksIrq => (Spec => []WaitsForToken)
  <1>1. IInv => WaitsForToken
    BY DEF IInv, Line, Waiting, WaitsForToken
  <1> QED BY <1>1, Invariance, PTL

(* _ipc_list_resume_all never takes the first entry of an empty list, and    *)
(* the RT_ASSERT of rt_thread_resume holds, when the caller of rt_sem_delete *)
(* masks interrupts.                                                        *)
THEOREM MaskedResumeAll == CallerMasksIrq => (Spec => []ResumeAllFindsThread)
  <1>1. IInv => ResumeAllFindsThread
    <2> SUFFICES ASSUME IInv PROVE ResumeAllFindsThread
      OBVIOUS
    <2>1. sem.list \in Seq(Threads) /\ (sem.list = <<>> => Waiting = {})
      BY EmptyLemma DEF IInv, Line
    <2> QED BY <2>1 DEF IInv, ResumeAllFindsThread, rt_list_isempty
  <1> QED BY <1>1, Invariance, PTL

(* The semaphore implements Tokens: timeouts, hand-overs, deletions and      *)
(* resets neither lose a token nor make one.                                *)
THEOREM TokensConserved == CallerMasksIrq => (Spec => ImplementsTokens)
  <1> SUFFICES ASSUME CallerMasksIrq PROVE Spec => T!Spec
    BY DEF ImplementsTokens
  <1>1. Init => IInv /\ T!Init
    BY InitLemma
  <1>2. IInv /\ [Next]_vars => IInv' /\ [T!Next]_(T!vars)
    BY NextLemma DEF Step
  <1> QED BY <1>1, <1>2, PTL DEF Spec, T!Spec

-----------------------------------------------------------------------------
(* The order the flag asks for, of threads that arrived as in a. *)
InLine(flag, a) ==
    {z \in Threads \X Threads :
        IF flag = "FIFO" THEN z \in Before(a)
        ELSE Prio[z[1]] < Prio[z[2]] \/ (Prio[z[1]] = Prio[z[2]] /\ z \in Before(a))}

LEMMA InLineLemma ==
    ASSUME NEW flag, NEW a, NEW x \in Threads, NEW y \in Threads
    PROVE  <<x, y>> \in InLine(flag, a) <=>
              IF flag = "FIFO" THEN <<x, y>> \in Before(a)
              ELSE Prio[x] < Prio[y] \/ (Prio[x] = Prio[y] /\ <<x, y>> \in Before(a))
  BY DEF InLine

(* WaitersInOrder says that of a list of those who arrived. *)
LEMMA OrderLemma ==
    ASSUME NEW q \in Seq(Threads), NEW a, Linked(q) = Linked(a), NEW flag
    PROVE  Ordered(q, InLine(flag, a)) <=>
             \A i, j \in DOMAIN q : i < j =>
                LET before == Position(a, q[i]) < Position(a, q[j])
                IN  IF flag = "FIFO" THEN before
                    ELSE Prio[q[i]] < Prio[q[j]] \/ (Prio[q[i]] = Prio[q[j]] /\ before)
  <1>1. ASSUME NEW i \in DOMAIN q, NEW j \in DOMAIN q
        PROVE  <<q[i], q[j]>> \in InLine(flag, a) <=>
                LET before == Position(a, q[i]) < Position(a, q[j])
                IN  IF flag = "FIFO" THEN before
                    ELSE Prio[q[i]] < Prio[q[j]] \/ (Prio[q[i]] = Prio[q[j]] /\ before)
    <2>1. q[i] \in Threads /\ q[j] \in Threads
      OBVIOUS
    <2>2. q[i] \in Linked(a) /\ q[j] \in Linked(a)
      <3>1. q[i] \in Linked(q) /\ q[j] \in Linked(q)
        BY DEF Linked
      <3> QED BY <3>1
    <2>3. <<q[i], q[j]>> \in Before(a) <=> Position(a, q[i]) < Position(a, q[j])
      BY <2>2 DEF Before
    <2> QED BY <2>1, <2>3, InLineLemma
  <1> QED BY <1>1 DEF Ordered

(* A thread leaves the list and the history of arrivals, from anywhere. *)
LEMMA LeaveInOrder ==
    ASSUME NEW q \in Seq(Threads), NEW a \in Seq(Threads), NoDup(q), NoDup(a),
           Linked(q) = Linked(a), NEW flag, NEW x, Ordered(q, InLine(flag, a))
    PROVE  Ordered(rt_list_remove(q, x), InLine(flag, rt_list_remove(a, x)))
  <1> DEFINE r == rt_list_remove(q, x)
             b == rt_list_remove(a, x)
  <1>1. Ordered(r, InLine(flag, a)) /\ Linked(r) = Linked(q) \ {x}
        /\ Linked(r) \subseteq Threads
    BY RemoveOrdered, RemoveLemma, EmptyLemma
  <1>2. ASSUME NEW u \in Linked(r), NEW v \in Linked(r)
        PROVE  <<u, v>> \in Before(b) <=> <<u, v>> \in Before(a)
    <2>1. u \in Linked(a) \ {x} /\ v \in Linked(a) \ {x}
      BY <1>1
    <2> QED BY <2>1, RemoveBefore
  <1> HIDE DEF r, b
  <1>3. \A u, v \in Linked(r) : <<u, v>> \in InLine(flag, a) => <<u, v>> \in InLine(flag, b)
    BY <1>1, <1>2, InLineLemma
  <1>4. Ordered(r, InLine(flag, b))
    BY <1>1, <1>3, OrderedByLemma
  <1> QED BY <1>4 DEF r, b

(* A thread joins the list at its place, and the arrivals at the end. *)
LEMMA JoinInOrder ==
    ASSUME NEW q \in Seq(Threads), NEW a \in Seq(Threads), NoDup(q), NoDup(a),
           Linked(q) = Linked(a), NEW flag, NEW t \in Threads, t \notin Linked(a),
           Ordered(q, InLine(flag, a))
    PROVE  Ordered(_ipc_list_suspend(q, t, flag, Prio), InLine(flag, Append(a, t)))
  <1> DEFINE b == Append(a, t)
  <1>1. /\ \A u \in Linked(q) : u \in Threads /\ <<u, t>> \in Before(b)
        /\ \A u, v \in Linked(q) : <<u, v>> \in Before(a) => <<u, v>> \in Before(b)
    BY AppendBefore, EmptyLemma
  <1> HIDE DEF b
  <1>2. ASSUME NEW u \in Linked(q), NEW v \in Linked(q), <<u, v>> \in InLine(flag, a)
        PROVE  <<u, v>> \in InLine(flag, b)
    <2>1. u \in Threads /\ v \in Threads /\ (<<u, v>> \in Before(a) => <<u, v>> \in Before(b))
      BY <1>1
    <2> QED BY <1>2, <2>1, InLineLemma
  <1>3. Ordered(q, InLine(flag, b))
    BY <1>2, OrderedByLemma
  <1>4. CASE flag = "FIFO"
    <2>1. \A u \in Linked(q) : <<u, t>> \in InLine(flag, b)
      BY <1>1, <1>4, InLineLemma
    <2>2. Ordered(rt_list_insert_before(q, t), InLine(flag, b))
      BY <1>3, <2>1, AppendOrdered
    <2> QED BY <1>4, <2>2 DEF _ipc_list_suspend, b
  <1>5. CASE flag # "FIFO"
    <2>0. Prio \in [Threads -> Nat]
      BY SemPrioAssumption
    <2>1. PICK k \in 1 .. Len(q) + 1 :
            /\ k = SuitablePosition(q, t, Prio)
            /\ \A i \in 1 .. k - 1 : Prio[q[i]] <= Prio[t]
            /\ k <= Len(q) => Prio[t] < Prio[q[k]]
      BY <2>0, PositionLemma
    <2>2. /\ DOMAIN q = 1 .. Len(q) /\ Len(q) \in Nat
          /\ \A i \in DOMAIN q : q[i] \in Linked(q) /\ q[i] \in Threads
      BY DEF Linked
    <2>3. \A i \in DOMAIN q : Prio[q[i]] \in Nat
      BY <2>0, <2>2
    <2>4. Prio[t] \in Nat
      BY <2>0
    <2>5. ASSUME NEW i \in DOMAIN q, i < k PROVE <<q[i], t>> \in InLine(flag, b)
      <3>1. Prio[q[i]] <= Prio[t]
        BY <2>1, <2>2, <2>5
      <3>2. Prio[q[i]] < Prio[t] \/ Prio[q[i]] = Prio[t]
        BY <2>3, <2>4, <3>1
      <3> QED BY <1>1, <1>5, <2>2, <3>2, InLineLemma
    <2>6. ASSUME NEW i \in DOMAIN q, i >= k PROVE <<t, q[i]>> \in InLine(flag, b)
      <3>1. k \in DOMAIN q /\ Prio[t] < Prio[q[k]]
        BY <2>1, <2>2, <2>6
      <3>2. Prio[q[k]] <= Prio[q[i]]
        <4>1. CASE i = k
          BY <2>3, <4>1
        <4>2. CASE k < i
          <5>1. <<q[k], q[i]>> \in InLine(flag, b)
            BY <1>3, <3>1, <4>2 DEF Ordered
          <5> QED BY <1>5, <2>2, <2>3, <3>1, <5>1, InLineLemma
        <4> QED BY <2>2, <2>6, <4>1, <4>2
      <3>3. Prio[t] < Prio[q[i]]
        BY <2>3, <2>4, <3>1, <3>2
      <3> QED BY <1>5, <2>2, <3>3, InLineLemma
    <2>7. Ordered(InsertAtPosition(q, k, t), InLine(flag, b))
      BY <1>3, <2>5, <2>6, InsertOrdered
    <2> QED BY <1>5, <2>1, <2>7 DEF _ipc_list_suspend, b
  <1> QED BY <1>4, <1>5

(* The four things a step can do to the line. *)
Stays    == sem'.list = sem.list /\ sem'.flag = sem.flag /\ arrived' = arrived
Clears   == sem'.list = <<>>
Joins(t) == /\ sem'.list = _ipc_list_suspend(sem.list, t, sem.flag, Prio)
            /\ arrived' = Append(arrived, t) /\ sem'.flag = sem.flag
Leaves(x) == /\ sem'.list = rt_list_remove(sem.list, x)
             /\ arrived' = rt_list_remove(arrived, x) /\ sem'.flag = sem.flag

LEMMA LineMoves ==
    ASSUME IInv, [Next]_vars
    PROVE  \/ Stays \/ Clears \/ (\E x \in Threads : Leaves(x))
           \/ \E t \in Threads : t \notin Waiting /\ Joins(t)
  <1>0. sem \in Object /\ sem.list \in Seq(Threads)
    BY DEF IInv, TypeOK, Line
  <1>1. CASE UNCHANGED vars
    BY <1>1 DEF vars, Stays
  <1>2. CASE rt_sem_release
    <2>1. CASE sem.list = <<>>
      BY <1>0, <1>2, <2>1 DEF rt_sem_release, rt_list_isempty, Object, Stays
    <2>2. CASE sem.list # <<>>
      <3>1. Head(sem.list) \in Threads
        BY <1>0, <2>2
      <3>2. Leaves(Head(sem.list))
        BY <1>0, <1>2, <2>2 DEF rt_sem_release, rt_list_isempty, Object, Wake, Leaves
      <3> QED BY <3>1, <3>2
    <2> QED BY <2>1, <2>2
  <1>3. CASE \E v \in 0 .. MaxValue + 1 : rt_sem_control(v)
    BY <1>0, <1>3 DEF rt_sem_control, Object, Clears
  <1>4. ASSUME NEW t \in Threads, TakeToken(t) PROVE Stays
    BY <1>0, <1>4 DEF TakeToken, Object, Stays
  <1>5. ASSUME NEW t \in Threads, NEW ticks \in BOOLEAN, TakeSuspends(t, ticks)
        PROVE  t \notin Waiting /\ Joins(t)
    BY <1>0, <1>5 DEF TakeSuspends, Calls, Waiting, Object, Joins
  <1>6. ASSUME NEW t \in Threads,
               TakeReturns(t) \/ rt_sem_delete(t) \/ ResumeAllTests(t) \/ rt_object_delete(t)
        PROVE  Stays
    BY <1>0, <1>6 DEF TakeReturns, rt_sem_delete, ResumeAllTests, rt_object_delete, Goto,
                      Object, Stays
  <1>7. ASSUME NEW t \in Threads, _thread_timeout(t) \/ rt_thread_delete(t)
        PROVE  Leaves(t)
    BY <1>0, <1>7 DEF _thread_timeout, rt_thread_delete, Wake, Object, Leaves
  <1>8. ASSUME NEW t \in Threads, ResumeAllPops(t)
        PROVE  Head(sem.list) \in Threads /\ Leaves(Head(sem.list))
    <2>1. Head(sem.list) \in Threads
      BY <1>0, <1>8 DEF ResumeAllPops, rt_list_isempty
    <2>2. Leaves(Head(sem.list))
      BY <1>0, <1>8 DEF ResumeAllPops, Object, Leaves
    <2> QED BY <2>1, <2>2
  <1>9. ASSUME NEW t \in Threads, NEW v \in 0 .. MaxValue, NEW flag \in Flags,
               rt_sem_init(t, v, flag)
        PROVE  Clears
    BY <1>9 DEF rt_sem_init, Clears
  <1> QED BY <1>1, <1>2, <1>3, <1>4, <1>5, <1>6, <1>7, <1>8, <1>9 DEF Next

LEMMA OrderStep ==
    ASSUME IInv, IInv', WaitersInOrder, [Next]_vars
    PROVE  WaitersInOrder'
  <1>1. Line /\ Line' /\ Ordered(sem.list, InLine(sem.flag, arrived))
    BY OrderLemma DEF IInv, Line, WaitersInOrder
  <1>2. SUFFICES Ordered(sem'.list, InLine(sem'.flag, arrived'))
    BY <1>1, OrderLemma DEF Line, WaitersInOrder
  <1>3. CASE Stays
    BY <1>1, <1>3 DEF Stays
  <1>4. CASE Clears
    BY <1>4 DEF Clears, Ordered
  <1>5. ASSUME NEW x \in Threads, Leaves(x)
        PROVE  Ordered(sem'.list, InLine(sem'.flag, arrived'))
    BY <1>1, <1>5, LeaveInOrder DEF Leaves, Line
  <1>6. ASSUME NEW t \in Threads, t \notin Waiting, Joins(t)
        PROVE  Ordered(sem'.list, InLine(sem'.flag, arrived'))
    BY <1>1, <1>6, JoinInOrder DEF Joins, Line
  <1> QED BY <1>3, <1>4, <1>5, <1>6, LineMoves

(* Suspended threads stand in the order of the flag, first come first served *)
(* among equals, whoever timed out, was deleted or was served in between.    *)
THEOREM ServedInOrder == CallerMasksIrq => (Spec => []WaitersInOrder)
  <1> SUFFICES ASSUME CallerMasksIrq PROVE Spec => []WaitersInOrder
    OBVIOUS
  <1>1. Init => WaitersInOrder
    BY DEF Init, WaitersInOrder
  <1>2. IInv /\ IInv' /\ WaitersInOrder /\ [Next]_vars => WaitersInOrder'
    BY OrderStep
  <1> QED BY <1>1, <1>2, Invariance, PTL DEF Spec
=============================================================================
